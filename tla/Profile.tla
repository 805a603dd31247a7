------------------------------ MODULE Profile ------------------------------
(***************************************************************************)
(* What one courier edits: the type of the vehicle, in the rows of the     *)
(* courier and of its vehicle (core/services/courier_service.py,           *)
(* vehicle_service.py), the terminal (terminal_service.py), and the        *)
(* avatar, a row and a file (avatar_service.py).  Requests overlap, one    *)
(* step per commit or file operation, and are cut off.                     *)
(*                                                                         *)
(* Limits: a vehicle is its type and what decides whether its row can be   *)
(* written and read, an avatar is the upload that it came from, a terminal *)
(* is two of its columns.  The default UPLOAD_DIR is used.                 *)
(***************************************************************************)
EXTENDS Naturals

CONSTANTS
  Type,        \* types of vehicle
  Value,       \* values of a column of the terminal
  Extension,   \* extensions of files of images
  Jpg,         \* the one that the base64 upload gives
  Upload,      \* contents of images that are uploaded
  Request,     \* slots for requests that overlap
  Nil

ASSUME JpgIsExtension == Jpg \in Extension

(* timed: it has a loading time or a longest duration; sound: no capacity,  *)
(* speed or cost is negative.                                              *)
VehicleRow == [type: Type, timed: BOOLEAN, sound: BOOLEAN]

ASSUME NilIsNoValue == Nil \notin Type \cup Extension \cup Upload \cup VehicleRow

VARIABLES
  courier,     \* couriers.vehicle_type
  hub,         \* the columns of the terminal
  vehicle,     \* the row of the courier's vehicle, Nil without one
  row,         \* the row of user_avatars of the courier's user
  file,        \* the content of the file of each extension
  req          \* requests in progress

vars == <<courier, vehicle, hub, row, file, req>>

(* stored: the row has the path where the file is written.                  *)
Avatar == [upload: Upload, ext: Extension, stored: BOOLEAN]
NoAvatar == [upload |-> Nil, ext |-> Nil, stored |-> FALSE]

Field == {"name", "place"}

(* What an edit of the vehicle may give besides the type: all of the        *)
(* durations that the row has, and a figure below zero.                     *)
Figure == {"times", "negative"}

Editing == {"courier", "vehicle"}
Drawing == {"remove", "write", "insert"}

Requests ==
  [pc: {"idle", "hub"} \cup Editing \cup Drawing,
   type: Type \cup {Nil},             \* the type that is written
   courier: Type \cup {Nil},          \* the types that were read
   vehicle: Type \cup {Nil},
   figures: SUBSET Figure,            \* what is written besides
   stuck: BOOLEAN,                    \* the vehicle was read with durations
   both: BOOLEAN,                     \* the request writes both rows
   last: BOOLEAN,                     \* nothing is written after this
   hub: [Field -> Value \cup {Nil}],  \* the terminal as it will be written
   edits: SUBSET Field,               \* where it differs from what was read
   avatar: Avatar \cup {NoAvatar},    \* the upload, none for a deletion
   old: Upload \cup {Nil},            \* the row that was found
   alone: BOOLEAN]                    \* nothing has changed under it so far

Idle == [pc |-> "idle", type |-> Nil, courier |-> Nil, vehicle |-> Nil,
         figures |-> {}, stuck |-> FALSE, both |-> FALSE, last |-> FALSE,
         hub |-> [f \in Field |-> Nil],
         edits |-> {}, avatar |-> NoAvatar, old |-> Nil, alone |-> TRUE]

(* A courier whose set-up was cut off has no vehicle.                       *)
Init ==
  /\ courier \in Type
  /\ vehicle \in {[type |-> courier, timed |-> FALSE, sound |-> TRUE], Nil}
  /\ hub \in [Field -> Value]
  /\ row = NoAvatar
  /\ file = [e \in Extension |-> Nil]
  /\ req = [q \in Request |-> Idle]

-----------------------------------------------------------------------------
(* A step of q: the other requests at the given stages find a change.       *)
Goes(q, rec, stages) ==
  req' = [p \in Request |->
    IF p = q THEN rec
    ELSE IF req[p].pc \in stages THEN [req[p] EXCEPT !.alone = FALSE] ELSE req[p]]

(* A column that has the value which the session has loaded before is not   *)
(* written, unless the row had to be loaded again.                          *)
Written(value, read, current) == {value} \cup (IF value = read THEN {current} ELSE {})

-----------------------------------------------------------------------------
(* The type of the vehicle                                                 *)

(* The vehicle is found when there is one and its row can be read.          *)
Found == vehicle # Nil /\ vehicle.sound

(* update_courier: without a type only the row of the courier is written.   *)
UpdateCourier(q, type) ==
  /\ req[q].pc = "idle"
  /\ Goes(q, [Idle EXCEPT !.pc = "courier", !.courier = courier, !.last = type = Nil,
                !.type = IF type = Nil THEN courier ELSE type], {})
  /\ UNCHANGED <<courier, vehicle, hub, row, file>>

(* Mutant of UpdateVehicle: nobody asks whether there is a vehicle.         *)
UpdateAnyVehicle(q, type, figures) ==
  /\ req[q].pc = "idle" /\ type # Nil
  /\ Goes(q, [Idle EXCEPT !.pc = "vehicle", !.courier = courier, !.vehicle = type,
                !.both = TRUE, !.type = type, !.figures = figures], {})
  /\ UNCHANGED <<courier, vehicle, hub, row, file>>

(* update_vehicle: the courier gets the type of the vehicle in any case.    *)
UpdateVehicle(q, type, figures) ==
  /\ req[q].pc = "idle"
  /\ Found
  /\ Goes(q, [Idle EXCEPT !.pc = "vehicle", !.courier = courier, !.vehicle = vehicle.type,
                !.both = TRUE, !.type = IF type = Nil THEN vehicle.type ELSE type,
                !.figures = figures,
                !.stuck = vehicle.timed /\ "times" \notin figures], {})
  /\ UNCHANGED <<courier, vehicle, hub, row, file>>

(* The vehicle is looked for when the courier is written.                   *)
StoreCourier(q) ==
  /\ req[q].pc = "courier"
  /\ courier' \in Written(req[q].type, req[q].courier, courier)
  /\ Goes(q, IF req[q].last \/ ~Found THEN Idle
             ELSE [req[q] EXCEPT !.pc = "vehicle", !.vehicle = vehicle.type,
                     !.stuck = vehicle.timed, !.both = TRUE, !.last = TRUE],
          Editing)
  /\ UNCHANGED <<vehicle, hub, row, file>>

(* Mutant of StoreVehicle: a request for the vehicle ends with its row.     *)
StoreVehicleOnly(q) ==
  /\ req[q].pc = "vehicle" /\ ~req[q].stuck
  /\ vehicle' = [vehicle EXCEPT !.type = req[q].type]
  /\ Goes(q, Idle, Editing)
  /\ UNCHANGED <<courier, hub, row, file>>

(* Durations were read as seconds, which their columns refuse: nothing is   *)
(* written.  Once the row is committed it is read back, which fails with a  *)
(* negative figure; a row that is loaded again keeps those for which the    *)
(* request has a zero.                                                     *)
StoreVehicle(q) ==
  /\ req[q].pc = "vehicle"
  /\ IF req[q].stuck
     THEN Goes(q, Idle, {}) /\ UNCHANGED vehicle
     ELSE \E again, zero \in BOOLEAN :
       LET reads == "negative" \notin req[q].figures /\ (vehicle.sound \/ ~again \/ ~zero)
       IN /\ \E type \in Written(req[q].type, req[q].vehicle, vehicle.type) :
               /\ again => type = req[q].type
               /\ vehicle' = [type |-> type,
                              timed |-> vehicle.timed \/ "times" \in req[q].figures,
                              sound |-> reads /\ (again \/ vehicle.sound)]
          /\ Goes(q, IF req[q].last \/ ~reads THEN Idle
                     ELSE [req[q] EXCEPT !.pc = "courier", !.last = TRUE], Editing)
  /\ UNCHANGED <<courier, hub, row, file>>

-----------------------------------------------------------------------------
(* The terminal                                                            *)

(* Mutant of UpdateTerminal: a column that is not given is cleared.         *)
UpdateTerminalCleared(q, f, value) ==
  /\ req[q].pc = "idle"
  /\ \E empty \in Value :
       Goes(q, [Idle EXCEPT !.pc = "hub", !.edits = {g \in {f} : hub[g] # value},
                  !.hub = [g \in Field |-> IF g = f THEN value ELSE empty]], {})
  /\ UNCHANGED <<courier, vehicle, hub, row, file>>

(* update_terminal: a column that is not given keeps what was read.         *)
UpdateTerminal(q, f, value) ==
  /\ req[q].pc = "idle"
  /\ Goes(q, [Idle EXCEPT !.pc = "hub", !.edits = {g \in {f} : hub[g] # value},
                !.hub = [hub EXCEPT ![f] = value]], {})
  /\ UNCHANGED <<courier, vehicle, hub, row, file>>

(* Every column is written when the row is loaded again, else those that    *)
(* differ.                                                                 *)
StoreHub(q) ==
  /\ req[q].pc = "hub"
  /\ \E fields \in {Field, req[q].edits} :
       hub' = [f \in Field |-> IF f \in fields THEN req[q].hub[f] ELSE hub[f]]
  /\ Goes(q, Idle, {"hub"})
  /\ UNCHANGED <<courier, vehicle, row, file>>

-----------------------------------------------------------------------------
(* The avatar                                                              *)

(* The old file goes when it is where the row says.                         *)
Unlinked == IF row.stored THEN [file EXCEPT ![row.ext] = Nil] ELSE file

New(upload) ==
  /\ row.upload # upload
  /\ \A e \in Extension : file[e] # upload
  /\ \A q \in Request : upload \notin {req[q].avatar.upload, req[q].old}

(* upload_avatar, upload_avatar_base64: the first stores a path without     *)
(* "/app", the second fails for an image that names another type than jpg.  *)
(* With no old row the file is written at once.                            *)
UploadAvatar(q, avatar) ==
  /\ req[q].pc = "idle"
  /\ New(avatar.upload)
  /\ avatar.stored => avatar.ext = Jpg
  /\ IF row = NoAvatar
     THEN /\ file' = [file EXCEPT ![avatar.ext] = avatar.upload]
          /\ Goes(q, [Idle EXCEPT !.pc = "insert", !.avatar = avatar], Drawing)
     ELSE /\ file' = Unlinked
          /\ Goes(q, [Idle EXCEPT !.pc = "remove", !.avatar = avatar,
                        !.old = row.upload], Drawing)
  /\ UNCHANGED <<courier, vehicle, hub, row>>

DeleteAvatar(q) ==
  /\ req[q].pc = "idle"
  /\ row # NoAvatar
  /\ file' = Unlinked
  /\ Goes(q, [Idle EXCEPT !.pc = "remove", !.old = row.upload], Drawing)
  /\ UNCHANGED <<courier, vehicle, hub, row>>

(* Mutant of RemoveRow: the deletion of the row is not committed.           *)
KeepRow(q) ==
  /\ req[q].pc = "remove"
  /\ Goes(q, IF req[q].avatar = NoAvatar THEN Idle ELSE [req[q] EXCEPT !.pc = "write"],
          Drawing)
  /\ UNCHANGED <<courier, vehicle, hub, row, file>>

(* A row that another request has removed is left alone.                    *)
RemoveRow(q) ==
  /\ req[q].pc = "remove"
  /\ row' = IF row.upload = req[q].old THEN NoAvatar ELSE row
  /\ Goes(q, IF req[q].avatar = NoAvatar THEN Idle ELSE [req[q] EXCEPT !.pc = "write"],
          Drawing)
  /\ UNCHANGED <<courier, vehicle, hub, file>>

WriteFile(q) ==
  /\ req[q].pc = "write"
  /\ file' = [file EXCEPT ![req[q].avatar.ext] = req[q].avatar.upload]
  /\ Goes(q, [req[q] EXCEPT !.pc = "insert"], Drawing)
  /\ UNCHANGED <<courier, vehicle, hub, row>>

(* Mutant of InsertRow: the row always names a jpg.                         *)
InsertAsJpg(q) ==
  /\ req[q].pc = "insert"
  /\ row' = IF row = NoAvatar THEN [req[q].avatar EXCEPT !.ext = Jpg] ELSE row
  /\ Goes(q, Idle, Drawing)
  /\ UNCHANGED <<courier, vehicle, hub, file>>

(* A user has one row: the insert of a second fails.                        *)
InsertRow(q) ==
  /\ req[q].pc = "insert"
  /\ row' = IF row = NoAvatar THEN req[q].avatar ELSE row
  /\ Goes(q, Idle, Drawing)
  /\ UNCHANGED <<courier, vehicle, hub, file>>

-----------------------------------------------------------------------------
(* A request is cut off between two of its steps.                           *)
Stop(q) ==
  /\ req[q].pc # "idle"
  /\ req' = [req EXCEPT ![q] = Idle]
  /\ UNCHANGED <<courier, vehicle, hub, row, file>>

(* One operator for each endpoint.                                          *)
PatchCourier(q) ==
  (\E type \in Type \cup {Nil} : UpdateCourier(q, type)) \/ StoreCourier(q)

PatchVehicle(q) ==
  \/ \E type \in Type \cup {Nil}, figures \in SUBSET Figure : UpdateVehicle(q, type, figures)
  \/ StoreVehicle(q)

PatchTerminal(q) ==
  (\E f \in Field, value \in Value : UpdateTerminal(q, f, value)) \/ StoreHub(q)

PostAvatar(q) ==
  \/ \E avatar \in Avatar : UploadAvatar(q, avatar)
  \/ RemoveRow(q) \/ WriteFile(q) \/ InsertRow(q)

Next ==
  \E q \in Request :
    \/ PatchCourier(q) \/ PatchVehicle(q) \/ PatchTerminal(q)
    \/ PostAvatar(q) \/ DeleteAvatar(q)
    \/ Stop(q)

Spec == Init /\ [][Next]_vars

-----------------------------------------------------------------------------
(* Properties                                                              *)

(* Rows, files and requests are well formed; nothing takes the vehicle      *)
(* away from a request that goes on to write it.                           *)
ProfileTypeOK ==
  /\ courier \in Type
  /\ vehicle \in VehicleRow \cup {Nil}
  /\ hub \in [Field -> Value]
  /\ row \in Avatar \cup {NoAvatar}
  /\ file \in [Extension -> Upload \cup {Nil}]
  /\ req \in [Request -> Requests]
  /\ \A q \in Request : req[q].both => vehicle # Nil

(* A request that writes both rows and that nobody stepped on leaves them   *)
(* with one type, whatever was cut off or raced before, unless the row of   *)
(* the vehicle refuses it: durations that are written back, or a figure     *)
(* below zero (courier_service.py:188-200, vehicle_service.py:94-125,       *)
(* vehicle_repository.py:96-145, 299-327).                                  *)
TypesAgree ==
  [][\A q \in Request :
       /\ StoreCourier(q) \/ StoreVehicle(q)
       /\ req[q].both /\ req[q].alone /\ req'[q].pc = "idle"
       /\ ~req[q].stuck /\ "negative" \notin req[q].figures
       => courier' = vehicle'.type]_vars

(* A column that an edit was not given changes only when edits overlap: the *)
(* whole row is written (terminal_service.py:161-173, hub_repository.py:92). *)
OnlyGivenChanges ==
  [][\A f \in Field : hub'[f] # hub[f] =>
       \E q \in Request :
         /\ req[q].pc = "hub" /\ req'[q].pc = "idle"
         /\ f \in req[q].edits \/ ~req[q].alone]_vars

(* An upload that nobody stepped on ends with its row and its picture, from *)
(* whatever was left by uploads that were cut off                          *)
(* (avatar_service.py:112-136, 274-299).                                    *)
UploadIsShown ==
  [][\A q \in Request : InsertRow(q) /\ req[q].alone =>
       /\ row' = req[q].avatar
       /\ file'[row'.ext] = row'.upload]_vars

(* The row comes to name a file that is gone, or that shows another picture,*)
(* only while its row is about to be removed or after uploads overlap       *)
(* (avatar_service.py:113-136; the file has the name of the user).          *)
Shown == row # NoAvatar => file[row.ext] = row.upload
OwnPicture ==
  [][Shown /\ ~Shown' =>
       \E q \in Request :
         \/ req[q].pc = "idle" /\ req'[q].pc = "remove"
         \/ req[q].pc \in {"write", "insert"} /\ ~req[q].alone]_vars
=============================================================================
