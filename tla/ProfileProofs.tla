---------------------------- MODULE ProfileProofs ----------------------------
(***************************************************************************)
(* Theorems about Profile for any types, values, pictures and number of    *)
(* requests: its rows are well typed, and an edit or an upload that nobody *)
(* stepped on does what it was asked for.                                  *)
(***************************************************************************)
EXTENDS Profile, TLAPS

-----------------------------------------------------------------------------
(* What a request has in hand.  The last three hold of a request that is    *)
(* still alone: what it read is still there, and what it wrote.             *)

WellFormed(q) ==
  /\ req[q].pc \in Editing => req[q].type \in Type
  /\ req[q].pc = "vehicle" => req[q].both
  /\ req[q].pc = "hub" => req[q].hub \in [Field -> Value]
  /\ req[q].pc \in {"write", "insert"} => req[q].avatar \in Avatar
  /\ req[q].both => vehicle # Nil

(* Before its first write a courier edit does not know of the vehicle.      *)
EditsCourier(q) ==
  req[q].alone /\ req[q].pc = "courier" /\ ~req[q].both => req[q].courier = courier

EditsBoth(q) ==
  req[q].alone /\ req[q].both =>
    /\ req[q].pc = "courier" =>
         req[q].last /\ req[q].courier = courier /\ vehicle.type = req[q].type
    /\ req[q].pc = "vehicle" =>
         /\ req[q].vehicle = vehicle.type /\ vehicle.sound
         /\ IF req[q].last THEN courier = req[q].type ELSE req[q].courier = courier

EditsHub(q) ==
  req[q].alone /\ req[q].pc = "hub" =>
    \A f \in Field \ req[q].edits : req[q].hub[f] = hub[f]

Draws(q) ==
  req[q].alone =>
    /\ req[q].pc = "remove" => row.upload = req[q].old
    /\ req[q].pc \in {"write", "insert"} => row = NoAvatar
    /\ req[q].pc = "insert" => file[req[q].avatar.ext] = req[q].avatar.upload

InHand(q) ==
  WellFormed(q) /\ EditsCourier(q) /\ EditsBoth(q) /\ EditsHub(q) /\ Draws(q)

ProfileInv == ProfileTypeOK /\ \A q \in Request : InHand(q)

RowsOK ==
  /\ courier \in Type
  /\ vehicle \in VehicleRow \cup {Nil}
  /\ hub \in [Field -> Value]
  /\ row \in Avatar \cup {NoAvatar}
  /\ file \in [Extension -> Upload \cup {Nil}]

-----------------------------------------------------------------------------
LEMMA NoAvatarIsNone == NoAvatar \notin Avatar
BY NilIsNoValue DEF NoAvatar, Avatar

LEMMA IdleTyped ==
  /\ Idle \in Requests
  /\ Idle.pc = "idle" /\ ~Idle.both /\ ~Idle.last /\ Idle.alone
  /\ Idle.figures = {} /\ ~Idle.stuck
BY DEF Idle, Requests, Editing, Drawing, Field

(* The request itself goes on as it says, the others at most lose their     *)
(* solitude.                                                                *)
LEMMA Others ==
  ASSUME ProfileInv, NEW q \in Request, NEW rec \in Requests, NEW stages,
         Goes(q, rec, stages)
  PROVE  /\ req' \in [Request -> Requests]
         /\ req'[q] = rec
         /\ \A p \in Request \ {q} :
              /\ req[p].pc \notin stages => req'[p] = req[p]
              /\ req[p].pc \in stages => ~req'[p].alone
              /\ req'[p] \in {req[p], [req[p] EXCEPT !.alone = FALSE]}
<1>1. \A p \in Request : /\ req[p] \in Requests
                         /\ [req[p] EXCEPT !.alone = FALSE] \in Requests
                         /\ ~[req[p] EXCEPT !.alone = FALSE].alone
  BY DEF ProfileInv, ProfileTypeOK, Requests
<1> QED BY <1>1 DEF Goes

LEMMA SameFields ==
  ASSUME NEW r \in Requests, NEW s \in {r, [r EXCEPT !.alone = FALSE]}
  PROVE  /\ s.pc = r.pc /\ s.type = r.type /\ s.courier = r.courier
         /\ s.vehicle = r.vehicle /\ s.both = r.both /\ s.last = r.last
         /\ s.figures = r.figures /\ s.stuck = r.stuck
         /\ s.hub = r.hub /\ s.edits = r.edits /\ s.avatar = r.avatar
         /\ s.old = r.old
BY DEF Requests

(* A request that is told of every change keeps what it has in hand.        *)
LEMMA OthersKeep ==
  ASSUME ProfileInv, NEW q \in Request, NEW rec \in Requests, NEW stages,
         Goes(q, rec, stages), NEW p \in Request \ {q},
         Editing \subseteq stages \/ UNCHANGED <<courier, vehicle>>,
         "hub" \in stages \/ UNCHANGED hub,
         Drawing \subseteq stages \/ UNCHANGED <<row, file>>,
         vehicle # Nil => vehicle' # Nil
  PROVE  InHand(p)'
<1>1. /\ req[p].pc \notin stages => req'[p] = req[p]
      /\ req[p].pc \in stages => ~req'[p].alone
      /\ req'[p] \in {req[p], [req[p] EXCEPT !.alone = FALSE]}
  BY Others
<1>2. req[p] \in Requests /\ InHand(p)
  BY DEF ProfileInv, ProfileTypeOK
<1>3. /\ req'[p].pc = req[p].pc /\ req'[p].type = req[p].type
      /\ req'[p].courier = req[p].courier /\ req'[p].vehicle = req[p].vehicle
      /\ req'[p].both = req[p].both /\ req'[p].last = req[p].last
      /\ req'[p].hub = req[p].hub /\ req'[p].edits = req[p].edits
      /\ req'[p].avatar = req[p].avatar /\ req'[p].old = req[p].old
  BY <1>1, <1>2, SameFields
<1>4. WellFormed(p)'
  BY <1>2, <1>3 DEF InHand, WellFormed
<1>5. EditsCourier(p)' /\ EditsBoth(p)'
  BY <1>1, <1>2, <1>3 DEF InHand, EditsCourier, EditsBoth, Editing
<1>6. EditsHub(p)'
  BY <1>1, <1>2, <1>3 DEF InHand, EditsHub
<1>7. Draws(p)'
  BY <1>1, <1>2, <1>3 DEF InHand, Draws, Drawing
<1> QED BY <1>4, <1>5, <1>6, <1>7 DEF InHand

LEMMA StepKeeps ==
  ASSUME ProfileInv, NEW q \in Request, NEW rec \in Requests, NEW stages,
         Goes(q, rec, stages), RowsOK', InHand(q)',
         Editing \subseteq stages \/ UNCHANGED <<courier, vehicle>>,
         "hub" \in stages \/ UNCHANGED hub,
         Drawing \subseteq stages \/ UNCHANGED <<row, file>>,
         vehicle # Nil => vehicle' # Nil
  PROVE  ProfileInv'
<1>1. req' \in [Request -> Requests]
  BY Others
<1>2. \A p \in Request : InHand(p)'
  BY OthersKeep
<1>3. \A p \in Request : req'[p].both => vehicle' # Nil
  BY <1>2 DEF InHand, WellFormed
<1> QED BY <1>1, <1>2, <1>3 DEF ProfileInv, ProfileTypeOK, RowsOK

LEMMA IdleKeeps ==
  ASSUME NEW q \in Request, req'[q] = Idle
  PROVE  InHand(q)'
BY IdleTyped DEF InHand, WellFormed, EditsCourier, EditsBoth, EditsHub, Draws, Editing

-----------------------------------------------------------------------------
(* The type of the vehicle                                                 *)

(* A row that is as it was read gets the type that is written.              *)
LEMMA WrittenType ==
  ASSUME NEW value, NEW read, NEW current, NEW new \in Written(value, read, current)
  PROVE  (new = value \/ new = current) /\ (read = current => new = value)
BY DEF Written

LEMMA BeginsCourier ==
  ASSUME ProfileInv, NEW q \in Request, NEW type \in Type \cup {Nil},
         UpdateCourier(q, type)
  PROVE  ProfileInv'
<1> DEFINE written == IF type = Nil THEN courier ELSE type
           rec == [Idle EXCEPT !.pc = "courier", !.courier = courier,
                     !.last = type = Nil, !.type = written]
<1>1. RowsOK' /\ UNCHANGED <<courier, vehicle, hub, row, file>> /\ Goes(q, rec, {})
  BY DEF ProfileInv, ProfileTypeOK, RowsOK, UpdateCourier
<1>2. courier \in Type /\ written \in Type
  BY DEF ProfileInv, ProfileTypeOK
<1> HIDE DEF written
<1>3. /\ rec \in Requests /\ rec.pc = "courier" /\ rec.courier = courier
      /\ ~rec.both /\ rec.type = written
  BY <1>2, IdleTyped DEF Requests, Editing
<1> HIDE DEF rec
<1>4. req'[q] = rec
  BY <1>1, <1>3, Others
<1>5. InHand(q)'
  BY <1>1, <1>2, <1>3, <1>4
     DEF InHand, WellFormed, EditsCourier, EditsBoth, EditsHub, Draws, Editing
<1> QED BY <1>1, <1>3, <1>5, StepKeeps

LEMMA BeginsVehicle ==
  ASSUME ProfileInv, NEW q \in Request, NEW type \in Type \cup {Nil},
         NEW figures \in SUBSET Figure, UpdateVehicle(q, type, figures)
  PROVE  ProfileInv'
<1> DEFINE written == IF type = Nil THEN vehicle.type ELSE type
           stuck == vehicle.timed /\ "times" \notin figures
           rec == [Idle EXCEPT !.pc = "vehicle", !.courier = courier,
                     !.vehicle = vehicle.type, !.both = TRUE, !.type = written,
                     !.figures = figures, !.stuck = stuck]
<1>1. RowsOK' /\ UNCHANGED <<courier, vehicle, hub, row, file>> /\ Goes(q, rec, {})
  BY DEF ProfileInv, ProfileTypeOK, RowsOK, UpdateVehicle
<1>2. courier \in Type /\ vehicle \in VehicleRow /\ vehicle # Nil /\ vehicle.sound
  BY DEF ProfileInv, ProfileTypeOK, UpdateVehicle, Found
<1>3. vehicle.type \in Type /\ written \in Type /\ stuck \in BOOLEAN
  BY <1>2 DEF VehicleRow
<1> HIDE DEF written, stuck
<1>4. /\ rec \in Requests /\ rec.pc = "vehicle" /\ rec.courier = courier
      /\ rec.vehicle = vehicle.type /\ rec.both /\ ~rec.last /\ rec.type = written
  BY <1>2, <1>3, IdleTyped DEF Requests, Editing
<1> HIDE DEF rec
<1>5. req'[q] = rec
  BY <1>1, <1>4, Others
<1>6. InHand(q)'
  BY <1>1, <1>2, <1>3, <1>4, <1>5
     DEF InHand, WellFormed, EditsCourier, EditsBoth, EditsHub, Draws, Editing
<1> QED BY <1>1, <1>4, <1>6, StepKeeps

(* The row of the courier gets the type of the request that is alone.       *)
LEMMA StoresCourier ==
  ASSUME ProfileInv, NEW q \in Request, StoreCourier(q)
  PROVE  /\ RowsOK' /\ UNCHANGED <<vehicle, hub, row, file>>
         /\ req[q].alone => courier' = req[q].type
<1>1. InHand(q) /\ req[q] \in Requests /\ RowsOK
  BY DEF ProfileInv, ProfileTypeOK, RowsOK
<1>2. req[q].type \in Type
  BY <1>1 DEF StoreCourier, InHand, WellFormed, Editing
<1>3. /\ courier' = req[q].type \/ courier' = courier
      /\ req[q].courier = courier => courier' = req[q].type
  BY WrittenType DEF StoreCourier
<1>4. req[q].alone => req[q].courier = courier
  BY <1>1 DEF StoreCourier, InHand, EditsCourier, EditsBoth
<1> QED BY <1>1, <1>2, <1>3, <1>4 DEF StoreCourier, RowsOK

(* What a request may find when it has written the row of the vehicle.      *)
LEMMA StoresVehicle ==
  ASSUME ProfileInv, NEW q \in Request, StoreVehicle(q), ~req[q].stuck
  PROVE  /\ RowsOK' /\ vehicle' # Nil /\ UNCHANGED <<courier, hub, row, file>>
         /\ req[q].alone => vehicle'.type = req[q].type
         /\ \/ Goes(q, Idle, Editing)
            \/ /\ Goes(q, [req[q] EXCEPT !.pc = "courier", !.last = TRUE], Editing)
               /\ ~req[q].last
         /\ req[q].alone /\ "negative" \notin req[q].figures /\ ~req[q].last =>
              Goes(q, [req[q] EXCEPT !.pc = "courier", !.last = TRUE], Editing)
<1>1. InHand(q) /\ req[q] \in Requests /\ RowsOK
  BY DEF ProfileInv, ProfileTypeOK, RowsOK
<1>2. /\ req[q].type \in Type /\ vehicle \in VehicleRow /\ req[q].both
      /\ req[q].alone => req[q].vehicle = vehicle.type /\ vehicle.sound
  BY <1>1 DEF StoreVehicle, InHand, WellFormed, EditsBoth, Editing, RowsOK
<1> DEFINE Reads(again, zero) ==
             "negative" \notin req[q].figures /\ (vehicle.sound \/ ~again \/ ~zero)
<1>3. PICK again \in BOOLEAN, zero \in BOOLEAN,
           type \in Written(req[q].type, req[q].vehicle, vehicle.type) :
        /\ vehicle' = [type |-> type,
                       timed |-> vehicle.timed \/ "times" \in req[q].figures,
                       sound |-> Reads(again, zero) /\ (again \/ vehicle.sound)]
        /\ Goes(q, IF req[q].last \/ ~Reads(again, zero) THEN Idle
                   ELSE [req[q] EXCEPT !.pc = "courier", !.last = TRUE], Editing)
  BY DEF StoreVehicle
<1>4. /\ type = req[q].type \/ type = vehicle.type
      /\ req[q].vehicle = vehicle.type => type = req[q].type
  BY WrittenType
<1>5. type \in Type
  BY <1>2, <1>4 DEF VehicleRow
<1>6. vehicle' \in VehicleRow /\ vehicle'.type = type
  BY <1>2, <1>3, <1>5 DEF VehicleRow
<1>7. vehicle' # Nil
  BY <1>6, NilIsNoValue
<1>8. UNCHANGED <<courier, hub, row, file>>
  BY DEF StoreVehicle
<1>9. RowsOK'
  BY <1>1, <1>6, <1>8 DEF RowsOK
<1>10. req[q].alone /\ "negative" \notin req[q].figures => Reads(again, zero)
  BY <1>2
<1> HIDE DEF Reads
<1> QED BY <1>2, <1>3, <1>4, <1>6, <1>7, <1>8, <1>9, <1>10

LEMMA CourierKeeps ==
  ASSUME ProfileInv, NEW q \in Request, StoreCourier(q)
  PROVE  ProfileInv'
<1>1. InHand(q) /\ req[q] \in Requests /\ vehicle \in VehicleRow \cup {Nil}
  BY DEF ProfileInv, ProfileTypeOK
<1>2. RowsOK' /\ UNCHANGED <<vehicle, hub, row, file>>
  BY StoresCourier
<1>3. CASE req[q].last \/ ~Found
  <2>1. Goes(q, Idle, Editing)
    BY <1>3 DEF StoreCourier
  <2> QED BY <1>2, <2>1, IdleTyped, Others, IdleKeeps, StepKeeps
<1>4. CASE ~req[q].last /\ Found
  <2> DEFINE rec == [req[q] EXCEPT !.pc = "vehicle", !.vehicle = vehicle.type,
                       !.stuck = vehicle.timed, !.both = TRUE, !.last = TRUE]
  <2>1. Goes(q, rec, Editing)
    BY <1>4 DEF StoreCourier
  <2>2. vehicle # Nil /\ vehicle.sound /\ vehicle.type \in Type /\ vehicle.timed \in BOOLEAN
    BY <1>1, <1>4 DEF Found, VehicleRow
  <2>3. /\ rec \in Requests
        /\ rec.pc = "vehicle" /\ rec.vehicle = vehicle.type /\ rec.last /\ rec.both
        /\ rec.type = req[q].type /\ rec.alone = req[q].alone
    BY <1>1, <2>2 DEF Requests, Editing
  <2> HIDE DEF rec
  <2>4. req'[q] = rec
    BY <2>1, <2>3, Others
  <2>5. req[q].type \in Type
    BY <1>1 DEF StoreCourier, InHand, WellFormed, Editing
  <2>6. req[q].alone => courier' = req[q].type
    BY StoresCourier
  <2>7. InHand(q)'
    BY <1>2, <2>2, <2>3, <2>4, <2>5, <2>6
       DEF InHand, WellFormed, EditsCourier, EditsBoth, EditsHub, Draws, Editing
  <2> QED BY <1>2, <2>1, <2>3, <2>7, StepKeeps
<1> QED BY <1>3, <1>4

LEMMA VehicleKeeps ==
  ASSUME ProfileInv, NEW q \in Request, StoreVehicle(q)
  PROVE  ProfileInv'
<1>1. InHand(q) /\ req[q] \in Requests
  BY DEF ProfileInv, ProfileTypeOK
<1>2. CASE req[q].stuck
  <2>1. Goes(q, Idle, {}) /\ UNCHANGED <<courier, vehicle, hub, row, file>>
    BY <1>2 DEF StoreVehicle
  <2>2. RowsOK'
    BY <2>1 DEF ProfileInv, ProfileTypeOK, RowsOK
  <2> QED BY <2>1, <2>2, IdleTyped, Others, IdleKeeps, StepKeeps
<1>3. CASE ~req[q].stuck
  <2> DEFINE rec == [req[q] EXCEPT !.pc = "courier", !.last = TRUE]
  <2>1. /\ RowsOK' /\ vehicle' # Nil /\ UNCHANGED <<courier, hub, row, file>>
        /\ req[q].alone => vehicle'.type = req[q].type
        /\ Goes(q, Idle, Editing) \/ (Goes(q, rec, Editing) /\ ~req[q].last)
    BY <1>3, StoresVehicle
  <2>2. CASE Goes(q, Idle, Editing)
    BY <2>1, <2>2, IdleTyped, Others, IdleKeeps, StepKeeps
  <2>3. CASE Goes(q, rec, Editing) /\ ~req[q].last
    <3>1. /\ rec \in Requests
          /\ rec.pc = "courier" /\ rec.courier = req[q].courier /\ rec.last
          /\ rec.type = req[q].type /\ rec.both = req[q].both
          /\ rec.alone = req[q].alone
      BY <1>1 DEF Requests, Editing
    <3> HIDE DEF rec
    <3>2. req'[q] = rec
      BY <2>3, <3>1, Others
    <3>3. /\ req[q].both /\ req[q].type \in Type
          /\ req[q].alone => req[q].courier = courier
      BY <1>1, <2>3 DEF StoreVehicle, InHand, WellFormed, EditsBoth, Editing
    <3>4. InHand(q)'
      BY <2>1, <3>1, <3>2, <3>3
         DEF InHand, WellFormed, EditsCourier, EditsBoth, EditsHub, Draws, Editing
    <3> QED BY <2>1, <2>3, <3>1, <3>4, StepKeeps
  <2> QED BY <2>1, <2>2, <2>3
<1> QED BY <1>2, <1>3

-----------------------------------------------------------------------------
(* The terminal                                                            *)

LEMMA HubKeeps ==
  ASSUME ProfileInv, NEW q \in Request, PatchTerminal(q)
  PROVE  ProfileInv'
<1>1. req[q] \in Requests /\ InHand(q) /\ RowsOK
  BY DEF ProfileInv, ProfileTypeOK, RowsOK
<1>2. ASSUME NEW g \in Field, NEW value \in Value, UpdateTerminal(q, g, value)
      PROVE  ProfileInv'
  <2> DEFINE edits == {x \in {g} : hub[x] # value}
             new == [hub EXCEPT ![g] = value]
             rec == [Idle EXCEPT !.pc = "hub", !.edits = edits, !.hub = new]
  <2>1. Goes(q, rec, {}) /\ UNCHANGED <<courier, vehicle, hub, row, file>>
    BY <1>2 DEF UpdateTerminal
  <2>2. /\ edits \subseteq Field /\ new \in [Field -> Value]
        /\ \A f \in Field \ edits : new[f] = hub[f]
    BY <1>1 DEF RowsOK
  <2> HIDE DEF edits, new
  <2>3. /\ rec \in Requests /\ rec.pc = "hub" /\ rec.edits = edits /\ rec.hub = new
        /\ ~rec.both
    BY <2>2, IdleTyped DEF Requests
  <2> HIDE DEF rec
  <2>4. req'[q] = rec
    BY <2>1, <2>3, Others
  <2>5. InHand(q)' /\ RowsOK'
    BY <1>1, <2>1, <2>2, <2>3, <2>4
       DEF RowsOK, InHand, WellFormed, EditsCourier, EditsBoth, EditsHub, Draws, Editing
  <2> QED BY <2>1, <2>3, <2>5, StepKeeps
<1>3. CASE StoreHub(q)
  <2>1. req[q].hub \in [Field -> Value]
    BY <1>1, <1>3 DEF StoreHub, InHand, WellFormed
  <2>2. hub' \in [Field -> Value]
    BY <1>1, <1>3, <2>1 DEF StoreHub, RowsOK
  <2>3. Goes(q, Idle, {"hub"}) /\ UNCHANGED <<courier, vehicle, row, file>>
    BY <1>3 DEF StoreHub
  <2>4. RowsOK' /\ req'[q] = Idle
    BY <1>1, <2>2, <2>3, IdleTyped, Others DEF RowsOK
  <2> QED BY <2>3, <2>4, IdleTyped, IdleKeeps, StepKeeps
<1> QED BY <1>2, <1>3 DEF PatchTerminal

-----------------------------------------------------------------------------
(* The avatar                                                              *)

LEMMA UnlinkedTyped ==
  ASSUME RowsOK
  PROVE  Unlinked \in [Extension -> Upload \cup {Nil}]
BY DEF Unlinked, RowsOK

(* What an upload holds for the next step.                                  *)
LEMMA DrawingKeeps ==
  ASSUME ProfileInv, NEW q \in Request, NEW rec \in Requests, Goes(q, rec, Drawing),
         UNCHANGED <<courier, vehicle, hub>>, RowsOK', rec.pc \in Drawing,
         rec.both => vehicle # Nil,
         rec.pc # "remove" => rec.avatar \in Avatar,
         rec.alone /\ rec.pc = "remove" => row'.upload = rec.old,
         rec.alone /\ rec.pc # "remove" => row' = NoAvatar,
         rec.alone /\ rec.pc = "insert" => file'[rec.avatar.ext] = rec.avatar.upload
  PROVE  ProfileInv'
<1>1. req'[q] = rec
  BY Others
<1>2. InHand(q)'
  BY <1>1 DEF InHand, WellFormed, EditsCourier, EditsBoth, EditsHub, Draws, Editing, Drawing
<1> QED BY <1>2, StepKeeps

LEMMA DrawingEnds ==
  ASSUME ProfileInv, NEW q \in Request, Goes(q, Idle, Drawing),
         UNCHANGED <<courier, vehicle, hub>>, RowsOK'
  PROVE  ProfileInv'
<1>1. req'[q] = Idle
  BY IdleTyped, Others
<1> QED BY <1>1, IdleTyped, IdleKeeps, StepKeeps

LEMMA UploadKeeps ==
  ASSUME ProfileInv, NEW q \in Request, NEW avatar \in Avatar, UploadAvatar(q, avatar)
  PROVE  ProfileInv'
<1>1. RowsOK
  BY DEF ProfileInv, ProfileTypeOK, RowsOK
<1>2. CASE row = NoAvatar
  <2> DEFINE rec == [Idle EXCEPT !.pc = "insert", !.avatar = avatar]
  <2>1. /\ Goes(q, rec, Drawing) /\ UNCHANGED <<courier, vehicle, hub, row>>
        /\ file' = [file EXCEPT ![avatar.ext] = avatar.upload]
    BY <1>2 DEF UploadAvatar
  <2>2. /\ rec \in Requests /\ rec.pc = "insert" /\ rec.avatar = avatar /\ ~rec.both
    BY IdleTyped DEF Requests, Drawing
  <2> HIDE DEF rec
  <2>3. avatar.ext \in Extension /\ avatar.upload \in Upload
    BY DEF Avatar
  <2>4. RowsOK' /\ file'[avatar.ext] = avatar.upload
    BY <1>1, <2>1, <2>3 DEF RowsOK
  <2> QED BY <1>2, <2>1, <2>2, <2>4, DrawingKeeps DEF Drawing
<1>3. CASE row # NoAvatar
  <2> DEFINE rec == [Idle EXCEPT !.pc = "remove", !.avatar = avatar, !.old = row.upload]
  <2>1. /\ Goes(q, rec, Drawing) /\ UNCHANGED <<courier, vehicle, hub, row>>
        /\ file' = Unlinked
    BY <1>3 DEF UploadAvatar
  <2>2. row.upload \in Upload
    BY <1>1, <1>3 DEF RowsOK, Avatar
  <2>3. rec \in Requests /\ rec.pc = "remove" /\ rec.old = row.upload /\ ~rec.both
    BY <2>2, IdleTyped DEF Requests, Drawing
  <2> HIDE DEF rec
  <2>4. RowsOK'
    BY <1>1, <2>1, UnlinkedTyped DEF RowsOK
  <2> QED BY <2>1, <2>3, <2>4, DrawingKeeps DEF Drawing
<1> QED BY <1>2, <1>3

LEMMA DeleteKeeps ==
  ASSUME ProfileInv, NEW q \in Request, DeleteAvatar(q)
  PROVE  ProfileInv'
<1> DEFINE rec == [Idle EXCEPT !.pc = "remove", !.old = row.upload]
<1>1. RowsOK
  BY DEF ProfileInv, ProfileTypeOK, RowsOK
<1>2. /\ Goes(q, rec, Drawing) /\ UNCHANGED <<courier, vehicle, hub, row>>
      /\ file' = Unlinked /\ row # NoAvatar
  BY DEF DeleteAvatar
<1>3. row.upload \in Upload
  BY <1>1, <1>2 DEF RowsOK, Avatar
<1>4. rec \in Requests /\ rec.pc = "remove" /\ rec.old = row.upload /\ ~rec.both
  BY <1>3, IdleTyped DEF Requests, Drawing
<1> HIDE DEF rec
<1>5. RowsOK'
  BY <1>1, <1>2, UnlinkedTyped DEF RowsOK
<1> QED BY <1>2, <1>4, <1>5, DrawingKeeps DEF Drawing

LEMMA RemoveKeeps ==
  ASSUME ProfileInv, NEW q \in Request, RemoveRow(q)
  PROVE  ProfileInv'
<1>1. RowsOK /\ req[q] \in Requests /\ InHand(q) /\ req[q].pc = "remove"
  BY DEF ProfileInv, ProfileTypeOK, RowsOK, RemoveRow
<1>2. /\ row' = IF row.upload = req[q].old THEN NoAvatar ELSE row
      /\ UNCHANGED <<courier, vehicle, hub, file>>
  BY DEF RemoveRow
<1>3. RowsOK' /\ (req[q].alone => row' = NoAvatar)
  BY <1>1, <1>2 DEF RowsOK, InHand, Draws
<1>4. CASE req[q].avatar = NoAvatar
  BY <1>2, <1>3, <1>4, DrawingEnds DEF RemoveRow
<1>5. CASE req[q].avatar # NoAvatar
  <2> DEFINE rec == [req[q] EXCEPT !.pc = "write"]
  <2>1. Goes(q, rec, Drawing)
    BY <1>5 DEF RemoveRow
  <2>2. /\ rec \in Requests /\ rec.pc = "write" /\ rec.avatar \in Avatar
        /\ rec.alone = req[q].alone /\ rec.both = req[q].both
    BY <1>1, <1>5 DEF Requests, Drawing
  <2> HIDE DEF rec
  <2>3. rec.both => vehicle # Nil
    BY <1>1, <2>2 DEF InHand, WellFormed
  <2> QED BY <1>1, <1>2, <1>3, <2>1, <2>2, <2>3, DrawingKeeps DEF Drawing
<1> QED BY <1>4, <1>5

LEMMA WriteKeeps ==
  ASSUME ProfileInv, NEW q \in Request, WriteFile(q)
  PROVE  ProfileInv'
<1> DEFINE rec == [req[q] EXCEPT !.pc = "insert"]
<1>1. RowsOK /\ req[q] \in Requests /\ InHand(q) /\ req[q].pc = "write"
  BY DEF ProfileInv, ProfileTypeOK, RowsOK, WriteFile
<1>2. /\ Goes(q, rec, Drawing) /\ UNCHANGED <<courier, vehicle, hub, row>>
      /\ file' = [file EXCEPT ![req[q].avatar.ext] = req[q].avatar.upload]
  BY DEF WriteFile
<1>3. /\ req[q].avatar \in Avatar
      /\ req[q].avatar.ext \in Extension /\ req[q].avatar.upload \in Upload
      /\ req[q].alone => row = NoAvatar
      /\ req[q].both => vehicle # Nil
  BY <1>1 DEF InHand, WellFormed, Draws, Avatar
<1>4. /\ rec \in Requests /\ rec.pc = "insert" /\ rec.avatar = req[q].avatar
      /\ rec.alone = req[q].alone /\ rec.both = req[q].both
  BY <1>1 DEF Requests, Drawing
<1> HIDE DEF rec
<1>5. RowsOK' /\ file'[req[q].avatar.ext] = req[q].avatar.upload
  BY <1>1, <1>2, <1>3 DEF RowsOK
<1> QED BY <1>2, <1>3, <1>4, <1>5, DrawingKeeps DEF Drawing

(* An insert that nobody stepped on finds no row and its own picture.       *)
LEMMA Inserts ==
  ASSUME ProfileInv, NEW q \in Request, InsertRow(q)
  PROVE  /\ RowsOK' /\ UNCHANGED file
         /\ req[q].alone => /\ row' = req[q].avatar
                            /\ file[row'.ext] = row'.upload
BY DEF ProfileInv, ProfileTypeOK, RowsOK, InHand, WellFormed, Draws, InsertRow

LEMMA InsertKeeps ==
  ASSUME ProfileInv, NEW q \in Request, InsertRow(q)
  PROVE  ProfileInv'
BY Inserts, DrawingEnds DEF InsertRow

LEMMA StopKeeps ==
  ASSUME ProfileInv, NEW q \in Request, Stop(q)
  PROVE  ProfileInv'
<1>1. Goes(q, Idle, {}) /\ UNCHANGED <<courier, vehicle, hub, row, file>>
  BY DEF Stop, Goes, ProfileInv, ProfileTypeOK
<1>2. RowsOK'
  BY <1>1 DEF ProfileInv, ProfileTypeOK, RowsOK
<1>3. req'[q] = Idle
  BY <1>1, IdleTyped, Others
<1> QED BY <1>1, <1>2, <1>3, IdleTyped, IdleKeeps, StepKeeps

-----------------------------------------------------------------------------
LEMMA InitHolds == Init => ProfileInv
<1> SUFFICES ASSUME Init PROVE ProfileInv
  OBVIOUS
<1>1. /\ RowsOK /\ req = [q \in Request |-> Idle]
  <2>1. vehicle \in VehicleRow \cup {Nil}
    <3>1. courier \in Type
      BY DEF Init
    <3>2. [type |-> courier, timed |-> FALSE, sound |-> TRUE] \in VehicleRow
      BY <3>1 DEF VehicleRow
    <3> QED BY <3>2 DEF Init
  <2>2. file \in [Extension -> Upload \cup {Nil}]
    BY DEF Init
  <2> QED BY <2>1, <2>2 DEF Init, RowsOK
<1>2. \A q \in Request : InHand(q)
  BY <1>1, IdleTyped
     DEF InHand, WellFormed, EditsCourier, EditsBoth, EditsHub, Draws, Editing
<1> QED BY <1>1, <1>2, IdleTyped DEF ProfileInv, ProfileTypeOK, RowsOK

LEMMA NextHolds ==
  ASSUME ProfileInv, [Next]_vars
  PROVE  ProfileInv'
<1>1. CASE UNCHANGED vars
  BY <1>1 DEF vars, ProfileInv, ProfileTypeOK, InHand, WellFormed, EditsCourier,
              EditsBoth, EditsHub, Draws
<1>2. ASSUME NEW q \in Request,
             PatchCourier(q) \/ PatchVehicle(q) \/ PatchTerminal(q)
      PROVE  ProfileInv'
  BY <1>2, BeginsCourier, BeginsVehicle, CourierKeeps, VehicleKeeps, HubKeeps
     DEF PatchCourier, PatchVehicle
<1>3. ASSUME NEW q \in Request, PostAvatar(q) \/ DeleteAvatar(q) \/ Stop(q)
      PROVE  ProfileInv'
  BY <1>3, UploadKeeps, RemoveKeeps, WriteKeeps, InsertKeeps, DeleteKeeps, StopKeeps
     DEF PostAvatar
<1> QED BY <1>1, <1>2, <1>3 DEF Next

LEMMA InvHolds == Spec => []ProfileInv
BY InitHolds, NextHolds, PTL DEF Spec

(* Rows, files and requests are well formed, and a request that writes both *)
(* rows has a vehicle to write.                                             *)
THEOREM ProfileTypeCorrect == Spec => []ProfileTypeOK
<1>1. ProfileInv => ProfileTypeOK
  BY DEF ProfileInv
<1> QED BY <1>1, InvHolds, PTL

-----------------------------------------------------------------------------
(* What a step does to a request is done by its own step.                   *)

LEMMA LastStep ==
  ASSUME ProfileInv, NEW q \in Request, StoreCourier(q) \/ StoreVehicle(q),
         req[q].both, req[q].alone, req'[q].pc = "idle",
         ~req[q].stuck, "negative" \notin req[q].figures
  PROVE  courier' = vehicle'.type
<1>1. req[q] \in Requests /\ InHand(q)
  BY DEF ProfileInv, ProfileTypeOK
<1>2. CASE StoreCourier(q)
  <2>1. courier' = req[q].type /\ vehicle' = vehicle
    BY <1>2, StoresCourier
  <2>2. vehicle.type = req[q].type
    BY <1>1, <1>2 DEF StoreCourier, InHand, EditsBoth
  <2> QED BY <2>1, <2>2
<1>3. CASE StoreVehicle(q)
  <2> DEFINE rec == [req[q] EXCEPT !.pc = "courier", !.last = TRUE]
  <2>1. /\ vehicle'.type = req[q].type /\ courier' = courier
        /\ ~req[q].last => Goes(q, rec, Editing)
    BY <1>3, StoresVehicle
  <2>2. rec \in Requests /\ rec.pc = "courier"
    BY <1>1 DEF Requests, Editing
  <2> HIDE DEF rec
  <2>3. req[q].last
    BY <2>1, <2>2, Others
  <2>4. courier = req[q].type
    BY <1>1, <1>3, <2>3 DEF StoreVehicle, InHand, EditsBoth
  <2> QED BY <2>1, <2>4
<1> QED BY <1>2, <1>3

(* An edit of the type that nobody stepped on leaves courier and vehicle    *)
(* with one type, unless the row of the vehicle refuses it.                 *)
THEOREM TypesStayTogether == Spec => TypesAgree
<1>1. ASSUME ProfileInv, [Next]_vars
      PROVE  [\A q \in Request :
               /\ StoreCourier(q) \/ StoreVehicle(q)
               /\ req[q].both /\ req[q].alone /\ req'[q].pc = "idle"
               /\ ~req[q].stuck /\ "negative" \notin req[q].figures
               => courier' = vehicle'.type]_vars
  BY <1>1, LastStep
<1> QED BY <1>1, InvHolds, PTL DEF Spec, TypesAgree

LEMMA HubChanges ==
  ASSUME ProfileInv, [Next]_vars, NEW f \in Field, hub'[f] # hub[f]
  PROVE  \E q \in Request :
           /\ req[q].pc = "hub" /\ req'[q].pc = "idle"
           /\ f \in req[q].edits \/ ~req[q].alone
<1>1. PICK q \in Request : StoreHub(q)
  BY DEF Next, vars, PatchCourier, UpdateCourier, StoreCourier, PatchVehicle,
         UpdateVehicle, StoreVehicle, PatchTerminal, UpdateTerminal, PostAvatar,
         UploadAvatar, RemoveRow, WriteFile, InsertRow, DeleteAvatar, Stop
<1>2. req'[q] = Idle
  BY <1>1, IdleTyped, Others DEF StoreHub
<1>3. req[q] \in Requests /\ InHand(q)
  BY DEF ProfileInv, ProfileTypeOK
<1>4. req[q].hub[f] # hub[f]
  BY <1>1 DEF StoreHub
<1>5. f \in req[q].edits \/ ~req[q].alone
  BY <1>1, <1>3, <1>4 DEF StoreHub, InHand, EditsHub
<1> QED BY <1>1, <1>2, <1>5, IdleTyped DEF StoreHub

(* A column that an edit was not given changes only when edits overlap.     *)
THEOREM OnlyGivenChange == Spec => OnlyGivenChanges
<1>1. ASSUME ProfileInv, [Next]_vars
      PROVE  [\A f \in Field : hub'[f] # hub[f] =>
               \E q \in Request :
                 /\ req[q].pc = "hub" /\ req'[q].pc = "idle"
                 /\ f \in req[q].edits \/ ~req[q].alone]_vars
  BY <1>1, HubChanges
<1> QED BY <1>1, InvHolds, PTL DEF Spec, OnlyGivenChanges

(* An upload that nobody stepped on ends with its row and its picture.      *)
THEOREM UploadEndsShown == Spec => UploadIsShown
<1>1. ASSUME ProfileInv, [Next]_vars
      PROVE  [\A q \in Request : InsertRow(q) /\ req[q].alone =>
               /\ row' = req[q].avatar
               /\ file'[row'.ext] = row'.upload]_vars
  BY <1>1, Inserts
<1> QED BY <1>1, InvHolds, PTL DEF Spec, UploadIsShown

LEMMA Begins ==
  ASSUME ProfileInv, NEW q \in Request, NEW rec \in Requests, rec.pc = "remove",
         Goes(q, rec, Drawing)
  PROVE  req'[q].pc = "remove"
BY Others

LEMMA StaysShown ==
  ASSUME ProfileInv, [Next]_vars, Shown, ~Shown'
  PROVE  \E q \in Request :
           \/ req[q].pc = "idle" /\ req'[q].pc = "remove"
           \/ req[q].pc \in {"write", "insert"} /\ ~req[q].alone
<1>1. RowsOK
  BY DEF ProfileInv, ProfileTypeOK, RowsOK
<1>2. ~UNCHANGED <<row, file>>
  BY DEF Shown
<1>3. PICK q \in Request :
        \/ \E avatar \in Avatar : UploadAvatar(q, avatar)
        \/ RemoveRow(q) \/ WriteFile(q) \/ InsertRow(q) \/ DeleteAvatar(q)
  BY <1>2 DEF Next, vars, PatchCourier, UpdateCourier, StoreCourier, PatchVehicle,
         UpdateVehicle, StoreVehicle, PatchTerminal, UpdateTerminal, StoreHub,
         PostAvatar, Stop
<1>4. req[q] \in Requests /\ InHand(q)
  BY DEF ProfileInv, ProfileTypeOK
<1>5. ASSUME NEW avatar \in Avatar, UploadAvatar(q, avatar)
      PROVE  req[q].pc = "idle" /\ req'[q].pc = "remove"
  <2> DEFINE rec == [Idle EXCEPT !.pc = "remove", !.avatar = avatar, !.old = row.upload]
  <2>1. row # NoAvatar
    BY <1>5 DEF UploadAvatar, Shown
  <2>2. row.upload \in Upload
    BY <1>1, <2>1 DEF RowsOK, Avatar
  <2>3. rec \in Requests /\ rec.pc = "remove"
    BY <2>2, IdleTyped DEF Requests, Drawing
  <2> QED BY <1>5, <2>1, <2>3, Begins DEF UploadAvatar
<1>6. ASSUME DeleteAvatar(q) PROVE req[q].pc = "idle" /\ req'[q].pc = "remove"
  <2>1. row.upload \in Upload
    BY <1>1, <1>6 DEF RowsOK, Avatar, DeleteAvatar
  <2>2. /\ [Idle EXCEPT !.pc = "remove", !.old = row.upload] \in Requests
        /\ [Idle EXCEPT !.pc = "remove", !.old = row.upload].pc = "remove"
    BY <2>1, IdleTyped DEF Requests, Drawing
  <2> QED BY <1>6, <2>2, Begins DEF DeleteAvatar
<1>7. ~RemoveRow(q)
  BY DEF RemoveRow, Shown
<1>8. ASSUME WriteFile(q) PROVE req[q].pc = "write" /\ ~req[q].alone
  BY <1>4, <1>8 DEF WriteFile, InHand, Draws, Shown
<1>9. ASSUME InsertRow(q) PROVE req[q].pc = "insert" /\ ~req[q].alone
  BY <1>9, Inserts DEF InsertRow, Shown
<1> QED BY <1>3, <1>5, <1>6, <1>7, <1>8, <1>9

(* The row names another picture only while it is about to go, or after     *)
(* uploads overlap.                                                         *)
THEOREM PictureStays == Spec => OwnPicture
<1>1. ASSUME ProfileInv, [Next]_vars
      PROVE  [Shown /\ ~Shown' =>
               \E q \in Request :
                 \/ req[q].pc = "idle" /\ req'[q].pc = "remove"
                 \/ req[q].pc \in {"write", "insert"} /\ ~req[q].alone]_vars
  BY <1>1, StaysShown
<1> QED BY <1>1, InvHolds, PTL DEF Spec, OwnPicture
=============================================================================
