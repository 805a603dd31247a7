------------------------------- MODULE Intake -------------------------------
(***************************************************************************)
(* What routes are planned from: the shifts of one terminal and the orders *)
(* of one recipient (core/services/shift_service.py, order_service.py).    *)
(* Requests overlap, one step per commit of a repository, and what a       *)
(* request reads without a commit in between is read at one instant.       *)
(*                                                                         *)
(* Limits: an order is its shift and its recipient; its status, barcode    *)
(* and copies are in Dispatch.  The user that an intake makes for its      *)
(* recipient is found by its phone number.  Routes and missions refer to   *)
(* shifts as orders do and are left out.                                   *)
(***************************************************************************)
EXTENDS Naturals, FiniteSets

CONSTANTS
  Shift,       \* ids of rows of hub_shifts
  Recipient,   \* ids of rows of recipients
  Order,       \* orders that are brought in
  Request,     \* slots for requests that overlap
  Nil,
  LastHour     \* shifts begin and end at the hours 0..LastHour

ASSUME LastHourIsNatural == LastHour \in Nat
ASSUME RequestsAreFinite == IsFiniteSet(Request)

(* Each intake brings the address of its order, with or without a location, *)
(* and each order is given another one at most once.                        *)
Address == Order \X {"first", "nowhere", "moved"}

ASSUME NilIsNoRow == Nil \notin Shift \cup Recipient \cup Order \cup Request \cup Address

VARIABLES
  shift,      \* the hours of each row of hub_shifts
  user,       \* the recipient has a row in users
  recipient,  \* the address in each row of recipients of that user
  order,      \* table orders
  held,       \* the addresses that a row has had so far
  req         \* requests in progress

vars == <<shift, user, recipient, order, held, req>>

Hours == {w \in [from: 0..LastHour, to: 0..LastHour] : w.from < w.to}
NoHours == [from |-> 0, to |-> 0]

OrderRow == [status: {"none", "made", "gone"}, shift: Shift \cup {Nil},
             recipient: Recipient \cup {Nil}]
NoOrder == [status |-> "none", shift |-> Nil, recipient |-> Nil]

Requests ==
  [pc: {"idle", "insert", "update", "user", "address", "order", "edit"},
   shift: Shift \cup {Nil},
   hours: Hours \cup {NoHours},
   order: Order \cup {Nil},
   recipient: Recipient \cup {Nil},   \* the row in hand, Nil to make one
   address: Address \cup {Nil},       \* what will be written to it
   alone: BOOLEAN]                    \* nobody else has stepped since it began

Idle == [pc |-> "idle", shift |-> Nil, hours |-> NoHours, order |-> Nil,
         recipient |-> Nil, address |-> Nil, alone |-> TRUE]

Init ==
  /\ shift = [s \in Shift |-> NoHours]
  /\ user = FALSE
  /\ recipient = [r \in Recipient |-> Nil]
  /\ order = [o \in Order |-> NoOrder]
  /\ held = [r \in Recipient |-> {}]
  /\ req = [q \in Request |-> Idle]

-----------------------------------------------------------------------------
Begins(q, rec) == req[q].pc = "idle" /\ req' = [req EXCEPT ![q] = rec]

(* A step of q that commits: the others find something changed.             *)
Goes(q, rec) ==
  req' = [p \in Request |->
    IF p = q THEN rec
    ELSE IF req[p].pc = "idle" THEN req[p] ELSE [req[p] EXCEPT !.alone = FALSE]]

Unused(s) == \A q \in Request : req[q].shift # s

Shifts == {s \in Shift : shift[s] # NoHours}
Overlap(v, w) == v.from < w.to /\ v.to > w.from

-----------------------------------------------------------------------------
(* Shifts                                                                  *)

CreateShift(q, s, hours) ==
  /\ shift[s] = NoHours /\ Unused(s)
  /\ \A t \in Shifts : ~Overlap(hours, shift[t])
  /\ Begins(q, [Idle EXCEPT !.pc = "insert", !.shift = s, !.hours = hours])
  /\ UNCHANGED <<shift, user, recipient, order, held>>

(* Mutant of UpdateShift: the hours are not compared with other shifts.     *)
UpdateShiftUnchecked(q, s, hours) ==
  /\ s \in Shifts
  /\ Begins(q, [Idle EXCEPT !.pc = "update", !.shift = s, !.hours = hours])
  /\ UNCHANGED <<shift, user, recipient, order, held>>

UpdateShift(q, s, hours) ==
  /\ s \in Shifts
  /\ \A t \in Shifts \ {s} : ~Overlap(hours, shift[t])
  /\ Begins(q, [Idle EXCEPT !.pc = "update", !.shift = s, !.hours = hours])
  /\ UNCHANGED <<shift, user, recipient, order, held>>

InsertShift(q) ==
  /\ req[q].pc = "insert"
  /\ shift' = [shift EXCEPT ![req[q].shift] = req[q].hours]
  /\ Goes(q, Idle)
  /\ UNCHANGED <<user, recipient, order, held>>

(* A row that was deleted meanwhile is not made again.                      *)
StoreHours(q) ==
  /\ req[q].pc = "update"
  /\ shift' = IF req[q].shift \in Shifts THEN [shift EXCEPT ![req[q].shift] = req[q].hours]
              ELSE shift
  /\ Goes(q, Idle)
  /\ UNCHANGED <<user, recipient, order, held>>

(* Mutant of DropShift: the row goes whatever refers to it.                 *)
DropAnyShift(s) ==
  s \in Shifts /\ shift' = [shift EXCEPT ![s] = NoHours]

(* The shift of an order is not deleted: the column may not be null.        *)
DropShift(s) ==
  /\ s \in Shifts
  /\ \A o \in Order : order[o].shift # s
  /\ shift' = [shift EXCEPT ![s] = NoHours]

DeleteShift(s) ==
  /\ DropShift(s)
  /\ Goes(Nil, Idle)
  /\ UNCHANGED <<user, recipient, order, held>>

-----------------------------------------------------------------------------
(* Orders                                                                  *)

(* An address that nobody has given yet: the bound of intakes and edits.    *)
New(address) ==
  /\ \A r \in Recipient : address \notin held[r]
  /\ \A q \in Request : req[q].address # address

Rows == {r \in Recipient : recipient[r] # Nil}

(* A row without a location cannot be read, though it can be written.       *)
Readable == {r \in Rows : recipient[r][2] # "nowhere"}

(* The recipient of a user: none when there are several, or when the one    *)
(* there is cannot be read.                                                 *)
Known ==
  IF Cardinality(Rows) = 1 /\ Rows = Readable THEN CHOOSE r \in Rows : TRUE ELSE Nil

(* create_order: the shift is read, then the user is looked for and, when   *)
(* there is one, its recipient.                                            *)
CreateOrder(q, o, s, place) ==
  /\ order[o].status = "none" /\ New(<<o, place>>)
  /\ s \in Shifts
  /\ Begins(q, [Idle EXCEPT !.pc = IF user THEN "address" ELSE "user", !.shift = s,
                  !.order = o, !.recipient = IF user THEN Known ELSE Nil,
                  !.address = <<o, place>>])
  /\ UNCHANGED <<shift, user, recipient, order, held>>

(* The phone number is the unique name of the user: a second insert fails.  *)
CreateUser(q) ==
  /\ req[q].pc = "user"
  /\ user' = TRUE
  /\ Goes(q, IF user THEN Idle ELSE [req[q] EXCEPT !.pc = "address", !.recipient = Known])
  /\ UNCHANGED <<shift, recipient, order, held>>

(* Once the row is committed it is read again, which fails without a        *)
(* location: the intake ends, and the row stays.                            *)
Stored(q, r) ==
  Goes(q, IF req[q].address[2] = "nowhere" THEN Idle
          ELSE [req[q] EXCEPT !.pc = "order", !.recipient = r])

(* Mutant of StoreAddress: a recipient that is known gets another row.      *)
StoreAddressAnew(q) ==
  \E r \in Recipient :
    /\ req[q].pc = "address"
    /\ recipient[r] = Nil
    /\ recipient' = [recipient EXCEPT ![r] = req[q].address]
    /\ held' = [held EXCEPT ![r] = @ \cup {req[q].address}]
    /\ Stored(q, r)
    /\ UNCHANGED <<shift, user, order>>

(* The row of the recipient is overwritten, or one is made.                 *)
StoreAddress(q) ==
  \E r \in Recipient :
    /\ req[q].pc = "address"
    /\ IF req[q].recipient = Nil THEN recipient[r] = Nil ELSE r = req[q].recipient
    /\ recipient' = [recipient EXCEPT ![r] = req[q].address]
    /\ held' = [held EXCEPT ![r] = @ \cup {req[q].address}]
    /\ Stored(q, r)
    /\ UNCHANGED <<shift, user, order>>

(* The insert fails when the shift was deleted meanwhile.                   *)
InsertOrder(o, row) ==
  order' = IF row.shift \in Shifts THEN [order EXCEPT ![o] = row] ELSE order

(* Whether or not it fails, what was written to the recipient stays.        *)
StoreOrder(q) ==
  /\ req[q].pc = "order"
  /\ InsertOrder(req[q].order, [status |-> "made", shift |-> req[q].shift,
                               recipient |-> req[q].recipient])
  /\ Goes(q, Idle)
  /\ UNCHANGED <<shift, user, recipient, held>>

(* update_order: the order and its recipient are read and written back.     *)
UpdateOrder(q, o, moves) ==
  /\ order[o].status = "made" /\ order[o].recipient \in Readable
  /\ moves => New(<<o, "moved">>)
  /\ Begins(q, [Idle EXCEPT !.pc = "edit", !.recipient = order[o].recipient,
                  !.address = IF moves THEN <<o, "moved">>
                              ELSE recipient[order[o].recipient]])
  /\ UNCHANGED <<shift, user, recipient, order, held>>

(* Mutant of StoreEdit: the address of the order's intake is written.       *)
StoreFirstAddress(q) ==
  /\ req[q].pc = "edit"
  /\ \E o \in Order :
       /\ order[o].recipient = req[q].recipient
       /\ recipient' = [recipient EXCEPT ![req[q].recipient] = <<o, "first">>]
       /\ held' = [held EXCEPT ![req[q].recipient] = @ \cup {<<o, "first">>}]
  /\ Goes(q, Idle)
  /\ UNCHANGED <<shift, user, order>>

(* An address that was only read is written when the row is loaded again    *)
(* for the update, and not when the session still holds it.                 *)
StoreEdit(q) ==
  /\ req[q].pc = "edit"
  /\ \E address \in {req[q].address, recipient[req[q].recipient]} :
       /\ req[q].address \notin held[req[q].recipient] => address = req[q].address
       /\ recipient' = [recipient EXCEPT ![req[q].recipient] = address]
       /\ held' = [held EXCEPT ![req[q].recipient] = @ \cup {address}]
  /\ Goes(q, Idle)
  /\ UNCHANGED <<shift, user, order>>

DropOrder(o) == order' = [order EXCEPT ![o] = [NoOrder EXCEPT !.status = "gone"]]

DeleteOrder(o) ==
  /\ order[o].status = "made" /\ order[o].recipient \in Readable
  /\ DropOrder(o)
  /\ Goes(Nil, Idle)
  /\ UNCHANGED <<shift, user, recipient, held>>

(* A request is cut off after any of its commits.                           *)
Stop(q) ==
  /\ req[q].pc # "idle"
  /\ req' = [req EXCEPT ![q] = Idle]
  /\ UNCHANGED <<shift, user, recipient, order, held>>

-----------------------------------------------------------------------------
(* One operator for each endpoint.                                          *)
PostShift(q) ==
  (\E s \in Shift, hours \in Hours : CreateShift(q, s, hours)) \/ InsertShift(q)

PutShift(q) ==
  (\E s \in Shift, hours \in Hours : UpdateShift(q, s, hours)) \/ StoreHours(q)

PostOrder(q) ==
  \/ \E o \in Order, s \in Shift, place \in {"first", "nowhere"} :
       CreateOrder(q, o, s, place)
  \/ CreateUser(q) \/ StoreAddress(q) \/ StoreOrder(q)

PutOrder(q) ==
  (\E o \in Order, moves \in BOOLEAN : UpdateOrder(q, o, moves)) \/ StoreEdit(q)

Next ==
  \/ \E q \in Request :
       PostShift(q) \/ PutShift(q) \/ PostOrder(q) \/ PutOrder(q) \/ Stop(q)
  \/ \E s \in Shift : DeleteShift(s)
  \/ \E o \in Order : DeleteOrder(o)

Spec == Init /\ [][Next]_vars

-----------------------------------------------------------------------------
(* Properties                                                              *)

(* Rows and requests are well formed, and an order has the rows of its      *)
(* shift and its recipient.                                                *)
IntakeTypeOK ==
  /\ shift \in [Shift -> Hours \cup {NoHours}]
  /\ user \in BOOLEAN
  /\ recipient \in [Recipient -> Address \cup {Nil}]
  /\ order \in [Order -> OrderRow]
  /\ held \in [Recipient -> SUBSET Address]
  /\ req \in [Request -> Requests]
  /\ \A o \in Order : order[o].status = "made" =>
       order[o].shift \in Shifts /\ order[o].recipient \in Rows

(* The overlap of shifts is checked before and not with the write, yet no   *)
(* more shifts ever cover one hour than requests are served at once: with   *)
(* one at a time none overlap, and an overlap that a race left does not     *)
(* grow (shift_service.py:80-98, 171-189, hub_shift_repository.py:174-205). *)
ShiftsPileUp ==
  \A t \in 0..LastHour :
    Cardinality({s \in Shifts : shift[s].from <= t /\ t < shift[s].to})
      <= Cardinality(Request)

(* The orders of a recipient share one row, which every intake overwrites:  *)
(* no address comes back to it except by an edit that another request       *)
(* stepped on (order_service.py:214-236, 524-539).                          *)
NoAddressReturns ==
  [][\A r \in Recipient : recipient'[r] # recipient[r] =>
       \/ recipient'[r] \notin held[r]
       \/ \E q \in Request :
            req[q].pc = "edit" /\ ~req[q].alone /\ req'[q].pc = "idle"]_vars

(* A recipient gets a second row only when intakes overlap, or when the row *)
(* it has was left without a location: alone, each finds a row that can be  *)
(* read, whatever was cut off before (order_service.py:198-236,             *)
(* recipient_repository.py:61-85; the user of a recipient is not unique).   *)
OneRowUnlessRaced ==
  [][Cardinality(Rows) = 1 /\ Cardinality(Rows') = 2 =>
       \/ Rows # Readable
       \/ \E q \in Request :
            req[q].pc = "address" /\ ~req[q].alone /\ req'[q].pc # "address"]_vars
=============================================================================
