---------------------------- MODULE IntakeProofs ----------------------------
(***************************************************************************)
(* Theorems about Intake for any shifts, recipients, orders and any finite *)
(* number of requests: orders have their rows, an hour is covered by no    *)
(* more shifts than there are requests, by one where these take turns, and *)
(* what an intake overwrites in the row of a recipient comes back only by  *)
(* a race.                                                                 *)
(***************************************************************************)
EXTENDS Intake, FiniteSetTheorems, TLAPS

-----------------------------------------------------------------------------
(* There is no row that a look-up would give.                               *)
NoneToFind == Cardinality(Rows) = 1 => Rows # Readable

(* What a request has in hand.  The address of an intake is nowhere until   *)
(* it is stored; the last two hold of a request that is still alone.        *)

WellFormed(q) ==
  /\ req[q].pc \in {"insert", "update"} => req[q].shift \in Shift /\ req[q].hours \in Hours
  /\ req[q].pc \in {"user", "address", "order"} =>
       req[q].shift \in Shift /\ req[q].order \in Order
  /\ req[q].pc \in {"user", "address", "edit"} => req[q].address \in Address
  /\ req[q].pc = "address" => req[q].recipient \in Rows \cup {Nil}
  /\ req[q].pc \in {"order", "edit"} => req[q].recipient \in Rows

Fresh(q) ==
  req[q].pc \in {"user", "address"} =>
    /\ \A r \in Recipient : req[q].address \notin held[r]
    /\ \A p \in Request \ {q} : req[p].address # req[q].address

EditsAlone(q) ==
  req[q].alone /\ req[q].pc = "edit" =>
    \/ req[q].address \notin held[req[q].recipient]
    \/ req[q].address = recipient[req[q].recipient]

FindsRow(q) ==
  req[q].alone /\ req[q].pc = "address" /\ req[q].recipient = Nil => NoneToFind

InHand(q) == WellFormed(q) /\ Fresh(q) /\ EditsAlone(q) /\ FindsRow(q)

(* Orders have the rows of their shift and their recipient, and a row has   *)
(* an address that it has had.                                              *)
TablesOK ==
  /\ shift \in [Shift -> Hours \cup {NoHours}]
  /\ user \in BOOLEAN
  /\ recipient \in [Recipient -> Address \cup {Nil}]
  /\ order \in [Order -> OrderRow]
  /\ held \in [Recipient -> SUBSET Address]
  /\ \A o \in Order : order[o].status = "made" =>
       order[o].shift \in Shifts /\ order[o].recipient \in Rows
  /\ \A r \in Rows : recipient[r] \in held[r]

IntakeInv ==
  /\ TablesOK
  /\ req \in [Request -> Requests]
  /\ \A q \in Request : InHand(q)

-----------------------------------------------------------------------------
LEMMA NilIsNowhere ==
  Nil \notin Shift /\ Nil \notin Recipient /\ Nil \notin Order /\ Nil \notin Request
    /\ Nil \notin Address
BY NilIsNoRow DEF Address

LEMMA NoHoursAreNone == NoHours \notin Hours
BY DEF NoHours, Hours

LEMMA IdleTyped ==
  /\ Idle \in Requests /\ Idle.pc = "idle" /\ Idle.address = Nil /\ Idle.alone
  /\ Idle.recipient = Nil
BY DEF Idle, Requests

LEMMA IdleKeeps ==
  ASSUME NEW q \in Request, req'[q] = Idle
  PROVE  InHand(q)'
BY IdleTyped DEF InHand, WellFormed, Fresh, EditsAlone, FindsRow

LEMMA KnownIsRow == Known \in Rows \cup {Nil} /\ (Known = Nil => NoneToFind)
<1>1. ASSUME Cardinality(Rows) = 1 PROVE Rows # {}
  BY <1>1, FS_EmptySet
<1>2. Nil \notin Rows
  BY NilIsNowhere DEF Rows
<1> QED BY <1>1, <1>2 DEF Known, NoneToFind

(* A commit disturbs the other requests and changes nothing else in them.   *)
LEMMA Others ==
  ASSUME IntakeInv, NEW q, NEW rec \in Requests, Goes(q, rec)
  PROVE  /\ req' \in [Request -> Requests]
         /\ q \in Request => req'[q] = rec
         /\ \A p \in Request \ {q} :
              /\ req'[p].pc = "idle" \/ ~req'[p].alone
              /\ req'[p].pc = req[p].pc /\ req'[p].shift = req[p].shift
              /\ req'[p].hours = req[p].hours /\ req'[p].order = req[p].order
              /\ req'[p].recipient = req[p].recipient
              /\ req'[p].address = req[p].address
<1>1. \A p \in Request : req[p] \in Requests
  BY DEF IntakeInv
<1>2. \A r \in Requests :
        LET s == [r EXCEPT !.alone = FALSE]
        IN  /\ s \in Requests /\ ~s.alone /\ s.pc = r.pc /\ s.shift = r.shift
            /\ s.hours = r.hours /\ s.order = r.order /\ s.recipient = r.recipient
            /\ s.address = r.address
  BY DEF Requests
<1>3. req' \in [Request -> Requests]
  BY <1>1, <1>2 DEF Goes
<1>4. ASSUME NEW p \in Request \ {q}
      PROVE  \/ req[p].pc = "idle" /\ req'[p] = req[p]
             \/ req'[p] = [req[p] EXCEPT !.alone = FALSE]
  BY <1>4 DEF Goes
<1>5. q \in Request => req'[q] = rec
  BY DEF Goes
<1>6. ASSUME NEW p \in Request \ {q}
      PROVE  /\ req'[p].pc = "idle" \/ ~req'[p].alone
             /\ req'[p].pc = req[p].pc /\ req'[p].shift = req[p].shift
             /\ req'[p].hours = req[p].hours /\ req'[p].order = req[p].order
             /\ req'[p].recipient = req[p].recipient
             /\ req'[p].address = req[p].address
  <2>1. CASE req[p].pc = "idle" /\ req'[p] = req[p]
    BY <2>1
  <2>2. CASE req'[p] = [req[p] EXCEPT !.alone = FALSE]
    BY <1>1, <1>2, <2>2
  <2> QED BY <1>4, <2>1, <2>2
<1> QED BY <1>3, <1>5, <1>6

(* A commit of q that stores at most the address a that q has in hand, and  *)
(* takes no row away, keeps what the others have in hand.                   *)
LEMMA OthersKeep ==
  ASSUME IntakeInv, NEW q, NEW rec \in Requests, Goes(q, rec),
         NEW a, a = Nil \/ (q \in Request /\ a = req[q].address),
         rec.address \in {a, Nil},
         Rows \subseteq Rows',
         \A r \in Recipient : held'[r] \subseteq held[r] \cup {a},
         NEW p \in Request \ {q}
  PROVE  InHand(p)'
<1>1. /\ req'[p].pc = "idle" \/ ~req'[p].alone
      /\ req'[p].pc = req[p].pc /\ req'[p].shift = req[p].shift
      /\ req'[p].hours = req[p].hours /\ req'[p].order = req[p].order
      /\ req'[p].recipient = req[p].recipient /\ req'[p].address = req[p].address
  BY Others
<1>2. InHand(p)
  BY DEF IntakeInv
<1>3. WellFormed(p)'
  BY <1>1, <1>2 DEF InHand, WellFormed
<1>4. ASSUME req[p].pc \in {"user", "address"} PROVE req[p].address \notin {a, Nil}
  <2>1. req[p].address # Nil
    BY <1>2, <1>4, NilIsNowhere DEF InHand, WellFormed
  <2>2. q \in Request => req[q].address # req[p].address
    BY <1>2, <1>4 DEF InHand, Fresh
  <2> QED BY <2>1, <2>2
<1>5. Fresh(p)'
  <2> SUFFICES ASSUME req'[p].pc \in {"user", "address"}
               PROVE  /\ \A r \in Recipient : req'[p].address \notin held'[r]
                      /\ \A u \in Request \ {p} : req'[u].address # req'[p].address
    BY DEF Fresh
  <2>1. req[p].address \notin {a, Nil}
    BY <1>1, <1>4
  <2>2. \A r \in Recipient : req[p].address \notin held'[r]
    BY <1>1, <1>2, <2>1 DEF InHand, Fresh
  <2>3. ASSUME NEW u \in Request \ {p} PROVE req'[u].address # req[p].address
    <3>1. CASE u = q
      BY <2>1, <3>1, Others
    <3>2. CASE u # q
      <4>1. req'[u].address = req[u].address
        BY <3>2, Others
      <4> QED BY <1>1, <1>2, <4>1 DEF InHand, Fresh
    <3> QED BY <3>1, <3>2
  <2> QED BY <1>1, <2>2, <2>3
<1>6. EditsAlone(p)' /\ FindsRow(p)'
  BY <1>1 DEF EditsAlone, FindsRow
<1> QED BY <1>3, <1>5, <1>6 DEF InHand

(* A request that begins or is cut off commits nothing.                     *)
LEMMA QuietKeeps ==
  ASSUME IntakeInv, NEW q \in Request, NEW rec \in Requests,
         req' = [req EXCEPT ![q] = rec],
         UNCHANGED <<shift, user, recipient, order, held>>,
         \A p \in Request \ {q} :
           req[p].pc \in {"user", "address"} => rec.address # req[p].address,
         InHand(q)'
  PROVE  IntakeInv'
<1>1. /\ req' \in [Request -> Requests] /\ req'[q] = rec
      /\ \A p \in Request \ {q} : req'[p] = req[p]
  BY DEF IntakeInv
<1>2. UNCHANGED <<Rows, Readable, NoneToFind, Shifts>>
  BY DEF Rows, Readable, NoneToFind, Shifts
<1>3. ASSUME NEW p \in Request \ {q} PROVE InHand(p)'
  <2>1. InHand(p) /\ req'[p] = req[p]
    BY <1>1 DEF IntakeInv
  <2>2. WellFormed(p)' /\ EditsAlone(p)' /\ FindsRow(p)'
    BY <1>2, <2>1 DEF InHand, WellFormed, EditsAlone, FindsRow
  <2>3. Fresh(p)'
    BY <1>1, <2>1 DEF InHand, Fresh
  <2> QED BY <2>2, <2>3 DEF InHand
<1>4. TablesOK'
  BY <1>2 DEF IntakeInv, TablesOK
<1> QED BY <1>1, <1>3, <1>4 DEF IntakeInv

LEMMA StepKeeps ==
  ASSUME IntakeInv, NEW q \in Request \cup {Nil}, NEW rec \in Requests, Goes(q, rec),
         NEW a, a = Nil \/ (q \in Request /\ a = req[q].address),
         rec.address \in {a, Nil},
         Rows \subseteq Rows',
         \A r \in Recipient : held'[r] \subseteq held[r] \cup {a},
         TablesOK', q \in Request => InHand(q)'
  PROVE  IntakeInv'
<1>1. \A p \in Request : InHand(p)'
  BY OthersKeep
<1> QED BY <1>1, Others DEF IntakeInv

-----------------------------------------------------------------------------
(* Shifts                                                                  *)

(* No row of an order loses its shift, as long as shifts keep their hours.  *)
LEMMA ShiftsKeep ==
  ASSUME IntakeInv, UNCHANGED <<user, recipient, order, held>>,
         shift' \in [Shift -> Hours \cup {NoHours}],
         \A o \in Order : order[o].status = "made" => order[o].shift \in Shifts'
  PROVE  TablesOK' /\ UNCHANGED Rows
BY DEF IntakeInv, TablesOK, Rows

LEMMA BeginShift ==
  ASSUME IntakeInv, NEW q \in Request, NEW s \in Shift, NEW hours \in Hours,
         CreateShift(q, s, hours) \/ UpdateShift(q, s, hours)
  PROVE  IntakeInv'
<1>1. PICK pc \in {"insert", "update"} :
        Begins(q, [Idle EXCEPT !.pc = pc, !.shift = s, !.hours = hours])
  BY DEF CreateShift, UpdateShift
<1> DEFINE rec == [Idle EXCEPT !.pc = pc, !.shift = s, !.hours = hours]
<1>2. /\ rec \in Requests /\ rec.pc = pc /\ rec.shift = s /\ rec.hours = hours
      /\ rec.address = Nil
  BY IdleTyped DEF Requests
<1>3. req' = [req EXCEPT ![q] = rec]
  BY <1>1 DEF Begins
<1> HIDE DEF rec
<1>4. req'[q] = rec
  BY <1>3 DEF IntakeInv
<1>5. InHand(q)'
  BY <1>2, <1>4 DEF InHand, WellFormed, Fresh, EditsAlone, FindsRow
<1>6. \A p \in Request : req[p].pc \in {"user", "address"} => req[p].address # Nil
  BY NilIsNowhere DEF IntakeInv, InHand, WellFormed
<1>7. UNCHANGED <<shift, user, recipient, order, held>>
  BY DEF CreateShift, UpdateShift
<1> QED BY <1>2, <1>3, <1>5, <1>6, <1>7, QuietKeeps

LEMMA StoreShift ==
  ASSUME IntakeInv, NEW q \in Request, InsertShift(q) \/ StoreHours(q)
  PROVE  IntakeInv'
<1>1. req[q].shift \in Shift /\ req[q].hours \in Hours
  BY DEF IntakeInv, InHand, WellFormed, InsertShift, StoreHours
<1>2. /\ shift' \in {shift, [shift EXCEPT ![req[q].shift] = req[q].hours]}
      /\ Goes(q, Idle) /\ UNCHANGED <<user, recipient, order, held>>
  BY DEF InsertShift, StoreHours
<1>3. shift' \in [Shift -> Hours \cup {NoHours}] /\ Shifts \subseteq Shifts'
  BY <1>1, <1>2, NoHoursAreNone DEF IntakeInv, TablesOK, Shifts
<1>4. TablesOK' /\ UNCHANGED Rows
  BY <1>2, <1>3, ShiftsKeep DEF IntakeInv, TablesOK
<1>5. req'[q] = Idle
  BY <1>2, IdleTyped, Others
<1> QED BY <1>2, <1>4, <1>5, IdleTyped, IdleKeeps, StepKeeps

LEMMA DeleteShiftKeeps ==
  ASSUME IntakeInv, NEW s \in Shift, DeleteShift(s)
  PROVE  IntakeInv'
<1>1. /\ Goes(Nil, Idle) /\ UNCHANGED <<user, recipient, order, held>>
      /\ shift' = [shift EXCEPT ![s] = NoHours]
      /\ \A o \in Order : order[o].shift # s
  BY DEF DeleteShift, DropShift
<1>2. shift' \in [Shift -> Hours \cup {NoHours}] /\ Shifts \ {s} \subseteq Shifts'
  BY <1>1 DEF IntakeInv, TablesOK, Shifts
<1>3. TablesOK' /\ UNCHANGED Rows
  BY <1>1, <1>2, ShiftsKeep DEF IntakeInv, TablesOK
<1> QED BY <1>1, <1>3, IdleTyped, NilIsNowhere, StepKeeps

-----------------------------------------------------------------------------
(* Orders                                                                  *)

LEMMA BeginOrder ==
  ASSUME IntakeInv, NEW q \in Request, NEW o \in Order, NEW s \in Shift,
         NEW place \in {"first", "nowhere"}, CreateOrder(q, o, s, place)
  PROVE  IntakeInv'
<1> DEFINE stage == IF user THEN "address" ELSE "user"
           found == IF user THEN Known ELSE Nil
           rec == [Idle EXCEPT !.pc = stage, !.shift = s, !.order = o,
                     !.recipient = found, !.address = <<o, place>>]
<1>1. /\ req' = [req EXCEPT ![q] = rec]
      /\ New(<<o, place>>)
      /\ UNCHANGED <<shift, user, recipient, order, held>>
      /\ UNCHANGED <<Rows, NoneToFind>>
  BY DEF CreateOrder, Begins, Rows, Readable, NoneToFind
<1>2. <<o, place>> \in Address
  BY DEF Address
<1>3. /\ stage \in {"user", "address"} /\ found \in Rows \cup {Nil}
      /\ stage = "address" /\ found = Nil => NoneToFind
  BY KnownIsRow
<1>4. found \in Recipient \cup {Nil}
  BY <1>3 DEF Rows
<1> HIDE DEF stage, found
<1>5. /\ rec \in Requests /\ rec.pc = stage /\ rec.shift = s /\ rec.order = o
      /\ rec.recipient = found /\ rec.address = <<o, place>>
  BY <1>2, <1>3, <1>4, IdleTyped DEF Requests
<1> HIDE DEF rec
<1>6. req'[q] = rec /\ \A p \in Request \ {q} : req'[p] = req[p]
  BY <1>1 DEF IntakeInv
<1>7. WellFormed(q)' /\ EditsAlone(q)' /\ FindsRow(q)'
  BY <1>1, <1>2, <1>3, <1>5, <1>6 DEF WellFormed, EditsAlone, FindsRow
<1>8. Fresh(q)'
  BY <1>1, <1>5, <1>6 DEF Fresh, New
<1>9. \A p \in Request : rec.address # req[p].address
  BY <1>1, <1>5 DEF New
<1> QED BY <1>1, <1>5, <1>7, <1>8, <1>9, QuietKeeps DEF InHand

LEMMA CreateUserKeeps ==
  ASSUME IntakeInv, NEW q \in Request, CreateUser(q)
  PROVE  IntakeInv'
<1>1. req[q] \in Requests /\ InHand(q) /\ req[q].pc = "user"
  BY DEF IntakeInv, CreateUser
<1>2. /\ UNCHANGED <<shift, recipient, order, held>> /\ user' = TRUE
      /\ UNCHANGED <<Rows, NoneToFind, Shifts>>
  BY DEF CreateUser, Rows, Readable, NoneToFind, Shifts
<1>3. TablesOK'
  BY <1>2 DEF IntakeInv, TablesOK
<1>4. CASE user
  <2>1. Goes(q, Idle)
    BY <1>4 DEF CreateUser
  <2>2. req'[q] = Idle
    BY <2>1, IdleTyped, Others
  <2> QED BY <1>2, <1>3, <2>1, <2>2, IdleTyped, IdleKeeps, StepKeeps
<1>5. CASE ~user
  <2> DEFINE rec == [req[q] EXCEPT !.pc = "address", !.recipient = Known]
  <2>1. Goes(q, rec)
    BY <1>5 DEF CreateUser
  <2>2. Known \in Recipient \cup {Nil}
    BY KnownIsRow DEF Rows
  <2>3. /\ rec \in Requests /\ rec.pc = "address" /\ rec.shift = req[q].shift
        /\ rec.order = req[q].order /\ rec.address = req[q].address
        /\ rec.recipient = Known
    BY <1>1, <2>2 DEF Requests
  <2> HIDE DEF rec
  <2>4. req'[q] = rec /\ \A p \in Request \ {q} : req'[p].address = req[p].address
    BY <2>1, <2>3, Others
  <2>5. WellFormed(q)' /\ EditsAlone(q)' /\ FindsRow(q)'
    BY <1>1, <1>2, <2>3, <2>4, KnownIsRow
       DEF InHand, WellFormed, EditsAlone, FindsRow
  <2>6. Fresh(q)'
    BY <1>1, <1>2, <2>3, <2>4 DEF InHand, Fresh
  <2> QED BY <1>2, <1>3, <2>1, <2>3, <2>5, <2>6, StepKeeps DEF InHand
<1> QED BY <1>4, <1>5

(* A row gets an address that was in hand, or that it has already.          *)
LEMMA AddressStored ==
  ASSUME IntakeInv, NEW r \in Recipient, NEW a \in Address,
         recipient' = [recipient EXCEPT ![r] = a],
         held' = [held EXCEPT ![r] = @ \cup {a}],
         UNCHANGED <<shift, user, order>>
  PROVE  /\ TablesOK' /\ Rows' = Rows \cup {r}
         /\ \A x \in Recipient : held'[x] = IF x = r THEN held[x] \cup {a} ELSE held[x]
<1>1. /\ recipient \in [Recipient -> Address \cup {Nil}]
      /\ held \in [Recipient -> SUBSET Address]
  BY DEF IntakeInv, TablesOK
<1>2. Rows' = Rows \cup {r}
  BY <1>1, NilIsNowhere DEF Rows
<1>3. \A x \in Recipient : held'[x] = IF x = r THEN held[x] \cup {a} ELSE held[x]
  BY <1>1
<1>4. /\ recipient' \in [Recipient -> Address \cup {Nil}]
      /\ held' \in [Recipient -> SUBSET Address]
  BY <1>1
<1>5. \A x \in Rows' : recipient'[x] \in held'[x]
  BY <1>1, <1>2, <1>3 DEF IntakeInv, TablesOK, Rows
<1>6. UNCHANGED Shifts
  BY DEF Shifts
<1> QED BY <1>2, <1>3, <1>4, <1>5, <1>6 DEF IntakeInv, TablesOK

LEMMA StoreAddressKeeps ==
  ASSUME IntakeInv, NEW q \in Request, StoreAddress(q)
  PROVE  IntakeInv'
<1>1. req[q] \in Requests /\ InHand(q) /\ req[q].pc = "address"
  BY DEF IntakeInv, StoreAddress
<1>2. PICK r \in Recipient :
        /\ recipient' = [recipient EXCEPT ![r] = req[q].address]
        /\ held' = [held EXCEPT ![r] = @ \cup {req[q].address}]
        /\ Stored(q, r)
        /\ UNCHANGED <<shift, user, order>>
  BY DEF StoreAddress
<1> DEFINE rec == [req[q] EXCEPT !.pc = "order", !.recipient = r]
<1>3. req[q].address \in Address
  BY <1>1 DEF InHand, WellFormed
<1>4. /\ TablesOK' /\ Rows' = Rows \cup {r}
      /\ \A x \in Recipient : held'[x] \subseteq held[x] \cup {req[q].address}
  <2>1. /\ TablesOK' /\ Rows' = Rows \cup {r}
        /\ \A x \in Recipient :
             held'[x] = IF x = r THEN held[x] \cup {req[q].address} ELSE held[x]
    BY <1>2, <1>3, AddressStored
  <2> QED BY <2>1
<1>5. /\ rec \in Requests /\ rec.pc = "order" /\ rec.shift = req[q].shift
      /\ rec.order = req[q].order /\ rec.address = req[q].address /\ rec.recipient = r
  BY <1>1 DEF Requests
<1>6. Goes(q, Idle) \/ Goes(q, rec)
  BY <1>2 DEF Stored
<1> HIDE DEF rec
<1>7. CASE Goes(q, Idle)
  <2>1. req'[q] = Idle
    BY <1>7, IdleTyped, Others
  <2> QED BY <1>4, <1>7, <2>1, IdleTyped, IdleKeeps, StepKeeps
<1>8. CASE Goes(q, rec)
  <2>1. req'[q] = rec
    BY <1>5, <1>8, Others
  <2>2. InHand(q)'
    BY <1>1, <1>4, <1>5, <2>1 DEF InHand, WellFormed, Fresh, EditsAlone, FindsRow
  <2> QED BY <1>4, <1>5, <1>8, <2>2, StepKeeps
<1> QED BY <1>6, <1>7, <1>8

LEMMA StoreOrderKeeps ==
  ASSUME IntakeInv, NEW q \in Request, StoreOrder(q)
  PROVE  IntakeInv'
<1> DEFINE new == [status |-> "made", shift |-> req[q].shift,
                   recipient |-> req[q].recipient]
<1>1. /\ req[q].shift \in Shift /\ req[q].order \in Order /\ req[q].recipient \in Rows
  BY DEF IntakeInv, InHand, WellFormed, StoreOrder
<1>2. /\ order' = IF req[q].shift \in Shifts THEN [order EXCEPT ![req[q].order] = new]
                  ELSE order
      /\ Goes(q, Idle) /\ UNCHANGED <<shift, user, recipient, held, Rows, Shifts>>
  BY DEF StoreOrder, InsertOrder, Rows, Shifts
<1>3. new \in OrderRow /\ new.shift = req[q].shift /\ new.recipient = req[q].recipient
  BY <1>1 DEF OrderRow, Rows
<1> HIDE DEF new
<1>4. TablesOK'
  BY <1>1, <1>2, <1>3 DEF IntakeInv, TablesOK
<1>5. req'[q] = Idle
  BY <1>2, IdleTyped, Others
<1> QED BY <1>2, <1>4, <1>5, IdleTyped, IdleKeeps, StepKeeps

LEMMA BeginEdit ==
  ASSUME IntakeInv, NEW q \in Request, NEW o \in Order, NEW moves \in BOOLEAN,
         UpdateOrder(q, o, moves)
  PROVE  IntakeInv'
<1> DEFINE at == order[o].recipient
           a == IF moves THEN <<o, "moved">> ELSE recipient[at]
           rec == [Idle EXCEPT !.pc = "edit", !.recipient = at, !.address = a]
<1>1. /\ req' = [req EXCEPT ![q] = rec]
      /\ moves => New(<<o, "moved">>)
      /\ UNCHANGED <<shift, user, recipient, order, held>>
      /\ order[o].status = "made"
  BY DEF UpdateOrder, Begins
<1>2. at \in Rows
  BY <1>1 DEF IntakeInv, TablesOK
<1>3. /\ at \in Recipient /\ recipient[at] \in Address
      /\ recipient[at] \in held[at]
  BY <1>2 DEF IntakeInv, TablesOK, Rows
<1>4. a \in Address
  BY <1>3 DEF Address
<1>5. a \notin held[at] \/ a = recipient[at]
  BY <1>1, <1>3 DEF New
<1>6. ASSUME NEW p \in Request \ {q}, req[p].pc \in {"user", "address"}
      PROVE  a # req[p].address
  <2>1. req[p].address \notin held[at]
    BY <1>3, <1>6 DEF IntakeInv, InHand, Fresh
  <2> QED BY <1>1, <1>3, <2>1 DEF New
<1> HIDE DEF a
<1>7. /\ rec \in Requests /\ rec.pc = "edit" /\ rec.recipient = at /\ rec.address = a
  BY <1>3, <1>4, IdleTyped DEF Requests
<1> HIDE DEF rec, at
<1>8. req'[q] = rec
  BY <1>1 DEF IntakeInv
<1>9. InHand(q)'
  BY <1>1, <1>2, <1>4, <1>5, <1>7, <1>8
     DEF InHand, WellFormed, Fresh, EditsAlone, FindsRow, Rows
<1> QED BY <1>1, <1>6, <1>7, <1>9, QuietKeeps

(* What an edit writes was in hand or is there, and is in hand when it is   *)
(* new to the row.                                                          *)
LEMMA EditStores ==
  ASSUME IntakeInv, NEW q \in Request, StoreEdit(q)
  PROVE  /\ req[q].recipient \in Rows
         /\ \E a \in {req[q].address, recipient[req[q].recipient]} \cap Address :
              /\ recipient' = [recipient EXCEPT ![req[q].recipient] = a]
              /\ held' = [held EXCEPT ![req[q].recipient] = @ \cup {a}]
<1>1. req[q].recipient \in Rows /\ req[q].address \in Address
  BY DEF IntakeInv, InHand, WellFormed, StoreEdit
<1>2. recipient[req[q].recipient] \in Address
  BY <1>1 DEF IntakeInv, TablesOK, Rows
<1> QED BY <1>1, <1>2 DEF StoreEdit

LEMMA StoreEditKeeps ==
  ASSUME IntakeInv, NEW q \in Request, StoreEdit(q)
  PROVE  IntakeInv'
<1> DEFINE r == req[q].recipient
<1>1. PICK a \in {req[q].address, recipient[r]} \cap Address :
        /\ recipient' = [recipient EXCEPT ![r] = a]
        /\ held' = [held EXCEPT ![r] = @ \cup {a}]
  BY EditStores
<1>2. r \in Rows /\ recipient[r] \in held[r]
  BY EditStores DEF IntakeInv, TablesOK
<1>3. Goes(q, Idle) /\ UNCHANGED <<shift, user, order>>
  BY DEF StoreEdit
<1>4. r \in Recipient
  BY <1>2 DEF Rows
<1> HIDE DEF r
<1>5. /\ TablesOK' /\ Rows' = Rows \cup {r}
      /\ \A x \in Recipient : held'[x] = IF x = r THEN held[x] \cup {a} ELSE held[x]
  BY <1>1, <1>3, <1>4, AddressStored
<1>6. \A x \in Recipient : held'[x] \subseteq held[x] \cup {req[q].address}
  BY <1>1, <1>2, <1>5
<1>7. req'[q] = Idle
  BY <1>3, IdleTyped, Others
<1> QED BY <1>3, <1>5, <1>6, <1>7, IdleTyped, IdleKeeps, StepKeeps

LEMMA DeleteOrderKeeps ==
  ASSUME IntakeInv, NEW o \in Order, DeleteOrder(o)
  PROVE  IntakeInv'
<1>1. /\ order' = [order EXCEPT ![o] = [NoOrder EXCEPT !.status = "gone"]]
      /\ Goes(Nil, Idle) /\ UNCHANGED <<shift, user, recipient, held, Rows, Shifts>>
  BY DEF DeleteOrder, DropOrder, Rows, Shifts
<1>2. /\ [NoOrder EXCEPT !.status = "gone"] \in OrderRow
      /\ [NoOrder EXCEPT !.status = "gone"].status = "gone"
  BY DEF NoOrder, OrderRow
<1>3. TablesOK'
  BY <1>1, <1>2 DEF IntakeInv, TablesOK
<1> QED BY <1>1, <1>3, IdleTyped, NilIsNowhere, StepKeeps

LEMMA StopKeeps ==
  ASSUME IntakeInv, NEW q \in Request, Stop(q)
  PROVE  IntakeInv'
<1>1. req'[q] = Idle
  BY DEF Stop, IntakeInv
<1>2. \A p \in Request : req[p].pc \in {"user", "address"} => Idle.address # req[p].address
  BY NilIsNowhere, IdleTyped DEF IntakeInv, InHand, WellFormed
<1>3. InHand(q)'
  BY <1>1, IdleKeeps
<1>4. req' = [req EXCEPT ![q] = Idle] /\ UNCHANGED <<shift, user, recipient, order, held>>
  BY DEF Stop
<1> QED BY <1>2, <1>3, <1>4, IdleTyped, QuietKeeps

-----------------------------------------------------------------------------
LEMMA InitHolds == Init => IntakeInv
<1> SUFFICES ASSUME Init PROVE IntakeInv
  OBVIOUS
<1>1. /\ shift = [s \in Shift |-> NoHours] /\ user = FALSE
      /\ recipient = [r \in Recipient |-> Nil] /\ order = [o \in Order |-> NoOrder]
      /\ held = [r \in Recipient |-> {}] /\ req = [q \in Request |-> Idle]
  BY DEF Init
<1>2. NoOrder \in OrderRow /\ NoOrder.status = "none"
  BY DEF NoOrder, OrderRow
<1>3. Rows = {}
  BY <1>1 DEF Rows
<1>4. TablesOK
  BY <1>1, <1>2, <1>3 DEF TablesOK
<1>5. \A q \in Request : InHand(q)
  BY <1>1, IdleTyped DEF InHand, WellFormed, Fresh, EditsAlone, FindsRow
<1> QED BY <1>1, <1>4, <1>5, IdleTyped DEF IntakeInv

LEMMA NextHolds ==
  ASSUME IntakeInv, [Next]_vars
  PROVE  IntakeInv'
<1>1. CASE UNCHANGED vars
  <2>1. UNCHANGED <<Rows, NoneToFind, Shifts>>
    BY <1>1 DEF vars, Rows, Readable, NoneToFind, Shifts
  <2> QED BY <1>1, <2>1
          DEF vars, IntakeInv, TablesOK, InHand, WellFormed, Fresh, EditsAlone, FindsRow
<1>2. ASSUME NEW q \in Request, PostShift(q) \/ PutShift(q) PROVE IntakeInv'
  BY <1>2, BeginShift, StoreShift DEF PostShift, PutShift
<1>3. ASSUME NEW q \in Request, PostOrder(q) \/ PutOrder(q) PROVE IntakeInv'
  BY <1>3, BeginOrder, CreateUserKeeps, StoreAddressKeeps, StoreOrderKeeps, BeginEdit,
     StoreEditKeeps DEF PostOrder, PutOrder
<1> QED BY <1>1, <1>2, <1>3, StopKeeps, DeleteShiftKeeps, DeleteOrderKeeps DEF Next

LEMMA InvHolds == Spec => []IntakeInv
BY InitHolds, NextHolds, PTL DEF Spec

(* Rows and requests are well formed, and an order has the rows of its      *)
(* shift and its recipient.                                                 *)
THEOREM IntakeTypeCorrect == Spec => []IntakeTypeOK
<1>1. IntakeInv => IntakeTypeOK
  BY DEF IntakeInv, TablesOK, IntakeTypeOK
<1> QED BY <1>1, InvHolds, PTL

-----------------------------------------------------------------------------
(* Addresses                                                               *)

LEMMA OnlyStores ==
  ASSUME [Next]_vars, recipient' # recipient
  PROVE  \E q \in Request : StoreAddress(q) \/ StoreEdit(q)
BY DEF Next, vars, PostShift, CreateShift, InsertShift, PutShift, UpdateShift, StoreHours,
       PostOrder, CreateOrder, CreateUser, StoreOrder, PutOrder, UpdateOrder, Stop,
       DeleteShift, DeleteOrder

LEMMA EditEnds ==
  ASSUME IntakeInv, NEW q \in Request, StoreEdit(q)
  PROVE  req[q].pc = "edit" /\ req'[q].pc = "idle"
<1>1. req'[q] = Idle
  BY IdleTyped, Others DEF StoreEdit
<1> QED BY <1>1, IdleTyped DEF StoreEdit

LEMMA StepBrings ==
  ASSUME IntakeInv, [Next]_vars, NEW r \in Recipient, recipient'[r] # recipient[r]
  PROVE  \/ recipient'[r] \notin held[r]
         \/ \E q \in Request :
              req[q].pc = "edit" /\ ~req[q].alone /\ req'[q].pc = "idle"
<1>1. PICK q \in Request : StoreAddress(q) \/ StoreEdit(q)
  BY OnlyStores
<1>2. InHand(q) /\ recipient \in [Recipient -> Address \cup {Nil}]
  BY DEF IntakeInv, TablesOK
<1>3. CASE StoreAddress(q)
  <2>1. recipient'[r] = req[q].address
    BY <1>2, <1>3 DEF StoreAddress
  <2> QED BY <1>2, <1>3, <2>1 DEF StoreAddress, InHand, Fresh
<1>4. CASE StoreEdit(q)
  <2>1. PICK a \in {req[q].address, recipient[req[q].recipient]} :
          recipient' = [recipient EXCEPT ![req[q].recipient] = a]
    BY <1>4, EditStores
  <2>2. r = req[q].recipient /\ recipient'[r] = a /\ a = req[q].address
    BY <1>2, <2>1
  <2>3. req[q].alone => a \notin held[r]
    BY <1>2, <1>4, <2>2 DEF StoreEdit, InHand, EditsAlone
  <2> QED BY <1>4, <2>2, <2>3, EditEnds
<1> QED BY <1>1, <1>3, <1>4

(* No address comes back to a row of a recipient except by a race.          *)
THEOREM AddressesMoveOn == Spec => NoAddressReturns
<1>1. ASSUME IntakeInv, [Next]_vars
      PROVE  [\A r \in Recipient : recipient'[r] # recipient[r] =>
               \/ recipient'[r] \notin held[r]
               \/ \E q \in Request :
                    req[q].pc = "edit" /\ ~req[q].alone /\ req'[q].pc = "idle"]_vars
  BY <1>1, StepBrings
<1> QED BY <1>1, InvHolds, PTL DEF Spec, NoAddressReturns

LEMMA StepAdds ==
  ASSUME IntakeInv, [Next]_vars, Cardinality(Rows) = 1, Cardinality(Rows') = 2
  PROVE  \/ Rows # Readable
         \/ \E q \in Request :
              req[q].pc = "address" /\ ~req[q].alone /\ req'[q].pc # "address"
<1> SUFFICES ASSUME Rows = Readable
             PROVE  \E q \in Request :
                      req[q].pc = "address" /\ ~req[q].alone /\ req'[q].pc # "address"
  OBVIOUS
<1>0. Rows' # Rows
  BY DEF Rows
<1>1. recipient' # recipient
  BY <1>0 DEF Rows
<1>2. PICK q \in Request : StoreAddress(q) \/ StoreEdit(q)
  BY <1>1, OnlyStores
<1>3. req[q] \in Requests /\ InHand(q) /\ recipient \in [Recipient -> Address \cup {Nil}]
  BY DEF IntakeInv, TablesOK
<1>4. ~StoreEdit(q)
  <2> SUFFICES ASSUME StoreEdit(q) PROVE FALSE
    OBVIOUS
  <2>1. req[q].recipient \in Rows
    BY EditStores
  <2>2. PICK a \in Address : recipient' = [recipient EXCEPT ![req[q].recipient] = a]
    BY EditStores
  <2> QED BY <1>0, <1>3, <2>1, <2>2, NilIsNowhere DEF Rows
<1>5. PICK r \in Recipient :
        /\ req[q].pc = "address"
        /\ IF req[q].recipient = Nil THEN recipient[r] = Nil ELSE r = req[q].recipient
        /\ recipient' = [recipient EXCEPT ![r] = req[q].address]
        /\ Stored(q, r)
  BY <1>2, <1>4 DEF StoreAddress
<1>6. req[q].recipient = Nil
  <2> SUFFICES ASSUME req[q].recipient # Nil PROVE FALSE
    OBVIOUS
  <2>1. r \in Rows
    BY <1>3, <1>5 DEF InHand, WellFormed
  <2>2. req[q].address # Nil
    BY <1>3, <1>5, NilIsNowhere DEF InHand, WellFormed
  <2> QED BY <1>0, <1>3, <1>5, <2>1, <2>2 DEF Rows
<1>7. ~req[q].alone
  BY <1>3, <1>5, <1>6 DEF InHand, FindsRow, NoneToFind
<1>8. req'[q].pc # "address"
  <2>1. /\ [req[q] EXCEPT !.pc = "order", !.recipient = r] \in Requests
        /\ [req[q] EXCEPT !.pc = "order", !.recipient = r].pc = "order"
    BY <1>3 DEF Requests
  <2> QED BY <1>5, <2>1, IdleTyped, Others DEF Stored
<1> QED BY <1>5, <1>7, <1>8

(* A recipient gets a second row only when intakes overlap, or when the one *)
(* it has cannot be read.                                                   *)
THEOREM SecondRowIsRaced == Spec => OneRowUnlessRaced
<1>1. ASSUME IntakeInv, [Next]_vars
      PROVE  [Cardinality(Rows) = 1 /\ Cardinality(Rows') = 2 =>
               \/ Rows # Readable
               \/ \E q \in Request :
                    req[q].pc = "address" /\ ~req[q].alone /\ req'[q].pc # "address"]_vars
  BY <1>1, StepAdds
<1> QED BY <1>1, InvHolds, PTL DEF Spec, OneRowUnlessRaced

-----------------------------------------------------------------------------
(* Shifts that pile up.  An hour is covered by rows and by writes that are  *)
(* under way; together they are never more than the requests, since a       *)
(* request that begins to write finds the hour free, but for its own row.   *)

Covers(hours, t) == hours.from <= t /\ t < hours.to
Covering(t) == {s \in Shifts : Covers(shift[s], t)}
Writing(t) ==
  {q \in Request : req[q].pc \in {"insert", "update"} /\ Covers(req[q].hours, t)}
Pile(t) == Covering(t) \cup {req[q].shift : q \in Writing(t)}

SmallPile(t) == IsFiniteSet(Pile(t)) /\ Cardinality(Pile(t)) <= Cardinality(Request)

PileInv == IntakeInv /\ \A t \in 0..LastHour : SmallPile(t)

LEMMA SmallerPile ==
  ASSUME PileInv, NEW t \in 0..LastHour, Pile(t)' \subseteq Pile(t)
  PROVE  SmallPile(t)'
<1>1. /\ IsFiniteSet(Pile(t)')
      /\ Cardinality(Pile(t)') <= Cardinality(Pile(t))
  BY FS_Subset DEF PileInv, SmallPile
<1>2. /\ Cardinality(Pile(t)') \in Nat /\ Cardinality(Pile(t)) \in Nat
      /\ Cardinality(Request) \in Nat
  BY <1>1, RequestsAreFinite, FS_CardinalityType DEF PileInv, SmallPile
<1>3. Cardinality(Pile(t)) <= Cardinality(Request)
  BY DEF PileInv, SmallPile
<1>4. Cardinality(Pile(t)') <= Cardinality(Request)
  BY <1>1, <1>2, <1>3
<1> QED BY <1>1, <1>4 DEF SmallPile

(* The other requests go on writing what they wrote.                        *)
SameWrites(q) ==
  \A p \in Request \ {q} :
    req'[p].pc = req[p].pc /\ req'[p].shift = req[p].shift /\ req'[p].hours = req[p].hours

LEMMA DonePile ==
  ASSUME PileInv, NEW q, SameWrites(q), NEW t \in 0..LastHour,
         q \in Request => req'[q].pc \notin {"insert", "update"},
         Covering(t)' \subseteq Pile(t)
  PROVE  SmallPile(t)'
<1>1. Pile(t)' \subseteq Pile(t)
  BY DEF Pile, Writing, SameWrites
<1> QED BY <1>1, SmallerPile

(* A step that leaves the shifts alone, and after which q writes no shift.  *)
LEMMA OrderPile ==
  ASSUME PileInv, NEW q, SameWrites(q), NEW t \in 0..LastHour, UNCHANGED shift,
         q \in Request => req'[q].pc \notin {"insert", "update"}
  PROVE  SmallPile(t)'
<1>1. Covering(t)' \subseteq Pile(t)
  BY DEF Covering, Shifts, Pile
<1> QED BY <1>1, DonePile

LEMMA BeginPile ==
  ASSUME PileInv, NEW q \in Request, NEW s \in Shift, NEW hours \in Hours,
         CreateShift(q, s, hours) \/ UpdateShift(q, s, hours), NEW t \in 0..LastHour
  PROVE  SmallPile(t)'
<1>1. PICK pc \in {"insert", "update"} :
        Begins(q, [Idle EXCEPT !.pc = pc, !.shift = s, !.hours = hours])
  BY DEF CreateShift, UpdateShift
<1> DEFINE rec == [Idle EXCEPT !.pc = pc, !.shift = s, !.hours = hours]
<1>2. rec.pc = pc /\ rec.shift = s /\ rec.hours = hours
  BY DEF Idle
<1>3. req' = [req EXCEPT ![q] = rec]
  BY <1>1 DEF Begins
<1> HIDE DEF rec
<1>4. req'[q] = rec /\ \A p \in Request \ {q} : req'[p] = req[p]
  BY <1>3 DEF PileInv, IntakeInv
<1>5. UNCHANGED shift
  BY DEF CreateShift, UpdateShift
<1>6. Covering(t)' = Covering(t)
  BY <1>5 DEF Covering, Shifts
<1>7. CASE ~Covers(hours, t)
  <2>1. Pile(t)' \subseteq Pile(t)
    BY <1>2, <1>4, <1>6, <1>7 DEF Pile, Writing
  <2> QED BY <2>1, SmallerPile
<1>8. CASE Covers(hours, t)
  <2>1. \A u \in Shifts \ {s} : ~Overlap(hours, shift[u])
    BY DEF CreateShift, UpdateShift, Shifts
  <2>2. ASSUME NEW u \in Shifts \ {s} PROVE ~Covers(shift[u], t)
    <3>1. shift[u] \in Hours
      BY DEF PileInv, IntakeInv, TablesOK, Shifts
    <3>2. /\ hours.from \in Nat /\ hours.to \in Nat
          /\ shift[u].from \in Nat /\ shift[u].to \in Nat /\ t \in Nat
      BY <3>1, LastHourIsNatural DEF Hours
    <3> QED BY <1>8, <2>1, <3>2 DEF Covers, Overlap
  <2>3. Covering(t) \subseteq {s}
    BY <2>2 DEF Covering
  <2> DEFINE f == [p \in Request |-> req'[p].shift]
             all == {req'[p].shift : p \in Request}
  <2>4. Pile(t)' \subseteq all
    BY <1>2, <1>4, <1>6, <2>3 DEF Pile, Writing
  <2>5. f \in Surjection(Request, all)
    BY DEF Surjection
  <2> HIDE DEF f
  <2>6. IsFiniteSet(all) /\ Cardinality(all) <= Cardinality(Request)
    BY <2>5, RequestsAreFinite, FS_Surjection
  <2> HIDE DEF all
  <2>7. IsFiniteSet(Pile(t)') /\ Cardinality(Pile(t)') <= Cardinality(all)
    BY <2>4, <2>6, FS_Subset
  <2>8. /\ Cardinality(Pile(t)') \in Nat /\ Cardinality(all) \in Nat
        /\ Cardinality(Request) \in Nat
    BY <2>6, <2>7, RequestsAreFinite, FS_CardinalityType
  <2> QED BY <2>6, <2>7, <2>8 DEF SmallPile
<1> QED BY <1>7, <1>8

LEMMA StorePile ==
  ASSUME PileInv, NEW q \in Request, InsertShift(q) \/ StoreHours(q),
         NEW t \in 0..LastHour
  PROVE  SmallPile(t)'
<1>1. Goes(q, Idle) /\ req[q].pc \in {"insert", "update"}
  BY DEF InsertShift, StoreHours
<1>2. req'[q] = Idle /\ SameWrites(q)
  BY <1>1, IdleTyped, Others DEF PileInv, SameWrites
<1>3. shift' \in {shift, [shift EXCEPT ![req[q].shift] = req[q].hours]}
  BY DEF InsertShift, StoreHours
<1>4. ASSUME NEW s \in Covering(t)' PROVE s \in Pile(t)
  <2>1. s \in Shift /\ shift'[s] # NoHours /\ Covers(shift'[s], t)
    BY <1>4 DEF Covering, Shifts
  <2>2. CASE shift'[s] = shift[s]
    BY <2>1, <2>2 DEF Pile, Covering, Shifts
  <2>3. CASE s = req[q].shift /\ shift'[s] = req[q].hours
    BY <1>1, <2>1, <2>3 DEF Pile, Writing
  <2> QED BY <1>3, <2>1, <2>2, <2>3 DEF PileInv, IntakeInv, TablesOK
<1> QED BY <1>2, <1>4, IdleTyped, DonePile

LEMMA DropPile ==
  ASSUME PileInv, NEW s \in Shift, DeleteShift(s), NEW t \in 0..LastHour
  PROVE  SmallPile(t)'
<1>1. SameWrites(Nil)
  BY IdleTyped, NilIsNowhere, Others DEF DeleteShift, PileInv, SameWrites
<1>2. Covering(t)' \subseteq Pile(t)
  BY DEF DeleteShift, DropShift, Covering, Pile, Shifts, PileInv, IntakeInv, TablesOK
<1> QED BY <1>1, <1>2, NilIsNowhere, DonePile

LEMMA IntakesPile ==
  ASSUME PileInv, NEW q \in Request, PostOrder(q) \/ PutOrder(q) \/ Stop(q),
         NEW t \in 0..LastHour
  PROVE  SmallPile(t)'
<1>0. req[q] \in Requests /\ req \in [Request -> Requests] /\ IntakeInv
  BY DEF PileInv, IntakeInv
<1>1. ASSUME NEW rec, rec.pc \notin {"insert", "update"}, UNCHANGED shift,
             \/ req' = [req EXCEPT ![q] = rec]
             \/ rec \in Requests /\ Goes(q, rec)
      PROVE  SmallPile(t)'
  <2>1. req'[q] = rec /\ SameWrites(q)
    BY <1>0, <1>1, Others DEF SameWrites
  <2> QED BY <1>1, <2>1, OrderPile
<1>2. ASSUME NEW o \in Order, NEW s \in Shift, NEW place \in {"first", "nowhere"},
             CreateOrder(q, o, s, place)
      PROVE  SmallPile(t)'
  <2> DEFINE stage == IF user THEN "address" ELSE "user"
             rec == [Idle EXCEPT !.pc = stage, !.shift = s, !.order = o,
                       !.recipient = IF user THEN Known ELSE Nil,
                       !.address = <<o, place>>]
  <2>1. req' = [req EXCEPT ![q] = rec] /\ UNCHANGED shift
    BY <1>2 DEF CreateOrder, Begins
  <2>2. stage \in {"address", "user"}
    OBVIOUS
  <2> HIDE DEF stage
  <2>3. rec.pc = stage
    BY DEF Idle
  <2> HIDE DEF rec
  <2> QED BY <1>1, <2>1, <2>2, <2>3
<1>3. CASE CreateUser(q)
  <2> DEFINE rec == [req[q] EXCEPT !.pc = "address", !.recipient = Known]
  <2>1. Known \in Recipient \cup {Nil}
    BY KnownIsRow DEF Rows
  <2>2. rec \in Requests /\ rec.pc = "address"
    BY <1>0, <2>1 DEF Requests
  <2>3. (Goes(q, Idle) \/ Goes(q, rec)) /\ UNCHANGED shift
    BY <1>3 DEF CreateUser
  <2> HIDE DEF rec
  <2> QED BY <1>1, <2>2, <2>3, IdleTyped
<1>4. CASE StoreAddress(q)
  <2>1. PICK r \in Recipient : Stored(q, r) /\ UNCHANGED shift
    BY <1>4 DEF StoreAddress
  <2>2. /\ [req[q] EXCEPT !.pc = "order", !.recipient = r] \in Requests
        /\ [req[q] EXCEPT !.pc = "order", !.recipient = r].pc = "order"
    BY <1>0 DEF Requests
  <2> QED BY <1>1, <2>1, <2>2, IdleTyped DEF Stored
<1>5. CASE StoreOrder(q) \/ StoreEdit(q)
  BY <1>1, <1>5, IdleTyped DEF StoreOrder, StoreEdit
<1>6. ASSUME NEW o \in Order, NEW moves \in BOOLEAN, UpdateOrder(q, o, moves)
      PROVE  SmallPile(t)'
  <2> DEFINE address == IF moves THEN <<o, "moved">> ELSE recipient[order[o].recipient]
             rec == [Idle EXCEPT !.pc = "edit", !.recipient = order[o].recipient,
                                 !.address = address]
  <2>1. req' = [req EXCEPT ![q] = rec] /\ UNCHANGED shift
    BY <1>6 DEF UpdateOrder, Begins
  <2> HIDE DEF address
  <2>2. rec.pc = "edit"
    BY DEF Idle
  <2> HIDE DEF rec
  <2> QED BY <1>1, <2>1, <2>2
<1>7. CASE Stop(q)
  BY <1>1, <1>7, IdleTyped DEF Stop
<1> QED BY <1>2, <1>3, <1>4, <1>5, <1>6, <1>7 DEF PostOrder, PutOrder

LEMMA NextPiles ==
  ASSUME PileInv, [Next]_vars, NEW t \in 0..LastHour
  PROVE  SmallPile(t)'
<1>1. CASE UNCHANGED vars
  BY <1>1, OrderPile, NilIsNowhere DEF vars, SameWrites
<1>2. ASSUME NEW q \in Request, PostShift(q) \/ PutShift(q) PROVE SmallPile(t)'
  BY <1>2, BeginPile, StorePile DEF PostShift, PutShift
<1>3. ASSUME NEW o \in Order, DeleteOrder(o) PROVE SmallPile(t)'
  <2>1. SameWrites(Nil) /\ UNCHANGED shift
    BY <1>3, IdleTyped, NilIsNowhere, Others DEF DeleteOrder, PileInv, SameWrites
  <2> QED BY <2>1, NilIsNowhere, OrderPile
<1> QED BY <1>1, <1>2, <1>3, IntakesPile, DropPile DEF Next

LEMMA InitPiles == Init => PileInv
<1> SUFFICES ASSUME Init PROVE PileInv
  OBVIOUS
<1>1. /\ \A s \in Shift : shift[s] = NoHours
      /\ \A q \in Request : req[q].pc = "idle"
  BY IdleTyped DEF Init
<1>2. ASSUME NEW t \in 0..LastHour PROVE SmallPile(t)
  <2>1. Pile(t) = {}
    BY <1>1 DEF Pile, Covering, Writing, Shifts
  <2>2. Cardinality(Request) \in Nat
    BY RequestsAreFinite, FS_CardinalityType
  <2>3. 0 <= Cardinality(Request)
    BY <2>2
  <2> QED BY <2>1, <2>3, FS_EmptySet DEF SmallPile
<1> QED BY <1>2, InitHolds DEF PileInv

LEMMA PileBounds == PileInv => ShiftsPileUp
<1> SUFFICES ASSUME PileInv, NEW t \in 0..LastHour
             PROVE  Cardinality(Covering(t)) <= Cardinality(Request)
  BY DEF ShiftsPileUp, Covering, Covers
<1>1. IsFiniteSet(Pile(t)) /\ Cardinality(Pile(t)) <= Cardinality(Request)
  BY DEF PileInv, SmallPile
<1>2. IsFiniteSet(Covering(t)) /\ Cardinality(Covering(t)) <= Cardinality(Pile(t))
  BY <1>1, FS_Subset DEF Pile
<1>3. /\ Cardinality(Covering(t)) \in Nat /\ Cardinality(Pile(t)) \in Nat
      /\ Cardinality(Request) \in Nat
  BY <1>1, <1>2, RequestsAreFinite, FS_CardinalityType
<1> QED BY <1>1, <1>2, <1>3

(* No more shifts cover one hour than requests are served at once.          *)
THEOREM NoHigherPile == Spec => []ShiftsPileUp
<1>1. PileInv /\ [Next]_vars => PileInv'
  BY NextHolds, NextPiles DEF PileInv
<1> QED BY <1>1, InitPiles, PileBounds, PTL DEF Spec

-----------------------------------------------------------------------------
(* No hour belongs to two shifts.                                           *)
ShiftsApart == \A s, t \in Shifts : s # t => ~Overlap(shift[s], shift[t])

(* Where requests are served in turn an hour has room for one shift.        *)
LEMMA OneCoversAlone ==
  ASSUME PileInv, \A p, q \in Request : p = q
  PROVE  ShiftsApart
<1>1. Cardinality(Request) <= 1
  <2>1. CASE Request = {}
    BY <2>1, FS_EmptySet
  <2>2. ASSUME NEW q \in Request PROVE Cardinality(Request) <= 1
    <3>1. Request = {q}
      OBVIOUS
    <3>2. Cardinality(Request) = 1
      BY <3>1, FS_Singleton
    <3> QED BY <3>2
  <2> QED BY <2>1, <2>2
<1> SUFFICES ASSUME NEW s \in Shifts, NEW u \in Shifts, s # u,
                    Overlap(shift[s], shift[u])
             PROVE  FALSE
  BY DEF ShiftsApart
<1>2. shift[s] \in Hours /\ shift[u] \in Hours
  BY DEF PileInv, IntakeInv, TablesOK, Shifts
<1> DEFINE t == IF shift[s].from < shift[u].from THEN shift[u].from ELSE shift[s].from
<1>3. t \in 0..LastHour /\ Covers(shift[s], t) /\ Covers(shift[u], t)
  BY <1>2, LastHourIsNatural DEF Hours, Overlap, Covers
<1> HIDE DEF t
<1>4. s \in Pile(t) /\ u \in Pile(t)
  BY <1>3 DEF Pile, Covering
<1>5. IsFiniteSet(Pile(t)) /\ Cardinality(Pile(t)) <= Cardinality(Request)
  BY <1>3 DEF PileInv, SmallPile
<1>6. {s} \in SUBSET Pile(t) /\ {s} # Pile(t)
  BY <1>4
<1>7. Cardinality({s}) = 1 /\ Cardinality({s}) <= Cardinality(Pile(t))
      /\ Cardinality({s}) # Cardinality(Pile(t))
  BY <1>5, <1>6, FS_Subset, FS_Singleton
<1>8. Cardinality(Pile(t)) \in Nat /\ Cardinality(Request) \in Nat
  BY <1>5, RequestsAreFinite, FS_CardinalityType
<1> QED BY <1>1, <1>5, <1>7, <1>8

(* Where requests are served in turn no two shifts ever overlap, although   *)
(* the check is not made with the write: the race is the only way.          *)
THEOREM TurnsKeepShiftsApart ==
  ASSUME \A p, q \in Request : p = q
  PROVE  Spec => []ShiftsApart
<1>1. PileInv /\ [Next]_vars => PileInv'
  BY NextHolds, NextPiles DEF PileInv
<1>2. PileInv => ShiftsApart
  BY OneCoversAlone
<1> QED BY <1>1, <1>2, InitPiles, PTL DEF Spec
=============================================================================
