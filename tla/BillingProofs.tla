---------------------------- MODULE BillingProofs ----------------------------
(***************************************************************************)
(* Theorems about Billing for any subscriptions and any number of requests *)
(* that overlap: its tables are well typed, a free subscription is for     *)
(* good, no delivery is metered twice, what was answered is on record, a   *)
(* canceled subscription stays canceled but for overlaps, and without them *)
(* no customer has two.                                                    *)
(***************************************************************************)
EXTENDS Billing, TLAPS

USE DEF Key, Event

(* A record that a request goes on with keeps the table of requests typed.  *)
LEMMA RequestTyped ==
  ASSUME BillingTypeOK, NEW q \in Request, NEW rec \in Requests, Enters(q, rec)
  PROVE  req' \in [Request -> Requests]
BY DEF BillingTypeOK, Enters

LEMMA IdleTyped ==
  /\ Idle \in Requests
  /\ Idle.pc = "idle"
BY DEF Idle, Requests, SubRow, NoSub

LEMMA RequestLeaves ==
  ASSUME BillingTypeOK, NEW q \in Request, Leaves(q)
  PROVE  req' \in [Request -> Requests]
BY IdleTyped DEF BillingTypeOK, Leaves

LEMMA SubTyped ==
  ASSUME BillingTypeOK, NEW k, NEW row \in SubRow, UpdateSub(k, row)
  PROVE  sub' \in [Key -> SubRow]
BY DEF BillingTypeOK, UpdateSub

LEMMA UsageTyped ==
  ASSUME BillingTypeOK, NEW k, NEW n \in Nat, UpdateUsage(k, n)
  PROVE  usage' \in [Key -> UsageRow]
BY DEF BillingTypeOK, UpdateUsage, UsageRow

LEMMA EventSent ==
  ASSUME BillingTypeOK, NEW es, Sends(es)
  PROVE  event' \in [Event -> EventStatus]
BY DEF BillingTypeOK, Sends, EventStatus

LEMMA EventAnswered ==
  ASSUME BillingTypeOK, NEW type, NEW s, NEW status \in EventStatus, Answer(type, s, status)
  PROVE  event' \in [Event -> EventStatus]
BY DEF BillingTypeOK, Answer

LEMMA RowsTyped == NoSub \in SubRow /\ ActiveSub \in SubRow
BY DEF NoSub, ActiveSub, SubRow

(* The requests of users and couriers, up to their last commit.             *)
LEMMA UserRequestTyped ==
  ASSUME BillingTypeOK, UserRequest
  PROVE  BillingTypeOK'
<1>2. ASSUME NEW s \in Sub, CreateCheckoutSession(s) PROVE BillingTypeOK'
  BY <1>2 DEF CreateCheckoutSession, GetOrCreateBillingCustomer, CreateCustomer,
              BillingTypeOK, StripeSub
<1>3. ASSUME NEW s \in Sub, NEW q \in Request, ChangePlan(q, s) PROVE BillingTypeOK'
  <2>1. [Idle EXCEPT !.pc = "planned", !.key = s, !.row = sub[s]] \in Requests
    BY DEF BillingTypeOK, Idle, Requests
  <2> QED BY <1>3, <2>1, RequestTyped, EventSent DEF ChangePlan, local, BillingTypeOK
<1>4. ASSUME NEW s \in Sub, NEW q \in Request, NEW immediately \in BOOLEAN,
             CancelSubscription(q, s, immediately)
      PROVE  BillingTypeOK'
  <2>1. [Idle EXCEPT !.pc = "cancelled", !.key = s,
           !.row = IF immediately THEN [sub[s] EXCEPT !.status = "canceled"]
                                  ELSE [sub[s] EXCEPT !.ending = TRUE]] \in Requests
    <3>1. sub[s] \in SubRow
      BY DEF BillingTypeOK
    <3>2. [sub[s] EXCEPT !.status = "canceled"] \in SubRow
      BY <3>1 DEF SubRow
    <3>3. [sub[s] EXCEPT !.ending = TRUE] \in SubRow
      BY <3>1 DEF SubRow
    <3> QED BY <3>2, <3>3 DEF Idle, Requests
  <2>2. stripe' \in [Sub -> StripeSub]
    BY <1>4 DEF CancelSubscription, BillingTypeOK, StripeSub
  <2> QED BY <1>4, <2>1, <2>2, RequestTyped, EventSent
          DEF CancelSubscription, local, BillingTypeOK
<1>5. ASSUME NEW s \in Sub, NEW q \in Request, ReactivateSubscription(q, s)
      PROVE  BillingTypeOK'
  <2>1. [Idle EXCEPT !.pc = "reactivated", !.key = s,
                     !.row = [sub[s] EXCEPT !.ending = FALSE]] \in Requests
    <3>1. sub[s] \in SubRow
      BY DEF BillingTypeOK
    <3>2. [sub[s] EXCEPT !.ending = FALSE] \in SubRow
      BY <3>1 DEF SubRow
    <3> QED BY <3>2 DEF Idle, Requests
  <2>2. stripe' \in [Sub -> StripeSub]
    BY <1>5 DEF ReactivateSubscription, BillingTypeOK, StripeSub
  <2> QED BY <1>5, <2>1, <2>2, RequestTyped, EventSent
          DEF ReactivateSubscription, local, BillingTypeOK
<1>6. ASSUME NEW q \in Request, StoreSubscription(q) PROVE BillingTypeOK'
  <2>1. req[q].row \in SubRow
    BY DEF BillingTypeOK, Requests
  <2> QED BY <1>6, <2>1, SubTyped, RequestLeaves DEF StoreSubscription, BillingTypeOK
<1>7. ASSUME NEW q \in Request, StorePlan(q) PROVE BillingTypeOK'
  <2>1. req[q].row \in SubRow
    BY DEF BillingTypeOK, Requests
  <2>2. ASSUME NEW k \in Key
        PROVE  [Idle EXCEPT !.pc = "limiting", !.key = k, !.count = usage[k].count]
                 \in Requests
    BY DEF BillingTypeOK, Idle, Requests, UsageRow, SubRow, NoSub
  <2>3. req' \in [Request -> Requests]
    BY <1>7, <2>2, RequestTyped, RequestLeaves DEF StorePlan
  <2> QED BY <1>7, <2>1, <2>3, SubTyped DEF StorePlan, BillingTypeOK
<1>8. ASSUME NEW q \in Request, StoreUsage(q) PROVE BillingTypeOK'
  <2>1. req[q].count \in Nat
    BY DEF BillingTypeOK, Requests
  <2> QED BY <1>8, <2>1, UsageTyped, RequestLeaves DEF StoreUsage, BillingTypeOK
<1>9. ASSUME NEW q \in Request, RecordDelivery(q) PROVE BillingTypeOK'
  <2>1. ASSUME NEW k \in Key
        PROVE  [Idle EXCEPT !.pc = "metering", !.key = k, !.count = usage[k].count]
                 \in Requests
    BY DEF BillingTypeOK, Idle, Requests, UsageRow, SubRow, NoSub
  <2>2. req' \in [Request -> Requests]
    BY <1>9, <2>1, RequestTyped DEF RecordDelivery, BillingTypeOK
  <2>3. delivered' \in 0..MaxDeliveries
    <3>1. delivered \in 0..MaxDeliveries
      BY DEF BillingTypeOK
    <3>2. delivered < MaxDeliveries /\ delivered' = delivered + 1
      BY <1>9 DEF RecordDelivery
    <3> QED BY <3>1, <3>2, BillingBounds
  <2> QED BY <1>9, <2>2, <2>3 DEF RecordDelivery, local, BillingTypeOK
<1>10. ASSUME NEW q \in Request, IncrementDeliveryCount(q) PROVE BillingTypeOK'
  <2>1. req[q].count \in Nat
    BY DEF BillingTypeOK, Requests
  <2>2. usage' \in [Key -> UsageRow]
    <3>1. req[q].count + 1 \in Nat
      BY <2>1
    <3> QED BY <1>10, <3>1, UsageTyped DEF IncrementDeliveryCount
  <2> QED BY <1>10, <2>2, RequestLeaves DEF IncrementDeliveryCount, BillingTypeOK
<1> QED
  BY <1>2, <1>3, <1>4, <1>5, <1>6, <1>7, <1>8, <1>9, <1>10 DEF UserRequest

(* What Stripe does, and the webhooks it sends.                             *)
LEMMA StripeTyped ==
  ASSUME BillingTypeOK, StripeMoves \/ \E s \in Sub : Webhook(s)
  PROVE  BillingTypeOK'
<1>1. ASSUME NEW s \in Sub, CompleteCheckout(s) \/ EndSubscription(s)
      PROVE  BillingTypeOK'
  <2>1. stripe' \in [Sub -> StripeSub]
    BY <1>1 DEF CompleteCheckout, EndSubscription, BillingTypeOK, StripeSub
  <2> QED BY <1>1, <2>1, EventSent
          DEF CompleteCheckout, EndSubscription, local, BillingTypeOK
<1>2. ASSUME NEW s \in Sub, NEW type \in Types, Charge(s, type) PROVE BillingTypeOK'
  BY <1>2, EventSent DEF Charge, local, BillingTypeOK
<1>3. {"sent", "done"} \subseteq EventStatus
  BY DEF EventStatus
<1>4. ASSUME NEW s \in Sub, HandleUnreadCheckout(s) \/ HandleSubscriptionUpdated(s)
      PROVE  BillingTypeOK'
  BY <1>3, <1>4, EventAnswered
     DEF HandleUnreadCheckout, HandleSubscriptionUpdated, local, BillingTypeOK
<1>5. ASSUME NEW s \in Sub, HandleSubscriptionDeleted(s) PROVE BillingTypeOK'
  <2>1. sub' \in [Key -> SubRow]
    BY <1>5 DEF HandleSubscriptionDeleted, BillingTypeOK, SubRow
  <2> QED BY <1>3, <1>5, <2>1, EventAnswered DEF HandleSubscriptionDeleted, BillingTypeOK
<1>6. ASSUME NEW s \in Sub, HandleInvoicePaid(s) \/ HandleInvoicePaymentFailed(s)
      PROVE  BillingTypeOK'
  <2>1. invoice' \in [Sub -> InvoiceStatus]
    BY <1>6 DEF HandleInvoicePaid, HandleInvoicePaymentFailed, StoreInvoice,
                BillingTypeOK, InvoiceStatus
  <2> QED BY <1>3, <1>6, <2>1, EventAnswered
          DEF HandleInvoicePaid, HandleInvoicePaymentFailed, BillingTypeOK
<1>7. ASSUME NEW s \in Sub, HandlePaymentSucceeded(s) \/ HandlePaymentFailed(s)
      PROVE  BillingTypeOK'
  <2>1. payment' \in [Sub -> PaymentStatus]
    BY <1>7 DEF HandlePaymentSucceeded, HandlePaymentFailed, StorePayment,
                BillingTypeOK, PaymentStatus
  <2> QED BY <1>3, <1>7, <2>1, EventAnswered
          DEF HandlePaymentSucceeded, HandlePaymentFailed, BillingTypeOK
<1> QED BY <1>1, <1>2, <1>4, <1>5, <1>6, <1>7 DEF StripeMoves, Webhook

(* The webhook of a checkout, and what is lost or cut off.                  *)
LEMMA CheckoutTyped ==
  ASSUME BillingTypeOK, NEW q \in Request, Checkout(q) \/ Stop(q)
  PROVE  BillingTypeOK'
<1>1. {"sent", "done"} \subseteq EventStatus
  BY DEF EventStatus
<1>2. req[q] \in Requests
  BY DEF BillingTypeOK
<1>3. ASSUME NEW s \in Sub, HandleCheckoutCompleted(q, s) PROVE BillingTypeOK'
  <2>1. ASSUME NEW k \in Key
        PROVE  [Idle EXCEPT !.pc = "update", !.key = k, !.row = ActiveSub, !.of = s]
                 \in Requests
    BY RowsTyped DEF Idle, Requests
  <2>2. [Idle EXCEPT !.pc = "create", !.key = s, !.of = s] \in Requests
    BY RowsTyped DEF Idle, Requests
  <2>3. req' \in [Request -> Requests]
    BY <1>3, <2>1, <2>2, RequestTyped DEF HandleCheckoutCompleted
  <2> QED BY <1>3, <2>3 DEF HandleCheckoutCompleted, local, BillingTypeOK
<1>4. CASE CheckoutUpdates(q)
  <2>1. req[q].row \in SubRow
    BY <1>2 DEF Requests
  <2> QED BY <1>1, <1>4, <2>1, SubTyped, RequestLeaves, EventAnswered
          DEF CheckoutUpdates, BillingTypeOK
<1>5. CASE CheckoutCreates(q)
  <2>1. [req[q] EXCEPT !.pc = "usage"] \in Requests
    BY <1>2 DEF Requests
  <2>2. CASE sub[req[q].of] = NoSub
    BY <1>5, <2>1, <2>2, RowsTyped, SubTyped, RequestTyped
       DEF CheckoutCreates, BillingTypeOK
  <2>3. CASE sub[req[q].of] # NoSub
    BY <1>1, <1>5, <2>3, RequestLeaves, EventAnswered DEF CheckoutCreates, BillingTypeOK
  <2> QED BY <2>2, <2>3
<1>6. CASE CheckoutMeters(q)
  <2>1. usage' \in [Key -> UsageRow]
    BY <1>6 DEF CheckoutMeters, CreateUsage, BillingTypeOK, UsageRow
  <2> QED BY <1>1, <1>6, <2>1, RequestLeaves, EventAnswered
          DEF CheckoutMeters, BillingTypeOK
<1>7. CASE Stop(q)
  <2>1. stops' \in 0..MaxStops
    BY <1>7, BillingBounds DEF Stop, BillingTypeOK
  <2> QED BY <1>7, <2>1, RequestLeaves DEF Stop, local, BillingTypeOK
<1> QED BY <1>3, <1>4, <1>5, <1>6, <1>7 DEF Checkout

LEMMA LostTyped ==
  ASSUME BillingTypeOK, NEW type, NEW s, AnswerLost(type, s)
  PROVE  BillingTypeOK'
<1>1. event' \in [Event -> EventStatus]
  BY EventAnswered DEF AnswerLost, EventStatus
<1>2. stops' \in 0..MaxStops
  BY BillingBounds DEF AnswerLost, BillingTypeOK
<1> QED BY <1>1, <1>2 DEF AnswerLost, local, BillingTypeOK

LEMMA InitTyped == Init => BillingTypeOK
<1> SUFFICES ASSUME Init PROVE BillingTypeOK
  OBVIOUS
<1>1. PICK made \in 0..3 :
        /\ customer = (made >= 1)
        /\ sub = [k \in Key |-> IF k = Free /\ made >= 2 THEN ActiveSub ELSE NoSub]
        /\ usage = [k \in Key |-> [made |-> k = Free /\ made >= 3, count |-> 0]]
  BY DEF Init
<1>2. customer \in BOOLEAN
  BY <1>1
<1>3. sub \in [Key -> SubRow]
  BY <1>1, RowsTyped
<1>4. usage \in [Key -> UsageRow]
  BY <1>1 DEF UsageRow
<1>5. invoice \in [Sub -> InvoiceStatus] /\ payment \in [Sub -> PaymentStatus]
  BY DEF Init, InvoiceStatus, PaymentStatus
<1>6. stripe \in [Sub -> StripeSub] /\ event \in [Event -> EventStatus]
  BY DEF Init, StripeSub, EventStatus
<1>7. req \in [Request -> Requests]
  BY IdleTyped DEF Init
<1>8. delivered \in 0..MaxDeliveries /\ stops \in 0..MaxStops
  BY BillingBounds DEF Init
<1> QED BY <1>2, <1>3, <1>4, <1>5, <1>6, <1>7, <1>8 DEF BillingTypeOK

LEMMA NextTyped ==
  ASSUME BillingTypeOK, [Next]_vars
  PROVE  BillingTypeOK'
<1>1. CASE UNCHANGED vars
  BY <1>1 DEF vars, local, BillingTypeOK
<1>2. CASE Next
  BY <1>2, UserRequestTyped, StripeTyped, CheckoutTyped, LostTyped DEF Next
<1> QED BY <1>1, <1>2

(* Rows, events and requests hold the statuses the code knows.              *)
THEOREM BillingTypeCorrect == Spec => []BillingTypeOK
<1> QED BY InitTyped, NextTyped, PTL DEF Spec

-----------------------------------------------------------------------------
(* A free subscription is for good.  The induction needs that nothing here  *)
(* is ahead of Stripe: events, rows and requests are of subscriptions that  *)
(* were asked for there, and no request holds the row of the free one.      *)

Asked(s) == s \in Sub /\ stripe[s].status # "none"

Holding == {"planned", "cancelled", "reactivated", "update"}
Checking == {"create", "usage", "update"}

NothingUnasked ==
  /\ \A e \in Event : event[e] # "unsent" => Asked(e[2])
  /\ \A s \in Sub : sub[s] # NoSub => Asked(s)
  /\ \A q \in Request :
       /\ req[q].pc \in Holding => Asked(req[q].key)
       /\ req[q].pc \in Checking => Asked(req[q].of)

FreeInv == BillingTypeOK /\ NothingUnasked /\ FreeIsForGood

(* What a step must do to keep the invariant, so that each action only says *)
(* which of its parts it touches.                                           *)
LEMMA AskedStays ==
  ASSUME BillingTypeOK, [Next]_vars, NEW s, Asked(s)
  PROVE  Asked(s)'
<1> USE DEF Asked
<1>1. CASE UNCHANGED vars
  BY <1>1 DEF vars
<1>2. ASSUME UNCHANGED stripe PROVE Asked(s)'
  BY <1>2
<1>3. ASSUME NEW x \in Sub, NEW row, row.status # "none",
             stripe' = [stripe EXCEPT ![x] = row]
      PROVE  Asked(s)'
  BY <1>3 DEF BillingTypeOK
<1>4. ASSUME NEW x \in Sub, NEW status, status # "none",
             stripe' = [stripe EXCEPT ![x].status = status]
      PROVE  Asked(s)'
  BY <1>4 DEF BillingTypeOK, StripeSub
<1>5. ASSUME NEW x \in Sub, NEW ending, stripe' = [stripe EXCEPT ![x].ending = ending]
      PROVE  Asked(s)'
  BY <1>5 DEF BillingTypeOK, StripeSub
<1>6. CASE UserRequest
  <2>1. ASSUME NEW x \in Sub, CreateCheckoutSession(x) PROVE Asked(s)'
    BY <1>4, <2>1 DEF CreateCheckoutSession
  <2>2. ASSUME NEW x \in Sub, NEW q, NEW immediately, CancelSubscription(q, x, immediately)
        PROVE  Asked(s)'
    <3>1. CASE immediately
      <4>1. stripe' = [stripe EXCEPT ![x].status = "canceled"]
        BY <2>2, <3>1 DEF CancelSubscription
      <4> QED BY <1>4, <4>1
    <3>2. CASE ~immediately
      <4>1. stripe' = [stripe EXCEPT ![x].ending = TRUE]
        BY <2>2, <3>2 DEF CancelSubscription
      <4> QED BY <1>5, <4>1
    <3> QED BY <3>1, <3>2
  <2>3. ASSUME NEW x \in Sub, NEW q, ReactivateSubscription(q, x) PROVE Asked(s)'
    BY <1>5, <2>3 DEF ReactivateSubscription
  <2>4. ASSUME NEW x \in Sub, NEW q, ChangePlan(q, x) PROVE Asked(s)'
    BY <1>2, <2>4 DEF ChangePlan
  <2>5. ASSUME NEW q, \/ StoreSubscription(q) \/ StorePlan(q) \/ StoreUsage(q)
                     \/ RecordDelivery(q) \/ IncrementDeliveryCount(q)
        PROVE  Asked(s)'
    BY <1>2, <2>5 DEF StoreSubscription, StorePlan, StoreUsage, RecordDelivery,
                      IncrementDeliveryCount
  <2> QED BY <1>6, <2>1, <2>2, <2>3, <2>4, <2>5 DEF UserRequest
<1>7. CASE StripeMoves
  <2>1. ASSUME NEW x \in Sub, CompleteCheckout(x) \/ EndSubscription(x) PROVE Asked(s)'
    BY <1>4, <2>1 DEF CompleteCheckout, EndSubscription
  <2>2. ASSUME NEW x \in Sub, NEW type, Charge(x, type) PROVE Asked(s)'
    BY <1>2, <2>2 DEF Charge
  <2> QED BY <1>7, <2>1, <2>2 DEF StripeMoves
<1>8. ASSUME NEW q \in Request, Checkout(q) \/ Stop(q) PROVE Asked(s)'
  BY <1>2, <1>8 DEF Checkout, HandleCheckoutCompleted, CheckoutUpdates, CheckoutCreates,
                    CheckoutMeters, Stop
<1>9. ASSUME NEW x \in Sub, Webhook(x) PROVE Asked(s)'
  BY <1>2, <1>9 DEF Webhook, HandleUnreadCheckout, HandleSubscriptionUpdated,
       HandleSubscriptionDeleted,
       HandleInvoicePaid, HandleInvoicePaymentFailed, HandlePaymentSucceeded,
       HandlePaymentFailed
<1>10. ASSUME NEW e \in Event, AnswerLost(e[1], e[2]) PROVE Asked(s)'
  BY <1>2, <1>10 DEF AnswerLost
<1> QED BY <1>1, <1>6, <1>7, <1>8, <1>9, <1>10 DEF Next

(* Stripe tells of, and answers are given for, what was asked for.          *)
LEMMA EventsAsked ==
  ASSUME FreeInv, [Next]_vars, NEW e \in Event, event'[e] # "unsent"
  PROVE  Asked(e[2])'
<1>1. ASSUME event[e] # "unsent" PROVE Asked(e[2])'
  BY <1>1, AskedStays DEF FreeInv, NothingUnasked
<1>2. ASSUME UNCHANGED event PROVE Asked(e[2])'
  BY <1>1, <1>2
<1>3. ASSUME NEW x, Asked(x), NEW type, Sends({<<type, x>>}) PROVE Asked(e[2])'
  <2>1. CASE e = <<type, x>>
    BY <1>3, <2>1, AskedStays DEF FreeInv
  <2>2. CASE e # <<type, x>>
    BY <1>1, <1>3, <2>2 DEF Sends
  <2> QED BY <2>1, <2>2
<1>4. ASSUME NEW x, Asked(x), NEW type, NEW status, Answer(type, x, status)
      PROVE  Asked(e[2])'
  <2>1. CASE e = <<type, x>>
    BY <1>4, <2>1, AskedStays DEF FreeInv
  <2>2. CASE e # <<type, x>>
    BY <1>1, <1>4, <2>2 DEF Answer, FreeInv, BillingTypeOK
  <2> QED BY <2>1, <2>2
<1>5. ASSUME NEW x \in Sub, NEW type \in Types, Arrives(type, x) PROVE Asked(x)
  <2>1. <<type, x>> \in Event /\ <<type, x>>[2] = x
    OBVIOUS
  <2> QED BY <1>5, <2>1 DEF Arrives, FreeInv, NothingUnasked
<1>6. CASE UNCHANGED vars
  BY <1>2, <1>6 DEF vars
<1>7. CASE UserRequest
  <2>1. ASSUME NEW x \in Sub, NEW q, ChangePlan(q, x) PROVE Asked(e[2])'
    BY <1>3, <2>1 DEF ChangePlan, AskStripe, Asked
  <2>2. ASSUME NEW x \in Sub, NEW q, NEW immediately, CancelSubscription(q, x, immediately)
        PROVE  Asked(e[2])'
    <3>1. Asked(x) /\ \E type : Sends({<<type, x>>})
      BY <2>2 DEF CancelSubscription, AskStripe, Asked
    <3> QED BY <1>3, <3>1
  <2>3. ASSUME NEW x \in Sub, NEW q, ReactivateSubscription(q, x) PROVE Asked(e[2])'
    BY <1>3, <2>3 DEF ReactivateSubscription, AskStripe, Asked
  <2>4. ASSUME NEW x, CreateCheckoutSession(x) PROVE Asked(e[2])'
    BY <1>2, <2>4 DEF CreateCheckoutSession
  <2>5. ASSUME NEW q, \/ StoreSubscription(q) \/ StorePlan(q) \/ StoreUsage(q)
                     \/ RecordDelivery(q) \/ IncrementDeliveryCount(q)
        PROVE  Asked(e[2])'
    BY <1>2, <2>5 DEF StoreSubscription, StorePlan, StoreUsage, RecordDelivery,
                      IncrementDeliveryCount
  <2> QED BY <1>7, <2>1, <2>2, <2>3, <2>4, <2>5 DEF UserRequest
<1>8. CASE StripeMoves
  BY <1>3, <1>8 DEF StripeMoves, CompleteCheckout, EndSubscription, Charge, Asked
<1>9. ASSUME NEW q \in Request, Checkout(q) \/ Stop(q) PROVE Asked(e[2])'
  <2>1. CASE Stop(q) \/ \E x \in Sub : HandleCheckoutCompleted(q, x)
    BY <1>2, <2>1 DEF Stop, HandleCheckoutCompleted
  <2>2. req[q].pc \in Checking => Asked(req[q].of)
    BY DEF FreeInv, NothingUnasked
  <2>3. CASE CheckoutUpdates(q)
    BY <1>4, <2>2, <2>3 DEF CheckoutUpdates, Checking
  <2>4. CASE CheckoutCreates(q)
    BY <1>2, <1>4, <2>2, <2>4 DEF CheckoutCreates, Checking
  <2>5. CASE CheckoutMeters(q)
    BY <1>4, <2>2, <2>5 DEF CheckoutMeters, Checking
  <2> QED BY <1>9, <2>1, <2>3, <2>4, <2>5 DEF Checkout
<1>10. ASSUME NEW x \in Sub, Webhook(x) PROVE Asked(e[2])'
  <2>1. PICK type \in Types, status \in EventStatus : Arrives(type, x) /\ Answer(type, x, status)
    BY <1>10 DEF Webhook, HandleUnreadCheckout, HandleSubscriptionUpdated,
       HandleSubscriptionDeleted,
         HandleInvoicePaid, HandleInvoicePaymentFailed, HandlePaymentSucceeded,
         HandlePaymentFailed, Types, EventStatus
  <2> QED BY <1>4, <1>5, <2>1
<1>11. ASSUME NEW f \in Event, AnswerLost(f[1], f[2]) PROVE Asked(e[2])'
  <2>1. f[1] \in Types /\ f[2] \in Sub
    OBVIOUS
  <2>2. Arrives(f[1], f[2])
    BY <1>11 DEF AnswerLost, Arrives
  <2> QED BY <1>4, <1>5, <1>11, <2>1, <2>2 DEF AnswerLost
<1> QED BY <1>6, <1>7, <1>8, <1>9, <1>10, <1>11 DEF Next

(* A row is written for what was asked for, and never that of the free      *)
(* subscription: a webhook that finds the free one has no event to be of.   *)
LEMMA RowsAsked ==
  ASSUME FreeInv, [Next]_vars
  PROVE  /\ \A s \in Sub : sub'[s] # NoSub => Asked(s)'
         /\ sub'[Free] = sub[Free]
<1> DEFINE Good == /\ \A s \in Sub : sub'[s] # NoSub => Asked(s)'
                   /\ sub'[Free] = sub[Free]
<1>1. ASSUME UNCHANGED sub PROVE Good
  BY <1>1, AskedStays DEF FreeInv, NothingUnasked
<1>2. ASSUME NEW k, Asked(k), NEW row, UpdateSub(k, row) PROVE Good
  <2>1. k \in Sub /\ k # Free
    BY <1>2, FreeIsNoSub DEF Asked
  <2> QED
    BY <1>2, <2>1, AskedStays DEF UpdateSub, FreeInv, NothingUnasked, BillingTypeOK
<1>3. CASE UNCHANGED vars
  BY <1>1, <1>3 DEF vars, local
<1>4. CASE UserRequest
  <2>1. ASSUME NEW q \in Request, StoreSubscription(q) \/ StorePlan(q) PROVE Good
    <3>1. Asked(req[q].key)
      BY <2>1 DEF StoreSubscription, StorePlan, Holding, FreeInv, NothingUnasked
    <3> QED BY <1>2, <2>1, <3>1 DEF StoreSubscription, StorePlan
  <2>2. CASE \/ \E s \in Sub, q \in Request : ChangePlan(q, s) \/ ReactivateSubscription(q, s)
             \/ \E s \in Sub, q \in Request, immediately \in BOOLEAN :
                  CancelSubscription(q, s, immediately)
             \/ \E s \in Sub : CreateCheckoutSession(s)
    BY <1>1, <2>2 DEF ChangePlan, ReactivateSubscription, CancelSubscription,
                      CreateCheckoutSession, local
  <2>3. ASSUME NEW q, StoreUsage(q) \/ RecordDelivery(q) \/ IncrementDeliveryCount(q)
        PROVE  Good
    BY <1>1, <2>3 DEF StoreUsage, RecordDelivery, IncrementDeliveryCount, local
  <2> QED BY <1>4, <2>1, <2>2, <2>3 DEF UserRequest
<1>5. CASE StripeMoves
  BY <1>1, <1>5 DEF StripeMoves, CompleteCheckout, EndSubscription, Charge, local
<1>6. ASSUME NEW q \in Request, Checkout(q) \/ Stop(q) PROVE Good
  <2>1. CASE Stop(q) \/ \E x \in Sub : HandleCheckoutCompleted(q, x)
    BY <1>1, <2>1 DEF Stop, HandleCheckoutCompleted, local
  <2>2. CASE CheckoutUpdates(q)
    BY <1>2, <2>2 DEF CheckoutUpdates, Holding, FreeInv, NothingUnasked
  <2>3. CASE CheckoutCreates(q)
    BY <1>1, <1>2, <2>3 DEF CheckoutCreates, Checking, FreeInv, NothingUnasked
  <2>4. CASE CheckoutMeters(q)
    BY <1>1, <2>4 DEF CheckoutMeters
  <2> QED BY <1>6, <2>1, <2>2, <2>3, <2>4 DEF Checkout
<1>7. ASSUME NEW x \in Sub, Webhook(x) PROVE Good
  <2>1. CASE HandleSubscriptionDeleted(x)
    <3>1. CASE sub[x] = NoSub
      BY <1>1, <2>1, <3>1 DEF HandleSubscriptionDeleted
    <3>2. CASE sub[x] # NoSub
      <4>1. Asked(x)
        BY <3>2 DEF FreeInv, NothingUnasked
      <4>2. sub' = [sub EXCEPT ![x].status = "canceled"]
        BY <2>1, <3>2 DEF HandleSubscriptionDeleted
      <4>3. \A s \in Key \ {x} : sub'[s] = sub[s]
        BY <4>2 DEF FreeInv, BillingTypeOK
      <4> QED BY <4>1, <4>3, AskedStays, FreeIsNoSub DEF FreeInv, NothingUnasked
    <3> QED BY <3>1, <3>2
  <2>2. CASE ~HandleSubscriptionDeleted(x)
    BY <1>1, <1>7, <2>2 DEF Webhook, HandleUnreadCheckout, HandleSubscriptionUpdated, local,
         HandleInvoicePaid, HandleInvoicePaymentFailed, HandlePaymentSucceeded,
         HandlePaymentFailed
  <2> QED BY <2>1, <2>2
<1>8. ASSUME NEW f \in Event, AnswerLost(f[1], f[2]) PROVE Good
  BY <1>1, <1>8 DEF AnswerLost, local
<1> QED BY <1>3, <1>4, <1>5, <1>6, <1>7, <1>8 DEF Next

(* A request that holds a row or an event holds one that was asked for: the *)
(* webhook of a checkout does not find the free subscription, because its   *)
(* event says that another was asked for.                                   *)
LEMMA RequestsAsked ==
  ASSUME FreeInv, [Next]_vars, NEW p \in Request
  PROVE  /\ (req[p].pc \in Holding => Asked(req[p].key))'
         /\ (req[p].pc \in Checking => Asked(req[p].of))'
<1> DEFINE Good == /\ (req[p].pc \in Holding => Asked(req[p].key))'
                   /\ (req[p].pc \in Checking => Asked(req[p].of))'
<1> USE DEF Holding, Checking
<1>0. BillingTypeOK
  BY DEF FreeInv
<1>1. ASSUME req'[p] = req[p] PROVE Good
  BY <1>1, AskedStays DEF FreeInv, NothingUnasked
<1>2. ASSUME NEW q \in Request, Leaves(q) PROVE Good
  BY <1>0, <1>1, <1>2, IdleTyped DEF Leaves, BillingTypeOK
<1>3. ASSUME NEW q \in Request, NEW rec, Enters(q, rec),
             rec.pc \in Holding => Asked(rec.key),
             rec.pc \in Checking => Asked(rec.of)
      PROVE  Good
  <2>1. CASE p = q
    <3>1. req'[p] = rec
      BY <1>0, <1>3, <2>1 DEF Enters, BillingTypeOK
    <3> QED BY <1>0, <1>3, <3>1, AskedStays
  <2>2. CASE p # q
    BY <1>1, <1>3, <2>2 DEF Enters
  <2> QED BY <2>1, <2>2
<1>4. CASE UNCHANGED vars
  BY <1>1, <1>4 DEF vars
<1>5. CASE UserRequest
  <2>1. ASSUME NEW x \in Sub, NEW q \in Request, ChangePlan(q, x) PROVE Good
    <3>1. Asked(x)
      BY <2>1 DEF ChangePlan, AskStripe, Asked
    <3> QED BY <1>3, <2>1, <3>1 DEF ChangePlan, Idle
  <2>2. ASSUME NEW x \in Sub, NEW q \in Request, NEW immediately,
               CancelSubscription(q, x, immediately)
        PROVE  Good
    <3>1. Asked(x)
      BY <2>2 DEF CancelSubscription, AskStripe, Asked
    <3> DEFINE rec ==
          [Idle EXCEPT !.pc = "cancelled", !.key = x,
             !.row = IF immediately THEN [sub[x] EXCEPT !.status = "canceled"]
                                    ELSE [sub[x] EXCEPT !.ending = TRUE]]
    <3>2. Enters(q, rec) /\ rec.pc = "cancelled" /\ rec.key = x
      BY <2>2 DEF CancelSubscription, Idle
    <3> HIDE DEF rec
    <3> QED BY <1>3, <3>1, <3>2
  <2>3. ASSUME NEW x \in Sub, NEW q \in Request, ReactivateSubscription(q, x) PROVE Good
    <3>1. Asked(x)
      BY <2>3 DEF ReactivateSubscription, AskStripe, Asked
    <3> QED BY <1>3, <2>3, <3>1 DEF ReactivateSubscription, Idle
  <2>4. ASSUME NEW x, CreateCheckoutSession(x) PROVE Good
    BY <1>1, <2>4 DEF CreateCheckoutSession
  <2>5. ASSUME NEW q \in Request,
               StoreSubscription(q) \/ StoreUsage(q) \/ IncrementDeliveryCount(q)
        PROVE  Good
    BY <1>2, <2>5 DEF StoreSubscription, StoreUsage, IncrementDeliveryCount
  <2>6. ASSUME NEW q \in Request, StorePlan(q) PROVE Good
    <3>1. ASSUME NEW k, NEW n,
                 Enters(q, [Idle EXCEPT !.pc = "limiting", !.key = k, !.count = n])
          PROVE  Good
      BY <1>3, <3>1 DEF Idle
    <3> QED BY <1>2, <2>6, <3>1 DEF StorePlan
  <2>7. ASSUME NEW q \in Request, RecordDelivery(q) PROVE Good
    <3>1. ASSUME NEW k, NEW n,
                 Enters(q, [Idle EXCEPT !.pc = "metering", !.key = k, !.count = n])
          PROVE  Good
      BY <1>3, <3>1 DEF Idle
    <3> QED BY <1>1, <2>7, <3>1 DEF RecordDelivery
  <2> QED BY <1>5, <2>1, <2>2, <2>3, <2>4, <2>5, <2>6, <2>7 DEF UserRequest
<1>6. CASE StripeMoves
  BY <1>1, <1>6 DEF StripeMoves, CompleteCheckout, EndSubscription, Charge
<1>7. ASSUME NEW q \in Request, Checkout(q) \/ Stop(q) PROVE Good
  <2>1. ASSUME NEW x \in Sub, HandleCheckoutCompleted(q, x) PROVE Good
    <3>1. Asked(x)
      <4>1. <<"completed", x>> \in Event /\ <<"completed", x>>[2] = x
        BY DEF Types
      <4> QED BY <2>1, <4>1 DEF HandleCheckoutCompleted, Arrives, FreeInv, NothingUnasked
    <3>2. ASSUME NEW k \in Key, IsCurrent(k) PROVE Asked(k)
      <4>1. sub[k].status = "active"
        BY <3>2 DEF IsCurrent, Current
      <4>2. k # Free
        BY <3>1, <4>1 DEF FreeInv, FreeIsForGood, Asked
      <4> QED BY <4>1, <4>2 DEF NoSub, FreeInv, NothingUnasked
    <3>3. ASSUME NEW k \in Key, IsCurrent(k),
                 Enters(q, [Idle EXCEPT !.pc = "update", !.key = k,
                                        !.row = ActiveSub, !.of = x])
          PROVE  Good
      BY <1>3, <3>1, <3>2, <3>3 DEF Idle
    <3>4. ASSUME Enters(q, [Idle EXCEPT !.pc = "create", !.key = x, !.of = x])
          PROVE  Good
      BY <1>3, <3>1, <3>4 DEF Idle
    <3> QED BY <2>1, <3>3, <3>4 DEF HandleCheckoutCompleted
  <2>2. CASE CheckoutUpdates(q) \/ CheckoutMeters(q) \/ Stop(q)
    BY <1>2, <2>2 DEF CheckoutUpdates, CheckoutMeters, Stop
  <2>3. CASE CheckoutCreates(q)
    <3>1. Asked(req[q].of)
      BY <2>3 DEF CheckoutCreates, FreeInv, NothingUnasked
    <3>2. ASSUME Enters(q, [req[q] EXCEPT !.pc = "usage"]) PROVE Good
      <4>1. req[q] \in Requests
        BY <1>0 DEF BillingTypeOK
      <4> QED BY <1>3, <3>1, <3>2, <4>1 DEF Requests
    <3> QED BY <1>2, <2>3, <3>2 DEF CheckoutCreates
  <2> QED BY <1>7, <2>1, <2>2, <2>3 DEF Checkout
<1>8. ASSUME NEW x \in Sub, Webhook(x) PROVE Good
  BY <1>1, <1>8 DEF Webhook, HandleUnreadCheckout, HandleSubscriptionUpdated,
       HandleSubscriptionDeleted,
       HandleInvoicePaid, HandleInvoicePaymentFailed, HandlePaymentSucceeded,
       HandlePaymentFailed
<1>9. ASSUME NEW f \in Event, AnswerLost(f[1], f[2]) PROVE Good
  BY <1>1, <1>9 DEF AnswerLost
<1> QED BY <1>4, <1>5, <1>6, <1>7, <1>8, <1>9 DEF Next

(* With the free subscription active nothing is bought.                     *)
LEMMA FreeStays ==
  ASSUME FreeInv, [Next]_vars
  PROVE  FreeIsForGood'
<1> SUFFICES ASSUME sub'[Free].status = "active", NEW s \in Sub
             PROVE  stripe'[s].status = "none" /\ sub'[s] = NoSub
  BY DEF FreeIsForGood
<1>1. sub[Free].status = "active"
  BY RowsAsked
<1>2. \A x \in Sub : stripe[x].status = "none" /\ sub[x] = NoSub
  BY <1>1 DEF FreeInv, FreeIsForGood
<1>3. ~NoneCurrent
  <2>1. \A k \in Key : sub[k].status = "active" => k = Free
    BY <1>2 DEF NoSub
  <2>2. Current = {Free}
    BY <1>1, <2>1 DEF Current
  <2> QED BY <2>2 DEF NoneCurrent, IsCurrent
<1>4. UNCHANGED stripe
  <2>1. CASE UserRequest
    BY <1>2, <1>3, <2>1 DEF UserRequest, CreateCheckoutSession, ChangePlan, AskStripe,
         CancelSubscription, ReactivateSubscription, StoreSubscription, StorePlan,
         StoreUsage, RecordDelivery, IncrementDeliveryCount
  <2>2. CASE StripeMoves
    BY <1>2, <2>2 DEF StripeMoves, CompleteCheckout, EndSubscription, Charge
  <2>3. CASE \/ UNCHANGED vars
             \/ \E q \in Request : Checkout(q) \/ Stop(q)
             \/ \E e \in Event : AnswerLost(e[1], e[2])
    BY <2>3 DEF vars, Checkout, HandleCheckoutCompleted, CheckoutUpdates,
                CheckoutCreates, CheckoutMeters, Stop, AnswerLost
  <2>4. ASSUME NEW x \in Sub, Webhook(x) PROVE UNCHANGED stripe
    BY <2>4 DEF Webhook, HandleUnreadCheckout, HandleSubscriptionUpdated,
       HandleSubscriptionDeleted,
         HandleInvoicePaid, HandleInvoicePaymentFailed, HandlePaymentSucceeded,
         HandlePaymentFailed
  <2> QED BY <2>1, <2>2, <2>3, <2>4 DEF Next
<1> QED BY <1>2, <1>4, RowsAsked DEF Asked

LEMMA FreeInit == Init => FreeInv
<1> SUFFICES ASSUME Init PROVE FreeInv
  OBVIOUS
<1>1. \A s \in Sub : sub[s] = NoSub /\ stripe[s].status = "none"
  BY FreeIsNoSub DEF Init
<1>2. \A e \in Event : event[e] = "unsent"
  BY DEF Init
<1>3. \A q \in Request : req[q].pc = "idle"
  BY IdleTyped DEF Init
<1>4. NothingUnasked
  BY <1>1, <1>2, <1>3 DEF NothingUnasked, Holding, Checking
<1> QED BY <1>1, <1>4, InitTyped DEF FreeInv, FreeIsForGood

LEMMA FreeNext ==
  ASSUME FreeInv, [Next]_vars
  PROVE  FreeInv'
<1>1. NothingUnasked'
  BY EventsAsked, RowsAsked, RequestsAsked DEF NothingUnasked
<1>2. BillingTypeOK'
  BY NextTyped DEF FreeInv
<1> QED BY <1>1, <1>2, FreeStays DEF FreeInv

(* A customer whose free subscription was made has it for good and nothing  *)
(* else, for any number of subscriptions, requests and webhooks.            *)
THEOREM FreeForGood == Spec => []FreeIsForGood
<1>1. FreeInv => FreeIsForGood
  BY DEF FreeInv
<1> QED BY <1>1, FreeInit, FreeNext, PTL DEF Spec

-----------------------------------------------------------------------------
(* No delivery is metered twice.  A record is taken up only while it is the *)
(* one record there is, so every record that has a count, or that a request *)
(* is about to give one, is the same; and a count that was read is behind   *)
(* the deliveries, by one at least while a delivery is still to be added.   *)

Pending == {"metering", "limiting"}

Counted(k) ==
  \/ usage[k].count > 0
  \/ \E q \in Request : req[q].pc \in Pending /\ req[q].key = k

OneCounted ==
  /\ \A k \in Key : Counted(k) => usage[k].made
  /\ \A j, k \in Key : Counted(j) /\ Counted(k) => j = k

CountsBehind ==
  /\ \A k \in Key : usage[k].count <= delivered
  /\ \A q \in Request :
       /\ req[q].pc \in Pending => req[q].key \in Key /\ req[q].count <= delivered
       /\ req[q].pc = "metering" => req[q].count < delivered

MeterInv == BillingTypeOK /\ OneCounted /\ CountsBehind

(* A step that reads no count: records stay or begin at zero, and requests  *)
(* that hold a count go on holding it.                                      *)
LEMMA NoCountRead ==
  ASSUME MeterInv, BillingTypeOK',
         delivered' >= delivered,
         \A k \in Key : \/ usage'[k] = usage[k]
                        \/ usage'[k] = [made |-> TRUE, count |-> 0],
         \A q \in Request : req'[q].pc \in Pending => req'[q] = req[q]
  PROVE  MeterInv'
<1>1. \A k \in Key : usage[k] \in UsageRow /\ usage'[k] \in UsageRow
  BY DEF MeterInv, BillingTypeOK
<1>2. \A k \in Key : usage'[k].count > 0 => usage'[k] = usage[k]
  BY <1>1 DEF UsageRow
<1>3. \A k \in Key : Counted(k)' => Counted(k)
  BY <1>2 DEF Counted
<1>4. \A k \in Key : usage[k].made => usage'[k].made
  BY <1>1 DEF UsageRow
<1>5. OneCounted'
  BY <1>3, <1>4 DEF OneCounted, MeterInv
<1>6. delivered \in Nat /\ delivered' \in Nat
  BY BillingBounds DEF MeterInv, BillingTypeOK
<1>7. \A k \in Key : usage'[k].count <= delivered'
  BY <1>1, <1>6 DEF MeterInv, CountsBehind, UsageRow
<1>8. \A q \in Request : req[q].count \in Nat
  BY DEF MeterInv, BillingTypeOK, Requests
<1>9. ASSUME NEW q \in Request
      PROVE  /\ req'[q].pc \in Pending => req'[q].key \in Key /\ req'[q].count <= delivered'
             /\ req'[q].pc = "metering" => req'[q].count < delivered'
  <2> SUFFICES ASSUME req'[q].pc \in Pending
               PROVE  /\ req'[q].key \in Key /\ req'[q].count <= delivered'
                      /\ req'[q].pc = "metering" => req'[q].count < delivered'
    BY DEF Pending
  <2>1. req'[q] = req[q]
    OBVIOUS
  <2>2. /\ req[q].key \in Key /\ req[q].count <= delivered
        /\ req[q].pc = "metering" => req[q].count < delivered
    BY <2>1 DEF MeterInv, CountsBehind
  <2> QED BY <1>6, <1>8, <2>1, <2>2
<1> QED BY <1>5, <1>7, <1>9 DEF CountsBehind, MeterInv

(* A count is read of the one record there is.                              *)
LEMMA CountRead ==
  ASSUME MeterInv, BillingTypeOK', NEW q \in Request, NEW k \in Key, IsCurrentUsage(k),
         NEW pc \in Pending, UNCHANGED usage,
         delivered' = IF pc = "metering" THEN delivered + 1 ELSE delivered,
         Enters(q, [Idle EXCEPT !.pc = pc, !.key = k, !.count = usage[k].count])
  PROVE  MeterInv'
<1>1. UsageRecords = {k}
  BY DEF IsCurrentUsage
<1>2. \A j \in Key : Counted(j) => j = k
  BY <1>1 DEF MeterInv, OneCounted, UsageRecords
<1>3. usage[k].made
  BY <1>1 DEF UsageRecords
<1>4. /\ req'[q].pc = pc /\ req'[q].key = k /\ req'[q].count = usage[k].count
      /\ \A p \in Request \ {q} : req'[p] = req[p]
  BY DEF Enters, MeterInv, BillingTypeOK, Idle
<1>5. \A j \in Key : Counted(j)' => j = k
  BY <1>2, <1>4 DEF Counted
<1>6. OneCounted'
  BY <1>3, <1>5 DEF OneCounted
<1>7. delivered \in Nat /\ usage[k].count \in Nat /\ \A j \in Key : usage[j].count \in Nat
  BY BillingBounds DEF MeterInv, BillingTypeOK, UsageRow
<1>8. \A p \in Request : req[p].count \in Nat
  BY DEF MeterInv, BillingTypeOK, Requests
<1>9. \A j \in Key : usage'[j].count <= delivered'
  BY <1>7 DEF MeterInv, CountsBehind
<1>10. ASSUME NEW p \in Request
       PROVE  /\ req'[p].pc \in Pending => req'[p].key \in Key /\ req'[p].count <= delivered'
              /\ req'[p].pc = "metering" => req'[p].count < delivered'
  <2>1. CASE p = q
    <3>1. usage[k].count <= delivered
      BY DEF MeterInv, CountsBehind
    <3> QED BY <1>4, <1>7, <2>1, <3>1
  <2>2. CASE p # q
    BY <1>4, <1>7, <1>8, <2>2 DEF MeterInv, CountsBehind, Pending
  <2> QED BY <2>1, <2>2
<1> QED BY <1>6, <1>9, <1>10 DEF MeterInv, CountsBehind

(* The count that was read, or the next one, is written to its record.      *)
LEMMA CountWritten ==
  ASSUME MeterInv, BillingTypeOK', NEW q \in Request, NEW n \in Nat, n <= delivered,
         req[q].pc \in Pending, UpdateUsage(req[q].key, n), Leaves(q),
         UNCHANGED delivered
  PROVE  MeterInv'
<1> DEFINE k == req[q].key
<1>1. k \in Key
  BY DEF MeterInv, CountsBehind
<1>2. Counted(k)
  BY DEF Counted
<1>3. \A j \in Key : usage[j] \in UsageRow
  BY DEF MeterInv, BillingTypeOK
<1>4. /\ usage'[k].count = n /\ usage'[k].made = usage[k].made
      /\ \A j \in Key \ {k} : usage'[j] = usage[j]
  BY <1>1, <1>3 DEF UpdateUsage, MeterInv, BillingTypeOK, UsageRow
<1>5. /\ req'[q].pc = "idle"
      /\ \A p \in Request \ {q} : req'[p] = req[p]
  BY IdleTyped DEF Leaves, MeterInv, BillingTypeOK
<1> HIDE DEF k
<1>6. \A j \in Key : Counted(j)' => Counted(j)
  <2> SUFFICES ASSUME NEW j \in Key, Counted(j)' PROVE Counted(j)
    OBVIOUS
  <2>1. CASE j = k
    BY <1>2, <2>1
  <2>2. CASE j # k
    BY <1>4, <1>5, <2>2 DEF Counted, Pending
  <2> QED BY <2>1, <2>2
<1>7. \A j \in Key : usage'[j].made = usage[j].made
  BY <1>4
<1>8. OneCounted'
  BY <1>6, <1>7 DEF OneCounted, MeterInv
<1>9. \A j \in Key : usage'[j].count <= delivered'
  BY <1>4 DEF MeterInv, CountsBehind
<1>10. \A p \in Request :
         /\ req'[p].pc \in Pending => req'[p].key \in Key /\ req'[p].count <= delivered'
         /\ req'[p].pc = "metering" => req'[p].count < delivered'
  BY <1>5 DEF MeterInv, CountsBehind, Pending
<1> QED BY <1>8, <1>9, <1>10 DEF MeterInv, CountsBehind

LEMMA MeterNext ==
  ASSUME MeterInv, [Next]_vars
  PROVE  MeterInv'
<1>1. BillingTypeOK /\ BillingTypeOK'
  BY NextTyped DEF MeterInv
<1>2. delivered \in Nat
  BY <1>1, BillingBounds DEF BillingTypeOK
<1>3. ASSUME UNCHANGED <<usage, delivered>>,
             \A q \in Request : req'[q].pc \in Pending => req'[q] = req[q]
      PROVE  MeterInv'
  BY <1>1, <1>2, <1>3, NoCountRead
<1>4. ASSUME NEW q \in Request, Leaves(q), NEW p \in Request, req'[p].pc \in Pending
      PROVE  req'[p] = req[p]
  BY <1>1, <1>4, IdleTyped DEF Leaves, Pending, BillingTypeOK
<1>5. ASSUME NEW q \in Request, NEW rec, rec.pc \notin Pending, Enters(q, rec),
             NEW p \in Request, req'[p].pc \in Pending
      PROVE  req'[p] = req[p]
  BY <1>1, <1>5 DEF Enters, BillingTypeOK
<1>6. CASE UNCHANGED vars
  BY <1>3, <1>6 DEF vars, local
<1>7. CASE UserRequest
  <2>1. ASSUME NEW s \in Sub, NEW q \in Request, ChangePlan(q, s) PROVE MeterInv'
    <3>1. [Idle EXCEPT !.pc = "planned", !.key = s, !.row = sub[s]].pc \notin Pending
      BY DEF Idle, Pending
    <3> QED BY <1>3, <1>5, <2>1, <3>1 DEF ChangePlan, local
  <2>2. ASSUME NEW s \in Sub, NEW q \in Request, NEW immediately \in BOOLEAN,
               CancelSubscription(q, s, immediately)
        PROVE  MeterInv'
    <3>1. PICK rec : rec.pc = "cancelled" /\ Enters(q, rec)
      <4>1. [Idle EXCEPT !.pc = "cancelled", !.key = s,
               !.row = IF immediately THEN [sub[s] EXCEPT !.status = "canceled"]
                                      ELSE [sub[s] EXCEPT !.ending = TRUE]].pc = "cancelled"
        BY DEF Idle
      <4> QED BY <2>2, <4>1 DEF CancelSubscription
    <3> QED BY <1>3, <1>5, <2>2, <3>1 DEF CancelSubscription, local, Pending
  <2>3. ASSUME NEW s \in Sub, NEW q \in Request, ReactivateSubscription(q, s)
        PROVE  MeterInv'
    <3>1. [Idle EXCEPT !.pc = "reactivated", !.key = s,
                       !.row = [sub[s] EXCEPT !.ending = FALSE]].pc \notin Pending
      BY DEF Idle, Pending
    <3> QED BY <1>3, <1>5, <2>3, <3>1 DEF ReactivateSubscription, local
  <2>4. ASSUME NEW s \in Sub, CreateCheckoutSession(s) PROVE MeterInv'
    BY <1>3, <2>4 DEF CreateCheckoutSession
  <2>5. ASSUME NEW q \in Request, StoreSubscription(q) PROVE MeterInv'
    BY <1>3, <1>4, <2>5 DEF StoreSubscription
  <2>6. ASSUME NEW q \in Request, StorePlan(q) PROVE MeterInv'
    <3>1. CASE Leaves(q)
      BY <1>3, <1>4, <2>6, <3>1 DEF StorePlan
    <3>2. ASSUME NEW k \in Key, IsCurrentUsage(k),
                 Enters(q, [Idle EXCEPT !.pc = "limiting", !.key = k,
                                        !.count = usage[k].count])
          PROVE  MeterInv'
      <4>1. UNCHANGED <<usage, delivered>>
        BY <2>6 DEF StorePlan
      <4> QED BY <1>1, <3>2, <4>1, CountRead DEF Pending
    <3> QED BY <2>6, <3>1, <3>2 DEF StorePlan
  <2>7. ASSUME NEW q \in Request, RecordDelivery(q) PROVE MeterInv'
    <3>1. UNCHANGED usage /\ delivered' = delivered + 1
      BY <2>7 DEF RecordDelivery, local
    <3>2. CASE UNCHANGED req
      BY <1>1, <1>2, <3>1, <3>2, NoCountRead
    <3>3. ASSUME NEW k \in Key, IsCurrentUsage(k),
                 Enters(q, [Idle EXCEPT !.pc = "metering", !.key = k,
                                        !.count = usage[k].count])
          PROVE  MeterInv'
      BY <1>1, <3>1, <3>3, CountRead DEF Pending
    <3> QED BY <2>7, <3>2, <3>3 DEF RecordDelivery
  <2>8. ASSUME NEW q \in Request, StoreUsage(q) PROVE MeterInv'
    <3>1. req[q].count \in Nat /\ req[q].count <= delivered /\ req[q].pc \in Pending
      BY <1>1, <2>8 DEF StoreUsage, Pending, MeterInv, CountsBehind, BillingTypeOK, Requests
    <3> QED BY <1>1, <2>8, <3>1, CountWritten DEF StoreUsage
  <2>9. ASSUME NEW q \in Request, IncrementDeliveryCount(q) PROVE MeterInv'
    <3>1. req[q].count \in Nat /\ req[q].count < delivered /\ req[q].pc \in Pending
      BY <1>1, <2>9 DEF IncrementDeliveryCount, Pending, MeterInv, CountsBehind,
                        BillingTypeOK, Requests
    <3>2. req[q].count + 1 \in Nat /\ req[q].count + 1 <= delivered
      BY <1>2, <3>1
    <3> QED BY <1>1, <2>9, <3>1, <3>2, CountWritten DEF IncrementDeliveryCount
  <2> QED
    BY <1>7, <2>1, <2>2, <2>3, <2>4, <2>5, <2>6, <2>7, <2>8, <2>9 DEF UserRequest
<1>8. CASE StripeMoves
  BY <1>3, <1>8 DEF StripeMoves, CompleteCheckout, EndSubscription, Charge, local
<1>9. ASSUME NEW q \in Request, Checkout(q) \/ Stop(q) PROVE MeterInv'
  <2>1. ASSUME NEW s \in Sub, HandleCheckoutCompleted(q, s) PROVE MeterInv'
    <3>1. PICK rec : rec.pc \notin Pending /\ Enters(q, rec)
      <4>1. ASSUME NEW k
            PROVE  [Idle EXCEPT !.pc = "update", !.key = k, !.row = ActiveSub, !.of = s].pc
                     \notin Pending
        BY DEF Idle, Pending
      <4>2. [Idle EXCEPT !.pc = "create", !.key = s, !.of = s].pc \notin Pending
        BY DEF Idle, Pending
      <4> QED BY <2>1, <4>1, <4>2 DEF HandleCheckoutCompleted
    <3> QED BY <1>3, <1>5, <2>1, <3>1 DEF HandleCheckoutCompleted, local
  <2>2. CASE CheckoutUpdates(q) \/ Stop(q)
    BY <1>3, <1>4, <2>2 DEF CheckoutUpdates, Stop, local
  <2>3. CASE CheckoutCreates(q)
    <3>1. [req[q] EXCEPT !.pc = "usage"].pc \notin Pending
      BY <1>1 DEF BillingTypeOK, Requests, Pending
    <3> QED BY <1>3, <1>4, <1>5, <2>3, <3>1 DEF CheckoutCreates
  <2>4. CASE CheckoutMeters(q)
    <3>1. \A k \in Key : \/ usage'[k] = usage[k]
                         \/ usage'[k] = [made |-> TRUE, count |-> 0]
      BY <1>1, <2>4 DEF CheckoutMeters, CreateUsage, BillingTypeOK
    <3>2. UNCHANGED delivered
      BY <2>4 DEF CheckoutMeters
    <3>3. Leaves(q)
      BY <2>4 DEF CheckoutMeters
    <3> QED BY <1>1, <1>2, <1>4, <3>1, <3>2, <3>3, NoCountRead
  <2> QED BY <1>9, <2>1, <2>2, <2>3, <2>4 DEF Checkout
<1>10. ASSUME NEW s \in Sub, Webhook(s) PROVE MeterInv'
  BY <1>3, <1>10 DEF Webhook, HandleUnreadCheckout, HandleSubscriptionUpdated,
       HandleSubscriptionDeleted,
       HandleInvoicePaid, HandleInvoicePaymentFailed, HandlePaymentSucceeded,
       HandlePaymentFailed, local
<1>11. ASSUME NEW e \in Event, AnswerLost(e[1], e[2]) PROVE MeterInv'
  BY <1>3, <1>11 DEF AnswerLost, local
<1> QED BY <1>6, <1>7, <1>8, <1>9, <1>10, <1>11 DEF Next

LEMMA MeterInit == Init => MeterInv
<1> SUFFICES ASSUME Init PROVE MeterInv
  OBVIOUS
<1>1. \A q \in Request : req[q].pc = "idle"
  BY IdleTyped DEF Init
<1>2. \A k \in Key : usage[k].count = 0
  BY DEF Init
<1>3. OneCounted
  BY <1>1, <1>2 DEF OneCounted, Counted, Pending
<1>4. CountsBehind
  BY <1>1, <1>2 DEF CountsBehind, Pending, Init
<1> QED BY <1>3, <1>4, InitTyped DEF MeterInv

(* Whatever is lost, repeated or late, only one record ever has a count,    *)
(* and it is no more than the deliveries.                                   *)
THEOREM NoDeliveryTwice == Spec => []NeverOverMetered
<1>1. MeterInv => NeverOverMetered
  <2> SUFFICES ASSUME MeterInv, NEW k \in Key
               PROVE  /\ usage[k].count <= delivered
                      /\ usage[k].count > 0 => \A j \in Key \ {k} : usage[j].count = 0
    BY DEF NeverOverMetered
  <2>1. \A j \in Key : usage[j].count \in Nat
    BY DEF MeterInv, BillingTypeOK, UsageRow
  <2>2. usage[k].count > 0 => \A j \in Key \ {k} : ~(usage[j].count > 0)
    BY DEF MeterInv, OneCounted, Counted
  <2> QED BY <2>1, <2>2 DEF MeterInv, CountsBehind
<1> QED BY <1>1, MeterInit, MeterNext, PTL DEF Spec

-----------------------------------------------------------------------------
(* What was answered with success is on record.  The induction needs that   *)
(* nothing was asked of Stripe, and so nothing is told by it, before the    *)
(* customer has its row.                                                    *)

KnownFirst == (\E s \in Sub : Asked(s)) => customer

RecordInv == FreeInv /\ KnownFirst /\ AnsweredIsRecorded

LEMMA CustomerStays ==
  ASSUME BillingTypeOK, [Next]_vars, KnownFirst
  PROVE  KnownFirst'
<1>1. ASSUME NEW s \in Sub, CreateCheckoutSession(s) PROVE customer'
  BY <1>1 DEF CreateCheckoutSession, GetOrCreateBillingCustomer, CreateCustomer
<1>2. ASSUME UNCHANGED customer, \A s \in Sub : Asked(s)' => \E x \in Sub : Asked(x)
      PROVE  KnownFirst'
  BY <1>2 DEF KnownFirst
<1>3. ASSUME UNCHANGED <<customer, stripe>> PROVE KnownFirst'
  BY <1>2, <1>3 DEF Asked
<1>4. ASSUME NEW x \in Sub, Asked(x), UNCHANGED customer PROVE KnownFirst'
  BY <1>4 DEF KnownFirst
<1>5. CASE UserRequest
  <2>1. ASSUME NEW s \in Sub, NEW q \in Request,
               \/ ChangePlan(q, s) \/ ReactivateSubscription(q, s)
               \/ \E immediately \in BOOLEAN : CancelSubscription(q, s, immediately)
        PROVE  KnownFirst'
    BY <1>4, <2>1 DEF ChangePlan, ReactivateSubscription, CancelSubscription, AskStripe,
                      Asked, local
  <2>2. ASSUME NEW q \in Request, \/ StoreSubscription(q) \/ StorePlan(q) \/ StoreUsage(q)
                                 \/ RecordDelivery(q) \/ IncrementDeliveryCount(q)
        PROVE  KnownFirst'
    BY <1>3, <2>2 DEF StoreSubscription, StorePlan, StoreUsage, RecordDelivery,
                      IncrementDeliveryCount, local
  <2> QED BY <1>1, <1>5, <2>1, <2>2 DEF UserRequest, KnownFirst
<1>6. CASE StripeMoves
  <2>1. ASSUME NEW s \in Sub,
               \/ CompleteCheckout(s) \/ EndSubscription(s)
               \/ \E type \in Types : Charge(s, type)
        PROVE  KnownFirst'
    BY <1>4, <2>1 DEF CompleteCheckout, EndSubscription, Charge, Asked, local
  <2> QED BY <1>6, <2>1 DEF StripeMoves
<1>7. ASSUME NEW q \in Request, Checkout(q) \/ Stop(q) PROVE KnownFirst'
  BY <1>3, <1>7 DEF Checkout, HandleCheckoutCompleted, CheckoutUpdates, CheckoutCreates,
                    CheckoutMeters, Stop, local
<1>8. ASSUME NEW s \in Sub, Webhook(s) PROVE KnownFirst'
  BY <1>3, <1>8 DEF Webhook, HandleUnreadCheckout, HandleSubscriptionUpdated,
       HandleSubscriptionDeleted,
       HandleInvoicePaid, HandleInvoicePaymentFailed, HandlePaymentSucceeded,
       HandlePaymentFailed, local
<1>9. ASSUME NEW e \in Event, AnswerLost(e[1], e[2]) PROVE KnownFirst'
  BY <1>3, <1>9 DEF AnswerLost, local
<1>10. CASE UNCHANGED vars
  BY <1>3, <1>10 DEF vars, local
<1> QED BY <1>5, <1>6, <1>7, <1>8, <1>9, <1>10 DEF Next

Bill == {"invoice_paid", "invoice_failed"}
Money == {"payment_succeeded", "payment_failed"}

(* An event becomes one that was answered only by the handler of its type.  *)
LEMMA AnsweredBy ==
  ASSUME BillingTypeOK, [Next]_vars, NEW s \in Sub, NEW type \in Bill \cup Money,
         event'[<<type, s>>] = "done", event[<<type, s>>] # "done"
  PROVE  /\ type \in Bill => HandleInvoicePaid(s) \/ HandleInvoicePaymentFailed(s)
         /\ type \in Money => HandlePaymentSucceeded(s) \/ HandlePaymentFailed(s)
<1> DEFINE Goal ==
      /\ type \in Bill => HandleInvoicePaid(s) \/ HandleInvoicePaymentFailed(s)
      /\ type \in Money => HandlePaymentSucceeded(s) \/ HandlePaymentFailed(s)
<1>0. <<type, s>> \in Event /\ type \notin {"completed", "updated", "deleted"}
  BY DEF Bill, Money, Types
<1>1. ASSUME UNCHANGED event PROVE FALSE
  BY <1>1
<1>2. ASSUME NEW es, Sends(es) PROVE FALSE
  BY <1>0, <1>2 DEF Sends
<1>3. ASSUME NEW other, NEW x, NEW status, Answer(other, x, status)
      PROVE  other = type /\ x = s /\ status = "done"
  BY <1>0, <1>3 DEF Answer, BillingTypeOK
<1>4. CASE UNCHANGED vars
  BY <1>1, <1>4 DEF vars
<1>5. CASE UserRequest
  <2>1. ASSUME NEW x \in Sub, NEW q \in Request,
               \/ ChangePlan(q, x) \/ ReactivateSubscription(q, x)
               \/ \E immediately \in BOOLEAN : CancelSubscription(q, x, immediately)
        PROVE  FALSE
    BY <1>2, <2>1 DEF ChangePlan, ReactivateSubscription, CancelSubscription
  <2>2. ASSUME \/ \E x \in Sub : CreateCheckoutSession(x)
               \/ \E q \in Request :
                    \/ StoreSubscription(q) \/ StorePlan(q) \/ StoreUsage(q)
                    \/ RecordDelivery(q) \/ IncrementDeliveryCount(q)
        PROVE  FALSE
    BY <1>1, <2>2 DEF CreateCheckoutSession, StoreSubscription, StorePlan, StoreUsage,
                      RecordDelivery, IncrementDeliveryCount
  <2> QED BY <1>5, <2>1, <2>2 DEF UserRequest
<1>6. CASE StripeMoves
  BY <1>2, <1>6 DEF StripeMoves, CompleteCheckout, EndSubscription, Charge
<1>7. ASSUME NEW q \in Request, Checkout(q) \/ Stop(q) PROVE FALSE
  BY <1>0, <1>1, <1>3, <1>7 DEF Checkout, HandleCheckoutCompleted, CheckoutUpdates,
                                CheckoutCreates, CheckoutMeters, Stop
<1>8. ASSUME NEW x \in Sub, Webhook(x) PROVE Goal
  <2>1. \/ HandleUnreadCheckout(x) \/ HandleSubscriptionUpdated(x)
        \/ HandleSubscriptionDeleted(x)
        => Goal
    BY <1>0, <1>3
       DEF HandleUnreadCheckout, HandleSubscriptionUpdated, HandleSubscriptionDeleted
  <2>2. CASE HandleInvoicePaid(x) \/ HandleInvoicePaymentFailed(x)
    <3>1. x = s /\ type \in Bill
      BY <1>3, <2>2 DEF HandleInvoicePaid, HandleInvoicePaymentFailed, Bill
    <3> QED BY <2>2, <3>1 DEF Bill, Money
  <2>3. CASE HandlePaymentSucceeded(x) \/ HandlePaymentFailed(x)
    <3>1. x = s /\ type \in Money
      BY <1>3, <2>3 DEF HandlePaymentSucceeded, HandlePaymentFailed, Money
    <3> QED BY <2>3, <3>1 DEF Bill, Money
  <2> QED BY <1>8, <2>1, <2>2, <2>3 DEF Webhook
<1>9. ASSUME NEW e \in Event, AnswerLost(e[1], e[2]) PROVE FALSE
  BY <1>3, <1>9 DEF AnswerLost
<1> QED BY <1>4, <1>5, <1>6, <1>7, <1>8, <1>9 DEF Next

(* A record is never taken away.                                            *)
LEMMA RecordsStay ==
  ASSUME BillingTypeOK, [Next]_vars, NEW s \in Sub
  PROVE  /\ invoice[s] # "none" => invoice'[s] # "none"
         /\ payment[s] # "none" => payment'[s] # "none"
<1>1. CASE UNCHANGED <<invoice, payment>>
  BY <1>1
<1>2. ASSUME NEW x \in Sub, Webhook(x) PROVE
         /\ invoice[s] # "none" => invoice'[s] # "none"
         /\ payment[s] # "none" => payment'[s] # "none"
  BY <1>2 DEF Webhook, HandleUnreadCheckout, HandleSubscriptionUpdated,
       HandleSubscriptionDeleted,
       HandleInvoicePaid, HandleInvoicePaymentFailed, HandlePaymentSucceeded,
       HandlePaymentFailed, StoreInvoice, StorePayment, BillingTypeOK, local
<1>3. CASE UserRequest
  BY <1>1, <1>3 DEF UserRequest, CreateCheckoutSession, ChangePlan, CancelSubscription,
       ReactivateSubscription, StoreSubscription, StorePlan, StoreUsage, RecordDelivery,
       IncrementDeliveryCount, local
<1>4. CASE \/ UNCHANGED vars \/ StripeMoves
           \/ \E e \in Event : AnswerLost(e[1], e[2])
  BY <1>1, <1>4 DEF vars, StripeMoves, CompleteCheckout, EndSubscription, Charge,
       AnswerLost, local
<1>5. ASSUME NEW q \in Request, Checkout(q) \/ Stop(q) PROVE UNCHANGED <<invoice, payment>>
  BY <1>5 DEF Checkout, HandleCheckoutCompleted, CheckoutUpdates, CheckoutCreates,
              CheckoutMeters, Stop, local
<1> QED BY <1>1, <1>2, <1>3, <1>4, <1>5 DEF Next

LEMMA RecordNext ==
  ASSUME RecordInv, [Next]_vars
  PROVE  RecordInv'
<1>1. FreeInv' /\ KnownFirst' /\ BillingTypeOK
  BY FreeNext, CustomerStays DEF RecordInv, FreeInv
<1>2. ASSUME NEW s \in Sub, NEW type \in Types, Arrives(type, s) PROVE customer
  <2>1. <<type, s>> \in Event /\ <<type, s>>[2] = s
    OBVIOUS
  <2> QED BY <1>2, <2>1 DEF Arrives, RecordInv, FreeInv, NothingUnasked, KnownFirst
<1>3. ASSUME NEW s \in Sub, NEW type \in Bill, event'[<<type, s>>] = "done"
      PROVE  invoice'[s] # "none"
  <2>1. CASE event[<<type, s>>] = "done"
    <3>1. invoice[s] # "none"
      BY <2>1 DEF RecordInv, AnsweredIsRecorded, Bill
    <3> QED BY <1>1, <3>1, RecordsStay
  <2>2. CASE event[<<type, s>>] # "done"
    <3>1. HandleInvoicePaid(s) \/ HandleInvoicePaymentFailed(s)
      BY <1>1, <1>3, <2>2, AnsweredBy
    <3>2. customer
      BY <1>2, <3>1 DEF HandleInvoicePaid, HandleInvoicePaymentFailed, Types
    <3> QED BY <1>1, <3>1, <3>2
            DEF HandleInvoicePaid, HandleInvoicePaymentFailed, StoreInvoice, BillingTypeOK
  <2> QED BY <2>1, <2>2
<1>4. ASSUME NEW s \in Sub, NEW type \in Money, event'[<<type, s>>] = "done"
      PROVE  payment'[s] # "none"
  <2>1. CASE event[<<type, s>>] = "done"
    <3>1. payment[s] # "none"
      BY <2>1 DEF RecordInv, AnsweredIsRecorded, Money
    <3> QED BY <1>1, <3>1, RecordsStay
  <2>2. CASE event[<<type, s>>] # "done"
    <3>1. HandlePaymentSucceeded(s) \/ HandlePaymentFailed(s)
      BY <1>1, <1>4, <2>2, AnsweredBy
    <3>2. customer
      BY <1>2, <3>1 DEF HandlePaymentSucceeded, HandlePaymentFailed, Types
    <3> QED BY <1>1, <3>1, <3>2
            DEF HandlePaymentSucceeded, HandlePaymentFailed, StorePayment, BillingTypeOK
  <2> QED BY <2>1, <2>2
<1>5. AnsweredIsRecorded'
  BY <1>3, <1>4 DEF AnsweredIsRecorded, Bill, Money
<1> QED BY <1>1, <1>5 DEF RecordInv

LEMMA RecordInit == Init => RecordInv
<1> SUFFICES ASSUME Init PROVE RecordInv
  OBVIOUS
<1>1. \A s \in Sub : stripe[s].status = "none"
  BY DEF Init
<1>2. \A s \in Sub, type \in Types : event[<<type, s>>] = "unsent"
  BY DEF Init
<1>3. AnsweredIsRecorded
  BY <1>2 DEF AnsweredIsRecorded, Types
<1> QED BY <1>1, <1>3, FreeInit DEF RecordInv, KnownFirst, Asked

(* No bill and no payment that Stripe was told is stored here is missing:   *)
(* the safety half of MoneyIsRecorded, and for what failed as well.         *)
THEOREM NothingAnsweredIsDropped == Spec => []AnsweredIsRecorded
<1>1. RecordInv => AnsweredIsRecorded
  BY DEF RecordInv
<1> QED BY <1>1, RecordInit, RecordNext, PTL DEF Spec

-----------------------------------------------------------------------------
(* Who writes the row of a subscription, and what a request that holds one  *)
(* found when it took it up.                                                *)

LEMMA SubWritten ==
  ASSUME BillingTypeOK, [Next]_vars
  PROVE  \/ UNCHANGED sub
         \/ \E q \in Request :
              /\ req[q].pc \in Holding /\ UpdateSub(req[q].key, req[q].row)
              /\ req'[q].pc \notin Holding \cup {"create"}
         \/ \E q \in Request :
              /\ req[q].pc = "create" /\ sub[req[q].of] = NoSub
              /\ UpdateSub(req[q].of, ActiveSub)
              /\ req'[q].pc \notin Holding \cup {"create"}
         \/ \E s \in Sub : sub' = [sub EXCEPT ![s].status = "canceled"] /\ UNCHANGED req
<1>0. ASSUME NEW q \in Request, Leaves(q) PROVE req'[q].pc = "idle"
  BY <1>0, IdleTyped DEF Leaves, BillingTypeOK
<1>1. ASSUME NEW q \in Request, StoreSubscription(q) \/ CheckoutUpdates(q)
      PROVE  /\ req[q].pc \in Holding /\ UpdateSub(req[q].key, req[q].row)
             /\ req'[q].pc \notin Holding \cup {"create"}
  BY <1>0, <1>1 DEF StoreSubscription, CheckoutUpdates, Holding
<1>2. ASSUME NEW q \in Request, StorePlan(q)
      PROVE  /\ req[q].pc \in Holding /\ UpdateSub(req[q].key, req[q].row)
             /\ req'[q].pc \notin Holding \cup {"create"}
  <2>1. ASSUME NEW k, Enters(q, [Idle EXCEPT !.pc = "limiting", !.key = k,
                                              !.count = usage[k].count])
        PROVE  req'[q].pc = "limiting"
    <3>1. [Idle EXCEPT !.pc = "limiting", !.key = k, !.count = usage[k].count].pc = "limiting"
      BY DEF Idle
    <3> QED BY <2>1, <3>1 DEF Enters, BillingTypeOK
  <2> QED BY <1>0, <1>2, <2>1 DEF StorePlan, Holding
<1>3. ASSUME NEW q \in Request, CheckoutCreates(q)
      PROVE  \/ UNCHANGED sub
             \/ /\ req[q].pc = "create" /\ sub[req[q].of] = NoSub
                /\ UpdateSub(req[q].of, ActiveSub)
                /\ req'[q].pc \notin Holding \cup {"create"}
  <2>1. req[q] \in Requests
    BY DEF BillingTypeOK
  <2>2. [req[q] EXCEPT !.pc = "usage"].pc = "usage"
    BY <2>1 DEF Requests
  <2>3. ASSUME Enters(q, [req[q] EXCEPT !.pc = "usage"]) PROVE req'[q].pc = "usage"
    BY <2>2, <2>3 DEF Enters, BillingTypeOK
  <2> QED BY <1>3, <2>3 DEF CheckoutCreates, Holding
<1>4. ASSUME NEW s \in Sub, Webhook(s)
      PROVE  \/ UNCHANGED sub
             \/ sub' = [sub EXCEPT ![s].status = "canceled"] /\ UNCHANGED req
  BY <1>4 DEF Webhook, HandleUnreadCheckout, HandleSubscriptionUpdated,
       HandleSubscriptionDeleted,
       HandleInvoicePaid, HandleInvoicePaymentFailed, HandlePaymentSucceeded,
       HandlePaymentFailed, local
<1>5. CASE UserRequest
  BY <1>1, <1>2, <1>5 DEF UserRequest, CreateCheckoutSession, ChangePlan,
       CancelSubscription, ReactivateSubscription, StoreUsage, RecordDelivery,
       IncrementDeliveryCount, local
<1>6. ASSUME NEW q \in Request, Checkout(q) \/ Stop(q)
      PROVE  \/ UNCHANGED sub \/ CheckoutUpdates(q) \/ CheckoutCreates(q)
  BY <1>6 DEF Checkout, HandleCheckoutCompleted, CheckoutMeters, Stop, local
<1>7. CASE \/ UNCHANGED vars \/ StripeMoves
           \/ \E e \in Event : AnswerLost(e[1], e[2])
  BY <1>7 DEF vars, StripeMoves, CompleteCheckout, EndSubscription, Charge, AnswerLost, local
<1> QED BY <1>1, <1>3, <1>4, <1>5, <1>6, <1>7 DEF Next

(* A request takes up the row that is current at that moment.               *)
LEMMA RowTaken ==
  ASSUME BillingTypeOK, [Next]_vars, NEW p \in Request, req'[p] # req[p],
         req'[p].pc \in Holding
  PROVE  /\ UNCHANGED sub
         /\ IsCurrent(req'[p].key)
         /\ req'[p].row.status \in {"active", "canceled"}
<1> DEFINE Good == /\ UNCHANGED sub
                   /\ IsCurrent(req'[p].key)
                   /\ req'[p].row.status \in {"active", "canceled"}
<1>0. ASSUME NEW k, IsCurrent(k) PROVE k \in Key /\ sub[k].status = "active"
  BY <1>0 DEF IsCurrent, Current
<1>1. ASSUME NEW q \in Request, Leaves(q) PROVE FALSE
  BY <1>1, IdleTyped DEF Leaves, BillingTypeOK, Holding
<1>2. ASSUME NEW q \in Request, NEW rec, Enters(q, rec) PROVE req'[p] = rec
  BY <1>2 DEF Enters, BillingTypeOK
<1>3. ASSUME UNCHANGED req PROVE FALSE
  BY <1>3
<1>4. ASSUME NEW k, IsCurrent(k), UNCHANGED sub, NEW q \in Request, NEW rec,
             Enters(q, rec), rec.key = k, rec.row.status \in {"active", "canceled"}
      PROVE  Good
  BY <1>2, <1>4
<1> HIDE DEF Good
<1>5. CASE UserRequest
  <2>1. ASSUME NEW s \in Sub, NEW q \in Request, ChangePlan(q, s) PROVE Good
    <3> DEFINE rec == [Idle EXCEPT !.pc = "planned", !.key = s, !.row = sub[s]]
    <3>1. IsCurrent(s) /\ UNCHANGED sub /\ Enters(q, rec)
      BY <2>1 DEF ChangePlan, AskStripe, local
    <3>2. rec.key = s /\ rec.row.status = "active"
      BY <1>0, <3>1 DEF Idle
    <3> HIDE DEF rec
    <3> QED BY <1>4, <3>1, <3>2
  <2>2. ASSUME NEW s \in Sub, NEW q \in Request, NEW immediately \in BOOLEAN,
               CancelSubscription(q, s, immediately)
        PROVE  Good
    <3> DEFINE row == IF immediately THEN [sub[s] EXCEPT !.status = "canceled"]
                                     ELSE [sub[s] EXCEPT !.ending = TRUE]
               rec == [Idle EXCEPT !.pc = "cancelled", !.key = s, !.row = row]
    <3>1. IsCurrent(s) /\ UNCHANGED sub /\ Enters(q, rec)
      BY <2>2 DEF CancelSubscription, AskStripe, local
    <3>2. sub[s] \in SubRow /\ sub[s].status = "active"
      BY <1>0, <3>1 DEF BillingTypeOK
    <3>3. row.status \in {"active", "canceled"}
      BY <3>2 DEF SubRow
    <3>4. rec.key = s /\ rec.row = row
      BY DEF Idle
    <3> HIDE DEF rec, row
    <3> QED BY <1>4, <3>1, <3>3, <3>4
  <2>3. ASSUME NEW s \in Sub, NEW q \in Request, ReactivateSubscription(q, s) PROVE Good
    <3> DEFINE rec == [Idle EXCEPT !.pc = "reactivated", !.key = s,
                                   !.row = [sub[s] EXCEPT !.ending = FALSE]]
    <3>1. IsCurrent(s) /\ UNCHANGED sub /\ Enters(q, rec)
      BY <2>3 DEF ReactivateSubscription, AskStripe, local
    <3>2. sub[s] \in SubRow /\ sub[s].status = "active"
      BY <1>0, <3>1 DEF BillingTypeOK
    <3>3. rec.key = s /\ rec.row.status = "active"
      BY <3>2 DEF Idle, SubRow
    <3> HIDE DEF rec
    <3> QED BY <1>4, <3>1, <3>3
  <2>4. ASSUME NEW q \in Request, NEW k, NEW n, NEW pc \in {"limiting", "metering"},
               Enters(q, [Idle EXCEPT !.pc = pc, !.key = k, !.count = n])
        PROVE  FALSE
    <3>1. [Idle EXCEPT !.pc = pc, !.key = k, !.count = n].pc = pc
      BY DEF Idle
    <3> QED BY <1>2, <2>4, <3>1 DEF Holding
  <2>5. ASSUME NEW q \in Request, \/ StoreSubscription(q) \/ StorePlan(q) \/ StoreUsage(q)
                                 \/ RecordDelivery(q) \/ IncrementDeliveryCount(q)
        PROVE  FALSE
    BY <1>1, <1>3, <2>4, <2>5 DEF StoreSubscription, StorePlan, StoreUsage, RecordDelivery,
                                  IncrementDeliveryCount
  <2>6. ASSUME NEW s \in Sub, CreateCheckoutSession(s) PROVE FALSE
    BY <1>3, <2>6 DEF CreateCheckoutSession
  <2> QED BY <1>5, <2>1, <2>2, <2>3, <2>5, <2>6 DEF UserRequest, Good
<1>6. ASSUME NEW q \in Request, Checkout(q) \/ Stop(q) PROVE Good
  <2>1. ASSUME NEW s \in Sub, NEW k \in Key, IsCurrent(k), UNCHANGED sub,
               Enters(q, [Idle EXCEPT !.pc = "update", !.key = k, !.row = ActiveSub, !.of = s])
        PROVE  Good
    <3> DEFINE rec == [Idle EXCEPT !.pc = "update", !.key = k, !.row = ActiveSub, !.of = s]
    <3>1. rec.key = k /\ rec.row.status = "active"
      BY DEF Idle, ActiveSub
    <3> HIDE DEF rec
    <3> QED BY <1>4, <2>1, <3>1 DEF rec
  <2>2. ASSUME NEW s \in Sub,
               Enters(q, [Idle EXCEPT !.pc = "create", !.key = s, !.of = s])
        PROVE  FALSE
    <3>1. [Idle EXCEPT !.pc = "create", !.key = s, !.of = s].pc = "create"
      BY DEF Idle
    <3> QED BY <1>2, <2>2, <3>1 DEF Holding
  <2>3. ASSUME Enters(q, [req[q] EXCEPT !.pc = "usage"]) PROVE FALSE
    <3>1. [req[q] EXCEPT !.pc = "usage"].pc = "usage"
      BY DEF BillingTypeOK, Requests
    <3> QED BY <1>2, <2>3, <3>1 DEF Holding
  <2> QED BY <1>1, <1>6, <2>1, <2>2, <2>3
          DEF Checkout, HandleCheckoutCompleted, CheckoutUpdates, CheckoutCreates,
              CheckoutMeters, Stop, local
<1>7. ASSUME \/ UNCHANGED vars \/ StripeMoves
             \/ \E s \in Sub : Webhook(s)
             \/ \E e \in Event : AnswerLost(e[1], e[2])
      PROVE  FALSE
  <2>1. ASSUME NEW s \in Sub, Webhook(s) PROVE UNCHANGED req
    BY <2>1 DEF Webhook, HandleUnreadCheckout, HandleSubscriptionUpdated,
       HandleSubscriptionDeleted,
         HandleInvoicePaid, HandleInvoicePaymentFailed, HandlePaymentSucceeded,
         HandlePaymentFailed
  <2> QED BY <1>3, <1>7, <2>1
          DEF vars, StripeMoves, CompleteCheckout, EndSubscription, Charge, AnswerLost
<1> QED BY <1>5, <1>6, <1>7 DEF Next, Good

HeldRows ==
  \A q \in Request : req[q].pc \in Holding => req[q].row.status \in {"active", "canceled"}

HeldInv == BillingTypeOK /\ HeldRows

LEMMA HeldNext ==
  ASSUME HeldInv, [Next]_vars
  PROVE  HeldInv'
<1>1. BillingTypeOK'
  BY NextTyped DEF HeldInv
<1>2. ASSUME NEW q \in Request, req'[q].pc \in Holding
      PROVE  req'[q].row.status \in {"active", "canceled"}
  BY <1>2, RowTaken DEF HeldInv, HeldRows
<1> QED BY <1>1, <1>2 DEF HeldInv, HeldRows

LEMMA HeldInit == Init => HeldInv
<1> SUFFICES ASSUME Init PROVE HeldInv
  OBVIOUS
<1>1. \A q \in Request : req[q].pc = "idle"
  BY IdleTyped DEF Init
<1> QED BY <1>1, InitTyped DEF HeldInv, HeldRows, Holding

LEMMA BroughtBackByHolder ==
  ASSUME HeldInv, [Next]_vars, NEW s \in Sub,
         sub[s].status = "canceled", sub'[s].status # "canceled"
  PROVE  \E q \in Request : /\ req[q].pc \in Holding
                            /\ req[q].key = s /\ req[q].row.status = "active"
<1>0. BillingTypeOK /\ HeldRows
  BY DEF HeldInv
<1>1. ASSUME NEW k, NEW row, UpdateSub(k, row) PROVE k = s /\ row.status # "canceled"
  BY <1>0, <1>1 DEF UpdateSub, BillingTypeOK
<1>2. ASSUME NEW x \in Sub, sub' = [sub EXCEPT ![x].status = "canceled"] PROVE FALSE
  BY <1>0, <1>2 DEF BillingTypeOK, SubRow
<1>3. ASSUME NEW q \in Request, sub[req[q].of] = NoSub, UpdateSub(req[q].of, ActiveSub)
      PROVE  FALSE
  BY <1>1, <1>3 DEF NoSub
<1>4. PICK q \in Request : req[q].pc \in Holding /\ UpdateSub(req[q].key, req[q].row)
  BY <1>0, <1>2, <1>3, SubWritten
<1> QED BY <1>0, <1>1, <1>4 DEF HeldRows

(* Late and repeated events and new checkouts never bring a canceled        *)
(* subscription back, a request that overlapped with its end may.           *)
THEOREM OnlyOverlapBringsBack == Spec => CanceledStays
<1>1. ASSUME HeldInv, [Next]_vars
      PROVE  [\A s \in Sub : sub[s].status = "canceled" /\ sub'[s].status # "canceled" =>
               \E q \in Request :
                 /\ req[q].pc \in {"planned", "cancelled", "reactivated", "update"}
                 /\ req[q].key = s /\ req[q].row.status = "active"]_vars
  BY <1>1, BroughtBackByHolder DEF Holding
<1> QED BY <1>1, HeldInit, HeldNext, PTL DEF Spec, CanceledStays

-----------------------------------------------------------------------------
(* Two subscriptions at a time.  The look-up of the current subscription    *)
(* finds none when there are two, and nothing ends one of them; that takes  *)
(* two requests or webhooks that overlap.                                   *)

OneSub == \A j, k \in Current : j = k

TakesTurns ==
  \A q \in Request :
    /\ req[q].pc \in Holding => Current \subseteq {req[q].key}
    /\ req[q].pc = "create" => Current = {}

TurnInv == BillingTypeOK /\ OneSub /\ TakesTurns

(* The webhook of a checkout makes a row when it finds no current one.      *)
LEMMA CreateTaken ==
  ASSUME BillingTypeOK, [Next]_vars, NEW p \in Request, req'[p] # req[p],
         req'[p].pc = "create"
  PROVE  NoneCurrent /\ UNCHANGED sub
<1>0. UNCHANGED sub /\ (\E s \in Sub : HandleCheckoutCompleted(p, s))
  <2>1. ASSUME NEW q \in Request, Leaves(q) PROVE FALSE
    BY <2>1, IdleTyped DEF Leaves, BillingTypeOK
  <2>2. ASSUME NEW q \in Request, NEW rec, Enters(q, rec) PROVE q = p /\ req'[p] = rec
    BY <2>2 DEF Enters, BillingTypeOK
  <2>3. ASSUME NEW q \in Request, NEW pc, NEW k, NEW n, pc # "create",
               Enters(q, [Idle EXCEPT !.pc = pc, !.key = k, !.count = n])
        PROVE  FALSE
    <3>1. [Idle EXCEPT !.pc = pc, !.key = k, !.count = n].pc = pc
      BY DEF Idle
    <3> QED BY <2>2, <2>3, <3>1
  <2>4. ASSUME NEW q \in Request, NEW pc, NEW k, NEW row, pc # "create",
               Enters(q, [Idle EXCEPT !.pc = pc, !.key = k, !.row = row])
        PROVE  FALSE
    <3>1. [Idle EXCEPT !.pc = pc, !.key = k, !.row = row].pc = pc
      BY DEF Idle
    <3> QED BY <2>2, <2>4, <3>1
  <2>5. ~UserRequest
    BY <2>1, <2>3, <2>4 DEF UserRequest, CreateCheckoutSession, ChangePlan,
       CancelSubscription, ReactivateSubscription, StoreSubscription, StorePlan,
       StoreUsage, RecordDelivery, IncrementDeliveryCount
  <2>6. ASSUME NEW q \in Request, Checkout(q) \/ Stop(q)
        PROVE  \E s \in Sub : HandleCheckoutCompleted(p, s)
    <3>1. [req[q] EXCEPT !.pc = "usage"].pc = "usage"
      BY DEF BillingTypeOK, Requests
    <3>2. ~Enters(q, [req[q] EXCEPT !.pc = "usage"])
      BY <2>2, <3>1
    <3> QED BY <2>1, <2>2, <2>6, <3>2 DEF Checkout, HandleCheckoutCompleted,
               CheckoutUpdates, CheckoutCreates, CheckoutMeters, Stop
  <2>7. ~(\/ UNCHANGED vars \/ StripeMoves \/ \E e \in Event : AnswerLost(e[1], e[2]))
    BY DEF vars, StripeMoves, CompleteCheckout, EndSubscription, Charge, AnswerLost
  <2>8. ASSUME NEW s \in Sub, Webhook(s) PROVE FALSE
    BY <2>8 DEF Webhook, HandleUnreadCheckout, HandleSubscriptionUpdated,
       HandleSubscriptionDeleted,
         HandleInvoicePaid, HandleInvoicePaymentFailed, HandlePaymentSucceeded,
         HandlePaymentFailed
  <2> QED BY <2>5, <2>6, <2>7, <2>8 DEF Next, HandleCheckoutCompleted, local
<1>1. PICK s \in Sub : HandleCheckoutCompleted(p, s)
  BY <1>0
<1>2. ASSUME NEW k,
             Enters(p, [Idle EXCEPT !.pc = "update", !.key = k, !.row = ActiveSub, !.of = s])
      PROVE  FALSE
  <2>1. [Idle EXCEPT !.pc = "update", !.key = k, !.row = ActiveSub, !.of = s].pc = "update"
    BY DEF Idle
  <2> QED BY <1>2, <2>1 DEF Enters, BillingTypeOK
<1> QED BY <1>0, <1>1, <1>2 DEF HandleCheckoutCompleted

LEMMA TurnNext ==
  ASSUME \A p, q \in Request : p = q, TurnInv, [Next]_vars
  PROVE  TurnInv'
<1>0. BillingTypeOK /\ BillingTypeOK' /\ OneSub /\ TakesTurns
  BY NextTyped DEF TurnInv
<1>1. CASE UNCHANGED sub
  <2>1. Current' = Current
    BY <1>1 DEF Current
  <2>2. ASSUME NEW q \in Request, req'[q].pc \in Holding, req'[q] # req[q]
        PROVE  Current \subseteq {req'[q].key}
    BY <1>0, <2>2, RowTaken DEF IsCurrent
  <2>3. ASSUME NEW q \in Request, req'[q].pc = "create", req'[q] # req[q]
        PROVE  Current = {}
    <3>1. NoneCurrent
      BY <1>0, <2>3, CreateTaken
    <3>2. ASSUME NEW k \in Current PROVE FALSE
      <4>1. Current = {k} /\ k \in Key
        BY <1>0, <3>2 DEF OneSub, Current
      <4> QED BY <3>1, <4>1 DEF NoneCurrent, IsCurrent
    <3> QED BY <3>2
  <2>4. TakesTurns'
    BY <1>0, <2>1, <2>2, <2>3 DEF TakesTurns
  <2>5. OneSub'
    BY <1>0, <2>1 DEF OneSub
  <2> QED BY <1>0, <2>4, <2>5 DEF TurnInv
<1>2. ASSUME NEW q \in Request, NEW k, NEW row, UpdateSub(k, row),
             Current \subseteq {k}, req'[q].pc \notin Holding \cup {"create"}
      PROVE  TurnInv'
  <2>1. \A j \in Key \ {k} : sub'[j] = sub[j]
    BY <1>0, <1>2 DEF UpdateSub, BillingTypeOK
  <2>2. Current' \subseteq {k}
    BY <1>2, <2>1 DEF Current
  <2>3. OneSub'
    BY <2>2 DEF OneSub
  <2>4. TakesTurns'
    BY <1>2 DEF TakesTurns
  <2> QED BY <1>0, <2>3, <2>4 DEF TurnInv
<1>3. ASSUME NEW s \in Sub, sub' = [sub EXCEPT ![s].status = "canceled"], UNCHANGED req
      PROVE  TurnInv'
  <2>1. Current' \subseteq Current
    BY <1>0, <1>3 DEF Current, BillingTypeOK, SubRow
  <2>2. OneSub' /\ TakesTurns'
    BY <1>0, <1>3, <2>1 DEF OneSub, TakesTurns
  <2> QED BY <1>0, <2>2 DEF TurnInv
<1>4. \A q \in Request : /\ req[q].pc \in Holding => Current \subseteq {req[q].key}
                         /\ req[q].pc = "create" => Current \subseteq {req[q].of}
  BY <1>0 DEF TakesTurns
<1> QED BY <1>0, <1>1, <1>2, <1>3, <1>4, SubWritten

LEMMA TurnInit == Init => TurnInv
<1> SUFFICES ASSUME Init PROVE TurnInv
  OBVIOUS
<1>1. \A q \in Request : req[q].pc = "idle"
  BY IdleTyped DEF Init
<1>2. \A k \in Key : sub[k].status = "active" => k = Free
  BY DEF Init, NoSub
<1>3. OneSub
  BY <1>2 DEF OneSub, Current
<1> QED BY <1>1, <1>3, InitTyped DEF TurnInv, TakesTurns, Holding

(* Where requests and checkouts of a customer take turns, it never has two  *)
(* active subscriptions, however often and late the events of Stripe come   *)
(* and wherever a request is stopped: it takes an overlap to have two, after *)
(* which the back end finds none (billing_service.py:820-893).              *)
THEOREM TakingTurnsKeepsOne ==
  ASSUME \A p, q \in Request : p = q
  PROVE  Spec => [](\A j, k \in Current : j = k)
<1>1. TurnInv => \A j, k \in Current : j = k
  BY DEF TurnInv, OneSub
<1>2. ASSUME TurnInv, [Next]_vars PROVE TurnInv'
  BY <1>2, TurnNext
<1> QED BY <1>1, <1>2, TurnInit, PTL DEF Spec

=============================================================================
