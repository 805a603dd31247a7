------------------------------ MODULE Billing ------------------------------
(***************************************************************************)
(* One billing customer of core/services/billing_service.py: the local     *)
(* subscriptions, usage records, invoices and payments, the subscriptions  *)
(* at Stripe, and the webhooks that tell the one of the other.  Stripe     *)
(* sends an event until it is answered with success, may send it again     *)
(* afterwards, and keeps no order between events.                          *)
(*                                                                         *)
(* One step per commit of a repository.  A handler or request that awaits  *)
(* between what it reads and what it writes has a step for each.           *)
(*                                                                         *)
(* Limits: one invoice and one payment for each subscription; plans, prices *)
(* and periods are left out, because the update of a subscription row does *)
(* not write its plan and the look-up of the current period does not ask   *)
(* for the date.                                                           *)
(***************************************************************************)
EXTENDS Naturals, FiniteSets

CONSTANTS
  Sub,            \* ids of subscriptions at Stripe
  Free,           \* the key of the row of the free plan, which has no such id
  Request,        \* slots for requests and webhooks that overlap
  Nil,
  EventsOf,       \* the types of events an instance lets Stripe send of each
  MaxDeliveries,  \* bound of the model on reported deliveries
  MaxStops        \* bound of the model on requests and answers that are lost

Types ==
  {"completed", "updated", "deleted", "invoice_paid", "invoice_failed",
   "payment_succeeded", "payment_failed"}

ASSUME SubsAreFinite == IsFiniteSet(Sub)
ASSUME FreeIsNoSub == Free \notin Sub /\ Nil \notin Sub \cup {Free}
ASSUME EventsAreTyped == EventsOf \in [Sub -> SUBSET Types]
ASSUME BillingBounds == MaxDeliveries \in Nat /\ MaxStops \in Nat

VARIABLES
  customer,   \* the customer has a row in billing_customers
  sub,        \* table subscriptions, keyed by its unique Stripe id
  usage,      \* table usage_records, keyed by the subscription it was made for
  invoice,    \* status in table invoices of the invoice of each subscription
  payment,    \* status in table payments of the payment of each subscription
  stripe,     \* the subscriptions at Stripe
  event,      \* what became of each event
  delivered,  \* deliveries that couriers reported
  req,        \* requests and webhooks in progress
  stops

local == <<customer, sub, usage, invoice, payment>>
vars == <<local, stripe, event, delivered, req, stops>>

Key == Sub \cup {Free}
Event == Types \X Sub

SubRow == [status: {"none", "active", "canceled"}, ending: BOOLEAN]
UsageRow == [made: BOOLEAN, count: Nat]
StripeSub == [status: {"none", "session", "active", "canceled"}, ending: BOOLEAN]
InvoiceStatus == {"none", "open", "paid"}
PaymentStatus == {"none", "failed", "succeeded"}
EventStatus == {"unsent", "sent", "done"}
Requests ==
  [pc: {"idle", "create", "usage", "update", "planned", "cancelled", "reactivated",
        "limiting", "metering"},
   key: Key \cup {Nil},   \* the row in hand
   row: SubRow,           \* what will be written to it
   of: Sub \cup {Nil},    \* the subscription of the event in hand
   count: Nat]            \* the count that was read

NoSub == [status |-> "none", ending |-> FALSE]
ActiveSub == [status |-> "active", ending |-> FALSE]
NoUsage == [made |-> FALSE, count |-> 0]
Idle == [pc |-> "idle", key |-> Nil, row |-> NoSub, of |-> Nil, count |-> 0]

(* What a registration leaves: its failures are swallowed, so it may stop   *)
(* before the customer, before the free subscription or before its usage    *)
(* record.  Users that an order creates for a recipient have none of them.  *)
Init ==
  /\ \E made \in 0..3 :
       /\ customer = (made >= 1)
       /\ sub = [k \in Key |-> IF k = Free /\ made >= 2 THEN ActiveSub ELSE NoSub]
       /\ usage = [k \in Key |-> [made |-> k = Free /\ made >= 3, count |-> 0]]
  /\ invoice = [s \in Sub |-> "none"]
  /\ payment = [s \in Sub |-> "none"]
  /\ stripe = [s \in Sub |-> [status |-> "none", ending |-> FALSE]]
  /\ event = [e \in Event |-> "unsent"]
  /\ delivered = 0
  /\ req = [q \in Request |-> Idle]
  /\ stops = 0

-----------------------------------------------------------------------------
(* Repositories                                                            *)

(* The subscription of the customer: none when there are several.           *)
Current == {k \in Key : sub[k].status = "active"}
IsCurrent(k) == Current = {k}
NoneCurrent == \A k \in Key : ~IsCurrent(k)

UpdateSub(k, row) == sub' = [sub EXCEPT ![k] = row]

CreateUsage(k) == usage' = [usage EXCEPT ![k] = [made |-> TRUE, count |-> 0]]

(* The usage record of the customer: none when there are several.           *)
UsageRecords == {k \in Key : usage[k].made}
IsCurrentUsage(k) == UsageRecords = {k}
NoneMetered == \A k \in Key : ~IsCurrentUsage(k)

UpdateUsage(k, count) == usage' = [usage EXCEPT ![k].count = count]

(* The row of the customer is unique to its user: it is made once.          *)
CreateCustomer == customer' = TRUE
GetOrCreateBillingCustomer == IF customer THEN UNCHANGED customer ELSE CreateCustomer

(* The invoice and the payment are looked up by their ids at Stripe and made *)
(* or updated, for a customer that is known here.                           *)
StoreInvoice(s, status) ==
  invoice' = IF customer THEN [invoice EXCEPT ![s] = status] ELSE invoice
StorePayment(s, status) ==
  payment' = IF customer THEN [payment EXCEPT ![s] = status] ELSE payment

Enters(q, rec) == req' = [req EXCEPT ![q] = rec]
Leaves(q) == req' = [req EXCEPT ![q] = Idle]

(* Stripe sends an event when the instance lets it; once sent it stays.     *)
Sends(es) ==
  event' = [e \in Event |->
    IF e \in es /\ e[1] \in EventsOf[e[2]] THEN "sent" ELSE event[e]]

-----------------------------------------------------------------------------
(* Requests of the user                                                    *)

(* Mutant of CreateCheckoutSession: the active subscription is not refused. *)
CheckoutOverActive(s) ==
  /\ stripe[s].status = "none"
  /\ GetOrCreateBillingCustomer
  /\ stripe' = [stripe EXCEPT ![s].status = "session"]
  /\ UNCHANGED <<sub, usage, invoice, payment, event, delivered, req, stops>>

(* Mutant of CreateCheckoutSession: the customer's row is left to be made   *)
(* by the webhook of the checkout.                                          *)
CheckoutUnknownCustomer(s) ==
  /\ stripe[s].status = "none"
  /\ NoneCurrent
  /\ stripe' = [stripe EXCEPT ![s].status = "session"]
  /\ UNCHANGED <<local, event, delivered, req, stops>>

(* create_checkout_session: the customer's row is made when there is none;  *)
(* a second request of the same user loses the race for it and fails.       *)
CreateCheckoutSession(s) ==
  /\ stripe[s].status = "none"
  /\ NoneCurrent
  /\ GetOrCreateBillingCustomer
  /\ stripe' = [stripe EXCEPT ![s].status = "session"]
  /\ UNCHANGED <<sub, usage, invoice, payment, event, delivered, req, stops>>

(* change_plan, cancel_subscription and reactivate_subscription read the    *)
(* row, tell Stripe, and then write the row as they read it.  Stripe knows  *)
(* nothing of the free subscription and refuses what is cancelled there.    *)
AskStripe(q, s) ==
  /\ req[q].pc = "idle"
  /\ IsCurrent(s)
  /\ stripe[s].status = "active"

ChangePlan(q, s) ==
  /\ AskStripe(q, s)
  /\ Sends({<<"updated", s>>})
  /\ Enters(q, [Idle EXCEPT !.pc = "planned", !.key = s, !.row = sub[s]])
  /\ UNCHANGED <<local, stripe, delivered, stops>>

CancelSubscription(q, s, immediately) ==
  /\ AskStripe(q, s)
  /\ stripe' = [stripe EXCEPT ![s] = IF immediately
                  THEN [@ EXCEPT !.status = "canceled"] ELSE [@ EXCEPT !.ending = TRUE]]
  /\ Sends({<<IF immediately THEN "deleted" ELSE "updated", s>>})
  /\ Enters(q, [Idle EXCEPT !.pc = "cancelled", !.key = s,
       !.row = IF immediately THEN [sub[s] EXCEPT !.status = "canceled"]
                              ELSE [sub[s] EXCEPT !.ending = TRUE]])
  /\ UNCHANGED <<local, delivered, stops>>

ReactivateSubscription(q, s) ==
  /\ AskStripe(q, s)
  /\ sub[s].ending
  /\ stripe' = [stripe EXCEPT ![s].ending = FALSE]
  /\ Sends({<<"updated", s>>})
  /\ Enters(q, [Idle EXCEPT !.pc = "reactivated", !.key = s,
                            !.row = [sub[s] EXCEPT !.ending = FALSE]])
  /\ UNCHANGED <<local, delivered, stops>>

StoreSubscription(q) ==
  /\ req[q].pc \in {"cancelled", "reactivated"}
  /\ UpdateSub(req[q].key, req[q].row)
  /\ Leaves(q)
  /\ UNCHANGED <<customer, usage, invoice, payment, stripe, event, delivered, stops>>

(* change_plan goes on with the usage record, whose limit is not among the  *)
(* fields that its update writes; the count is.                             *)
StorePlan(q) ==
  /\ req[q].pc = "planned"
  /\ UpdateSub(req[q].key, req[q].row)
  /\ \/ NoneMetered /\ Leaves(q)
     \/ \E k \in Key :
          /\ IsCurrentUsage(k)
          /\ Enters(q, [Idle EXCEPT !.pc = "limiting", !.key = k,
                                    !.count = usage[k].count])
  /\ UNCHANGED <<customer, usage, invoice, payment, stripe, event, delivered, stops>>

StoreUsage(q) ==
  /\ req[q].pc = "limiting"
  /\ UpdateUsage(req[q].key, req[q].count)
  /\ Leaves(q)
  /\ UNCHANGED <<customer, sub, invoice, payment, stripe, event, delivered, stops>>

-----------------------------------------------------------------------------
(* Deliveries: record_delivery and increment_delivery_count                *)

RecordDelivery(q) ==
  /\ req[q].pc = "idle"
  /\ delivered < MaxDeliveries
  /\ delivered' = delivered + 1
  /\ \/ NoneMetered /\ UNCHANGED req
     \/ \E k \in Key :
          /\ IsCurrentUsage(k)
          /\ Enters(q, [Idle EXCEPT !.pc = "metering", !.key = k,
                                    !.count = usage[k].count])
  /\ UNCHANGED <<local, stripe, event, stops>>

(* Mutant of IncrementDeliveryCount: every record of the customer counts.   *)
IncrementEveryCount(q) ==
  /\ req[q].pc = "metering"
  /\ usage' = [k \in Key |-> IF usage[k].made
                 THEN [usage[k] EXCEPT !.count = @ + 1] ELSE usage[k]]
  /\ Leaves(q)
  /\ UNCHANGED <<customer, sub, invoice, payment, stripe, event, delivered, stops>>

(* The count that was read, plus one: another delivery may be lost.         *)
IncrementDeliveryCount(q) ==
  /\ req[q].pc = "metering"
  /\ UpdateUsage(req[q].key, req[q].count + 1)
  /\ Leaves(q)
  /\ UNCHANGED <<customer, sub, invoice, payment, stripe, event, delivered, stops>>

-----------------------------------------------------------------------------
(* Stripe                                                                  *)

(* The user pays in the session: a subscription, and an event of it.        *)
CompleteCheckout(s) ==
  /\ stripe[s].status = "session"
  /\ stripe' = [stripe EXCEPT ![s].status = "active"]
  /\ Sends({<<"completed", s>>})
  /\ UNCHANGED <<local, delivered, req, stops>>

(* A period that ends, the customer portal or unpaid bills cancel it.       *)
EndSubscription(s) ==
  /\ stripe[s].status = "active"
  /\ stripe' = [stripe EXCEPT ![s].status = "canceled"]
  /\ Sends({<<"deleted", s>>})
  /\ UNCHANGED <<local, delivered, req, stops>>

(* A bill is paid, at once or after attempts that failed.                   *)
Charge(s, type) ==
  /\ stripe[s].status = "active"
  /\ type \in {"invoice_paid", "invoice_failed", "payment_succeeded", "payment_failed"}
  /\ event[<<type, s>>] = "unsent"
  /\ type = "invoice_failed" => event[<<"invoice_paid", s>>] = "unsent"
  /\ type = "payment_failed" => event[<<"payment_succeeded", s>>] = "unsent"
  /\ type \in EventsOf[s]
  /\ Sends({<<type, s>>})
  /\ UNCHANGED <<local, stripe, delivered, req, stops>>

-----------------------------------------------------------------------------
(* Webhooks                                                                *)

(* An event that was answered may come again; one that was answered with an *)
(* error stays sent.                                                       *)
Arrives(type, s) == event[<<type, s>>] # "unsent"

Answer(type, s, status) == event' = [event EXCEPT ![<<type, s>>] = status]

(* checkout.session.completed.  A customer that has a subscription: its row *)
(* becomes active, and then the handler fails on a name it never bound.     *)
HandleCheckoutCompleted(q, s) ==
  /\ req[q].pc = "idle"
  /\ Arrives("completed", s)
  /\ \/ \E k \in Key :
          /\ IsCurrent(k)
          /\ Enters(q, [Idle EXCEPT !.pc = "update", !.key = k, !.row = ActiveSub, !.of = s])
     \/ /\ NoneCurrent
        /\ Enters(q, [Idle EXCEPT !.pc = "create", !.key = s, !.of = s])
  /\ UNCHANGED <<local, stripe, event, delivered, stops>>

(* What Stripe has of the subscription cannot be read, or the session lacks *)
(* its metadata: this is logged, and the event answered with success.       *)
HandleUnreadCheckout(s) ==
  /\ Arrives("completed", s)
  /\ Answer("completed", s, "done")
  /\ UNCHANGED <<local, stripe, delivered, req, stops>>

CheckoutUpdates(q) ==
  /\ req[q].pc = "update"
  /\ UpdateSub(req[q].key, req[q].row)
  /\ Answer("completed", req[q].of, "sent")
  /\ Leaves(q)
  /\ UNCHANGED <<customer, usage, invoice, payment, stripe, delivered, stops>>

(* Mutant of CheckoutCreates: a row that exists is made active.             *)
CheckoutRevives(q) ==
  /\ req[q].pc = "create"
  /\ UpdateSub(req[q].of, ActiveSub)
  /\ Enters(q, [req[q] EXCEPT !.pc = "usage"])
  /\ UNCHANGED <<customer, usage, invoice, payment, stripe, event, delivered, stops>>

(* The Stripe id of a row is unique: a second insert fails.                 *)
CheckoutCreates(q) ==
  /\ req[q].pc = "create"
  /\ IF sub[req[q].of] = NoSub
     THEN /\ UpdateSub(req[q].of, ActiveSub)
          /\ Enters(q, [req[q] EXCEPT !.pc = "usage"])
          /\ UNCHANGED event
     ELSE /\ Answer("completed", req[q].of, "sent")
          /\ Leaves(q)
          /\ UNCHANGED sub
  /\ UNCHANGED <<customer, usage, invoice, payment, stripe, delivered, stops>>

CheckoutMeters(q) ==
  /\ req[q].pc = "usage"
  /\ CreateUsage(req[q].of)
  /\ Answer("completed", req[q].of, "done")
  /\ Leaves(q)
  /\ UNCHANGED <<customer, sub, invoice, payment, stripe, delivered, stops>>

(* customer.subscription.updated: statuses that the enum lacks make every   *)
(* event of a subscription that is known here fail.                         *)
HandleSubscriptionUpdated(s) ==
  /\ Arrives("updated", s)
  /\ Answer("updated", s, IF sub[s] = NoSub THEN "done" ELSE "sent")
  /\ UNCHANGED <<local, stripe, delivered, req, stops>>

(* Mutant of HandleSubscriptionDeleted: the customer's current subscription *)
(* is looked up instead of the one the event is of.                         *)
HandleCurrentDeleted(s) ==
  /\ Arrives("deleted", s)
  /\ \/ \E k \in Key : IsCurrent(k) /\ UpdateSub(k, [sub[k] EXCEPT !.status = "canceled"])
     \/ NoneCurrent /\ UNCHANGED sub
  /\ Answer("deleted", s, "done")
  /\ UNCHANGED <<customer, usage, invoice, payment, stripe, delivered, req, stops>>

(* Mutant of HandleSubscriptionDeleted: a status that the enum lacks.        *)
HandleDeletedAsExpired(s) ==
  /\ Arrives("deleted", s)
  /\ sub' = IF sub[s] = NoSub THEN sub
            ELSE [sub EXCEPT ![s].status = "incomplete_expired"]
  /\ Answer("deleted", s, "done")
  /\ UNCHANGED <<customer, usage, invoice, payment, stripe, delivered, req, stops>>

HandleSubscriptionDeleted(s) ==
  /\ Arrives("deleted", s)
  /\ sub' = IF sub[s] = NoSub THEN sub ELSE [sub EXCEPT ![s].status = "canceled"]
  /\ Answer("deleted", s, "done")
  /\ UNCHANGED <<customer, usage, invoice, payment, stripe, delivered, req, stops>>

(* Mutant of HandleInvoicePaid: a bill whose subscription is not known here  *)
(* yet is dropped.                                                           *)
HandleInvoiceOfRow(s) ==
  /\ Arrives("invoice_paid", s)
  /\ invoice' = IF sub[s] = NoSub THEN invoice ELSE [invoice EXCEPT ![s] = "paid"]
  /\ Answer("invoice_paid", s, "done")
  /\ UNCHANGED <<customer, sub, usage, payment, stripe, delivered, req, stops>>

HandleInvoicePaid(s) ==
  /\ Arrives("invoice_paid", s)
  /\ StoreInvoice(s, "paid")
  /\ Answer("invoice_paid", s, "done")
  /\ UNCHANGED <<customer, sub, usage, payment, stripe, delivered, req, stops>>

HandleInvoicePaymentFailed(s) ==
  /\ Arrives("invoice_failed", s)
  /\ StoreInvoice(s, "open")
  /\ Answer("invoice_failed", s, "done")
  /\ UNCHANGED <<customer, sub, usage, payment, stripe, delivered, req, stops>>

HandlePaymentSucceeded(s) ==
  /\ Arrives("payment_succeeded", s)
  /\ StorePayment(s, "succeeded")
  /\ Answer("payment_succeeded", s, "done")
  /\ UNCHANGED <<customer, sub, usage, invoice, stripe, delivered, req, stops>>

HandlePaymentFailed(s) ==
  /\ Arrives("payment_failed", s)
  /\ StorePayment(s, "failed")
  /\ Answer("payment_failed", s, "done")
  /\ UNCHANGED <<customer, sub, usage, invoice, stripe, delivered, req, stops>>

(* The answer is lost: Stripe takes the event for one it has to send again. *)
AnswerLost(type, s) ==
  /\ stops < MaxStops
  /\ event[<<type, s>>] = "done"
  /\ Answer(type, s, "sent")
  /\ stops' = stops + 1
  /\ UNCHANGED <<local, stripe, delivered, req>>

(* A request or a webhook in progress ends after any of its commits.        *)
Stop(q) ==
  /\ stops < MaxStops
  /\ req[q].pc # "idle"
  /\ stops' = stops + 1
  /\ Leaves(q)
  /\ UNCHANGED <<local, stripe, event, delivered>>

-----------------------------------------------------------------------------
UserRequest ==
  \/ \E s \in Sub :
       \/ CreateCheckoutSession(s)
       \/ \E q \in Request :
            \/ ChangePlan(q, s)
            \/ \E immediately \in BOOLEAN : CancelSubscription(q, s, immediately)
            \/ ReactivateSubscription(q, s)
  \/ \E q \in Request :
       \/ StoreSubscription(q) \/ StorePlan(q) \/ StoreUsage(q)
       \/ RecordDelivery(q) \/ IncrementDeliveryCount(q)

StripeMoves ==
  \E s \in Sub :
    \/ CompleteCheckout(s)
    \/ EndSubscription(s)
    \/ \E type \in Types : Charge(s, type)

Checkout(q) ==
  \/ \E s \in Sub : HandleCheckoutCompleted(q, s)
  \/ CheckoutUpdates(q) \/ CheckoutCreates(q) \/ CheckoutMeters(q)

Webhook(s) ==
  \/ HandleUnreadCheckout(s)
  \/ HandleSubscriptionUpdated(s)
  \/ HandleSubscriptionDeleted(s)
  \/ HandleInvoicePaid(s)
  \/ HandleInvoicePaymentFailed(s)
  \/ HandlePaymentSucceeded(s)
  \/ HandlePaymentFailed(s)

Next ==
  \/ UserRequest
  \/ StripeMoves
  \/ \E q \in Request : Checkout(q) \/ Stop(q)
  \/ \E s \in Sub : Webhook(s)
  \/ \E e \in Event : AnswerLost(e[1], e[2])

(* Stripe sends what was not answered again.  Nothing is assumed of users,  *)
(* of what Stripe decides, or of events that were answered.                 *)
Redelivery ==
  \A s \in Sub :
    /\ WF_vars(HandleSubscriptionDeleted(s) /\ event[<<"deleted", s>>] # "done")
    /\ WF_vars(HandleInvoicePaid(s) /\ event[<<"invoice_paid", s>>] # "done")
    /\ WF_vars(HandlePaymentSucceeded(s) /\ event[<<"payment_succeeded", s>>] # "done")

Spec == Init /\ [][Next]_vars /\ Redelivery

-----------------------------------------------------------------------------
(* Properties                                                              *)

(* Rows, events and requests hold the statuses the code knows; a counter    *)
(* stays within its bound.                                                  *)
BillingTypeOK ==
  /\ customer \in BOOLEAN
  /\ sub \in [Key -> SubRow]
  /\ usage \in [Key -> UsageRow]
  /\ invoice \in [Sub -> InvoiceStatus]
  /\ payment \in [Sub -> PaymentStatus]
  /\ stripe \in [Sub -> StripeSub]
  /\ event \in [Event -> EventStatus]
  /\ delivered \in 0..MaxDeliveries
  /\ req \in [Request -> Requests]
  /\ stops \in 0..MaxStops

(* No delivery is counted twice, whatever is lost, repeated or late, also   *)
(* when a second record is made while one is counted: only one record ever  *)
(* has a count, and it is no more than the deliveries                       *)
(* (billing_service.py:548, usage_record_repository.py:75).                 *)
NeverOverMetered ==
  \A k \in Key :
    /\ usage[k].count <= delivered
    /\ usage[k].count > 0 => \A j \in Key \ {k} : usage[j].count = 0

(* A customer whose free subscription was made has it for good and nothing  *)
(* else: a checkout is refused because it is active, and Stripe cannot be   *)
(* asked to change or cancel it (billing_service.py:318-325, 391-403).      *)
FreeIsForGood ==
  sub[Free].status = "active" =>
    \A s \in Sub : stripe[s].status = "none" /\ sub[s] = NoSub

(* What was answered with success is on record: no bill and no payment is   *)
(* dropped for want of a customer, in whatever order webhooks come, because *)
(* the row is made before there is anything to tell of                      *)
(* (billing_service.py:300, 1038, 1102, 1158, 1211).                        *)
AnsweredIsRecorded ==
  \A s \in Sub :
    /\ event[<<"invoice_paid", s>>] = "done" \/ event[<<"invoice_failed", s>>] = "done"
         => invoice[s] # "none"
    /\ event[<<"payment_succeeded", s>>] = "done" \/ event[<<"payment_failed", s>>] = "done"
         => payment[s] # "none"

(* No event that comes again or late, and no new checkout, brings a         *)
(* canceled subscription back: only a request or a webhook that overlapped  *)
(* with the cancellation does, with the row it had read before              *)
(* (billing_service.py:418, 475, 512, 868, 893).                            *)
CanceledStays ==
  [][\A s \in Sub : sub[s].status = "canceled" /\ sub'[s].status # "canceled" =>
       \E q \in Request :
         /\ req[q].pc \in {"planned", "cancelled", "reactivated", "update"}
         /\ req[q].key = s /\ req[q].row.status = "active"]_vars

(* Money that came in is on record in the end, whatever answers are lost.   *)
MoneyIsRecorded ==
  \A s \in Sub :
    /\ event[<<"invoice_paid", s>>] = "sent" ~> invoice[s] # "none"
    /\ event[<<"payment_succeeded", s>>] = "sent" ~> payment[s] # "none"

(* A subscription known here that ends at Stripe is canceled here in the    *)
(* end, however many handlers and answers fail.                             *)
EndingArrives ==
  \A s \in Sub :
    event[<<"deleted", s>>] = "sent" /\ sub[s].status = "active"
      ~> sub[s].status = "canceled"
=============================================================================
