# A verification development for the Koridor back end

Koridor is a delivery platform for couriers: orders are taken in, planned into
routes by an external solver, driven stop by stop from a mobile application,
and metered for billing. This directory holds TLA+ modules of the parts of
`src/app` where the tables of one request meet those of another, TLC instances
that check them, and TLAPS proofs of the properties that matter most.

## 1. Inventory

One FastAPI process serves requests with `async` handlers; each request has its
own database session (`config/dependencies.py:66-105`). Two facts shape
everything below. The repositories commit on their own in every `create`,
`update` and `delete`, so a request is a sequence of small transactions; and an
entity's `__post_init__` is run whenever a row is read, so a row that was
written but breaks an entity's rule cannot be read back. The update or insert that
writes such a row commits it and then fails, when it reads the row back; from
then on look-ups answer that it is not there, and a list that holds it is empty.
Five tables can hold one. The models carry the four on which their properties depend:

| Row | How it comes about | What follows |
|---|---|---|
| route | a start at a time of day past its finish, or the reverse | reports on it are refused, listings with it are empty, no overdue route is swept |
| mission | a stop completed at a time of day before its arrival has a negative service time | sweeps and cancellations close the route without its stops, a plan for its order ends in an error |
| recipient | an order taken in without a location | the next intake makes another row |
| vehicle | a negative capacity, speed or cost | the edit ends before the courier is written |

The fifth is the terminal. `update_terminal` stores a longitude beyond 90 degrees,
which the entity refuses (it has the bounds of latitude and longitude exchanged);
from then on the terminal is not found and its edits and plans are refused. The
models, which do not have coordinates, go on with it: they allow more than the code.

| Component | State | Operations | Hard behaviour |
|---|---|---|---|
| Orders (`order_service`) | `orders` | create, update, delete (hard or soft), postpone | postponing makes copies; a delete cascades to missions |
| Routes (`route_service`) | `routes`, `missions`, `orders` | generate, read, cancel, sweep of overdue routes | many commits per request, a slow solver in the middle, a sweep inside every read |
| Missions (`mission_service`) | `missions` | reads only | written by the route and courier services; one row per order for good |
| Courier operations (`courier_state_service`) | `courier_current_states` and the three tables above | ten reported states, parcel loading, self-managed start | any state may be reported at any time; partial failures; reports that leave a row unreadable |
| Solver adapter | none | map input, solve, map output | arbitrary answer after an arbitrary delay |
| Usage metering (`billing_service`, `usage_record_repository`) | `usage_records` | record a delivery, check the limit | read-modify-write of a counter |
| Billing and webhooks (`billing_service`) | customers, subscriptions, invoices, payments | checkout, change plan, cancel, reactivate, seven kinds of webhook | retries, duplicates, reordering, two systems of record |
| Accounts (`user_service`, `auth_service_impl`, `verification_token_service`) | users, refresh tokens, reset codes, verification tokens | register, verify, sign in and out, reset, edit, set status, delete | a row that is written back whole, several commits per request |
| Set-up (`courier_service`, `terminal_service`) | couriers, vehicles, hubs, marks in the user row | set up a courier, a terminal | cut off between rows; the user row written twice |
| Shifts and recipients (`shift_service`, `order_service`) | `hub_shifts`, `recipients` | create, move and delete shifts; take in and edit orders | check before write; one recipient row shared by orders |
| Profile (`courier_service`, `vehicle_service`, `terminal_service`, `avatar_service`) | couriers, vehicles, hubs, `user_avatars`, files | edit, upload, delete | one fact in two rows; a row and a file |
| Roles and permissions | roles, permissions, assignments | administration | none: nothing is committed after start-up |
| Scanning, utilities, e-mail | none | - | external I/O |

How they interact: route generation asks usage metering for the limit, the
solver for a plan, and writes routes, orders and missions; the courier service
writes the same three tables and tells usage metering of each delivery; every
read of routes first sweeps the overdue ones.

What makes each part correct:

- orders: a status follows a life cycle (`OrderLifecycle`); a removed order
  takes nothing with it that somebody still needs;
- routes: one scheduled route per terminal, begun routes are not planned anew,
  the current mission belongs to the route, overdue routes are closed, and what
  a generation checked before it asked the solver still holds when it writes,
  unless another request stepped in;
- missions: one per order, on one route, with time stamps that stay; one that
  cannot be read is not mended, and its order not delivered;
- courier operations: what a courier reports touches only its own deliveries,
  and these are listed and metered;
- metering: no delivery of an account with one record is unmetered when served
  alone, and none is metered twice however requests overlap;
- billing: what came in at Stripe is recorded here in the end, what ended there
  ends here, and only an overlap can bring it back;
- accounts: a reset code or verification token that is used up did its work, a
  reset ends the open sessions unless its password was replaced before it was
  verified, marks are not ahead of the rows they stand for;
- shifts and recipients: overlaps come only from races and do not accumulate, an
  old address does not come back, a second recipient row is made only by a race
  or next to one that cannot be read;
- profile: the two rows with a courier's vehicle type agree after an undisturbed
  edit whose second write can be made, the avatar's row names a file with its
  picture.

`PROJECT.json` lists the hazards line by line, with the property that covers
each, or why none does.

## 2. Modules

| Module | What it is |
|---|---|
| `Dispatch` | orders, missions, routes and metered deliveries; one action per request |
| `OrderLifecycle` | abstract: an order's status and whether it was ever given a stop |
| `CourierDuty` | extends `Dispatch` with the couriers' reported states; each report is a request of `Dispatch` joined to a write of `courier_current_states` |
| `DispatchClaims` | what comments and entity methods say of the above, checked against it |
| `RouteGeneration` | generation, sweep, cancellation and delivery at the grain of commits: requests overlap and are cut off |
| `RouteRequests` | abstract: the same requests, served one after the other, as one step each |
| `RouteTurns` | the refinement mapping from `RouteGeneration` to `RouteRequests`, and properties of requests that nobody steps on |
| `Billing` | one customer, here and at Stripe, and the webhooks between the two |
| `Accounts` | one user: its row, tokens and codes, and the set-up of courier and terminal |
| `Intake` | the shifts of a terminal, and the orders of a recipient |
| `Profile` | what a courier edits: vehicle type, terminal, avatar |
| `MCDispatch`, `MCCourierDuty`, `MCRouteGeneration`, `MCBilling`, `MCAccounts`, `MCIntake`, `MCProfile` | instances for TLC; some of the claims of section 4 live in them |
| `DispatchProofs` | types, the links between the tables, what a step may never do to the past; `Dispatch` implements `OrderLifecycle` |
| `CourierDutyProofs` | the delivered list, and the properties of `Dispatch` under the courier's reports |
| `RouteGenerationProofs`, `BillingProofs`, `AccountsProofs`, `IntakeProofs`, `ProfileProofs` | types and safety of the module of that name |
| `RouteTurnsProofs` | `RouteGeneration` in turn implements `RouteRequests`; what holds of a request that nobody steps on |

`Dispatch` and `CourierDuty` take a request as one step and have the whole data
model (couriers, terminals, shifts, positions, copies). `RouteGeneration`,
`Billing`, `Accounts`, `Intake` and `Profile` take a commit as one step and only as
much data as the order of commits can matter to.

### State and code

`order[o]`, `route[r]` and `mission[o]` are the rows of `orders`, `routes` and
`missions`. A mission is keyed by its order because `missions.order_id` is
unique (`models/mission.py:36-41`). `"none"` is an id without a row, `"deleted"`
an order whose row was removed: ids are UUIDs and are not used again.
`usage[c]` is the count of the usage record of the courier's billing customer.
`route[r].times` is what is known of the two actual times, which are times of
day: `"reversed"` is a row whose start is not before its finish. Such a row can
be stored (a start after a finish, or a finish past midnight) and never read:
`Route.__post_init__` refuses it, `get_by_id` then finds nothing and a list
that holds it is empty. `Readable` and `Listed` carry this through every guard.
`mission[o].reversed` is the same of a mission: a stop that is completed at a
time of day before its arrival. `CompletedInReverse` stores it and ends the
request, with the mission committed and neither route nor courier written
(`CompletionFails` in the place of a next delivery or a return, `FinishFails` of a
finish). `Legible` and `ListedStops` carry it on: `get_by_route_id` answers with
no stop at all, so that a sweep or a cancellation writes the route only
(`SweptStops`, `CancelRoute`), and `get_by_order_id` with none, so that a plan
inserts a second mission of the order, which the unique `order_id` refuses
(`Reached`: the stops before it are written).

Actions are named for the service methods. A request is one step, and one that fails
after some commits leaves those: `GenerateReuse` (the insert of a mission with the
solver's route id breaks the foreign key when a scheduled route is reused),
`StartNextDeliveryFails` (two stops at the next position, or one that cannot be
read), `LoadingFails` and `LoadedStartFails` (parcels loaded before a refusal). The
sweep at the head of every read and of route generation is part of these actions,
with the set `late` of shifts whose finish time the clock is past.

### Requests as sequences of commits

In `RouteGeneration`, `Billing`, `Accounts`, `Intake` and `Profile` the record
`req[q]` is a request in progress: `pc` names the commit that comes next, the
other fields are the local variables that survive an `await` (a row that was
read, what is left to be written). Between two commits any other request may
step. `Stop` drops the request where it is, as a restart or a lost connection
does; what was committed stays. Two details of the session recur:

- a repository's `update` assigns every column, and the session writes the ones
  that differ from what it holds. Whether it still holds the row that the request
  read, or loads it again, depends on the identity map, whose references are
  weak: both are allowed (`Stores`, `Written`, `StoreHub`, `StoreEdit`,
  `DeliverRoute`);
- `alone` is set when a request begins and cleared when another one commits. The
  properties that hold only for an undisturbed request name it.

`RouteGeneration`: one terminal, shift and courier. `Begin` reads the overdue
routes, `SweepRoute`/`SweepStop`/`SweepOrder`/`SweepClose` are the loop of
`handle_routes_with_passed_time_shift`, `Check`, `Solve`, `PlanRoute`,
`PlanOrder` and `PlanStop` are `generate_route` and
`_persist_route_and_missions_and_orders` in their order of commits,
`CancelRoute`, `CancelStop` and `CancelOrder` are `cancel_route`. `Deliver` and
its three steps end by writing the route back as it was read at the start.
`ReportRoute` is every other report, and `CompletionFails` the one that leaves a
stop unreadable. A stop that becomes so between a request's read and its write is
mended by the write, when that puts back the columns that were read (`Rewrite`), or
stays as it is and ends the request (`WriteFails`), which the sweep survives
(`AfterSweep`). The module has its own
view of `OrderLifecycle` (`Life`, with the orders that have a stop for `tracked`):
the part of the abstract specification that each single commit keeps is
`TrackedFirst` and `OrdersMoveOn`.

`RouteTurns` relates the two grains. Once its first commit is made, an
undisturbed request is bound to its others: a sweep to close the routes it read
as overdue, a generation to write its plan, a delivery to write its order.
`wholeOrder`, `wholeMission` and `wholeRoute` are the rows with those commits
already made, so that the request takes effect at one commit and the others
stutter. They are the tables of `RouteRequests`. It has no atomic generation for
one case: a plan in the place of a scheduled route with a stop to insert
(`GenerateReuse` of `Dispatch`). The insert fails and ends the request, and the
updates before it, whose number depends on the order of the stops, are steps of
their own (`PlanStopAgain`). So are the stops written before the insert that fails
for an order with a mission that cannot be read (`PlanFirstStop`).

`Billing`: `sub` is keyed by Stripe's id, the free plan's row by `Free`; `event` is
one event per kind and subscription, `"sent"` while Stripe will send it (again),
`"done"` once it was answered with success. An answered event may still arrive
again. `HandleCheckoutCompleted` and the three steps behind it are one handler; the
others write once and are one step. `HandleUnreadCheckout` is its early returns,
which are answered with success and make nothing. `UpdateUsage` writes a count that
was read earlier, for `change_plan` as for a delivery.

`Accounts`: `row` says whether the user exists, `user` holds the fields the
properties tell apart. `ResetPassword`, `ResetStores`, `VerifyPassword`, `MarkAsUsed`,
`RevokeUserTokens` are `reset_password`: the password is verified against the row
as it is after the commit, and the request gives up where `ChangePassword`, another
reset or a write-back has replaced it. `setBy` is a history of the codes that
changed the password, `overtaken` of those whose password was replaced before it
was verified. `SetupTerminal`, `CreateHub`, `ActivateUser`, `StoreUser`
are `setup_terminal`, whose last write is the row as read before the activation.

`Intake`: a shift is its hours, an order its shift and its recipient. `held` is
a history of the addresses of each recipient row. An address may have no location
(`"nowhere"`): `Stored` ends the intake, and `Known` does not find the row.
`CreateOrder`, `CreateUser`,
`StoreAddress`, `StoreOrder` are `create_order`; `UpdateOrder`, `StoreEdit` are
`update_order`; the foreign key and the NOT NULL of `orders.shift_id` are guards
of `InsertOrder` and `DropShift`.

`Profile`: `courier` and `vehicle.type` are the two columns `vehicle_type`. A
vehicle that is `timed` has a loading time or duration: the update of a courier's
type reads them as seconds, which the interval columns refuse, and fails. One that is
not `sound` has a figure the entity refuses: its row is committed, reading it back
fails, and the courier is not written. `row` and
`file` are the avatar's row and the file of each extension. `stored` tells
whether the path in the row is the path of the file: it is not after
`upload_avatar`, and the old file is then not deleted.

### What is abstracted

- The solver answers with no route, or with any non-empty part of the request
  in any order; the rest of the request is unassigned.
- The three reasons for a failed delivery are one. Addresses, recipients,
  barcodes, weights, time windows, comments and dates are left out, and with
  them the uniqueness of barcode and date and `update_order`, which writes only
  such fields.
- Listings are not cut at their limit of 100 rows.
- Every courier has one usage record, which is what a registration creates.
- `Stamps`, `Outcomes` and `Reported` choose which time stamps, delivered
  statuses and reported states an instance tells apart.
- In `Dispatch` and `CourierDuty` requests do not overlap and the process does
  not stop inside one; the other modules are there for that.
- Times, hashes, signatures, prices, periods, names and coordinates are left out.
  An expiry is an action that may happen at any time.
- `Billing` has one invoice and one payment for each subscription, and takes the
  creation of the customer as one step.

## 3. Runs

Deadlock is not checked for `Dispatch`, `CourierDuty`, `Billing`, `Accounts` and
`Intake`: the bounds on ids, on metered deliveries, on what Stripe sends and on
the requests that are begun let these instances come to an end (in `Intake` when
every order and recipient row is taken and cannot be read), and the service has no
duty to go on. It is checked for the others, where a request can always begin.

| Run | Instance | Question |
|---|---|---|
| `dispatch_core` | 2 orders, 2 routes, 1 courier, no deliveries, 1 unreadable mission | is the current mission one of the route, is a begun route never planned anew? |
| `dispatch_shifts` | 2 orders, 2 routes, 2 shifts of a terminal, limit 1, no deliveries | is there one scheduled route per terminal, across its shifts? |
| `dispatch_copies` | 3 orders, 1 route | do order statuses, copies included, follow `OrderLifecycle`? |
| `dispatch_couriers` | 2 couriers, 2 orders, 2 routes, limit 1, the stamp of the finish | do order, route and mission agree on the courier, do missions keep route and stamp, is every delivery metered? |
| `duty` | 1 courier, 2 orders, 1 route, both delivered statuses, the stamps of arrival and finish, 2 unreadable missions | are the tables well typed, are deliveries kept listed; does a mission that cannot be read stay as it is, and its order undelivered? |
| `route_generation` | 1 order, 2 routes, 1 request and a reader, starts and failed completions, 2 stops | does every commit move orders as `OrderLifecycle` allows; does a plan fit what is there when it is written; is what a sweep or cancellation closes closed with its stops; are overdue routes closed in the end? |
| `generation_in_turn` | 2 orders, 2 routes, 2 requests that take turns, starts, finishes and failed completions; nothing is cut off | are the commits of a request together the one step that the request is meant to be? |
| `billing_ends` | 2 subscriptions, 2 requests, 1 delivery, 1 stop; checkouts complete and one subscription ends | is a delivery ever counted twice, is a free plan left, does an ending arrive, and what can bring a canceled subscription back? |
| `billing_money` | 1 subscription, 1 request, 2 deliveries, 1 stop; every kind of event | is all that was answered on record, and every payment in the end? |
| `accounts` | 1 token, 1 code, 2 passwords, 2 requests at once and 5 in all, 1 stop | are marks, codes, letters and sessions what the set-up, verification and reset made of them? |
| `intake` | 3 shifts over 2 hours, 2 recipient rows, 2 orders, 2 requests, any stops | how far can races pile up shifts, bring back an address, double a recipient? |
| `profile` | 2 types, 2 values, 2 extensions, 4 uploads, 2 requests, any stops | do the two rows agree; does the picture belong to its row? |

Bounds. Two orders are needed for a next stop and for a reuse that fails at the
second stop; two routes for a mission left on an old route; three orders for a copy
of a copy and for two stops at the next position; two shifts for a look-up by
terminal rather than by shift (they finish at one time there, and are
interchangeable); two couriers for a route of the one reused by the other.
`MaxUsage` bounds the deliveries; a repeated delivery needs two, which the claim's
instance has. `MaxReversed` bounds the missions that cannot be read at one time. One
suffices to empty the list of a route, to break the look-up of the next stop and to
refuse a replan, while the other order's mission is read as before
(`dispatch_core`); `duty` lets both orders of its instance become unreadable, and
has the stamp of the arrival, without which a completion cannot fail. The three
other instances of `Dispatch` have none, to stay within minutes; what they check is
proved below for any number of unreadable missions. Ids are symmetric: orders,
routes and couriers are interchangeable, and no action chooses among them but by
quantification. The runs with a liveness property use no symmetry.

Two requests are the least that can overlap; in `route_generation` the reader is
one of them, and its one order makes a sweep, a cancellation and a delivery meet
on one stop while two routes let a second plan leave the first one's stop behind.
In `generation_in_turn` two orders make a plan with a stop to update and one to
insert, and two routes a stop that stays on the route it had before. The
properties of `RouteTurns` about overlapping requests hold for two orders, two
routes and two requests as well (`GenerationAlone.cfg`, with the module
`MCRouteGeneration`); at eleven million states this instance is kept beside the
runs, and the theorems below state what it checks.
Two subscriptions are needed for a second usage record; a second count of one
delivery needs only one delivery. Three shifts with two hours can overlap
by more than two if anything lets them. Four uploads let two requests, the row and
a file each hold another. Two passwords and two requests at once are what it takes
for a reset to be overtaken; `MaxRequests` bounds the requests of `accounts` at five,
which is a registration, a sign-in, two that write the password and one more to
begin beside them. `MaxStops` is small where liveness makes
an unbounded number of stops meaningless (a request cut off every time need not
achieve anything): one stop may fall after any commit, and in `route_generation` a
second one on the request that was to make up for it.

Fairness, and why the code justifies it:

- `RouteGeneration`: a client keeps asking for its routes (every such read sweeps
  first, and there is no other trigger of the sweep), and the reader's sweep goes
  on, since between two commits it waits only for the database. Nothing is assumed
  of the solver, which is awaited without a time limit, of couriers or of any other
  request.
- `Billing`: Stripe sends an event again until it is answered with success. This
  is assumed of endings, paid invoices and succeeded payments, the events the
  two liveness properties are about. Nothing is assumed of users, of checkouts
  or of events that were answered.
- `Accounts`: a request that was begun goes on until it ends or is cut off.

`OverdueRoutesClose` has two premises beside fairness: that every route can be read
from some time on, as one that cannot empties the list of overdue routes, and that
no stop is made unreadable and mended again and again for ever, as each time one
may end a sweep that is under way. A stop that is unreadable for good does not keep
its route from being closed: its list is empty, and the sweep writes the route.

Each property has a mutant in the module it depends on (`HardDeleteAnyOrder`,
`FreeAt`, `Overwritten`, ...), a plausible slip in that code, under which TLC
finds the property violated.

## 4. Where the code and its text disagree

Each of these instances checks one statement quoted from the source, and TLC
violates it: `tlc -config <name>.cfg <module>.tla`. They are no part of the
twelve runs of `PROJECT.json`, where the findings are listed with their lines.

| Instance | Module | What TLC shows |
|---|---|---|
| `ClaimDeliveredOnce` | `MCDispatch` | the entity says "Order already delivered"; the service sets the status itself, and a second report is metered again |
| `ClaimScheduledOrderOnOpenRoute` | `MCDispatch` | a replanned order keeps its mission on the route that was cancelled |
| `ClaimMissionStatusReadable` | `MCDispatch` | an undelivered stop is stored with a status the enum of mission statuses does not have |
| `ClaimSweepReachesOverdue` | `MCDispatch` | one unreadable route hides all overdue ones |
| `ClaimFinishResetsState` | `MCCourierDuty` | "Reset courier state" is undone in the same request |
| `ClaimCancelReachesStops` | `MCDispatch` | "Route ... and its ... missions cancelled": over a mission that cannot be read the route is cancelled and its missions are not |
| `ClaimPlanReachesMissions` | `MCDispatch` | "Create or update the mission": an order whose mission cannot be read is scheduled without a stop |
| `ClaimOneRowPerRecipient` | `MCIntake` | "Get or create/update recipient": served one at a time, an intake without a location makes the next one create a second row |
| `ClaimOneTypeAfterEdit` | `MCProfile` | "Vehicle updated with new type": the courier has the new type, and the write of the vehicle fails |
| `ClaimNoPlanNextToActive` | `MCRouteGeneration` | "Cannot generate route while another route is active" is checked before the solver is asked and never again |
| `ClaimSetUpUserIsActive` | `MCAccounts` | "4. Activate user" is undone by the write of the row that was read before |

Read off the code while modelling it, and built into the models rather than checked
by an instance of their own: the refresh of tokens commits nothing; a user that is
not active signs in; the resend of the verification mail calls its service with an
argument it does not take; `change_plan` stores neither plan nor limit; the current
usage record is looked up without its dates, and the count is not incremented
atomically; a user on the free plan can neither check out nor change plan;
`customer.subscription.updated` fails for every known subscription,
`checkout.session.completed` for a customer that has one; the file of a replaced
avatar stays; a base64 image with a data URI prefix fails; a checkout whose
subscription Stripe cannot be asked for is answered with success and never made.
`PROJECT.json` has the lines. Besides: `update_terminal` takes a latitude or
longitude of zero for one that was not given, and stores a longitude beyond 90
degrees, which the entity takes for a latitude; `POST /states/init` lacks an `await`
and always answers 400; a courier's first report enters its order into the delivered
list whatever the report is; the sweep and `cancel_route` set delivered orders to
unassigned.

## 5. Proofs

The modules of whole requests are proved for any couriers, terminals, shifts and
routes and any finite set of orders.
The assumptions are those `Dispatch` and `CourierDuty` state about their
constants: `Nil` is no id, every shift has a terminal and a finish time, the
bounds are naturals, the tracked names are known ones.

- `TypeCorrect`: `TypeOK`, one lemma per part of the next-state relation.
- `LinksInvariant`: the inductive invariant `Linked`. `MissionOwnership` is not
  inductive by itself: a hard delete preserves it only because a registered
  order has no mission (`RegisteredHasNoMission`), and the sweep preserves that
  only because a row that is no mission names no route (`NoMissionIsBlank`).
  Every request is first shown to be a `LinkStep` (`LinksStep`), which says what
  it may do to one mission and to one route; `LinksKept` then needs no action.
  `DeletionTakesNoStop`, `MissionsOwned`, `CurrentMissionIsOnRoute` and
  `MissionsPinned` follow.
- `BegunRoutesMoveOn`: from types alone.
- `ScheduledRouteIsOne`: the strengthening is `SingleUnlessBlind`; every request
  but the one that makes a route is `Steady`, an unreadable route stays so.
- `UnreadableStays`: `UnreadableForGood` from `Linked`, one lemma per part of the
  next-state relation: a deletion is of a registered order, which has no mission.
  Lists and look-ups pass by a mission that is not `Legible`; the one statement that
  writes missions unread is the start of a route.
- `NoDeliveryUnmetered`: a delivery adds at most one order to the delivered ones
  of the reporting courier, and it is that courier's by `MissionOwnership`.
- `LifecycleImplemented`: the refinement of `OrderLifecycle`; `tracked` is the
  set of orders with a mission.
- `ReportsKeepPromises`: the invariants and action properties of `Dispatch` and its
  refinement of `OrderLifecycle` hold under `DutySpec` too. That `DutySpec` implies
  `Spec` is no result: a report is written as an action of `Dispatch` joined to a
  write of the courier's row, and the lemma `DutyImplementsDispatch` only says so.
- `DutyTypeCorrect`, `DeliveriesStayListed`: the latter needs `NoRowNoList`, that
  a courier without a row has an empty list.

The modules at the grain of commits are proved for any sets of requests, orders,
rows, tokens and so on, from the named assumptions of each module: `Nil` is no
id, the bounds are naturals, and where a cardinality or a maximum is taken
(subscriptions, the requests of `Intake`) the set is finite.

- `RouteGenerationProofs`. `NothingStaysOpen`: an undisturbed request has closed
  every stop it no longer has to write (`SweptSoFar`, `CancelledSoFar`), and what it
  read as delivered still is. All of this is about routes whose stops can be listed:
  the property excuses the others, which the code closes with their stops open
  (`ClaimCancelReachesStops`). The property speaks only of the last step, so the
  induction needs the whole request (`ClosingInv`). Any other request that commits
  clears `alone`, so one lemma (`OthersClosing`) settles all of them.
  `StopsComeFirst`, `OrdersKeepTheirLife`, `ChecksOutliveTheSolver` and
  `SweepsClose` share `FlowInv`, which says of each request in progress what its
  locals are worth, by where it is (`Flow`): the orders it is about to move have a
  stop, or were written by it, and are not registered any more (`Grounded`); what a
  sweep holds are routes it read as due (`Swept`); and of a generation alone, that
  its checks still hold (`Fits`). `TrackedFirst` is not inductive without it: what
  makes the order of a cancellation or a delivery have a stop is a read of some
  commits ago, and stops are never taken away.
- `RouteTurnsProofs`. What an undisturbed request has in hand is what the tables
  hold (`InHand`): the rows it will write back are the stored ones, or these but
  cancelled (`RowsAreTrue`); the stops it found delivered are the delivered ones
  (`LoopIsTrue`); its checks would pass now (`CheckIsTrue`); and what is behind it
  of its plan is written (`PlanIsTrue`). `HandInv` says so of every request that
  nobody stepped on, whatever the others do; one lemma (`HandOfStep`) settles all
  requests but the one that steps. From it: a row written back whole loses no write
  (`AloneNothingIsLost`), a generation ends with its whole plan
  (`AlonePlansEndWhole`), a first stop fits its order and its route
  (`AloneFirstStopsFit`). `StopsArePinned` needs only types and holds under every
  overlap. `AloneKeepsLife` is what `OrdersMoveOn` leaves out: with every request
  undisturbed the whole of `OrderLifecycle`'s moves is kept. `TurnsAreWhole` is the
  refinement of `RouteRequests`, step by step under `TurnInv`. An unreadable stop is
  no exception here: `RouteRequests` has the sweep and the cancellation that pass it
  by, and the plan whose insert it makes fail. Its hypothesis, `TurnsSpec`, is that
  one request is served at a time, that no report comes between its commits and that
  none is cut off. It cannot be less: two requests that overlap take steps that no
  whole request takes (`ClaimNoPlanNextToActive` shows one), and one that is cut off
  leaves a part of its step. Like `TakingTurnsKeepsOne` below it says what the code
  does at that load, not that the load is so.
- `BillingProofs`. `FreeForGood`: `FreeIsForGood` is kept because no event, row or
  request is about a subscription that was not asked for at Stripe, and no
  request holds the free row (`NothingUnasked`). `NoDeliveryTwice`: at most one
  record ever has, or is about to get, a count (`OneCounted`), and a count that
  was read is behind the deliveries by the one still to be added (`CountsBehind`);
  bounding the stored count alone is not inductive, since the write adds one to a
  count that was read before. `NothingAnsweredIsDropped`: whatever can be told of
  at Stripe was asked for by a customer that has its row (`RecordInv`).
  `OnlyOverlapBringsBack`: a checkout makes a row only where there is none, so what
  is left are the writes of rows in hand (`HeldInv`). `TakingTurnsKeepsOne` assumes
  that any two requests in progress are one, and shows that a customer then has at
  most one active subscription (`TurnInv`): two need an overlap. That assumption is
  about the load, not the code, and the theorem claims nothing else.
- `AccountsProofs`. One invariant, `AccountsInv`: a request that marks a code has
  stored its password (`CodeInHand`), one that stores a mark has made the rows
  (`MarksInHand`). `NoMarkAhead` and `NoCodeWasted` follow. `VerifiedForGood`
  follows from types: no column set of an update holds the verification.
  `WhatIsDueIsPending` (`DueInv`): after a token was deleted or a password stored,
  what is still due is the next commit of a request in progress, or it was done, or
  the request was cut off or the user deleted (`Excused`), or the password was
  replaced before the reset verified it (`overtaken`).
- `IntakeProofs`. `IntakeInv` says of each request in progress what it found
  (`Fresh`, `EditsAlone`, `FindsRow`). `AddressesMoveOn` and `SecondRowIsRaced`
  follow step by step; in the second, an undisturbed intake found no row although
  there is one only if that row cannot be read (`NoneToFind`). `NoHigherPile`: rows
  and writes under way that cover an hour are together at most as many as the
  requests (`PileInv`): a request begins to write only into an hour it finds free
  but for its own row. `TurnsKeepShiftsApart` is the case of requests served in
  turn, where the bound is one and so no two shifts overlap.
- `ProfileProofs`. `ProfileInv` says of an undisturbed request what it has
  written so far (`EditsBoth`, `EditsHub`, `Draws`); `TypesStayTogether`,
  `OnlyGivenChange`, `UploadEndsShown` and `PictureStays` are about its last step.
  `TypesStayTogether` excuses the two ways in which the second write fails by
  itself, which the model has (`ClaimOneTypeAfterEdit` shows the one).

Only model-checked, for the instances above: liveness (`OverdueRoutesClose`,
`EndingArrives`, `MoneyIsRecorded`, `ResetEndsSessions`, `LetterIsNotWasted`), which
is out of the prover's reach, and that the claims of section 4 fail. Every other
property of the runs is a theorem. Conversely some theorems have no run of their
own: `DutyTypeOK`, and the properties of `RouteTurns` but the refinement. What is
safety in three of the five is proved: a sweep that comes to its last commit leaves
its route cancelled (`SweepsClose`), and what a verification or a reset still owes
is the next commit of a request in progress (`WhatIsDueIsPending`). What remains for
fairness is that the reader sweeps again and that a request goes on. No module
declares a recursive operator.

## 6. Plan

Done: the tables under whole requests (`Dispatch`, `OrderLifecycle`,
`CourierDuty`), the same at the grain of commits (`RouteGeneration`) and its
return to whole requests (`RouteRequests`, `RouteTurns`), metering and billing,
accounts, intake, profile, and their proofs. What could be added:

- two terminals or shifts in `RouteGeneration` and `RouteRequests`;
- deletions of orders at the grain of commits, next to generations;
- what a usage record and an invoice say at last, should the code come to promise
  that the later event wins;
- two users at one Stripe account in `Billing`, should plans and periods come to
  be stored;
- the refresh of tokens in `Accounts`, should its session come to be committed.

## 7. Not modelled

- Roles and permissions: the repository flushes and nobody commits, so that no
  request changes what another reads; only the seed at start-up commits.
- The refresh of access tokens: for the same reason it writes nothing.
- Plans, prices and periods: read-only, or not looked at by the code that
  should. The customer at Stripe: two requests at once may make two, of which
  one is never referred to.
- Vehicles' capacities, time windows and geometry (the solver's business), OCR
  and the language model (stateless), e-mail texts and failures of the mail
  server, migrations and seeds. Redis is configured and not used by the services.
