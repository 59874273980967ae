# PlayDesk: TLA+ models, checks and proofs

PlayDesk takes bookings for gaming venues: a Django backend (`src/backend`), a
Next.js front end, Postgres, Stripe and Twilio. This directory models the parts
whose state can go wrong: what the database holds, what the outside services
did, and what each request remembers between two of its steps.

The backend sets no `ATOMIC_REQUESTS`: every ORM call is a transaction of its
own unless the code opens `transaction.atomic()`, and Postgres runs them READ
COMMITTED. So a request is a sequence of separate commits and reads; any other
request runs in between, and the process may die at any of those points. The
models take one action per commit, or per call to an outside service.

## The system

| Component | State | Operations | What is hard | Module |
|---|---|---|---|---|
| Deposits, refunds, Stripe webhook (`billing/`, part of `api/views.py`) | `Booking.status/payment_status/payment_intent_id`, `Payment` ledger, `WebhookEvent` | open deposit, webhook handlers, cancel with refund, charge balance, sweep | duplicated and reordered events, stale saves, crash between Stripe and the database | `BookingPayments` |
| Deposit policy (`billing/helpers.py`, `StripeSettingsUpdateView`) | policy columns of `Store` and `Resource` | PATCH of some of the columns, deposit, refund percentage | a mode without its value, two PATCHes at once | `DepositPolicy` |
| A store's Stripe account | `Store.stripe_account_id`, `stripe_charges_enabled` | connect, return page, `account.updated` | events in any order, stale answers | `StripeAccount` |
| Booking API, agent holds, availability (`api/views.py`, `agent_tools/tools.py`, `core/payments.py`, `expire_holds`) | `Booking` rows, Checkout sessions | create, PATCH, reschedule, cancel, DELETE, hold, confirm, expire | exclusion constraint against availability, stale whole-row saves | `SlotCalendar`, `Availability`, `TimeSlots`, `Calendar` |
| Pricing (`pricing/`, quote check in `api/views.py`) | `PricingRule` rows, the frozen columns of a booking | quote, check, create, reschedule, rule edits | rules change between three quotes | `Pricing`, `Quotes` |
| Desk and visits (`api/views_checkin.py`, `core/signals.py`, `auto_complete_checked_in`) | `status`, `total_visits`, completion credit | check-in, undo, completion, signals of every save | unlocked undo against locked completion | `BookingVisits` |
| Door keys (`checkin/`) | `RotatingCheckinKey` | mint, rotate, resolve | two mints at once, grace, cron's slop | `RotatingKeys` |
| One-time codes (`core/customer_auth.py`, `checkin/views.py`) | `CustomerOTP`, cache counters, verified flag | request, verify, sign in, check in | counters in a cache, stale attempts | `CustomerCodes` |
| Browser sessions (`core/middleware.py`, `core/customer_auth.py`) | store cookie, session cookie | resolve store, bind customer, sign in, log out | several tabs and stores, answers out of order | `StoreSessions` |
| Points (`core/memberships.py`, `api/views_memberships.py`, `api/views_me.py`) | `PointTransaction`, `Redemption` | award, redeem, adjust, audit | the running balance under concurrent writers | `PointsLedger`, `PointsAccount` |
| Retention (`core/retention.py`, `recompute_retention`, the counters of `core/signals.py`) | `cohort`, `churn_score`, `last_visit_at`, `total_visits` | nightly recomputation, a booking counted, one taken back | skipped rows, stale reads, bookings for days to come | `Retention` |
| Outbound queue (`outbound/`) | `OutboundMessage` rows, customer tags | enqueue, drain, cancel cascade, opt-out | check-then-insert, crash after send, quiet hours | `OutboundQueue`, `QuietHours` |
| Campaigns (`campaigns/`) | `Campaign`, `CampaignRun` | edit, launch, send, cancel, delete | one failing send, unlocked edit | `Campaigns` |
| Conversational agent (`agent/`, `api/webhooks_twilio.py`) | `Conversation`, `Message` rows, event stream | one turn per message, tool calls | turns interleave, break off, are delivered twice | `AgentLoop` |
| QR landing page (`api/views.py`) | `QRAction.position` | create, move, delete | rewrite of all positions under unlocked creations | `QrActions` |
| Customer identity, staff authentication, reports, retrieval, front end | | | | see *Not modelled* |

Components meet in three ways. They share the `Booking` row: the deposit, the
check-in, the staff edits, the agent and three cron commands all write it.
Django signals run inside every `save()` of a booking: counters, points and
messages follow from it (but not from `queryset.update`, which the sweep of
legacy payments uses). And outside services call back: Stripe to the webhook,
Twilio to the channel webhooks.

The `Booking` row is therefore in four modules, each with the columns that one
question needs: money (`BookingPayments`), slot (`SlotCalendar`), status with its
counters (`BookingVisits`), and status with its messages (`OutboundQueue`). What
another module does to the row appears in each as the statuses that a save may
give it. `SlotCalendar` and `Availability` are composed in `MCSlotCalendar`,
`OutboundQueue` extends `QuietHours`, `Quotes` extends `Pricing`; the parts that
share no row are instantiated side by side: seven in `MCBackOffice`, `CustomerCodes`
and `Quotes` in `MCCustomer`.

What makes each part correct, in one line each: no booking reads paid without
captured money and none loses captured money; the points balance is the sum of
its rows and no redemption exceeds it; the visit counter is the number of
bookings not cancelled, up to one for each worker that died and each save that was
overtaken; one slot has one booking; a booking costs what its page
showed; a check-in ends in completion or undo, not both; a message is sent at
most once, not in quiet hours, and not to who opted out; one code is alive; a
campaign is sent once; an answer names the booking it made; a store serves its
own customers.

## Plan

1. `BookingPayments`: the money of a booking, with its proofs. *Done.*
2. `PointsLedger` refining `PointsAccount`, with proofs. *Done.*
3. `BookingVisits`: check-in, undo, completion, and the signals of every save.
   *Done, with proofs.*
4. `SlotCalendar` with `Availability`, refining `Calendar`. *Done, with proofs.*
5. `OutboundQueue` with the pure module `QuietHours`; `Campaigns`. *Done, with
   proofs.*
6. `CustomerCodes`, `StoreSessions`, `AgentLoop`, `StripeAccount`, `RotatingKeys`,
   `QrActions`. *Done, with proofs.*
7. Pure operators against reference definitions: `DepositPolicy`, `Retention`,
   `Pricing` (with `Quotes` around it). *Done, with proofs.*

Nothing is open but liveness, which the prover cannot reach ("Proved and only checked").

## BookingPayments

`BookingPayments.tla` models `api/views.py:_maybe_open_deposit`,
`billing/views.py` (webhook, cancel with refund, charge balance, sweep), and
`billing/webhook_handlers.py`.

| Variable | In the code |
|---|---|
| `booking` | the `Booking` row's status, payment_status, deposit amount and payment_intent_id |
| `creating`, `request`, `worker`, `sweep` | the requests in flight: where each stands and what it read |
| `payments`, `nextPk` | `Payment` rows and their primary keys |
| `recorded`, `processed` | `WebhookEvent` rows, and those with `processed_at` |
| `stripe`, `events`, `acked` | external: intents and charges, emitted events, events answered 200 |

A creation goes inserted, held, opened, linked, recorded, answered; each arrow
is one commit or one Stripe call and `CrashCreate` may end it anywhere. A
delivery is read (`Receive`), gets or creates its `WebhookEvent` (`Claim`), is
handled, and is marked processed; the handler for refunds reads the provisional
rows first and commits later, which is where another process may come between.
`HandlerRaises` covers the `except` that logs and answers 200. The whole-row
save of PATCH carries the row as it was read (`seen`). A staff cancellation
saves, records a provisional refund, calls Stripe, and settles or fails the row.
`DashboardRefund` is a refund made in Stripe's own pages.

Amounts are small integers; which card failed, the receipts and the messages
are left out because no property tells them apart. The stubs that run when
Stripe is not configured and DELETE are not modelled here; Connect accounts are
`StripeAccount`, and how a deposit is computed is `DepositPolicy`.

### Runs

| Run | Shows |
|---|---|
| `deposit_delivery` | one deposit, two web processes, duplicated and reordered events, declines, a staff request that cancels (with its provisional refund), charges the balance (with and without an intent on the Checkout session) or saves a stale PATCH, crashes: settled rows are captured charges, a captured deposit has its row, processed means applied, paid and refunded follow captures |
| `delivery_progress` | liveness, with refunds made in Stripe's dashboard: every event is answered; a captured deposit reaches the ledger |

One booking is enough: no action reads two bookings, and rows of different
bookings share nothing but the primary key counter. One intent per charge is
what the code opens; two of them are the deposit and a balance. Two deliveries
make every pair of handlers meet, and two events are the fewest that can be
reordered. One staff request meets the creation, the deliveries and the sweep;
a second one comes after it, by the action constraint `TakingTurns`, to cancel a
booking whose balance was paid though Stripe had not opened its deposit, which is
refunded on paper. Two staff requests at once are what the disagreements below are
about.
`RefundPercents` of 50 is the branch of the matrix that leaves an amount on both
sides. The refund percentages of 0 and 100 are in the liveness run. Both cfgs set
`CHECK_DEADLOCK FALSE`: requests and events are finite, so the modelled system
does stop.

### Fairness

Stripe retries a delivery until it gets a 200; that is strong fairness on
`Receive` for each event (a crash disables and re-enables it). The steps a
process takes for a delivery it holds are strongly fair too, so that crashes do
not go on for ever. Nothing is assumed about customers, staff or the sweeper.

### Proofs

`BookingPaymentsTypes.tla` proves the type invariant with what a delivery or
request in flight holds in hand (`InHand`: it works on an event or a booking it
has read). `BookingPaymentsProofs.tla` proves the safety invariants for every
number of bookings, intents, processes and requests, and every amount.

The invariants are not inductive alone. `IndInv` adds: an open or captured
intent belongs to one booking and amount; every success and refund event stands
for a charge Stripe captured; a booking paid from a stale row was paid when it
was read (`seen`); each row of the ledger is backed by an intent of its booking,
kind and amount (`RowBacked`); primary keys are unique and below `nextPk`; an
event marked processed has been credited or found its row gone. The proof takes
one lemma per action and one step per conjunct an action can disturb; where an
action leaves a group of variables alone a frame lemma carries the conjuncts over
them. The assumptions are only the two named ones on the constants
(`DomainAssumption`, `AmountAssumption`, with `StaffAssumption` for types).

Liveness (`EventsSettled`, `CaptureReachesLedger`) is model-checked only: the
prover does not reason about fairness.

## PointsLedger

`PointsLedger.tla` models `core/memberships.py` under its callers: the
completion signal and the QR click that earn, the staff adjustment, the admin's
and the portal's redeem views, the membership page and `memberships_check`.

| Variable | In the code |
|---|---|
| `ledger` | committed `PointTransaction` rows of each customer, by id |
| `redemptions` | committed `Redemption` rows, each with the row that paid it |
| `owner` | the row lock that `select_for_update` takes on the customer |
| `request` | a request: where it stands, its arguments, what it read, its row not yet committed |
| `clock` | `timezone.now()` |
| `page`, `audit` | the two readers and what each has read so far |

`Lock` waits for the customer's row; a redemption then tests the balance
(`CheckBalance`, or `Refuse`, the 409 that returns from inside the block);
`ReadLatest`, `Insert` and `Commit` are `award_points`. `Commit` makes the row
and its `Redemption` visible together, because the redeem view's transaction
spans both; `Crash` rolls back. A row's `created_at` is the clock at its
insertion, and two rows may carry the same reading. A ledger starts empty or
with the row that the migration `0010_backfill_points` credited. Before a
redemption the views test that the reward is enabled; here every cost in
`Costs` is that of an enabled reward.

`memberships_check` reads the sum of a customer's rows and the latest
`balance_after` in two queries without a lock. An award that commits in between
makes it report drift on a consistent ledger; `DriftIsInBetween` says that
nothing else does: what it calls drift is the awards of the time between its reads.

`PointsAccount.tla` is the abstract specification: a balance that is earned and
adjusted, and vouchers each paid from a balance that covers it, one atomic step
each. `ImplementsAccount` is the refinement: the balance is the
`balance_after` of the latest row, the vouchers are the `Redemption` rows.

| Run | Shows |
|---|---|
| `points_award` | two concurrent requests with crashes, equal timestamps and both readers: each row continues the balance before it (`RunningBalance`); what the audit calls drift was awarded between its reads, and the tiers shown fit the points shown (`ReadersAreSound`); the account is implemented, so that no redemption overdraws it and each voucher has its row (`ImplementsAccount`); every request ends (`RequestsEnd`) |

One customer is enough: no action reads two. Two requests make every pair of
award, adjustment and redemption meet, and the backfilled row gives the first
redemption something to spend. `MaxClock = 1` allows rows with equal and with
different timestamps.

*Fairness.* Postgres queues the transactions that wait for a row, so `Lock` is
strongly fair; the steps of a request that runs are weakly fair. No fairness is
asked of the customers who start requests, nor of crashes.

*Proofs* (`PointsLedgerProofs.tla`, for every set of customers and requests and
every amount): the types, `RunningBalance`, `RedemptionsCovered`, and the
refinement of `PointsAccount`. `RunningBalance` alone is not inductive: it needs that a
request in `award_points` holds the lock, that what it drafted was computed from
the row that still is the latest, and that rows are in the order of their
timestamps, so that `order_by("-created_at", "-id").first()` is the last row
(`LatestIsLast`). `IndInv` says that; the proof has one lemma per action over two frame lemmas
(`RowsStay`, `OneRequestMoves`). It rests on the assumptions on the constants
and on the clock of the model, which never goes back.

`ReadersAreSound` speaks of sums over the rows, recursive functions that no
induction theorem of the library reaches here. Three facts take its place. A set
of naturals with a member has a least one (`LeastOfSome`, from the well-foundedness
of `<`), so a statement about positions that failed would fail at a first one,
which the row before it rules out. `RunningBalance` says that `balance_after` obeys
the equation of the sum, so it is a witness that the recursive function exists
(`SumIsTheBalance`); and a sum grows by the row appended (`SumOfAppend`). Hence
lifetime points never fall (`LifetimeGrows`), and `ReadersInv` is inductive next to
`IndInv`: a tier that was read is still reached, a sum that was read is a balance
that the customer had.

Only model-checked: `RequestsEnd`, which is liveness.
`RedemptionsCovered` and `TypeOK` are proved and have no run of their own: the
refinement, which the run checks, fails when either does.

## BookingVisits

`BookingVisits.tla` models one customer's bookings through every save that
changes their status, with the signals of `core/signals.py` that run inside it.

| Variable | In the code |
|---|---|
| `status` | `Booking.status`; `unborn` and `deleted` are rows that are not in the table |
| `total_visits` | `Customer.total_visits` |
| `credits` | how many `PointTransaction` rows have source `booking` and this booking as reference |
| `request` | per worker: the verb, the status of the copy in memory, what `pre_save` found |
| `job` | `auto_complete_checked_in`: the booking it is at, and whether it found a credit |
| `crashes` | how many workers died in a request |
| `raced` | history: bookings whose credit a save looked for while another was between its look and its award |
| `overtaken` | history: saves that wrote over another standing (no row, visit, cancelled) than `pre_save` had read, and deletions of another standing than was loaded |
| `floored` | history: decrements that the filter `total_visits__gt=0` refused |

A request loads the booking and decides (`CheckIn`, `UndoCheckIn`, `Cancel`,
`Confirm`, `Edit`, `Delete`, or `Create`, which inserts at once). A save is then
`CapturePriorStatus` (the `pre_save` receiver's own read), `WriteRow`,
`UpdateCounters`, `LookForCredit` and `AwardPoints`, each a commit of its own.
PATCH saves every column, so it writes a status back that it did not mean to
change, and inserts the row again if it was deleted meanwhile; the other saves
name their columns and fail on a missing row. `Model.delete()` runs its signal
in one transaction with the DELETE, on the copy that was loaded. The job holds
the row lock from `JobLock` to `JobCommit`, and nobody else's write of that row
comes in between; its signals run inside its transaction.

The customer's link and the QR scan load, test and write the same way, so
`CheckIn` stands for the two; the staff button (`CheckInByStaff`) writes the same
and is an action of its own because it refuses a second press, which the others
answer like the first. `Cancel` likewise stands for the portal,
the staff's refund cancellation and the agent (which skips a booking cancelled
already). `points_per_booking` is positive; with zero nothing is credited.

An undo that read `CHECKED_IN` before the job committed saves `CONFIRMED` over
`COMPLETED`, since neither its load nor its save takes the job's lock. The
booking is then checked in and completed a second time; `CreditedOnce` shows
that the second completion credits nothing, and `VisitsAreBookings` that the
visit is counted once.

| Run | Shows |
|---|---|
| `visits_at_the_desk` | two requests at once for one booking, the job, up to two mishaps: `total_visits` plus the changes due is the number of bookings not cancelled, give or take one for each worker that died, each save that was overtaken and each decrement refused at zero (`VisitsAreBookings`); a booking is credited once unless two saves looked for the credit before either wrote it (`CreditedOnce`); a completed booking has its credit (`CompletedIsCredited`); the job only completes what is still checked in (`CompletesOnlyCheckedIn`) |
| `visits_double_credit` | a violation: two saves of one booking both find no credit (`NeverCreditedTwice`, *Known disagreements*) |

Any number of requests may serve one booking at once, as in the code. The run has
one booking, which two requests and the job contend for: that is where the races
are, and it can be deleted and inserted again under their hands. Saves of two
bookings meet in nothing but `total_visits`, which each changes by an UPDATE of its
own; the proof covers any number of them. `MaxMishaps` bounds deaths and overtaken
saves together; two of them are one of each, or two that add up. Of the statuses a
PATCH can write, `cancelled` and `completed` are the two the signals react to, and the
status loaded is always among the choices. `CHECK_DEADLOCK FALSE`: a booking that was
deleted stays so.

The comment of `core/signals.py:14-15` says "no over-counting". Of one request at a time
that is so. Of two, `pre_save` of both may read the status that either then changes,
and each counts its change: `VisitsAreBookings` says how far the counter may be off for
that, and that nothing else moves it.

No fairness is assumed: the properties say what saves may do, not that they end.

*Proofs* (`BookingVisitsProofs.tla`, for every set of bookings, workers and edits,
any number of mishaps, and any requests at once for one booking): the types and the
four properties. `DeskInv` is inductive for the types and `CompletesOnlyCheckedIn`: a
busy worker has a booking, and a row the job has locked stays checked in until the
commit, because every write of a row waits for the lock. `CreditInv` adds, for each
booking not `raced`, that one process at most, of the workers and the job, has found no
credit and is to write it, and only while there is none (`OneCredits`): whoever looks
while another is on its way puts the booking in `raced`. `Moves` says what every
step of a request leaves alone, and has a frame lemma for each invariant.
`CompletedIsCredited` needs that whoever saved a booking as completed is still on its way
to the credit (`DueInv`).

`VisitsAreBookings` equates a counter with a cardinality. Each step is shown to move the
set of visits, the set of changes due and the counter by amounts that agree, or
to count a mishap for the difference: `Drift` changes by what a write owes
beyond what it did to the row (`WriteOwes`), which is not zero only when the
row's standing is not the one `pre_save` found. Finite sets of bookings and workers
are assumed for it.

## SlotCalendar

`SlotCalendar.tla` models the slots of one resource: the bookings made by the
web API (`api/views.py`, `api/serializers.py`), by the agent's tools
(`agent_tools/tools.py`) and moved by the portal (`api/views_me.py`), the legacy
Checkout webhook and `expire_holds`, all over the exclusion constraint
`booking_no_overlap` of `core/models.py`.

| Variable | In the code |
|---|---|
| `row` | the `Booking` row: status, slot, the slot its `total_amount` was quoted for, and whether `created_at` is before the reaper's cutoff |
| `request` | a request in flight: its verb, its booking, and the changed copy in memory |
| `session` | external: the Checkout session of a hold |
| `reaper` | the primary keys that the SELECT of `QuerySet.delete()` returned |
| `byHand` | history: bookings that the agent or a staff PATCH set out to move, which leaves the price as it was |

Time is a grid of instants (`TimeSlots.tla`); slots are half-open, as the
`[)` range of the constraint. A request loads the row (`Modify`, `Reschedule`,
`Patch`, `Cancel`, `Delete`), and saves later: `SaveColumns`
is the save that names its columns, and `SaveWhole` that of PATCH, which names
none and writes all; `CancelByAgent` loads and saves at once. `Fits` is the constraint; it is
evaluated inside the INSERT or UPDATE, which is then one step. A save of named
columns on a deleted row fails; PATCH inserts the row again. A creation is one
step because it reads nothing that it relies on: the price is computed from its
own input. The agent's hold has a second one, the Checkout session, which may
never be opened (`NoCheckout`: not configured, Stripe's error swallowed, or the
process died). A request that is refused (unknown booking, a start in the past,
the lead time of a cancellation, the end before the start) changes nothing and
is not an action. Price is abstracted to the slot it was quoted for: the rules
of `pricing/` are not modelled, and may change between two quotes.

`Availability.tla` is `_compute_availability`: the sweep over the day's bookings
in order of start, which collects the gaps; and the windows around a taken slot
that the agent suggests. `FreeFor` is the agent's test, `_resources_free_in`. Hours and bookings lie within one UTC day.

`Calendar.tla` is the abstract specification: a booking takes a slot at one
instant, when it is free, or gives it up. `ImplementsCalendar` is the
refinement, by the slots of the rows.

| Run | Shows |
|---|---|
| `slot_calendar` | prices stay with their slots through stale saves and re-inserts; web and agent offer the same slots for all business hours, and what the agent suggests is free; the calendar is implemented (`ImplementsCalendar`), each step taking one slot that is free or giving slots up, whatever was read before; holds end |

One resource is enough, since the constraint and both availability functions
filter on it. Two bookings are what an overlap takes, and two requests what a
stale save takes; a slot of a horizon of 3 can be inside, adjacent to, across or
equal to another, and bookings start free, taken, or made before. PATCH sets
`cancelled` or keeps the status read; the other statuses act on slots the same
way.

*Fairness.* Time passes (`HoldAges`) and cron runs `expire_holds`
(`ReaperSelect`, `ReaperDelete`). Nothing is assumed of customers, Stripe or
staff; `HoldsEnd` therefore covers the hold whose session was never opened.

*Proofs* (`SlotCalendarProofs.tla`, for any bookings, requests, horizon, lengths
and edits): the types, `QuotedForItsSlot`, and the refinement of
`Calendar`. Every step leaves the slots alone, or writes one row that passes the
constraint in the same statement, or removes rows (`StepsWriteOrRemove`); the
types and the refinement need no more; that no two bookings overlap (`NoOverlap`) is a
conjunct of `IndInv`, the constraint carried to whole states. The price needs that each
copy in memory carries its own slot's price unless its booking is in `byHand`
(`Intact`): `IndInv` adds that, with the shape of what a request holds
(`InHand`). `ChannelsAgree` holds in every state of the right types, by an argument
about the loop of `_compute_availability`: the bookings of a day have an order by
start (`SomeOrder`), some function sweeps them in that order (`SomethingSweeps`), and
after each booking (`SweptTo`) the cursor is past it, a slot that overlaps no
booking of the day lies past the cursor or in a gap, and a slot in a gap overlaps
none; after the last booking that is the claim (`FreeStretches`). Model-checked
only: `HoldsEnd`, liveness.

What the model also shows and no property states, because the code promises
nothing there:

- The constraint has no status condition, so a cancelled booking keeps its slot,
  while both availability functions leave cancelled bookings out. A slot offered
  as free, or by the agent as a suggestion ("nearby windows that are actually
  bookable"), is then refused.
- `expire_holds` deletes by the primary keys it selected: a hold that is paid
  and confirmed between the SELECT and the DELETE is deleted. A session stays
  open after its hold was reaped; a payment then finds no row to confirm.
- The sweep clamps a booking's start only from below: a booking after closing
  makes the last free stretch run past closing. `ChannelsAgree` speaks of slots
  within the hours.
- The day is queried from midnight to midnight UTC, the hours are in the store's
  zone; for a store elsewhere bookings of part of its day are missed.

## OutboundQueue

`OutboundQueue.tla` models the messages to one customer: `outbound/signals.py`
(what a save of a booking enqueues and cancels), `outbound/api.py`
(`enqueue_message`), `send_outbound`, and the two writers of the customer's tags,
the STOP webhook and the QR click. `QuietHours.tla` is `outbound/quiet_hours.py`.

| Variable | In the code |
|---|---|
| `booking`, `request` | the booking's status; the saves in flight, with what `pre_save` read and the messages `post_save` still wants |
| `message` | `OutboundMessage` rows: status, template, channel, `scheduled_for` (`at`) and its first value (`due`) |
| `worker` | the runs of `send_outbound`: the batch of each, the row it has locked |
| `tags`, `tagger` | `Customer.tags`, and the copies that its two writers have read |
| `configured`, `quiet`, `now` | credentials in the environment, the store's window, `timezone.now()` |
| `delivered` | external: how often the provider accepted each message |
| `optOut`, `late`, `twice` | history, for the properties |

A worker selects the oldest due rows without a lock, then takes each with
`SELECT ... FOR UPDATE SKIP LOCKED` and asks for its status again. The actions that
do not call a provider (opted out, put off, no adapter, not configured) are one
step, since nobody else can write the row; a hand-over is three (`Take`, `Dispatch`,
`MarkSent`), because the customer may text STOP, and the worker may die, in
between. A worker that dies after `Dispatch` rolls its row back to queued: the
message is sent twice, which `DeliveredOnce` allows for exactly those (`twice`).

| Run | Shows |
|---|---|
| `outbox_send` | a message is handed over once and never when cancelled or failed (`DeliveredOnce`); not after STOP was saved (`OptOutRespected`); at the first time outside the quiet window (`FirstAllowedTime`, said with a quantifier over all times, not with `NextSendTime`); and is settled in the end (`MessagesSettle`) |

One booking, two workers and two messages make every pair of actions on a row
meet; a batch of one makes the oldest-first selection matter; a day of two ticks,
one of them quiet, lets messages fall inside, outside and at the end of the window,
and `End` = 2 reaches the next day. One crash is enough for a double hand-over.

*Fairness.* Cron runs `send_outbound` (`Send` of each worker), requests go on or die,
time passes, and the operator configures the channel in the end. The last is an
assumption on people: without it a message waits queued for ever, by design.

What the model has and no property promises, because the code does not:

- Two saves that see the same transition both find no message and insert one each
  (`outbound/api.py:47`, read before insert, no unique index).
- A click on a QR action that read the tags before STOP was saved writes the opt-out
  away; and STOP between a worker's read of the customer and its call is too late.
- Quiet hours are judged at `scheduled_for`, not at the time of the hand-over: a
  message that is due before the window and sent late goes out within it.
- Rows of a channel without credentials stay at the head of every batch; with
  `BatchSize` of them the others wait until it is configured.
- A reminder keeps its time when its booking is moved.

*Proofs* (`OutboundQueueProofs.tla`, for any number of bookings' saves, messages,
workers and crashes, any day and window): the types, `DeliveredOnce`,
`OptOutRespected` and `FirstAllowedTime`. `SendInv` accounts for the provider's
count: a row that two workers could hold would break it, so no row has two holders
and a held row stays queued, and `delivered` is what the row's status and its
worker's place say, plus the crashes. `WaitInv` adds that all the times a message
was moved past are quiet and the time of one that is handed over is not; below it
lies what `NextSendTime` returns, by cases on a window that does or does not cross
midnight and on the remainders of day lengths.

## Campaigns

`Campaigns.tla` models one campaign (`api/views_campaigns.py`,
`campaigns/runner.py`, `campaigns/send.py`): PATCH, launch, send loop, cancel,
delete, each request a sequence of commits, while tags change. The run of the
launch's transaction is one step, under the campaign's row lock; the loop hands a
message over and then saves its run. `Impl` chooses the sender, as the code's own
indirection does: `"forced"` is one that a caller supplies, with any outcome, and
`"outbound"` is `_real`.

Safety is checked in the run `back_office` with `"forced"` and with deaths:
`SentOnce` and `OptOutSkipped`. Both speak of edits: a PATCH that tested `draft`
before the launch writes `draft` back after it, and each such edit (`reopened`)
lets a customer be sent the message once more. `campaign_stuck` runs `_real` and
lets nobody die; see *Known disagreements*. Two launches, an edit and a deletion
are four kinds of request; three at once make each pair meet with a third one in
between, and three customers against a cap of two reach the cap.

*Proofs* (`BackOfficeProofs.tla`, for any customers, requests, tags, cap and
sender): `SentOnce` and `OptOutSkipped`. `SentOnce` counts what has happened, and
that does not carry over a step; `ChancesCount` counts what still can: the
hand-overs so far, the requests that hold the customer's run, and a launch that the
status allows, are together at most one and one per `reopened`. `NobodyHolds` says
that a skipped run is in no request's hands. The set of requests is assumed finite.

## Pricing and Quotes

`Pricing.tla` is `pricing/engine.py` with its five strategies: rules in order of
priority and id, the gate of the rules that do not stack, brackets, rounding at the
end. `ExpectedTotal` says the same without a loop: of the rules that fire, the last
that sets the total, and the percentages after it (`Share`, which takes them in
whatever order). Prices are whole cents and slots whole hours; an amount between is an
exact fraction of a cent, `[num, den]`, as a Decimal of 28 digits is for the prices of
a store under seven or eight percentages, and is rounded once, at the end.
`Quotes.tla` puts the three computations of a booking around it: shown (`Show`), checked (`Check`, with its 409
and the new quote) and stored (`Create`), and that of a reschedule; rules and tier
change between any two steps, and `compute_quote` reads the tier before the rules. It
may raise: the page then has no price, the check is answered 500 and the page keeps the
price it shows, and the serializer (`serializers.py:192-198`) and the portal
(`views_me.py:245-252`) store the base price with an empty snapshot (`Fallback`), which
is the quote of no rules.

| Run | Shows |
|---|---|
| `customer_parts` | with `CustomerCodes` beside it (below): the stored price is the shown one within a cent (`AgreedPrice`), unless rules or tier changed after the check read them, `compute_quote` raised when the row was made, the phone was not in its normal form, or the booking was moved; every stored total is `ExpectedTotal` of the rules and tier it was made from, of none after a failure (`TotalAsExpected`) |

A week of two days of four hours and three slots put each rule on, across and off
its days and hours; eight rules have every type, ties of priorities, three that do
not stack, a discount above 100 %, an open bracket out of order, one of another
resource, and one that the form refuses. Prices are small there, because TLC's
integers have 32 bits and a denominator grows by a factor of 100 with each percentage
that fires. All 128 sets of valid rules are
initial states; two edits are one before the check and one after it, or one and a reschedule. The
exceptions in `AgreedPrice` are facts of the code: the check looks the customer up
by the phone as it was typed while the creation normalises it
(`api/views.py:305`), so the check may price without the tier. Hours and days of
rules are those of the slot's UTC time in code and model alike.

*Proofs* (`CustomerProofs.tla`): `AgreedPrice`, for any rules, tiers, slots,
requests and number of edits. The proof never opens `ComputeQuote`: it rests on
the order of the reads alone, so it holds for whatever the engine computes.
`StillAgreed` is what a request relies on between two reads: until `moved`, the tier
it read is the customer's, and the price of now is the agreed one. A row stored without a
quote is in `moved`: its price was agreed with nobody.

`TotalAsExpected` does open it, for every finite set of rules the form accepts (any
priorities, equal ones included), every slot and every tier. The proof has four parts.
- *Order.* `Before` is a strict total order on rules, since ids are unique; the
  ranks of a finite set are 0..n-1, each once (an injection between sets of one size is
  onto), so `InOrder` lists the set in that order (`RulesInTurn`).
- *Percentages.* `Share` takes some rule of a set first. `ShareOfAny` says that it could
  have taken any: two percentages commute (`Percents`), by induction over the sizes of sets.
  This is true of exact amounts and false of amounts rounded on the way.
- *The loop.* `Right` is its invariant: after the n first rules `fired` says that one
  that does not stack has had its turn, and the running total is, as a fraction, what the
  n rules say taken together. `OneMoreTurn` goes through the cases of one rule: it is not for
  this slot or shut out, it sets the total, it changes it.
- *Rounding.* Equal fractions round alike (`RoundedSame`).

Induction over the loop is over a set of its positions (`UpTo`), and the recursive
functions of `BracketTotal`, `Share` and `ComputeQuote` are shown to exist
(`Unfolds`, `SomethingShares`) before their equations are used. `StoredInv` then carries
"each row's total is the quote of the rules, slot and tier in it" through
the steps of `Quotes`; a row stored without a quote is that of no rules
(`FallbackIsQuoted`).
What it assumes of rules (`QuotesAssumption`) is their columns' types, unique primary
keys, and that there are finitely many.

## AgentLoop

`AgentLoop.tla` models turns of the conversational agent (`agent/loop.py`,
`agent/views.py`, `api/webhooks_twilio.py`, `create_booking` of `agent_tools/tools.py`):
the thread is found or created, the message saved, the history loaded, and then the
model is asked and its tool calls are run until it answers or the cap is reached. Each save of a row is a step;
`Break` is any exception or the end of the process, `CannotAsk` the failure of the
model after its retries, `Redeliver` Twilio's second delivery. `create_booking` commits its
row before the receivers of `post_save` run, outside any transaction; one that raises
turns the result into an error, and the row stays (`CreateBooking` with `told` FALSE).

| Variable | In the code |
|---|---|
| `threads` | `Conversation` rows |
| `messages` | what the rows of each conversation amount to for the model's API: calls still without a result, or a history that is torn |
| `turns` | a turn in progress: iteration, calls to run, results to save, booking made, events streamed |
| `bookings` | rows that `create_booking` committed, and whether its result told of them (their slots are `SlotCalendar`'s business) |
| `overlapped`, `faults` | history and bound |

| Run | Shows |
|---|---|
| `agent_turns` | every call in the rows has its result unless turns overlapped or broke off (`ThreadIsReadable`); `done` names a booking exactly when a result of the turn told of one, and one of those, even at the cap (`AnswerNamesBooking`); in the end, for good, every stream is closed and every webhook answered unless the process died (`TurnsEnd`) |

Two texts of one customer and a web message; two iterations are one with calls and
one at the cap; the plan (a write that the pool's read overtakes) is the one whose
results change order; with one slot a call finds it free or taken. *Fairness*: a
turn has a thread of its own, and `complete()` gives up, so a turn that can take a
step does (`WF` of `Advance`).

No property holds of these: Twilio redelivers a text whose turn made a booking and
then died, and the second turn knows nothing of the first; two first texts at once
create two conversations, since `get_or_create` has no unique constraint behind it
(`api/webhooks_twilio.py:102` says "one-per-customer"), and later texts then raise
`MultipleObjectsReturned` (`refused`); a booking made before the model fails is
told to nobody, and so is one whose receivers raised: the model hears of an error, and
no summary names the booking that stands.

*Proofs* (`CustomerProofs.tla`, for any conversations, turns, tools, plans,
iterations and faults): `ThreadIsReadable` and `AnswerNamesBooking`. What a turn has
to run and to record are sets of calls and of results, which the pool finishes in
any order. `BookedInv` says that the summary and the unsaved results know of each
booking of the present attempt whose result told of it, and of no other. `ReadableInv` says that the rows
await just what the one turn at work has still to record (`RowsMatch`), which
needs that turns of a conversation that never overlapped are one at a time and
that a call has one result (`OwnCalls`).

## CustomerCodes

`CustomerCodes.tla` models one customer's one-time codes (`core/customer_auth.py`,
`api/views_customer_auth.py`) and the check-in at the door that uses them
(`checkin/views.py`). Codes are rows; the rate limits and the "phone verified" flag
are in the cache of the one web process (`LocMemCache`), which `Restart` empties.
Requests run in threads, one step per statement; time is `Tick`.

| Run | Shows |
|---|---|
| `customer_parts` | with `Quotes` beside it: at most one code is unused (`OneLiveCode`); a customer who keeps asking gets codes for ever, through both rate limits with timeouts of their own (`CodesKeepComing`) |

`MCCustomer` lets the codes or the quotes move while the other part rests in one initial
state: they share no row. `CHECK_DEADLOCK FALSE` because a page that has its booking asks
for nothing more.

Two threads make each pair of statements meet. Lifetimes of one to three ticks keep
their order (minute, code, hour); two codes an hour and two attempts reach both
caps. `Tick` waits for a code that is being issued, a bound that the minute's key
makes harmless. *Fairness*: requests are served, time passes, and the customer's
asking is strongly fair, because the minute's key disables it again and again. That is
the fairness of `CustomerCodes`'s own `FairSpec`, on the actions of its part.

Not promised by the code: an attempt is counted on a copy of the row, so guesses at
the same time count as one; the flag is deleted after the check-in is saved, so a
request in between checks a second booking in; the check-in marks the newest code
used, whichever was verified; a restart forgets the limits.

*Proofs* (`CustomerProofs.tla`, for any number of requests, limits and lifetimes):
`OneLiveCode`. It is not inductive, since it does not say why a second
`create` finds no code: `OneIssuer` says that the key of the last minute stands
until the code is issued, so nobody else has begun, and `NoneWhenCreating` that
the older codes are used by then. `CustomerKeepsPromises` carries this theorem and those of
`Quotes` over to what the run checks: a behaviour of `CustomerSpec` is one of each
part's, since the part at rest stutters.

## The back office: seven parts in one run

`MCBackOffice` instantiates seven modules that share no row, `Campaigns` and six
more. A run picks one of them in `PartsInit` and lets it move while the others rest
in one initial state, so their states add up instead of multiplying. `Sym` permutes
customers (and the chips and accounts for which they stand) and requests; the parts
name none of them.

| Module | Code | Checked | Bounds |
|---|---|---|---|
| `RotatingKeys` | `checkin/services.py`, `rotate_checkin_keys`, admin views; `mint_key` is an UPDATE that finds the rows there when it runs, and an INSERT, committed together | `DoorStaysOpen`: the key that cron keeps or mints outlives its next run | a minute is 2 ticks, rotations of 1, 2 and 3 minutes, 3 rows, one member of staff beside cron |
| `QrActions` | creation, PATCH, DELETE of a `QRAction`, `_reorder_actions`, `_compact_positions` | `MoveLands`: a rewrite leaves places 0..n-1, the moved row where it was asked to be, the others in order | 3 chips, 2 requests, positions up to 2 |
| `StripeAccount` | connect and return views, `handle_account_updated` | `FlagIsOfTheAccount`: the flag is set only after Stripe said so of the account in the row | 3 accounts, 2 requests, 3 events in any order |
| `DepositPolicy` | `calc_deposit`, `calc_refund_amount`, `find_refund_pct`, the settings PATCH | `DepositsAreCovered`: deposit within total, refund within deposit, and under a matrix that grows with notice longer notice never less | totals of a cent and 9.99; values on both sides of 100 %; a matrix that grows with notice, in disorder and with a duplicate, and one refused |
| `Retention` | `compute_cohort`, `compute_churn_score`, the nightly job; the counters as `core/signals.py` keeps them | `ConcernGrows`: a save leaves the label of the days and a score within epsilon of theirs, unless the counters changed while the job was at it; neither gets better unless they changed since the row was last saved | the days around every threshold and one to come; bookings for a day of last month, for today and for tomorrow; 5 visits (the first number with a weight of its own); a missed night |
| `StoreSessions` | `StoreMiddleware`, `CustomerSessionMiddleware`, sign-in and log-out | `ServedAtHome`: a request that names its store is served as no customer of another, and only within a sign-in's lifetime | 2 tabs, 2 stores, cookies of 2 ticks |
| `Campaigns` | above | `SentOnce`, `OptOutSkipped` | 3 customers, 3 requests, a cap of 2, 2 changes of tags |

No fairness is assumed: these are safety properties. `CHECK_DEADLOCK FALSE` because
campaigns, events and chips are finite.

*Proofs* (`BackOfficeProofs.tla`). Each part has its theorem about its own
specification, and `PartsKeepPromises` carries all of them over to what the run
checks: a behaviour of `PartsSpec` is one of each part's, since the parts at
rest stutter.

- `DoorStaysOpen`, for any rows, staff and overlapping transactions: `KeysInv` has the
  types of the rows and of the mints under way, whatever sees which row. Either
  cron finds an active key younger than the rotation less the slop, which leaves it
  the time to the next run; or the row its transaction inserts is active, as no
  mint that began before can have seen it, with its life before it. `KeysAssumption` takes
  rotations of one minute or of two and more: the store keeps whole minutes, and for
  lengths between them the `max` around the slop would make the statement false.
- `MoveLands`, for any chips, requests and places: `ChipsInv` says that finitely many
  rows have places of their own (the unique constraint, kept by every INSERT and
  by both passes of a rewrite) and that a rewrite holds such rows. Such rows
  have an order (`SomeRanking`, by the least number of rows that would have none, with `Sorted` one of its
  choices), a row put into it keeps the others' order (`PutInOne`, `KeepsOrder`), and rows
  written 0, 1, 2 ... in that order land there (`RowsInOrderLand`).

- `FlagIsOfTheAccount`, for any accounts, requests and events in any order: what reads
  "enabled" anywhere (at Stripe, in an event, in an answer) was said of the
  account it is about (`EnabledWasSaid`, `HeardOfTheAccount`).
- `DepositsAreCovered`, for any totals, policies and matrices that the PATCH accepts:
  half-up division of products is shown monotone and bounded, and the row that
  `find_refund_pct` picks never worse for longer notice. `PolicyInv` says that the
  store's matrix stays one that was validated, and that a booking's deposit fits
  its total though the policy has changed since.
- `ConcernGrows`, for any days past or to come: the label and the score are monotone in
  the days away for a customer with the same visits (`CohortGrows`, `ScoreGrows`, over the
  bands of the formula, with the days to come in the first); `ReadIsRow` says that the
  job, while it is at a row, is the only one to write its label and score; `NotAhead` that
  what is stored says no more than the days do, until the counters change.
- `ServedAtHome`, for any stores, customer rows and requests: `CookiesAge` says that
  a session cookie, wherever a copy of it is, is no younger than its sign-in.

What the models show that no property states:

- *Keys.* With a rotation of one minute the `max` takes the minute of slop away, and
  a key can expire before cron's next run. The grace of a superseded key is cut by
  the key's own expiry. Two mints at once leave two active keys.
- *QR actions.* PATCH saves the position it read, and inserts a deleted row again.
  A rewrite works with the order read before it waited for its locks; a creation or
  deletion meanwhile leaves gaps, or meets the unique constraint and undoes it.
- *Stripe account.* Two connects at once leave one account behind, and the flag may be
  that of the first (`raced`). The last event handled wins, not the last one sent.
- *Deposit policy.* A PATCH of the mode alone turns a fixed 150.00 into 150 %;
  `calc_deposit` caps it.
- *Retention.* A booking counts when it is made, with the day it is for: a customer with
  one for next month reads "active", with a score of 0, from tonight on. A cancellation or a
  deletion takes the visit back and leaves the day, so that the label speaks of a day on
  which nobody came. For 5 to 9 visits the factor is below one, so that more visits first
  lower the score of the same absence; a customer who never came has the highest.
- *Sessions.* The URL-keyword branch of `_resolve_store` never fires, as the middleware
  runs before the URL is resolved. Logging out deletes the cookie and revokes
  nothing.

## Known disagreements

Places where a sentence of the repository says one thing and the model, following
the code, does another. The first three are runs of the project (`expect: violation`);
for the others a configuration is kept beside the module, and TLC finds the
violation with it.

| Configuration | Property | The code says | What happens |
|---|---|---|---|
| `Campaigns_stuck.cfg` (run `campaign_stuck`) | `SendingHasARequest` | `outbound/templates.py:9`: the rendered body is passed "verbatim via `enqueue_message(..., body=...)`" | `campaigns/send.py:43` passes it in the context; `"campaign"` is no template, the first send raises, and the campaign stays SENDING |
| `StoreSessions_sign_in.cfg` (run `sign_in_sticks`) | `SignInSticks` | `views_customer_auth.py:125`: "On success: 200 ... and a signed cookie" | the middleware deletes the old cookie on the way out, over the new one |
| `BookingVisits_double_credit.cfg` (run `visits_double_credit`) | `NeverCreditedTwice` | `core/signals.py:99-100`: a second save "does not double-credit, guarded by a dedup check on (source, reference)" | two saves of one booking both find no credit, and both write one |
| `BookingPayments_sweep.cfg` | `SweepSparesPaid` | the sweep is for unpaid bookings | it saves over a booking paid after its list was read |
| `BookingPayments_double_refund.cfg` | `RefundWithinMatrix` | a cancellation refunds what the matrix gives | two cancellations at once refund twice |
| `BookingPayments_partial_refunds.cfg` | `LedgerRefundsMatch` | a refund row is the refund | `webhook_handlers.py:121` books the charge's cumulative `amount_refunded` as one refund |
| `BookingPayments_overcharge.cfg` | `NeverOvercharged` | `views.py:303`: "Already paid in full." | a second balance link is paid after the first |
| `SlotCalendar_creep.cfg` | `DurationCapped` | `views_me.py:223`: "Reschedule cannot exceed 150% of original duration." | each reschedule is measured against the one before |

Further hazards that no property covers, because the code offers nothing to hold
them: the portal cancels a paid booking without a refund, and a late payment event
confirms a cancelled one (`views_me.py:294`); the reaper deletes a hold that was paid
in between (`expire_holds.py:31`); a cancelled booking keeps its slot
(`tools.py:118`).

## Proved and only checked

Every safety invariant that a run checks is a theorem, for every value of the
constants; and so are all the action properties and the refinements of `PointsAccount`
and `Calendar`. Where `TypeOK` is proved it is not run again.

| Proof module | Theorems about | Inductive invariants |
|---|---|---|
| `BookingPaymentsTypes`, `BookingPaymentsProofs` | `BookingPayments` | `InHand`, `IndInv` |
| `PointsLedgerProofs` | `PointsLedger` | `IndInv`, `ReadersInv` |
| `BookingVisitsProofs` | `BookingVisits` | `DeskInv`, `CreditInv`, `DueInv`, `VisitInv` |
| `SlotCalendarProofs` | `SlotCalendar`, `Availability` | `IndInv`, `SweptTo` |
| `OutboundQueueProofs` | `OutboundQueue` | `SendInv`, `OptOutKept`, `WaitInv` |
| `CustomerProofs` | `AgentLoop`, and instances of `CustomerCodes` and `Quotes` | `BookedInv`, `ReadableInv`, `CodesInv`, `PriceInv`, `StoredInv` |
| `BackOfficeProofs` | `Campaigns`, and the instances of `MCBackOffice` | `CampaignInv`, `KeysInv`, `ChipsInv`, `StripeInv`, `PolicyInv`, `RetentionInv`, `BrowserInv` |

*Assumptions.* The proofs use the named assumptions on constants and no others:
types and signs of the bounds, names outside the sets they must differ from, and
finite sets where a property counts or adds up (`VisitsAssumption`, `CampaignAssumption`,
`QuotesAssumption`).
Modules that are instantiated name their assumption and the module that instantiates
them assumes it (`CodesAssumption` and `PriceAssumption` of
`MCCustomer`, `PartsAssumption` of `MCBackOffice`), so that runs evaluate it and the
proofs, which extend those modules, may use it. The bounds on
edits, crashes and requests are arbitrary, so the theorems do not rest on
their values.

*Not proved, and why.* Liveness and `ENABLED` are out of the prover's reach:
`EventsSettled`, `CaptureReachesLedger`, `RequestsEnd`, `HoldsEnd`, `MessagesSettle`,
`TurnsEnd`, `CodesKeepComing`.

## Not modelled

- *Customer identity* (`core/customers.py`): one `get_or_create` over a unique key and
  a fill-in of two columns. The fill-in saves a copy read earlier, so it can write an
  older name or locale over a newer one, which its docstring ("never overwrites a
  non-empty existing value") rules out for one request at a time only.
- *Staff lists and small CRUD*: segments, rewards and tiers, the bulk message to
  customers, the profile of the portal, the voice webhooks (one row per call). Each is
  one INSERT or UPDATE that nothing else depends on.
- *Staff authentication*: Django's own sessions.
- *Reports, receipts, serialisation, retrieval, embeddings, provider adapters, seed
  data, the front end*: they read state or do I/O, and no property here depends on
  them.
