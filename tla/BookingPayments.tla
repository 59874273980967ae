---------------------------- MODULE BookingPayments ----------------------------
(***************************************************************************)
(* The life of a booking's money: the deposit a booking opens when it is   *)
(* created, Stripe's payment intents and charges, the webhook deliveries   *)
(* that report them, and the handlers that move Booking.payment_status and *)
(* the Payment ledger.  Staff cancel with a refund, staff charge the       *)
(* balance, staff edit the booking, and a cron job sweeps unpaid bookings; *)
(* every one of these runs in a request of its own, with no lock on the    *)
(* booking, and any of them may die between two of its commits.            *)
(*                                                                         *)
(* One action is one committed database write or one call to Stripe, so a  *)
(* value read in one action and used in a later one is a stale read.       *)
(* Amounts are integers (cents).  Stripe is an external service: what its  *)
(* intents do is taken from how the code calls it.                         *)
(***************************************************************************)
EXTENDS Integers, FiniteSets

CONSTANTS
    Bookings, NoBooking,
    Intents, NoIntent,  \* Stripe payment intents; an intent also names its charge
    Workers,            \* web processes that answer webhook deliveries
    Requests,           \* staff requests; each identifier is used once
    StaffOps,           \* what staff requests do: "cancel", "balance", "patch"
    Deposits,           \* the values calc_deposit may return
    Total,              \* Booking.total_amount
    RefundPercents,     \* the refund_pct values the store's matrix may yield
    DashboardRefunds,   \* amounts refunded by hand in Stripe's own dashboard
    PatchStatuses,      \* the statuses an edit of the booking may set
    SessionShowsIntent, \* whether Session.create returns its payment_intent
    MaxEvents           \* bound: events Stripe emits

ASSUME DomainAssumption ==
    /\ NoBooking \notin Bookings
    /\ NoIntent \notin Intents

ASSUME AmountAssumption ==
    /\ Deposits \subseteq Nat
    /\ Total \in Nat
    /\ RefundPercents \subseteq 0..100
    /\ DashboardRefunds \subseteq Nat \ {0}
    /\ SessionShowsIntent \subseteq BOOLEAN
    /\ MaxEvents \in Nat

Status == {"pending", "confirmed", "cancelled", "pending_payment",
           "checked_in", "completed"}

PaymentStatus == {"not_required", "pending_payment", "deposit_paid",
                  "paid_in_full", "refunded", "partially_refunded"}

ASSUME StaffAssumption ==
    /\ StaffOps \subseteq {"cancel", "balance", "patch"}
    /\ PatchStatuses \subseteq Status

Paid == {"deposit_paid", "paid_in_full"}
EverPaid == Paid \cup {"refunded", "partially_refunded"}

BookingRow == [status : Status \cup {"absent"}, payment_status : PaymentStatus,
               deposit : Nat, intent : Intents \cup {NoIntent}]

StripeIntent == [booking : Bookings \cup {NoBooking}, kind : {"deposit", "balance"},
                 amount : Int, state : {"unused", "open", "captured", "canceled"},
                 payable : BOOLEAN,  \* a customer holds its client secret or link
                 refunded : Nat]

Event == [id : Nat, type : {"succeeded", "payment_failed", "refunded"},
          intent : Intents, refunded : Nat]
NoEvent == [id |-> 0, type |-> "none", intent |-> NoIntent, refunded |-> 0]

Payment == [pk : Nat, booking : Bookings, kind : {"deposit", "balance", "refund"},
            amount : Int, status : {"pending", "succeeded", "failed"},
            intent : Intents \cup {NoIntent}, charge : Intents \cup {NoIntent},
            event : Event \cup {NoEvent}]

\* The requests in flight: where each stands, and what it remembers of its reads.
Creation == [pc : {"none", "inserted", "held", "opened", "linked", "recorded",
                   "answered", "dead"},
             deposit : Nat, intent : Intents \cup {NoIntent}]

Delivery == [pc : {"idle", "claim", "handle", "refund", "mark"},
             event : Event \cup {NoEvent}, booking : Bookings \cup {NoBooking},
             pick : Nat, deposit : Nat]

StaffRequest == [pc : {"idle", "cancel", "refund", "provisioned", "refused", "papered",
                       "balance", "session", "link", "patch", "done"},
                 booking : Bookings \cup {NoBooking}, seen : BookingRow, pk : Nat,
                 amount : Nat, intent : Intents \cup {NoIntent}]

SweepStep == [pc : {"idle", "selected", "voiding"}, intent : Intents \cup {NoIntent}]

VARIABLES
    booking,    \* core.models.Booking rows
    creating,   \* the request that creates each booking
    stripe,     \* Stripe's payment intents
    payments,   \* billing.models.Payment rows, the ledger
    nextPk,     \* primary key of the next Payment row
    events,     \* every event Stripe has emitted
    recorded,   \* events with a WebhookEvent row
    processed,  \* events whose WebhookEvent.processed_at is set
    acked,      \* events answered with a 200: Stripe stops retrying them
    worker,     \* webhook deliveries being handled
    request,    \* staff requests being handled
    sweep       \* the sweeper's position on each booking

vars == <<booking, creating, stripe, payments, nextPk, events, recorded,
          processed, acked, worker, request, sweep>>

inbox == <<recorded, processed, acked, worker>>
ledger == <<payments, nextPk>>

---------------------------------------------------------------------------
AbsentBooking == [status |-> "absent", payment_status |-> "not_required",
                  deposit |-> 0, intent |-> NoIntent]
UnusedIntent == [booking |-> NoBooking, kind |-> "deposit", amount |-> 0,
                 state |-> "unused", payable |-> FALSE, refunded |-> 0]
IdleWorker == [pc |-> "idle", event |-> NoEvent, booking |-> NoBooking,
               pick |-> 0, deposit |-> 0]
IdleRequest == [pc |-> "idle", booking |-> NoBooking, seen |-> AbsentBooking,
                pk |-> 0, amount |-> 0, intent |-> NoIntent]
DoneRequest == [IdleRequest EXCEPT !.pc = "done"]

Init ==
    /\ booking = [b \in Bookings |-> AbsentBooking]
    /\ creating = [b \in Bookings |-> [pc |-> "none", deposit |-> 0, intent |-> NoIntent]]
    /\ stripe = [i \in Intents |-> UnusedIntent]
    /\ payments = {}
    /\ nextPk = 1
    /\ events = {}
    /\ recorded = {} /\ processed = {} /\ acked = {}
    /\ worker = [w \in Workers |-> IdleWorker]
    /\ request = [r \in Requests |-> IdleRequest]
    /\ sweep = [b \in Bookings |-> [pc |-> "idle", intent |-> NoIntent]]

Exists(b) == booking[b].status # "absent"

\* p is the row that order_by("-created_at").first() returns from S.
IsLatest(p, S) == p \in S /\ \A q \in S : q.pk <= p.pk

NewPayment(b, kind, amount, intent) ==
    [pk |-> nextPk, booking |-> b, kind |-> kind, amount |-> amount,
     status |-> "pending", intent |-> intent, charge |-> NoIntent, event |-> NoEvent]

AddPayment(p) == payments' = payments \cup {p} /\ nextPk' = nextPk + 1

\* Payment.objects.filter(pk=p.pk).update(...)
UpdatePayment(p, new) == payments' = (payments \ {p}) \cup {new}

\* Payment.stripe_event_id is unique: row k may carry e if no other row does.
EventIsFree(k, e) == \A p \in payments : p.event = e => p.pk = k

---------------------------------------------------------------------------
(* Creating a booking and opening its deposit (BookingListCreateView.create *)
(* and _maybe_open_deposit).                                               *)

CreateStep(b, from, to) ==
    /\ creating[b].pc = from
    /\ creating' = [creating EXCEPT ![b].pc = to]

InsertBooking(b) ==
    /\ CreateStep(b, "none", "inserted")
    /\ booking' = [booking EXCEPT ![b] = [AbsentBooking EXCEPT !.status = "pending"]]
    /\ UNCHANGED <<stripe, ledger, events, inbox, request, sweep>>

NoDepositDue(b) ==
    /\ 0 \in Deposits
    /\ CreateStep(b, "inserted", "answered")
    /\ UNCHANGED <<booking, stripe, ledger, events, inbox, request, sweep>>

HoldForDeposit(b) ==
    /\ creating[b].pc = "inserted"
    /\ \E d \in Deposits \ {0} :
        /\ creating' = [creating EXCEPT ![b] = [@ EXCEPT !.pc = "held", !.deposit = d]]
        /\ booking' = [booking EXCEPT ![b] =
             [@ EXCEPT !.payment_status = "pending_payment", !.status = "pending",
                       !.deposit = d]]
    /\ UNCHANGED <<stripe, ledger, events, inbox, request, sweep>>

OpenDepositIntent(b) ==
    /\ creating[b].pc = "held"
    /\ \E i \in Intents :
        /\ stripe[i].state = "unused"
        /\ stripe' = [stripe EXCEPT ![i] =
             [UnusedIntent EXCEPT !.booking = b, !.state = "open",
                                  !.amount = creating[b].deposit]]
        /\ creating' = [creating EXCEPT ![b] = [@ EXCEPT !.pc = "opened", !.intent = i]]
    /\ UNCHANGED <<booking, ledger, events, inbox, request, sweep>>

\* PaymentIntent.create raises: the answer carries no client secret.
StripeUnavailable(b) ==
    /\ CreateStep(b, "held", "answered")
    /\ UNCHANGED <<booking, stripe, ledger, events, inbox, request, sweep>>

LinkIntent(b) ==
    /\ CreateStep(b, "opened", "linked")
    /\ booking' = [booking EXCEPT ![b].intent = creating[b].intent]
    /\ UNCHANGED <<stripe, ledger, events, inbox, request, sweep>>

RecordDeposit(b) ==
    /\ CreateStep(b, "linked", "recorded")
    /\ AddPayment(NewPayment(b, "deposit", creating[b].deposit, creating[b].intent))
    /\ UNCHANGED <<booking, stripe, events, inbox, request, sweep>>

\* Fault: the secret is handed out before the ledger row is written.
AnswerBeforeRecord(b) ==
    /\ CreateStep(b, "linked", "answered")
    /\ stripe' = [stripe EXCEPT ![creating[b].intent].payable = TRUE]
    /\ UNCHANGED <<booking, ledger, events, inbox, request, sweep>>

\* The 201 answer hands the customer the intent's client secret.
AnswerCreate(b) ==
    /\ CreateStep(b, "recorded", "answered")
    /\ stripe' = [stripe EXCEPT ![creating[b].intent].payable = TRUE]
    /\ UNCHANGED <<booking, ledger, events, inbox, request, sweep>>

CrashCreate(b) ==
    /\ creating[b].pc \in {"inserted", "held", "opened", "linked", "recorded"}
    /\ creating' = [creating EXCEPT ![b].pc = "dead"]
    /\ UNCHANGED <<booking, stripe, ledger, events, inbox, request, sweep>>

Create(b) ==
    \/ InsertBooking(b) \/ NoDepositDue(b) \/ HoldForDeposit(b)
    \/ OpenDepositIntent(b) \/ StripeUnavailable(b) \/ LinkIntent(b)
    \/ RecordDeposit(b) \/ AnswerCreate(b) \/ CrashCreate(b)

---------------------------------------------------------------------------
(* Stripe (external).  A customer may confirm an intent, or have a card    *)
(* declined, once he holds its secret; each outcome emits an event.        *)

Emit(type, i, refunded) ==
    /\ Cardinality(events) < MaxEvents
    /\ events' = events \cup {[id |-> Cardinality(events) + 1, type |-> type,
                               intent |-> i, refunded |-> refunded]}

Pay(i) ==
    /\ stripe[i].state = "open" /\ stripe[i].payable
    /\ stripe' = [stripe EXCEPT ![i].state = "captured"]
    /\ Emit("succeeded", i, 0)
    /\ UNCHANGED <<booking, creating, ledger, inbox, request, sweep>>

Decline(i) ==
    /\ stripe[i].state = "open" /\ stripe[i].payable
    /\ Emit("payment_failed", i, 0)
    /\ UNCHANGED <<booking, creating, stripe, ledger, inbox, request, sweep>>

\* A charge's amount_refunded is cumulative over its refunds.
StripeRefund(i, amount) ==
    /\ stripe[i].state = "captured"
    /\ stripe[i].refunded + amount <= stripe[i].amount
    /\ stripe' = [stripe EXCEPT ![i].refunded = @ + amount]
    /\ Emit("refunded", i, stripe[i].refunded + amount)

DashboardRefund(i) ==
    /\ \E a \in DashboardRefunds : StripeRefund(i, a)
    /\ UNCHANGED <<booking, creating, ledger, inbox, request, sweep>>

Stripe(i) == Pay(i) \/ Decline(i) \/ DashboardRefund(i)

---------------------------------------------------------------------------
(* The webhook receiver.  Any emitted event may be delivered at any time,  *)
(* in any order and more than once.                                        *)

Outside == <<creating, stripe, nextPk, events, request, sweep>>

Answer(w) ==
    /\ acked' = acked \cup {worker[w].event}
    /\ worker' = [worker EXCEPT ![w] = IdleWorker]

WorkerAt(w, pc) == worker[w].pc = pc
GoTo(w, pc) == worker' = [worker EXCEPT ![w].pc = pc]

\* Look the event up in WebhookEvent; a processed one is answered at once.
Receive(w, e) ==
    /\ WorkerAt(w, "idle")
    /\ \/ /\ e \in processed
          /\ acked' = acked \cup {e}
          /\ UNCHANGED worker
       \/ /\ e \notin processed
          /\ worker' = [worker EXCEPT ![w] =
               [@ EXCEPT !.event = e, !.pc = IF e \in recorded THEN "handle" ELSE "claim"]]
          /\ UNCHANGED acked
    /\ UNCHANGED <<booking, payments, recorded, processed, Outside>>

\* Fault: processed_at is set when the event is recorded.
ClaimMarksProcessed(w) ==
    /\ WorkerAt(w, "claim")
    /\ worker[w].event \notin recorded
    /\ recorded' = recorded \cup {worker[w].event}
    /\ processed' = processed \cup {worker[w].event}
    /\ GoTo(w, "handle")
    /\ UNCHANGED <<booking, payments, acked, Outside>>

\* Insert the WebhookEvent row; losing the race on its unique id is a 500.
Claim(w) ==
    /\ WorkerAt(w, "claim")
    /\ \/ /\ worker[w].event \notin recorded
          /\ recorded' = recorded \cup {worker[w].event}
          /\ GoTo(w, "handle")
       \/ /\ worker[w].event \in recorded
          /\ worker' = [worker EXCEPT ![w] = IdleWorker]
          /\ UNCHANGED recorded
    /\ UNCHANGED <<booking, payments, processed, acked, Outside>>

\* Fault: the dispatch table sends every payment_intent event to one handler.
HandlingAnyOutcome(w, type) ==
    WorkerAt(w, "handle") /\ (worker[w].event.type = "refunded") = (type = "refunded")

Handling(w, type) == WorkerAt(w, "handle") /\ worker[w].event.type = type

OfIntent(i) == {p \in payments : p.intent = i}
OfCharge(i) == {p \in payments : p.charge = i}

NoPaymentFound(w) ==
    LET e == worker[w].event IN
    /\ WorkerAt(w, "handle")
    /\ IF e.type = "refunded" THEN OfCharge(e.intent) = {} ELSE OfIntent(e.intent) = {}
    /\ GoTo(w, "mark")
    /\ UNCHANGED <<booking, payments, recorded, processed, acked, Outside>>

\* payment_intent.succeeded, one transaction
HandleSucceeded(w) ==
    LET e == worker[w].event IN
    /\ Handling(w, "succeeded")
    /\ \E p \in payments :
        /\ IsLatest(p, OfIntent(e.intent))
        /\ EventIsFree(p.pk, e)
        /\ UpdatePayment(p, [p EXCEPT !.status = "succeeded",
                                      !.charge = e.intent, !.event = e])
        /\ booking' =
             IF p.kind = "deposit"
             THEN [booking EXCEPT ![p.booking] =
                     [@ EXCEPT !.payment_status = "deposit_paid", !.status = "confirmed"]]
             ELSE [booking EXCEPT ![p.booking].payment_status = "paid_in_full"]
    /\ GoTo(w, "mark")
    /\ UNCHANGED <<recorded, processed, acked, Outside>>

\* payment_intent.payment_failed, one transaction; the booking keeps its status
HandleFailed(w) ==
    LET e == worker[w].event IN
    /\ Handling(w, "payment_failed")
    /\ \E p \in payments :
        /\ IsLatest(p, OfIntent(e.intent))
        /\ EventIsFree(p.pk, e)
        /\ UpdatePayment(p, [p EXCEPT !.status = "failed", !.event = e])
    /\ GoTo(w, "mark")
    /\ UNCHANGED <<booking, recorded, processed, acked, Outside>>

PendingRefunds(b) ==
    {p \in payments : p.booking = b /\ p.kind = "refund" /\ p.status = "pending"}

\* charge.refunded reads the provisional refund row it will promote (0: none) ...
HandleRefundRead(w) ==
    LET e == worker[w].event IN
    /\ Handling(w, "refunded")
    /\ \E p \in payments, k \in {q.pk : q \in payments} \cup {0} :
        /\ IsLatest(p, OfCharge(e.intent))
        /\ \/ k = 0 /\ PendingRefunds(p.booking) = {}
           \/ \E q \in payments : q.pk = k /\ IsLatest(q, PendingRefunds(p.booking))
        /\ worker' = [worker EXCEPT ![w] =
             [@ EXCEPT !.pc = "refund", !.pick = k, !.booking = p.booking,
                       !.deposit = booking[p.booking].deposit]]
    /\ UNCHANGED <<booking, payments, recorded, processed, acked, Outside>>

RefundOutcome(deposit, refunded) ==
    IF refunded >= deposit /\ deposit > 0 THEN "refunded" ELSE "partially_refunded"

\* ... then promotes that row, whatever it has become, or creates one, and commits.
HandleRefundCommit(w) ==
    LET e == worker[w].event
        b == worker[w].booking
        k == worker[w].pick
    IN
    /\ WorkerAt(w, "refund")
    /\ EventIsFree(k, e)
    /\ \/ /\ k = 0
          /\ AddPayment([NewPayment(b, "refund", -e.refunded, NoIntent)
               EXCEPT !.status = "succeeded", !.charge = e.intent, !.event = e])
       \/ /\ \E p \in payments :
               /\ p.pk = k
               /\ UpdatePayment(p, [p EXCEPT !.status = "succeeded",
                                             !.charge = e.intent, !.event = e])
          /\ UNCHANGED nextPk
    /\ booking' = [booking EXCEPT ![b].payment_status =
                      RefundOutcome(worker[w].deposit, e.refunded)]
    /\ worker' = [worker EXCEPT ![w] = [IdleWorker EXCEPT !.pc = "mark", !.event = e]]
    /\ UNCHANGED <<creating, stripe, events, request, sweep, recorded, processed, acked>>

\* Fault: a failing handler answers 500, so Stripe retries it for ever.
HandlerRaisesUnanswered(w) ==
    /\ worker[w].pc \in {"handle", "refund"}
    /\ worker' = [worker EXCEPT ![w] = IdleWorker]
    /\ UNCHANGED <<booking, payments, recorded, processed, acked, Outside>>

\* The handler's transaction rolls back, on a unique violation or any other
\* exception: the delivery is answered 200 and the event stays unprocessed.
HandlerRaises(w) ==
    /\ worker[w].pc \in {"handle", "refund"}
    /\ Answer(w)
    /\ UNCHANGED <<booking, payments, recorded, processed, Outside>>

MarkProcessed(w) ==
    /\ WorkerAt(w, "mark")
    /\ processed' = processed \cup {worker[w].event}
    /\ Answer(w)
    /\ UNCHANGED <<booking, payments, recorded, Outside>>

CrashWorker(w) ==
    /\ ~WorkerAt(w, "idle")
    /\ worker' = [worker EXCEPT ![w] = IdleWorker]
    /\ UNCHANGED <<booking, payments, recorded, processed, acked, Outside>>

Handle(w) ==
    \/ NoPaymentFound(w) \/ HandleSucceeded(w) \/ HandleFailed(w)
    \/ HandleRefundRead(w) \/ HandleRefundCommit(w)

Webhook(w) ==
    \/ \E e \in events : Receive(w, e)
    \/ Claim(w) \/ Handle(w) \/ HandlerRaises(w) \/ MarkProcessed(w) \/ CrashWorker(w)

---------------------------------------------------------------------------
(* Staff requests. *)

RequestAt(r, pc) == request[r].pc = pc
Finish(r) == request' = [request EXCEPT ![r] = DoneRequest]

ReadBooking(r, b, pc) ==
    /\ pc \in StaffOps
    /\ RequestAt(r, "idle")
    /\ Exists(b)
    /\ request' = [request EXCEPT ![r] =
         [IdleRequest EXCEPT !.pc = pc, !.booking = b, !.seen = booking[b]]]
    /\ UNCHANGED <<booking, creating, stripe, ledger, events, inbox, sweep>>

\* calc_refund_amount: the matrix percentage of the deposit, rounded half up.
RefundsDue(deposit) == {(deposit * pct + 50) \div 100 : pct \in RefundPercents}

\* Fault: the refund is opened without looking at payment_status.
CancelSaveRefundsAlways(r) ==
    /\ RequestAt(r, "cancel")
    /\ booking' = [booking EXCEPT ![request[r].booking].status = "cancelled"]
    /\ \E due \in RefundsDue(request[r].seen.deposit) \ {0} :
         request' = [request EXCEPT ![r] = [@ EXCEPT !.pc = "refund", !.amount = due]]
    /\ UNCHANGED <<creating, stripe, ledger, events, inbox, sweep>>

\* cancel_booking_with_refund: the status is written whatever it was; the
\* refund is decided on the payment_status read before.
CancelSave(r) ==
    LET b == request[r].booking
        seen == request[r].seen
    IN
    /\ RequestAt(r, "cancel")
    /\ booking' = [booking EXCEPT ![b].status = "cancelled"]
    /\ \/ /\ seen.payment_status \notin Paid \/ 0 \in RefundsDue(seen.deposit)
          /\ Finish(r)
       \/ /\ seen.payment_status \in Paid
          /\ \E due \in RefundsDue(seen.deposit) \ {0} :
               request' = [request EXCEPT ![r] = [@ EXCEPT !.pc = "refund", !.amount = due]]
    /\ UNCHANGED <<creating, stripe, ledger, events, inbox, sweep>>

ProvisionRefund(r) ==
    /\ RequestAt(r, "refund")
    /\ AddPayment(NewPayment(request[r].booking, "refund", -request[r].amount, NoIntent))
    /\ request' = [request EXCEPT ![r] = [@ EXCEPT !.pc = "provisioned", !.pk = nextPk]]
    /\ UNCHANGED <<booking, creating, stripe, events, inbox, sweep>>

RefundAtStripe(r) ==
    /\ RequestAt(r, "provisioned")
    /\ request[r].seen.intent # NoIntent
    /\ StripeRefund(request[r].seen.intent, request[r].amount)
    /\ Finish(r)
    /\ UNCHANGED <<booking, creating, ledger, inbox, sweep>>

\* Refund.create raises: Stripe refuses it or cannot be reached.
RefundRefused(r) ==
    /\ RequestAt(r, "provisioned")
    /\ request[r].seen.intent # NoIntent
    /\ request' = [request EXCEPT ![r].pc = "refused"]
    /\ UNCHANGED <<booking, creating, stripe, ledger, events, inbox, sweep>>

SetPaymentStatus(k, status) ==
    \E p \in payments : p.pk = k /\ UpdatePayment(p, [p EXCEPT !.status = status])

MarkRefundFailed(r) ==
    /\ RequestAt(r, "refused")
    /\ SetPaymentStatus(request[r].pk, "failed")
    /\ Finish(r)
    /\ UNCHANGED <<booking, creating, stripe, nextPk, events, inbox, sweep>>

\* A booking without a payment_intent_id: the row is marked succeeded directly.
RefundOnPaper(r) ==
    /\ RequestAt(r, "provisioned")
    /\ request[r].seen.intent = NoIntent
    /\ SetPaymentStatus(request[r].pk, "succeeded")
    /\ request' = [request EXCEPT ![r].pc = "papered"]
    /\ UNCHANGED <<booking, creating, stripe, nextPk, events, inbox, sweep>>

SaveRefunded(r) ==
    /\ RequestAt(r, "papered")
    /\ booking' = [booking EXCEPT ![request[r].booking].payment_status =
         IF request[r].amount >= request[r].seen.deposit
         THEN "refunded" ELSE "partially_refunded"]
    /\ Finish(r)
    /\ UNCHANGED <<creating, stripe, ledger, events, inbox, sweep>>

Cancel(r) ==
    \/ \E b \in Bookings : ReadBooking(r, b, "cancel")
    \/ CancelSave(r) \/ ProvisionRefund(r) \/ RefundAtStripe(r) \/ RefundRefused(r)
    \/ MarkRefundFailed(r) \/ RefundOnPaper(r) \/ SaveRefunded(r)

\* ChargeBalanceView: balance_amount is the total less the deposit, whatever
\* has been charged before.
OpenBalanceSession(r) ==
    LET balance == Total - request[r].seen.deposit IN
    /\ RequestAt(r, "balance")
    /\ balance > 0
    /\ \E i \in Intents :
        /\ stripe[i].state = "unused"
        /\ stripe' = [stripe EXCEPT ![i] =
             [booking |-> request[r].booking, kind |-> "balance", amount |-> balance,
              state |-> "open", payable |-> FALSE, refunded |-> 0]]
        /\ request' = [request EXCEPT ![r] =
             [@ EXCEPT !.pc = "session", !.intent = i, !.amount = balance]]
    /\ UNCHANGED <<booking, creating, ledger, events, inbox, sweep>>

RecordBalance(r) ==
    /\ RequestAt(r, "session")
    /\ \E shown \in SessionShowsIntent :
         AddPayment(NewPayment(request[r].booking, "balance", request[r].amount,
                               IF shown THEN request[r].intent ELSE NoIntent))
    /\ request' = [request EXCEPT ![r].pc = "link"]
    /\ UNCHANGED <<booking, creating, stripe, events, inbox, sweep>>

SendBalanceLink(r) ==
    /\ RequestAt(r, "link")
    /\ stripe' = [stripe EXCEPT ![request[r].intent].payable = TRUE]
    /\ Finish(r)
    /\ UNCHANGED <<booking, creating, ledger, events, inbox, sweep>>

ChargeBalance(r) ==
    \/ \E b \in Bookings : ReadBooking(r, b, "balance")
    \/ OpenBalanceSession(r) \/ RecordBalance(r) \/ SendBalanceLink(r)

\* BookingDetailView.patch: the serializer saves every column of the instance
\* it loaded, the edited status with all the others as they were read.
PatchSave(r) ==
    LET seen == request[r].seen IN
    /\ RequestAt(r, "patch")
    /\ \E s \in PatchStatuses \cup {seen.status} :
         booking' = [booking EXCEPT ![request[r].booking] = [seen EXCEPT !.status = s]]
    /\ Finish(r)
    /\ UNCHANGED <<creating, stripe, ledger, events, inbox, sweep>>

Patch(r) ==
    \/ \E b \in Bookings : ReadBooking(r, b, "patch")
    \/ PatchSave(r)

\* The request dies, or answers early (400, "Already paid in full.").
CrashRequest(r) ==
    /\ ~RequestAt(r, "idle") /\ ~RequestAt(r, "done")
    /\ Finish(r)
    /\ UNCHANGED <<booking, creating, stripe, ledger, events, inbox, sweep>>

Staff(r) == Cancel(r) \/ ChargeBalance(r) \/ Patch(r) \/ CrashRequest(r)

---------------------------------------------------------------------------
(* The customer portal and the sweeper. *)

\* MyBookingCancelView: status only, whatever it was, and no refund.
PortalCancel(b) ==
    /\ Exists(b)
    /\ booking' = [booking EXCEPT ![b].status = "cancelled"]
    /\ UNCHANGED <<creating, stripe, ledger, events, inbox, request, sweep>>

\* sweep_pending_payments: the queryset is read once.  The hold window
\* (STRIPE_HOLD_MINUTES) outlasts the request that creates the booking.
SweepSelect(b) ==
    /\ sweep[b].pc = "idle"
    /\ creating[b].pc \in {"answered", "dead"}
    /\ booking[b].payment_status = "pending_payment"
    /\ sweep' = [sweep EXCEPT ![b] = [pc |-> "selected", intent |-> booking[b].intent]]
    /\ UNCHANGED <<booking, creating, stripe, ledger, events, inbox, request>>

SweepSave(b) ==
    /\ sweep[b].pc = "selected"
    /\ booking' = [booking EXCEPT ![b] =
         [@ EXCEPT !.status = "cancelled", !.payment_status = "not_required"]]
    /\ sweep' = [sweep EXCEPT ![b].pc = "voiding"]
    /\ UNCHANGED <<creating, stripe, ledger, events, inbox, request>>

SweepCancelIntent(b) ==
    /\ sweep[b].pc = "voiding"
    /\ sweep[b].intent # NoIntent
    /\ stripe[sweep[b].intent].state = "open"
    /\ stripe' = [stripe EXCEPT ![sweep[b].intent].state = "canceled"]
    /\ sweep' = [sweep EXCEPT ![b] = [pc |-> "idle", intent |-> NoIntent]]
    /\ UNCHANGED <<booking, creating, ledger, events, inbox, request>>

\* No intent, PaymentIntent.cancel raises, or the sweeper dies.
SweepAbandon(b) ==
    /\ sweep[b].pc # "idle"
    /\ sweep' = [sweep EXCEPT ![b] = [pc |-> "idle", intent |-> NoIntent]]
    /\ UNCHANGED <<booking, creating, stripe, ledger, events, inbox, request>>

Sweep(b) ==
    SweepSelect(b) \/ SweepSave(b) \/ SweepCancelIntent(b) \/ SweepAbandon(b)

Next ==
    \/ \E b \in Bookings : Create(b) \/ PortalCancel(b) \/ Sweep(b)
    \/ \E i \in Intents : Stripe(i)
    \/ \E w \in Workers : Webhook(w)
    \/ \E r \in Requests : Staff(r)

Spec == Init /\ [][Next]_vars

\* Stripe retries a delivery until it is answered, and an event that keeps
\* being delivered is not cut short by a crash every time.
DeliveryFairness ==
    \A k \in 1..MaxEvents :
        LET At(w) == worker[w].event.id = k IN
        /\ SF_vars(\E w \in Workers, e \in events \ acked : e.id = k /\ Receive(w, e))
        /\ SF_vars(\E w \in Workers : At(w) /\ Claim(w))
        /\ SF_vars(\E w \in Workers : At(w) /\ (HandleRefundCommit(w) \/ HandlerRaises(w)))
        /\ SF_vars(\E w \in Workers : At(w) /\ (Handle(w) \/ HandlerRaises(w)))
        /\ SF_vars(\E w \in Workers : At(w) /\ MarkProcessed(w))

FairSpec == Spec /\ DeliveryFairness

---------------------------------------------------------------------------
TypeOK ==
    /\ booking \in [Bookings -> BookingRow]
    /\ creating \in [Bookings -> Creation]
    /\ stripe \in [Intents -> StripeIntent]
    /\ payments \subseteq Payment
    /\ nextPk \in Nat \ {0}
    /\ events \subseteq Event /\ IsFiniteSet(events)
    /\ recorded \subseteq events /\ processed \subseteq events /\ acked \subseteq events
    /\ worker \in [Workers -> Delivery]
    /\ request \in [Requests -> StaffRequest]
    /\ sweep \in [Bookings -> SweepStep]

Captured(b) == \E i \in Intents : stripe[i].booking = b /\ stripe[i].state = "captured"

\* A booking is never shown as paid or refunded unless Stripe captured money
\* for it, whatever stale row an edit writes back and in whatever order
\* webhooks, refunds and the sweeper write payment_status.
PaidOnlyIfCaptured ==
    \A b \in Bookings : booking[b].payment_status \in EverPaid => Captured(b)

\* A deposit or balance row of the ledger reads succeeded only for a charge
\* Stripe captured, for the same booking and for the amount of the row.
SettledRowsAreCaptured ==
    \A p \in payments :
        p.kind # "refund" /\ p.status = "succeeded" =>
            /\ p.intent # NoIntent
            /\ stripe[p.intent].state = "captured"
            /\ stripe[p.intent].booking = p.booking
            /\ stripe[p.intent].amount = p.amount

\* A refund row, even a provisional one, exists only for a booking whose money
\* Stripe captured: the decision to refund rests on a payment_status read
\* two commits earlier.
RefundsFollowCapture ==
    \A p \in payments : p.kind = "refund" => Captured(p.booking)

\* Money taken for a deposit always has its ledger row: the secret that lets
\* the customer pay is given out only after the row is committed, so no
\* crash in _maybe_open_deposit leaves a charge the webhook cannot match.
CapturedDepositIsOnLedger ==
    \A i \in Intents :
        stripe[i].state = "captured" /\ stripe[i].kind = "deposit" =>
            \E p \in payments : p.intent = i /\ p.booking = stripe[i].booking

\* A succeeded event marked processed has written its charge on the row, which
\* a refund of that charge is matched by; a crash between the handler and
\* the mark leaves the event to be handled again.
ProcessedMeansApplied ==
    \A e \in processed :
        e.type = "succeeded" /\ stripe[e.intent].kind = "deposit" =>
            \E p \in payments : p.intent = e.intent /\ p.charge = e.intent

\* Every event Stripe emits is eventually answered with a 200, so its retries
\* end (stripe_webhook).
EventsSettled ==
    \A k \in 1..MaxEvents :
        (\E e \in events : e.id = k) ~> (\E e \in acked : e.id = k)

\* A captured deposit eventually carries its charge on the ledger, or its
\* event stays recorded and unprocessed for a replay by hand.
CaptureReachesLedger ==
    \A i \in Intents :
        (stripe[i].state = "captured" /\ stripe[i].kind = "deposit") ~>
            \/ \E p \in payments : p.charge = i
            \/ \E e \in acked \ processed : e.intent = i /\ e.type = "succeeded"
=============================================================================
