--------------------------- MODULE BookingPaymentsTypes ---------------------------
(***************************************************************************)
(* Type correctness of BookingPayments for every set of bookings, intents, *)
(* workers and requests and every amount.                                  *)
(***************************************************************************)
EXTENDS BookingPayments, FiniteSetTheorems, TLAPS

\* What a delivery or a staff request works on has been read.
InHand ==
    /\ \A w \in Workers :
        /\ worker[w].pc # "idle" => worker[w].event \in events
        /\ worker[w].pc = "refund" => worker[w].booking \in Bookings
    /\ \A r \in Requests :
        request[r].pc \notin {"idle", "done"} => request[r].booking \in Bookings

---------------------------------------------------------------------------
(* Which actions change what. *)

\* The steps that change Stripe's intents.
StripeChanges ==
    \/ \E b \in Bookings :
         \/ OpenDepositIntent(b) \/ AnswerCreate(b)
         \/ SweepCancelIntent(b)
    \/ \E i \in Intents : Pay(i) \/ DashboardRefund(i)
    \/ \E r \in Requests :
         \/ RefundAtStripe(r) \/ OpenBalanceSession(r)
         \/ SendBalanceLink(r)

LEMMA StripeFrame == [Next]_vars => UNCHANGED stripe \/ StripeChanges
<1> SUFFICES ASSUME [Next]_vars PROVE UNCHANGED stripe \/ StripeChanges
  OBVIOUS
<1> USE DEF StripeChanges, ledger, inbox, Outside
<1>1. ASSUME NEW b \in Bookings, Create(b) PROVE UNCHANGED stripe \/ StripeChanges
  BY <1>1
     DEF Create, InsertBooking, NoDepositDue, HoldForDeposit, OpenDepositIntent,
         StripeUnavailable, LinkIntent, RecordDeposit, AnswerCreate, CrashCreate,
         CreateStep
<1>2. ASSUME NEW b \in Bookings, PortalCancel(b) \/ Sweep(b) PROVE UNCHANGED stripe \/ StripeChanges
  BY <1>2
     DEF PortalCancel, Sweep, SweepSelect, SweepSave, SweepCancelIntent, SweepAbandon
<1>3. ASSUME NEW i \in Intents, Stripe(i) PROVE UNCHANGED stripe \/ StripeChanges
  BY <1>3
     DEF Stripe, Pay, Decline, DashboardRefund
<1>4. ASSUME NEW w \in Workers, Webhook(w) PROVE UNCHANGED stripe \/ StripeChanges
  BY <1>4
     DEF Webhook, Handle, Receive, Claim, NoPaymentFound, HandleSucceeded,
         HandleFailed, HandleRefundRead, HandleRefundCommit, HandlerRaises,
         MarkProcessed, CrashWorker
<1>5. ASSUME NEW r \in Requests, Staff(r) PROVE UNCHANGED stripe \/ StripeChanges
  BY <1>5
     DEF Staff, Cancel, ChargeBalance, Patch, ReadBooking, CancelSave,
         ProvisionRefund, RefundAtStripe, RefundRefused, MarkRefundFailed,
         RefundOnPaper, SaveRefunded, OpenBalanceSession, RecordBalance,
         SendBalanceLink, PatchSave, CrashRequest
<1>6. ASSUME UNCHANGED vars PROVE UNCHANGED stripe
  BY <1>6 DEF vars
<1> QED
  BY <1>1, <1>2, <1>3, <1>4, <1>5, <1>6 DEF Next

\* The steps that make Stripe emit an event.
EventsChange ==
    \/ \E i \in Intents : Pay(i) \/ Decline(i) \/ DashboardRefund(i)
    \/ \E r \in Requests : RefundAtStripe(r)

LEMMA EventsFrame == [Next]_vars => UNCHANGED events \/ EventsChange
<1> SUFFICES ASSUME [Next]_vars PROVE UNCHANGED events \/ EventsChange
  OBVIOUS
<1> USE DEF EventsChange, ledger, inbox, Outside
<1>1. ASSUME NEW b \in Bookings, Create(b) PROVE UNCHANGED events \/ EventsChange
  BY <1>1
     DEF Create, InsertBooking, NoDepositDue, HoldForDeposit, OpenDepositIntent,
         StripeUnavailable, LinkIntent, RecordDeposit, AnswerCreate, CrashCreate,
         CreateStep
<1>2. ASSUME NEW b \in Bookings, PortalCancel(b) \/ Sweep(b) PROVE UNCHANGED events \/ EventsChange
  BY <1>2
     DEF PortalCancel, Sweep, SweepSelect, SweepSave, SweepCancelIntent, SweepAbandon
<1>3. ASSUME NEW i \in Intents, Stripe(i) PROVE UNCHANGED events \/ EventsChange
  BY <1>3
     DEF Stripe, Pay, Decline, DashboardRefund
<1>4. ASSUME NEW w \in Workers, Webhook(w) PROVE UNCHANGED events \/ EventsChange
  BY <1>4
     DEF Webhook, Handle, Receive, Claim, NoPaymentFound, HandleSucceeded,
         HandleFailed, HandleRefundRead, HandleRefundCommit, HandlerRaises,
         MarkProcessed, CrashWorker
<1>5. ASSUME NEW r \in Requests, Staff(r) PROVE UNCHANGED events \/ EventsChange
  BY <1>5
     DEF Staff, Cancel, ChargeBalance, Patch, ReadBooking, CancelSave,
         ProvisionRefund, RefundAtStripe, RefundRefused, MarkRefundFailed,
         RefundOnPaper, SaveRefunded, OpenBalanceSession, RecordBalance,
         SendBalanceLink, PatchSave, CrashRequest
<1>6. ASSUME UNCHANGED vars PROVE UNCHANGED events
  BY <1>6 DEF vars
<1> QED
  BY <1>1, <1>2, <1>3, <1>4, <1>5, <1>6 DEF Next

\* The steps that change the ledger.
LedgerChanges ==
    \/ \E b \in Bookings : RecordDeposit(b)
    \/ \E w \in Workers :
         \/ HandleSucceeded(w) \/ HandleFailed(w)
         \/ HandleRefundCommit(w)
    \/ \E r \in Requests :
         \/ ProvisionRefund(r) \/ MarkRefundFailed(r)
         \/ RefundOnPaper(r) \/ RecordBalance(r)

LEMMA LedgerFrame == [Next]_vars => UNCHANGED ledger \/ LedgerChanges
<1> SUFFICES ASSUME [Next]_vars PROVE UNCHANGED ledger \/ LedgerChanges
  OBVIOUS
<1> USE DEF LedgerChanges, ledger, inbox, Outside
<1>1. ASSUME NEW b \in Bookings, Create(b) PROVE UNCHANGED ledger \/ LedgerChanges
  BY <1>1
     DEF Create, InsertBooking, NoDepositDue, HoldForDeposit, OpenDepositIntent,
         StripeUnavailable, LinkIntent, RecordDeposit, AnswerCreate, CrashCreate,
         CreateStep
<1>2. ASSUME NEW b \in Bookings, PortalCancel(b) \/ Sweep(b) PROVE UNCHANGED ledger \/ LedgerChanges
  BY <1>2
     DEF PortalCancel, Sweep, SweepSelect, SweepSave, SweepCancelIntent, SweepAbandon
<1>3. ASSUME NEW i \in Intents, Stripe(i) PROVE UNCHANGED ledger \/ LedgerChanges
  BY <1>3
     DEF Stripe, Pay, Decline, DashboardRefund
<1>4. ASSUME NEW w \in Workers, Webhook(w) PROVE UNCHANGED ledger \/ LedgerChanges
  BY <1>4
     DEF Webhook, Handle, Receive, Claim, NoPaymentFound, HandleSucceeded,
         HandleFailed, HandleRefundRead, HandleRefundCommit, HandlerRaises,
         MarkProcessed, CrashWorker
<1>5. ASSUME NEW r \in Requests, Staff(r) PROVE UNCHANGED ledger \/ LedgerChanges
  BY <1>5
     DEF Staff, Cancel, ChargeBalance, Patch, ReadBooking, CancelSave,
         ProvisionRefund, RefundAtStripe, RefundRefused, MarkRefundFailed,
         RefundOnPaper, SaveRefunded, OpenBalanceSession, RecordBalance,
         SendBalanceLink, PatchSave, CrashRequest
<1>6. ASSUME UNCHANGED vars PROVE UNCHANGED ledger
  BY <1>6 DEF vars
<1> QED
  BY <1>1, <1>2, <1>3, <1>4, <1>5, <1>6 DEF Next

\* The steps that change the booking.
BookingChanges ==
    \/ \E b \in Bookings :
         \/ InsertBooking(b) \/ HoldForDeposit(b) \/ LinkIntent(b)
         \/ PortalCancel(b) \/ SweepSave(b)
    \/ \E w \in Workers : HandleSucceeded(w) \/ HandleRefundCommit(w)
    \/ \E r \in Requests : CancelSave(r) \/ SaveRefunded(r) \/ PatchSave(r)

LEMMA BookingFrame == [Next]_vars => UNCHANGED booking \/ BookingChanges
<1> SUFFICES ASSUME [Next]_vars PROVE UNCHANGED booking \/ BookingChanges
  OBVIOUS
<1> USE DEF BookingChanges, ledger, inbox, Outside
<1>1. ASSUME NEW b \in Bookings, Create(b) PROVE UNCHANGED booking \/ BookingChanges
  BY <1>1
     DEF Create, InsertBooking, NoDepositDue, HoldForDeposit, OpenDepositIntent,
         StripeUnavailable, LinkIntent, RecordDeposit, AnswerCreate, CrashCreate,
         CreateStep
<1>2. ASSUME NEW b \in Bookings, PortalCancel(b) \/ Sweep(b) PROVE UNCHANGED booking \/ BookingChanges
  BY <1>2
     DEF PortalCancel, Sweep, SweepSelect, SweepSave, SweepCancelIntent, SweepAbandon
<1>3. ASSUME NEW i \in Intents, Stripe(i) PROVE UNCHANGED booking \/ BookingChanges
  BY <1>3
     DEF Stripe, Pay, Decline, DashboardRefund
<1>4. ASSUME NEW w \in Workers, Webhook(w) PROVE UNCHANGED booking \/ BookingChanges
  BY <1>4
     DEF Webhook, Handle, Receive, Claim, NoPaymentFound, HandleSucceeded,
         HandleFailed, HandleRefundRead, HandleRefundCommit, HandlerRaises,
         MarkProcessed, CrashWorker
<1>5. ASSUME NEW r \in Requests, Staff(r) PROVE UNCHANGED booking \/ BookingChanges
  BY <1>5
     DEF Staff, Cancel, ChargeBalance, Patch, ReadBooking, CancelSave,
         ProvisionRefund, RefundAtStripe, RefundRefused, MarkRefundFailed,
         RefundOnPaper, SaveRefunded, OpenBalanceSession, RecordBalance,
         SendBalanceLink, PatchSave, CrashRequest
<1>6. ASSUME UNCHANGED vars PROVE UNCHANGED booking
  BY <1>6 DEF vars
<1> QED
  BY <1>1, <1>2, <1>3, <1>4, <1>5, <1>6 DEF Next

\* The steps that mark an event processed.
ProcessedChanges ==
    \/ \E w \in Workers : MarkProcessed(w)

LEMMA ProcessedFrame == [Next]_vars => UNCHANGED processed \/ ProcessedChanges
<1> SUFFICES ASSUME [Next]_vars PROVE UNCHANGED processed \/ ProcessedChanges
  OBVIOUS
<1> USE DEF ProcessedChanges, ledger, inbox, Outside
<1>1. ASSUME NEW b \in Bookings, Create(b) PROVE UNCHANGED processed \/ ProcessedChanges
  BY <1>1
     DEF Create, InsertBooking, NoDepositDue, HoldForDeposit, OpenDepositIntent,
         StripeUnavailable, LinkIntent, RecordDeposit, AnswerCreate, CrashCreate,
         CreateStep
<1>2. ASSUME NEW b \in Bookings, PortalCancel(b) \/ Sweep(b) PROVE UNCHANGED processed \/ ProcessedChanges
  BY <1>2
     DEF PortalCancel, Sweep, SweepSelect, SweepSave, SweepCancelIntent, SweepAbandon
<1>3. ASSUME NEW i \in Intents, Stripe(i) PROVE UNCHANGED processed \/ ProcessedChanges
  BY <1>3
     DEF Stripe, Pay, Decline, DashboardRefund
<1>4. ASSUME NEW w \in Workers, Webhook(w) PROVE UNCHANGED processed \/ ProcessedChanges
  BY <1>4
     DEF Webhook, Handle, Receive, Claim, NoPaymentFound, HandleSucceeded,
         HandleFailed, HandleRefundRead, HandleRefundCommit, HandlerRaises,
         MarkProcessed, CrashWorker
<1>5. ASSUME NEW r \in Requests, Staff(r) PROVE UNCHANGED processed \/ ProcessedChanges
  BY <1>5
     DEF Staff, Cancel, ChargeBalance, Patch, ReadBooking, CancelSave,
         ProvisionRefund, RefundAtStripe, RefundRefused, MarkRefundFailed,
         RefundOnPaper, SaveRefunded, OpenBalanceSession, RecordBalance,
         SendBalanceLink, PatchSave, CrashRequest
<1>6. ASSUME UNCHANGED vars PROVE UNCHANGED processed
  BY <1>6 DEF vars
<1> QED
  BY <1>1, <1>2, <1>3, <1>4, <1>5, <1>6 DEF Next

\* The steps that change a delivery.
WorkerChanges == \E w \in Workers : Webhook(w)

LEMMA WorkerFrame == [Next]_vars => UNCHANGED worker \/ WorkerChanges
<1> SUFFICES ASSUME [Next]_vars PROVE UNCHANGED worker \/ WorkerChanges
  OBVIOUS
<1> USE DEF WorkerChanges, ledger, inbox, Outside
<1>1. ASSUME NEW b \in Bookings, Create(b) PROVE UNCHANGED worker \/ WorkerChanges
  BY <1>1
     DEF Create, InsertBooking, NoDepositDue, HoldForDeposit, OpenDepositIntent,
         StripeUnavailable, LinkIntent, RecordDeposit, AnswerCreate, CrashCreate,
         CreateStep
<1>2. ASSUME NEW b \in Bookings, PortalCancel(b) \/ Sweep(b) PROVE UNCHANGED worker \/ WorkerChanges
  BY <1>2
     DEF PortalCancel, Sweep, SweepSelect, SweepSave, SweepCancelIntent, SweepAbandon
<1>3. ASSUME NEW i \in Intents, Stripe(i) PROVE UNCHANGED worker \/ WorkerChanges
  BY <1>3
     DEF Stripe, Pay, Decline, DashboardRefund
<1>4. ASSUME NEW w \in Workers, Webhook(w) PROVE UNCHANGED worker \/ WorkerChanges
  BY <1>4
     DEF Webhook, Handle, Receive, Claim, NoPaymentFound, HandleSucceeded,
         HandleFailed, HandleRefundRead, HandleRefundCommit, HandlerRaises,
         MarkProcessed, CrashWorker
<1>5. ASSUME NEW r \in Requests, Staff(r) PROVE UNCHANGED worker \/ WorkerChanges
  BY <1>5
     DEF Staff, Cancel, ChargeBalance, Patch, ReadBooking, CancelSave,
         ProvisionRefund, RefundAtStripe, RefundRefused, MarkRefundFailed,
         RefundOnPaper, SaveRefunded, OpenBalanceSession, RecordBalance,
         SendBalanceLink, PatchSave, CrashRequest
<1>6. ASSUME UNCHANGED vars PROVE UNCHANGED worker
  BY <1>6 DEF vars
<1> QED
  BY <1>1, <1>2, <1>3, <1>4, <1>5, <1>6 DEF Next

\* The steps that change a staff request.
RequestChanges == \E r \in Requests : Staff(r)

LEMMA RequestFrame == [Next]_vars => UNCHANGED request \/ RequestChanges
<1> SUFFICES ASSUME [Next]_vars PROVE UNCHANGED request \/ RequestChanges
  OBVIOUS
<1> USE DEF RequestChanges, ledger, inbox, Outside
<1>1. ASSUME NEW b \in Bookings, Create(b) PROVE UNCHANGED request \/ RequestChanges
  BY <1>1
     DEF Create, InsertBooking, NoDepositDue, HoldForDeposit, OpenDepositIntent,
         StripeUnavailable, LinkIntent, RecordDeposit, AnswerCreate, CrashCreate,
         CreateStep
<1>2. ASSUME NEW b \in Bookings, PortalCancel(b) \/ Sweep(b) PROVE UNCHANGED request \/ RequestChanges
  BY <1>2
     DEF PortalCancel, Sweep, SweepSelect, SweepSave, SweepCancelIntent, SweepAbandon
<1>3. ASSUME NEW i \in Intents, Stripe(i) PROVE UNCHANGED request \/ RequestChanges
  BY <1>3
     DEF Stripe, Pay, Decline, DashboardRefund
<1>4. ASSUME NEW w \in Workers, Webhook(w) PROVE UNCHANGED request \/ RequestChanges
  BY <1>4
     DEF Webhook, Handle, Receive, Claim, NoPaymentFound, HandleSucceeded,
         HandleFailed, HandleRefundRead, HandleRefundCommit, HandlerRaises,
         MarkProcessed, CrashWorker
<1>5. ASSUME NEW r \in Requests, Staff(r) PROVE UNCHANGED request \/ RequestChanges
  BY <1>5
     DEF Staff, Cancel, ChargeBalance, Patch, ReadBooking, CancelSave,
         ProvisionRefund, RefundAtStripe, RefundRefused, MarkRefundFailed,
         RefundOnPaper, SaveRefunded, OpenBalanceSession, RecordBalance,
         SendBalanceLink, PatchSave, CrashRequest
<1>6. ASSUME UNCHANGED vars PROVE UNCHANGED request
  BY <1>6 DEF vars
<1> QED
  BY <1>1, <1>2, <1>3, <1>4, <1>5, <1>6 DEF Next

\* The steps that change a creation.
CreatingChanges == \E b \in Bookings : Create(b)

LEMMA CreatingFrame == [Next]_vars => UNCHANGED creating \/ CreatingChanges
<1> SUFFICES ASSUME [Next]_vars PROVE UNCHANGED creating \/ CreatingChanges
  OBVIOUS
<1> USE DEF CreatingChanges, ledger, inbox, Outside
<1>1. ASSUME NEW b \in Bookings, Create(b) PROVE UNCHANGED creating \/ CreatingChanges
  BY <1>1
     DEF Create, InsertBooking, NoDepositDue, HoldForDeposit, OpenDepositIntent,
         StripeUnavailable, LinkIntent, RecordDeposit, AnswerCreate, CrashCreate,
         CreateStep
<1>2. ASSUME NEW b \in Bookings, PortalCancel(b) \/ Sweep(b) PROVE UNCHANGED creating \/ CreatingChanges
  BY <1>2
     DEF PortalCancel, Sweep, SweepSelect, SweepSave, SweepCancelIntent, SweepAbandon
<1>3. ASSUME NEW i \in Intents, Stripe(i) PROVE UNCHANGED creating \/ CreatingChanges
  BY <1>3
     DEF Stripe, Pay, Decline, DashboardRefund
<1>4. ASSUME NEW w \in Workers, Webhook(w) PROVE UNCHANGED creating \/ CreatingChanges
  BY <1>4
     DEF Webhook, Handle, Receive, Claim, NoPaymentFound, HandleSucceeded,
         HandleFailed, HandleRefundRead, HandleRefundCommit, HandlerRaises,
         MarkProcessed, CrashWorker
<1>5. ASSUME NEW r \in Requests, Staff(r) PROVE UNCHANGED creating \/ CreatingChanges
  BY <1>5
     DEF Staff, Cancel, ChargeBalance, Patch, ReadBooking, CancelSave,
         ProvisionRefund, RefundAtStripe, RefundRefused, MarkRefundFailed,
         RefundOnPaper, SaveRefunded, OpenBalanceSession, RecordBalance,
         SendBalanceLink, PatchSave, CrashRequest
<1>6. ASSUME UNCHANGED vars PROVE UNCHANGED creating
  BY <1>6 DEF vars
<1> QED
  BY <1>1, <1>2, <1>3, <1>4, <1>5, <1>6 DEF Next

---------------------------------------------------------------------------
LEMMA RefundsDueNat ==
    ASSUME NEW d \in Nat
    PROVE  RefundsDue(d) \subseteq Nat
<1>1. \A pct \in RefundPercents : pct \in Nat
  BY AmountAssumption
<1>2. \A pct \in Nat : d * pct \in Nat
  OBVIOUS
<1>3. \A x \in Nat : (x + 50) \div 100 \in Nat
  OBVIOUS
<1> QED
  BY <1>1, <1>2, <1>3 DEF RefundsDue

---------------------------------------------------------------------------
(* Updates of a record that keep its type. *)

LEMMA BookingRowUpdates ==
    ASSUME NEW x \in BookingRow
    PROVE  /\ \A s \in Status \cup {"absent"} : [x EXCEPT !.status = s] \in BookingRow
           /\ \A ps \in PaymentStatus :
                /\ [x EXCEPT !.payment_status = ps] \in BookingRow
                /\ \A s \in Status :
                     /\ [x EXCEPT !.payment_status = ps, !.status = s] \in BookingRow
                     /\ [x EXCEPT !.status = s, !.payment_status = ps] \in BookingRow
                     /\ \A d \in Nat :
                          [x EXCEPT !.payment_status = ps, !.status = s, !.deposit = d]
                              \in BookingRow
           /\ \A i \in Intents \cup {NoIntent} : [x EXCEPT !.intent = i] \in BookingRow
           /\ x.deposit \in Nat /\ x.intent \in Intents \cup {NoIntent}
           /\ x.status \in Status \cup {"absent"}
BY DEF BookingRow

LEMMA AbsentBookingType ==
    /\ AbsentBooking \in BookingRow
    /\ [AbsentBooking EXCEPT !.status = "pending"] \in BookingRow
BY DEF AbsentBooking, BookingRow, Status, PaymentStatus

LEMMA CreationUpdates ==
    ASSUME NEW x \in Creation
    PROVE  /\ \A pc \in {"inserted", "linked", "recorded", "answered", "dead"} :
                [x EXCEPT !.pc = pc] \in Creation
           /\ \A d \in Nat : [x EXCEPT !.pc = "held", !.deposit = d] \in Creation
           /\ \A i \in Intents : [x EXCEPT !.pc = "opened", !.intent = i] \in Creation
           /\ x.deposit \in Nat /\ x.intent \in Intents \cup {NoIntent}
BY DEF Creation

LEMMA StripeIntentUpdates ==
    ASSUME NEW x \in StripeIntent
    PROVE  /\ \A st \in {"captured", "canceled"} : [x EXCEPT !.state = st] \in StripeIntent
           /\ [x EXCEPT !.payable = TRUE] \in StripeIntent
           /\ x.refunded \in Nat
           /\ \A n \in Nat : [x EXCEPT !.refunded = n] \in StripeIntent
BY DEF StripeIntent

LEMMA OpenedIntentType ==
    ASSUME NEW b \in Bookings, NEW n \in Int
    PROVE  /\ [UnusedIntent EXCEPT !.booking = b, !.state = "open", !.amount = n]
                  \in StripeIntent
           /\ [booking |-> b, kind |-> "balance", amount |-> n, state |-> "open",
                 payable |-> FALSE, refunded |-> 0] \in StripeIntent
BY DEF UnusedIntent, StripeIntent

LEMMA DeliveryUpdates ==
    ASSUME NEW x \in Delivery
    PROVE  /\ \A pc \in {"handle", "mark"} : [x EXCEPT !.pc = pc] \in Delivery
           /\ \A e \in Event, pc \in {"handle", "claim"} :
                [x EXCEPT !.event = e, !.pc = pc] \in Delivery
           /\ \A k \in Nat, b \in Bookings, d \in Nat :
                [x EXCEPT !.pc = "refund", !.pick = k, !.booking = b, !.deposit = d]
                    \in Delivery
           /\ IdleWorker \in Delivery
           /\ [IdleWorker EXCEPT !.pc = "mark", !.event = x.event] \in Delivery
BY DEF Delivery, IdleWorker

LEMMA StaffRequestUpdates ==
    ASSUME NEW x \in StaffRequest
    PROVE  /\ \A pc \in {"refused", "papered", "link"} :
                [x EXCEPT !.pc = pc] \in StaffRequest
           /\ \A n \in Nat :
                /\ [x EXCEPT !.pc = "refund", !.amount = n] \in StaffRequest
                /\ [x EXCEPT !.pc = "provisioned", !.pk = n] \in StaffRequest
                /\ \A i \in Intents :
                     [x EXCEPT !.pc = "session", !.intent = i, !.amount = n] \in StaffRequest
           /\ \A pc \in {"cancel", "balance", "patch"}, b \in Bookings, row \in BookingRow :
                [IdleRequest EXCEPT !.pc = pc, !.booking = b, !.seen = row] \in StaffRequest
           /\ DoneRequest \in StaffRequest
<1>1. IdleRequest \in StaffRequest
  BY AbsentBookingType DEF IdleRequest, StaffRequest
<1> QED
  BY <1>1 DEF StaffRequest, DoneRequest

LEMMA PaymentUpdates ==
    ASSUME NEW p \in Payment
    PROVE  /\ \A st \in {"pending", "succeeded", "failed"} :
                /\ [p EXCEPT !.status = st] \in Payment
                /\ \A e \in Event :
                     /\ [p EXCEPT !.status = st, !.event = e] \in Payment
                     /\ \A i \in Intents :
                          [p EXCEPT !.status = st, !.charge = i, !.event = e] \in Payment
BY DEF Payment

LEMMA NewPaymentType ==
    ASSUME nextPk \in Nat \ {0},
           NEW b \in Bookings, NEW kind \in {"deposit", "balance", "refund"},
           NEW amount \in Int, NEW i \in Intents \cup {NoIntent}
    PROVE  NewPayment(b, kind, amount, i) \in Payment
BY DEF NewPayment, Payment

LEMMA EmittedEventType ==
    ASSUME NEW type \in {"succeeded", "payment_failed", "refunded"}, NEW i \in Intents,
           NEW n \in Nat, events \subseteq Event, IsFiniteSet(events), Emit(type, i, n)
    PROVE  events' \subseteq Event /\ IsFiniteSet(events') /\ events \subseteq events'
<1>1. Cardinality(events) \in Nat
  BY FS_CardinalityType
<1>2. IsFiniteSet(events')
  BY FS_AddElement DEF Emit
<1> QED
  BY <1>1, <1>2 DEF Emit, Event

\* A call to Refund.create that Stripe accepts.
LEMMA StripeRefundType ==
    ASSUME TypeOK, NEW i \in Intents, NEW n \in Nat, StripeRefund(i, n)
    PROVE  /\ stripe' \in [Intents -> StripeIntent]
           /\ events' \subseteq Event /\ IsFiniteSet(events') /\ events \subseteq events'
<1>1. stripe[i] \in StripeIntent /\ stripe[i].refunded \in Nat
  BY StripeIntentUpdates DEF TypeOK
<1> DEFINE total == stripe[i].refunded + n
<1>2. total \in Nat
  BY <1>1
<1> HIDE DEF total
<1>3. [stripe[i] EXCEPT !.refunded = total] \in StripeIntent
  BY <1>1, <1>2, StripeIntentUpdates
<1>4. stripe' = [stripe EXCEPT ![i] = [stripe[i] EXCEPT !.refunded = total]]
  BY <1>1 DEF StripeRefund, TypeOK, StripeIntent, total
<1>5. stripe' \in [Intents -> StripeIntent]
  BY <1>3, <1>4 DEF TypeOK
<1>6. Emit("refunded", i, total)
  BY DEF StripeRefund, total
<1> QED
  BY <1>2, <1>5, <1>6, EmittedEventType DEF TypeOK

LEMMA TypeStep == TypeOK /\ InHand /\ [Next]_vars => TypeOK'
<1> SUFFICES ASSUME TypeOK, InHand, [Next]_vars PROVE TypeOK'
  OBVIOUS
<1> USE DEF TypeOK
<1>1. ASSUME NEW b \in Bookings, Create(b) PROVE TypeOK'
  <2> USE DEF CreateStep, ledger, inbox
  <2>1. CASE InsertBooking(b)
    BY <2>1, CreationUpdates, AbsentBookingType DEF InsertBooking
  <2>2. CASE NoDepositDue(b)
    BY <2>2, CreationUpdates DEF NoDepositDue
  <2>3. CASE HoldForDeposit(b)
    <3>1. PICK d \in Deposits \ {0} :
               /\ creating' = [creating EXCEPT ![b] = [@ EXCEPT !.pc = "held", !.deposit = d]]
               /\ booking' = [booking EXCEPT ![b] =
                    [@ EXCEPT !.payment_status = "pending_payment", !.status = "pending",
                              !.deposit = d]]
      BY <2>3 DEF HoldForDeposit
    <3>2. d \in Nat
      BY AmountAssumption
    <3>3. creating' \in [Bookings -> Creation]
      BY <3>1, <3>2, CreationUpdates
    <3>4. booking' \in [Bookings -> BookingRow]
      <4>1. [booking[b] EXCEPT !.payment_status = "pending_payment", !.status = "pending",
                               !.deposit = d] \in BookingRow
        BY <3>2, BookingRowUpdates DEF Status, PaymentStatus
      <4> QED
        BY <4>1, <3>1
    <3> QED
      BY <2>3, <3>3, <3>4 DEF HoldForDeposit
  <2>4. CASE OpenDepositIntent(b)
    <3>1. creating[b] \in Creation
      OBVIOUS
    <3>2. creating[b].deposit \in Int
      <4>1. \A n \in Nat : n \in Int
        OBVIOUS
      <4> QED
        BY <3>1, <4>1, CreationUpdates
    <3>3. PICK i \in Intents :
               /\ stripe' = [stripe EXCEPT ![i] =
                    [UnusedIntent EXCEPT !.booking = b, !.state = "open",
                                         !.amount = creating[b].deposit]]
               /\ creating' = [creating EXCEPT ![b] = [@ EXCEPT !.pc = "opened", !.intent = i]]
      BY <2>4 DEF OpenDepositIntent
    <3>4. [UnusedIntent EXCEPT !.booking = b, !.state = "open",
                               !.amount = creating[b].deposit] \in StripeIntent
      BY <3>2, OpenedIntentType
    <3>5. stripe' \in [Intents -> StripeIntent]
      BY <3>3, <3>4
    <3>6. [creating[b] EXCEPT !.pc = "opened", !.intent = i] \in Creation
      BY <3>1, CreationUpdates
    <3>7. creating' \in [Bookings -> Creation]
      BY <3>3, <3>6
    <3> QED
      BY <2>4, <3>5, <3>7 DEF OpenDepositIntent
  <2>5. CASE StripeUnavailable(b)
    BY <2>5, CreationUpdates DEF StripeUnavailable
  <2>6. CASE LinkIntent(b)
    <3>1. [booking[b] EXCEPT !.intent = creating[b].intent] \in BookingRow
      BY BookingRowUpdates, CreationUpdates
    <3> QED
      BY <2>6, <3>1, CreationUpdates DEF LinkIntent
  <2>7. CASE RecordDeposit(b)
    <3>1. creating[b].deposit \in Nat /\ creating[b].intent \in Intents \cup {NoIntent}
      BY CreationUpdates
    <3>2. NewPayment(b, "deposit", creating[b].deposit, creating[b].intent) \in Payment
      BY <3>1, NewPaymentType
    <3>3. creating' \in [Bookings -> Creation]
      BY <2>7, CreationUpdates DEF RecordDeposit
    <3> QED
      BY <2>7, <3>2, <3>3 DEF RecordDeposit, AddPayment
  <2>8. CASE AnswerCreate(b)
    BY <2>8, CreationUpdates, StripeIntentUpdates DEF AnswerCreate
  <2>9. CASE CrashCreate(b)
    BY <2>9, CreationUpdates DEF CrashCreate
  <2> QED
    BY <1>1, <2>1, <2>2, <2>3, <2>4, <2>5, <2>6, <2>7, <2>8, <2>9 DEF Create
<1>2. ASSUME NEW b \in Bookings, PortalCancel(b) PROVE TypeOK'
  BY <1>2, BookingRowUpdates DEF PortalCancel, ledger, inbox, Status
<1>3. ASSUME NEW b \in Bookings, Sweep(b) PROVE TypeOK'
  <2> USE DEF ledger, inbox
  <2>1. CASE SweepSelect(b)
    BY <2>1 DEF SweepSelect, SweepStep, BookingRow
  <2>2. CASE SweepSave(b)
    <3>1. [booking[b] EXCEPT !.status = "cancelled", !.payment_status = "not_required"]
              \in BookingRow
      BY BookingRowUpdates DEF PaymentStatus, Status
    <3>2. [sweep[b] EXCEPT !.pc = "voiding"] \in SweepStep
      BY DEF SweepStep
    <3> QED
      BY <2>2, <3>1, <3>2 DEF SweepSave
  <2>3. CASE SweepCancelIntent(b)
    BY <2>3, StripeIntentUpdates DEF SweepCancelIntent, SweepStep
  <2>4. CASE SweepAbandon(b)
    BY <2>4 DEF SweepAbandon, SweepStep
  <2> QED
    BY <1>3, <2>1, <2>2, <2>3, <2>4 DEF Sweep
<1>4. ASSUME NEW i \in Intents, Stripe(i) PROVE TypeOK'
  <2> USE DEF ledger, inbox
  <2>1. CASE Pay(i)
    BY <2>1, StripeIntentUpdates, EmittedEventType DEF Pay
  <2>2. CASE Decline(i)
    BY <2>2, EmittedEventType DEF Decline
  <2>3. CASE DashboardRefund(i)
    BY <2>3, StripeRefundType, AmountAssumption DEF DashboardRefund
  <2> QED
    BY <1>4, <2>1, <2>2, <2>3 DEF Stripe
<1>5. ASSUME NEW w \in Workers, Webhook(w) PROVE TypeOK'
  <2> USE DEF ledger, Outside, WorkerAt
  <2> DEFINE e == worker[w].event
  <2>0. /\ worker[w] \in Delivery
        /\ worker[w].pc # "idle" => e \in events /\ e \in Event
        /\ worker[w].pc # "idle" => e.intent \in Intents /\ e.refunded \in Nat
    BY DEF InHand, Event
  <2>1. CASE \E x \in events : Receive(w, x)
    <3>1. PICK x \in events, pc \in {"handle", "claim"} :
            \/ UNCHANGED worker
            \/ worker' = [worker EXCEPT ![w] = [@ EXCEPT !.event = x, !.pc = pc]]
      BY <2>1 DEF Receive
    <3>2. [worker[w] EXCEPT !.event = x, !.pc = pc] \in Delivery
      BY <2>0, DeliveryUpdates
    <3>3. worker' \in [Workers -> Delivery]
      BY <3>1, <3>2
    <3>4. acked' \subseteq events
      BY <2>1 DEF Receive
    <3> QED
      BY <2>1, <3>3, <3>4 DEF Receive
  <2>2. CASE Claim(w)
    BY <2>0, <2>2, DeliveryUpdates DEF Claim, GoTo
  <2>3. CASE NoPaymentFound(w)
    BY <2>0, <2>3, DeliveryUpdates DEF NoPaymentFound, GoTo
  <2>4. CASE HandleSucceeded(w)
    <3>1. PICK p \in payments :
            /\ payments' = (payments \ {p}) \cup
                 {[p EXCEPT !.status = "succeeded", !.charge = e.intent, !.event = e]}
            /\ booking' =
                 IF p.kind = "deposit"
                 THEN [booking EXCEPT ![p.booking] =
                         [@ EXCEPT !.payment_status = "deposit_paid", !.status = "confirmed"]]
                 ELSE [booking EXCEPT ![p.booking].payment_status = "paid_in_full"]
      BY <2>4 DEF HandleSucceeded, UpdatePayment
    <3>2. payments' \subseteq Payment
      <4>1. [p EXCEPT !.status = "succeeded", !.charge = e.intent, !.event = e] \in Payment
        BY <2>0, <2>4, PaymentUpdates DEF HandleSucceeded, Handling
      <4> QED
        BY <3>1, <4>1
    <3>3. booking' \in [Bookings -> BookingRow]
      <4>1. \A row \in BookingRow :
              /\ [row EXCEPT !.payment_status = "deposit_paid", !.status = "confirmed"]
                    \in BookingRow
              /\ [row EXCEPT !.payment_status = "paid_in_full"] \in BookingRow
        BY BookingRowUpdates DEF PaymentStatus, Status
      <4> QED
        BY <3>1, <4>1
    <3>4. worker' \in [Workers -> Delivery]
      BY <2>0, <2>4, DeliveryUpdates DEF HandleSucceeded, GoTo
    <3> QED
      BY <2>4, <3>2, <3>3, <3>4 DEF HandleSucceeded
  <2>5. CASE HandleFailed(w)
    <3>1. PICK p \in payments :
            payments' = (payments \ {p}) \cup {[p EXCEPT !.status = "failed", !.event = e]}
      BY <2>5 DEF HandleFailed, UpdatePayment
    <3>2. payments' \subseteq Payment
      <4>1. [p EXCEPT !.status = "failed", !.event = e] \in Payment
        BY <2>0, <2>5, PaymentUpdates DEF HandleFailed, Handling
      <4> QED
        BY <3>1, <4>1
    <3>3. worker' \in [Workers -> Delivery]
      BY <2>0, <2>5, DeliveryUpdates DEF HandleFailed, GoTo
    <3> QED
      BY <2>5, <3>2, <3>3 DEF HandleFailed
  <2>6. CASE HandleRefundRead(w)
    <3>1. PICK p \in payments, k \in {q.pk : q \in payments} \cup {0} :
            worker' = [worker EXCEPT ![w] =
              [@ EXCEPT !.pc = "refund", !.pick = k, !.booking = p.booking,
                        !.deposit = booking[p.booking].deposit]]
      BY <2>6 DEF HandleRefundRead
    <3>2. p.booking \in Bookings /\ k \in Nat
      BY DEF Payment
    <3>3. booking[p.booking].deposit \in Nat
      BY <3>2, BookingRowUpdates
    <3>4. worker' \in [Workers -> Delivery]
      BY <2>0, <3>1, <3>2, <3>3, DeliveryUpdates
    <3> QED
      BY <2>6, <3>4 DEF HandleRefundRead
  <2>7. CASE HandleRefundCommit(w)
    <3>1. e \in Event /\ worker[w].booking \in Bookings /\ e.intent \in Intents
      BY <2>0, <2>7 DEF HandleRefundCommit, InHand
    <3>2. payments' \subseteq Payment /\ nextPk' \in Nat \ {0}
      <4> DEFINE new == NewPayment(worker[w].booking, "refund", -e.refunded, NoIntent)
      <4>1. CASE AddPayment([new EXCEPT !.status = "succeeded", !.charge = e.intent,
                                        !.event = e])
        <5>1. -e.refunded \in Int
          <6>1. \A n \in Nat : -n \in Int
            OBVIOUS
          <6> QED
            BY <2>0, <2>7, <6>1 DEF HandleRefundCommit
        <5>2. new \in Payment
          BY <3>1, <5>1, NewPaymentType
        <5> HIDE DEF new
        <5>3. [new EXCEPT !.status = "succeeded", !.charge = e.intent, !.event = e] \in Payment
          BY <3>1, <5>2, PaymentUpdates
        <5> QED
          BY <4>1, <5>3 DEF AddPayment
      <4>2. CASE /\ \E p \in payments :
                     UpdatePayment(p, [p EXCEPT !.status = "succeeded",
                                                !.charge = e.intent, !.event = e])
                 /\ UNCHANGED nextPk
        <5>1. PICK p \in payments :
                payments' = (payments \ {p}) \cup
                  {[p EXCEPT !.status = "succeeded", !.charge = e.intent, !.event = e]}
          BY <4>2 DEF UpdatePayment
        <5>2. [p EXCEPT !.status = "succeeded", !.charge = e.intent, !.event = e] \in Payment
          BY <3>1, PaymentUpdates
        <5> QED
          BY <4>2, <5>1, <5>2
      <4> QED
        BY <2>7, <4>1, <4>2 DEF HandleRefundCommit
    <3>3. booking' \in [Bookings -> BookingRow]
      <4>1. \A d, n : RefundOutcome(d, n) \in PaymentStatus
        BY DEF RefundOutcome, PaymentStatus
      <4>2. PICK ps \in PaymentStatus :
              booking' = [booking EXCEPT ![worker[w].booking].payment_status = ps]
        BY <2>7, <4>1 DEF HandleRefundCommit
      <4> QED
        BY <3>1, <4>2, BookingRowUpdates
    <3>4. worker' \in [Workers -> Delivery]
      BY <2>0, <2>7, DeliveryUpdates DEF HandleRefundCommit
    <3> QED
      BY <2>7, <3>2, <3>3, <3>4 DEF HandleRefundCommit
  <2>8. CASE HandlerRaises(w)
    BY <2>0, <2>8, DeliveryUpdates DEF HandlerRaises, Answer
  <2>9. CASE MarkProcessed(w)
    BY <2>0, <2>9, DeliveryUpdates DEF MarkProcessed, Answer
  <2>10. CASE CrashWorker(w)
    BY <2>0, <2>10, DeliveryUpdates DEF CrashWorker
  <2> QED
    BY <1>5, <2>1, <2>2, <2>3, <2>4, <2>5, <2>6, <2>7, <2>8, <2>9, <2>10 DEF Webhook, Handle
<1>6. ASSUME NEW r \in Requests, Staff(r) PROVE TypeOK'
  <2> USE DEF ledger, inbox, RequestAt, Finish
  <2>0. /\ request[r] \in StaffRequest
        /\ request[r].pc \notin {"idle", "done"} => request[r].booking \in Bookings
    BY DEF InHand
  <2>00. /\ request[r].amount \in Nat /\ request[r].pk \in Nat
         /\ request[r].intent \in Intents \cup {NoIntent}
         /\ request[r].seen \in BookingRow
    BY <2>0 DEF StaffRequest
  <2>01. \A n \in Nat : n \in Int /\ -n \in Int
    OBVIOUS
  <2>1. CASE \E b \in Bookings, pc \in {"cancel", "balance", "patch"} : ReadBooking(r, b, pc)
    <3>1. PICK b \in Bookings, pc \in {"cancel", "balance", "patch"} : ReadBooking(r, b, pc)
      BY <2>1
    <3>2. [IdleRequest EXCEPT !.pc = pc, !.booking = b, !.seen = booking[b]] \in StaffRequest
      BY <2>0, StaffRequestUpdates
    <3> QED
      BY <3>1, <3>2 DEF ReadBooking
  <2>2. CASE CancelSave(r)
    <3>1. request' \in [Requests -> StaffRequest]
      <4>1. RefundsDue(request[r].seen.deposit) \subseteq Nat
        BY <2>00, BookingRowUpdates, RefundsDueNat
      <4> QED
        <5>1. CASE Finish(r)
          BY <5>1, StaffRequestUpdates
        <5>2. CASE \E due \in RefundsDue(request[r].seen.deposit) :
                 request' = [request EXCEPT ![r] = [@ EXCEPT !.pc = "refund", !.amount = due]]
          <6>1. PICK due \in Nat :
                  request' = [request EXCEPT ![r] = [@ EXCEPT !.pc = "refund", !.amount = due]]
            BY <4>1, <5>2
          <6>2. [request[r] EXCEPT !.pc = "refund", !.amount = due] \in StaffRequest
            BY <2>0, StaffRequestUpdates
          <6> QED
            BY <6>1, <6>2
        <5> QED
          BY <2>2, <5>1, <5>2 DEF CancelSave
    <3>2. booking' \in [Bookings -> BookingRow]
      BY <2>2, BookingRowUpdates DEF CancelSave, Status
    <3> QED
      BY <2>2, <3>1, <3>2 DEF CancelSave
  <2>3. CASE ProvisionRefund(r)
    <3>1. NewPayment(request[r].booking, "refund", -request[r].amount, NoIntent) \in Payment
      BY <2>0, <2>00, <2>01, <2>3, NewPaymentType DEF ProvisionRefund
    <3>2. request' \in [Requests -> StaffRequest]
      BY <2>0, <2>3, StaffRequestUpdates DEF ProvisionRefund
    <3> QED
      BY <2>3, <3>1, <3>2 DEF ProvisionRefund, AddPayment
  <2>4. CASE RefundAtStripe(r)
    <3>1. request[r].seen.intent \in Intents
      BY <2>00, <2>4, BookingRowUpdates DEF RefundAtStripe
    <3>2. request' \in [Requests -> StaffRequest]
      BY <2>4, StaffRequestUpdates DEF RefundAtStripe
    <3> QED
      BY <2>00, <2>4, <3>1, <3>2, StripeRefundType DEF RefundAtStripe
  <2>5. CASE RefundRefused(r)
    BY <2>0, <2>5, StaffRequestUpdates DEF RefundRefused
  <2>6. CASE MarkRefundFailed(r)
    <3>1. payments' \subseteq Payment
      BY <2>6, PaymentUpdates DEF MarkRefundFailed, SetPaymentStatus, UpdatePayment
    <3> QED
      BY <2>6, <3>1, StaffRequestUpdates DEF MarkRefundFailed
  <2>7. CASE RefundOnPaper(r)
    <3>1. payments' \subseteq Payment
      BY <2>7, PaymentUpdates DEF RefundOnPaper, SetPaymentStatus, UpdatePayment
    <3> QED
      BY <2>0, <2>7, <3>1, StaffRequestUpdates DEF RefundOnPaper
  <2>8. CASE SaveRefunded(r)
    <3>1. PICK ps \in PaymentStatus :
            booking' = [booking EXCEPT ![request[r].booking].payment_status = ps]
      BY <2>8 DEF SaveRefunded, PaymentStatus
    <3>2. booking' \in [Bookings -> BookingRow]
      BY <3>1, BookingRowUpdates
    <3> QED
      BY <2>8, <3>2, StaffRequestUpdates DEF SaveRefunded
  <2>9. CASE OpenBalanceSession(r)
    <3> DEFINE balance == Total - request[r].seen.deposit
    <3>1. request[r].seen.deposit \in Nat
      BY <2>00, BookingRowUpdates
    <3>2. balance \in Nat /\ balance \in Int
      BY <2>9, <3>1, AmountAssumption DEF OpenBalanceSession
    <3>3. request[r].booking \in Bookings
      BY <2>0, <2>9 DEF OpenBalanceSession
    <3>4. PICK i \in Intents :
            /\ stripe' = [stripe EXCEPT ![i] =
                 [booking |-> request[r].booking, kind |-> "balance", amount |-> balance,
                  state |-> "open", payable |-> FALSE, refunded |-> 0]]
            /\ request' = [request EXCEPT ![r] =
                 [@ EXCEPT !.pc = "session", !.intent = i, !.amount = balance]]
      BY <2>9 DEF OpenBalanceSession
    <3> HIDE DEF balance
    <3>5. stripe' \in [Intents -> StripeIntent]
      BY <3>2, <3>3, <3>4, OpenedIntentType
    <3>6. request' \in [Requests -> StaffRequest]
      BY <2>0, <3>2, <3>4, StaffRequestUpdates
    <3> QED
      BY <2>9, <3>5, <3>6 DEF OpenBalanceSession
  <2>10. CASE RecordBalance(r)
    <3>1. PICK i \in Intents \cup {NoIntent} :
            AddPayment(NewPayment(request[r].booking, "balance", request[r].amount, i))
      BY <2>00, <2>10 DEF RecordBalance
    <3>2. NewPayment(request[r].booking, "balance", request[r].amount, i) \in Payment
      BY <2>0, <2>00, <2>01, <2>10, NewPaymentType DEF RecordBalance
    <3>3. request' \in [Requests -> StaffRequest]
      BY <2>0, <2>10, StaffRequestUpdates DEF RecordBalance
    <3> QED
      BY <2>10, <3>1, <3>2, <3>3 DEF RecordBalance, AddPayment
  <2>11. CASE SendBalanceLink(r)
    <3>1. stripe' \in [Intents -> StripeIntent]
      BY <2>11, StripeIntentUpdates DEF SendBalanceLink
    <3> QED
      BY <2>11, <3>1, StaffRequestUpdates DEF SendBalanceLink
  <2>12. CASE PatchSave(r)
    <3>1. PICK s \in PatchStatuses \cup {request[r].seen.status} :
            booking' = [booking EXCEPT ![request[r].booking] =
                          [request[r].seen EXCEPT !.status = s]]
      BY <2>12 DEF PatchSave
    <3>2. [request[r].seen EXCEPT !.status = s] \in BookingRow
      BY <2>00, BookingRowUpdates, StaffAssumption
    <3>3. booking' \in [Bookings -> BookingRow]
      BY <3>1, <3>2
    <3> QED
      BY <2>12, <3>3, StaffRequestUpdates DEF PatchSave
  <2>13. CASE CrashRequest(r)
    BY <2>13, StaffRequestUpdates DEF CrashRequest
  <2> QED
    BY <1>6, <2>1, <2>2, <2>3, <2>4, <2>5, <2>6, <2>7, <2>8, <2>9, <2>10, <2>11, <2>12, <2>13
       DEF Staff, Cancel, ChargeBalance, Patch
<1>7. ASSUME UNCHANGED vars PROVE TypeOK'
  BY <1>7 DEF vars
<1> QED
  BY <1>1, <1>2, <1>3, <1>4, <1>5, <1>6, <1>7 DEF Next

\* How a step of a staff request changes what the request carries.
Moved(q, to) ==
    /\ request'[q].pc = to
    /\ request'[q].booking = request[q].booking
    /\ request'[q].seen = request[q].seen

LEMMA StaffMoves ==
    ASSUME TypeOK, NEW q \in Requests, Staff(q)
    PROVE  /\ \A r \in Requests \ {q} : request'[r] = request[r]
           /\ \/ request'[q].pc = "done"
              \/ \E b \in Bookings :
                   /\ request'[q].pc \in {"cancel", "balance", "patch"}
                   /\ request'[q].booking = b /\ request'[q].seen = booking[b]
              \/ /\ request[q].pc = "cancel" /\ Moved(q, "refund")
                 /\ request[q].seen.payment_status \in Paid
              \/ /\ ProvisionRefund(q) /\ request[q].pc = "refund"
                 /\ Moved(q, "provisioned") /\ request'[q].pk = nextPk
              \/ /\ request[q].pc = "provisioned"
                 /\ Moved(q, "refused") \/ Moved(q, "papered")
                 /\ request'[q].pk = request[q].pk
              \/ /\ OpenBalanceSession(q) /\ request[q].pc = "balance" /\ Moved(q, "session")
              \/ /\ request[q].pc = "session" /\ Moved(q, "link")
                 /\ request'[q].intent = request[q].intent
                 /\ request'[q].amount = request[q].amount
<1> DEFINE Others == \A r \in Requests \ {q} : request'[r] = request[r]
<1>0. request[q] \in StaffRequest /\ request \in [Requests -> StaffRequest]
  BY DEF TypeOK
<1> USE <1>0 DEF RequestAt, Finish, Moved
<1>1. ASSUME NEW b \in Bookings, NEW pc \in StaffOps, ReadBooking(q, b, pc)
      PROVE  /\ Others
             /\ request'[q].pc \in {"cancel", "balance", "patch"}
             /\ request'[q].booking = b /\ request'[q].seen = booking[b]
  BY <1>1, StaffAssumption DEF ReadBooking, IdleRequest
<1>2. ASSUME CancelSave(q)
      PROVE  /\ Others
             /\ \/ request'[q].pc = "done"
                \/ /\ request[q].pc = "cancel" /\ Moved(q, "refund")
                   /\ request[q].seen.payment_status \in Paid
  <2>1. CASE Finish(q)
    BY <2>1 DEF DoneRequest, IdleRequest
  <2>2. ASSUME NEW due \in RefundsDue(request[q].seen.deposit),
               request' = [request EXCEPT ![q] = [@ EXCEPT !.pc = "refund", !.amount = due]]
        PROVE  Others /\ Moved(q, "refund")
    BY <2>2 DEF StaffRequest
  <2> QED
    BY <1>2, <2>1, <2>2 DEF CancelSave
<1>3. ASSUME ProvisionRefund(q)
      PROVE  /\ Others /\ request[q].pc = "refund"
             /\ Moved(q, "provisioned") /\ request'[q].pk = nextPk
  BY <1>3 DEF ProvisionRefund, StaffRequest
<1>4. ASSUME RefundRefused(q) \/ RefundOnPaper(q)
      PROVE  /\ Others /\ request[q].pc = "provisioned"
             /\ Moved(q, "refused") \/ Moved(q, "papered")
             /\ request'[q].pk = request[q].pk
  BY <1>4 DEF RefundRefused, RefundOnPaper, StaffRequest
<1>5. ASSUME OpenBalanceSession(q)
      PROVE  Others /\ request[q].pc = "balance" /\ Moved(q, "session")
  BY <1>5 DEF OpenBalanceSession, StaffRequest
<1>6. ASSUME RecordBalance(q)
      PROVE  /\ Others /\ request[q].pc = "session" /\ Moved(q, "link")
             /\ request'[q].intent = request[q].intent
             /\ request'[q].amount = request[q].amount
  BY <1>6 DEF RecordBalance, StaffRequest
<1>7. ASSUME Finish(q) PROVE Others /\ request'[q].pc = "done"
  BY <1>7 DEF DoneRequest, IdleRequest
<1>8. ASSUME \/ RefundAtStripe(q) \/ MarkRefundFailed(q) \/ SaveRefunded(q)
             \/ SendBalanceLink(q) \/ PatchSave(q) \/ CrashRequest(q)
      PROVE  Finish(q)
  BY <1>8 DEF RefundAtStripe, MarkRefundFailed, SaveRefunded, SendBalanceLink, PatchSave,
              CrashRequest
<1>9. \/ \E b \in Bookings, pc \in StaffOps : ReadBooking(q, b, pc)
      \/ CancelSave(q) \/ ProvisionRefund(q) \/ RefundRefused(q) \/ RefundOnPaper(q)
      \/ OpenBalanceSession(q) \/ RecordBalance(q) \/ Finish(q)
  BY <1>8 DEF Staff, Cancel, ChargeBalance, Patch, ReadBooking
<1> HIDE DEF Others, Moved, Finish
<1> QED
  BY <1>1, <1>2, <1>3, <1>4, <1>5, <1>6, <1>7, <1>9 DEF Others

LEMMA InHandStep == TypeOK /\ InHand /\ [Next]_vars => InHand'
<1> SUFFICES ASSUME TypeOK, InHand, [Next]_vars PROVE InHand'
  OBVIOUS
<1>1. events \subseteq events'
  BY EventsFrame DEF EventsChange, Pay, Decline, DashboardRefund, RefundAtStripe, StripeRefund, Emit
<1>2. ASSUME NEW w \in Workers
      PROVE  /\ worker'[w].pc # "idle" => worker'[w].event \in events'
             /\ worker'[w].pc = "refund" => worker'[w].booking \in Bookings
  <2>1. CASE UNCHANGED worker
    BY <1>1, <2>1 DEF InHand
  <2>2. ASSUME NEW v \in Workers, Webhook(v)
        PROVE  /\ worker'[w].pc # "idle" => worker'[w].event \in events'
               /\ worker'[w].pc = "refund" => worker'[w].booking \in Bookings
    <3> USE <1>1 DEF TypeOK, InHand, WorkerAt
    <3>1. CASE \E e \in events : Receive(v, e)
      <4>1. PICK e \in events, pc \in {"handle", "claim"} :
              \/ UNCHANGED worker
              \/ worker' = [worker EXCEPT ![v] = [@ EXCEPT !.event = e, !.pc = pc]]
        BY <3>1 DEF Receive
      <4> QED
        BY <4>1, ZenonT(40) DEF Delivery
    <3>2. CASE Claim(v)
      BY <3>2 DEF Claim, GoTo, IdleWorker, Delivery
    <3>3. CASE NoPaymentFound(v) \/ HandleSucceeded(v) \/ HandleFailed(v)
      BY <3>3, ZenonT(40) DEF NoPaymentFound, HandleSucceeded, HandleFailed, Handling, GoTo, Delivery
    <3>4. CASE HandleRefundRead(v)
      BY <3>4 DEF HandleRefundRead, Handling, Delivery, Payment
    <3>5. CASE HandleRefundCommit(v)
      BY <3>5 DEF HandleRefundCommit, IdleWorker, Delivery
    <3>6. CASE HandlerRaises(v) \/ MarkProcessed(v) \/ CrashWorker(v)
      BY <3>6 DEF HandlerRaises, MarkProcessed, CrashWorker, Answer, IdleWorker, Delivery
    <3> QED
      BY <2>2, <3>1, <3>2, <3>3, <3>4, <3>5, <3>6 DEF Webhook, Handle
  <2> QED
    BY <2>1, <2>2, WorkerFrame DEF WorkerChanges
<1>3. ASSUME NEW r \in Requests, request'[r].pc \notin {"idle", "done"}
      PROVE  request'[r].booking \in Bookings
  <2>1. CASE UNCHANGED request
    BY <1>3, <2>1 DEF InHand
  <2>2. ASSUME NEW q \in Requests, Staff(q)
        PROVE  request'[r].booking \in Bookings
    BY <1>3, <2>2, StaffMoves DEF InHand, Moved
  <2> QED
    BY <2>1, <2>2, RequestFrame DEF RequestChanges
<1> QED
  BY <1>2, <1>3 DEF InHand

LEMMA InitialTypes == Init => TypeOK /\ InHand
  BY FS_EmptySet, AbsentBookingType
     DEF Init, TypeOK, InHand, UnusedIntent, IdleWorker, IdleRequest, NoEvent, Creation,
         Delivery, StaffRequest, SweepStep, StripeIntent

\* Every variable keeps its type (all handlers).
THEOREM TypeCorrect == Spec => []TypeOK
<1>1. Init => TypeOK /\ InHand
  BY InitialTypes
<1>2. TypeOK /\ InHand /\ [Next]_vars => (TypeOK /\ InHand)'
  BY TypeStep, InHandStep
<1> QED
  BY <1>1, <1>2, PTL DEF Spec
=============================================================================
