------------------------- MODULE BookingPaymentsProofs -------------------------
(***************************************************************************)
(* What holds of BookingPayments for every set of bookings, intents,       *)
(* workers and requests and every amount.  The inductive invariant IndInv  *)
(* follows the money: a Stripe intent, once opened, keeps its booking, kind *)
(* and amount, and a captured one stays captured; a ledger row, once       *)
(* written, keeps its booking, kind, amount and intent.  Everything a      *)
(* request or a delivery carries between two commits is stated in these    *)
(* terms, so that it is still true when it is used.                        *)
(***************************************************************************)
EXTENDS BookingPaymentsTypes

\* Primary keys identify rows and are below the next one.
RowsAreDistinct ==
    \A p \in payments :
        /\ 0 < p.pk /\ p.pk < nextPk
        /\ \A q \in payments : p.pk = q.pk => p = q

\* Stripe reports a success or a refund only of a captured charge.
EventsAreReal ==
    \A e \in events :
        e.type \in {"succeeded", "refunded"} => stripe[e.intent].state = "captured"

RefundRow(k, b) ==
    k < nextPk /\ \A p \in payments : p.pk = k => p.kind = "refund" /\ p.booking = b

Applied(e) == \E p \in payments : p.intent = e.intent /\ p.charge = e.intent

IsDeposit(e) == e.type = "succeeded" /\ stripe[e.intent].kind = "deposit"

\* What a delivery carries between the steps of its handling.
DeliveriesAreReal ==
    \A w \in Workers :
        /\ worker[w].pc = "refund" =>
             /\ worker[w].event.type = "refunded"
             /\ stripe[worker[w].event.intent].booking = worker[w].booking
             /\ worker[w].pick # 0 => RefundRow(worker[w].pick, worker[w].booking)
        /\ worker[w].pc = "mark" /\ IsDeposit(worker[w].event) => Applied(worker[w].event)

\* i is an opened intent for this booking, kind and amount.
Opened(i, b, kind, amount) ==
    /\ i \in Intents
    /\ stripe[i].state # "unused"
    /\ stripe[i].booking = b /\ stripe[i].kind = kind /\ stripe[i].amount = amount

\* What a ledger row says of Stripe.
RowBacked(p) ==
    /\ p.kind = "refund" => p.intent = NoIntent /\ Captured(p.booking)
    /\ p.intent # NoIntent => Opened(p.intent, p.booking, p.kind, p.amount)
    /\ p.charge # NoIntent =>
         stripe[p.charge].state = "captured" /\ stripe[p.charge].booking = p.booking
    /\ p.kind # "refund" /\ p.status = "succeeded" =>
         p.intent # NoIntent /\ stripe[p.intent].state = "captured"

RowsAreBacked == \A p \in payments : RowBacked(p)

\* What a staff request carries between its commits.
RequestsAreBacked ==
    \A r \in Requests :
        /\ request[r].pc \notin {"idle", "done"} =>
             (request[r].seen.payment_status \in EverPaid => Captured(request[r].booking))
        /\ request[r].pc \in {"refund", "provisioned", "refused", "papered"} =>
             Captured(request[r].booking)
        /\ request[r].pc \in {"provisioned", "refused", "papered"} =>
             RefundRow(request[r].pk, request[r].booking)
        /\ request[r].pc \in {"session", "link"} =>
             Opened(request[r].intent, request[r].booking, "balance", request[r].amount)

OnLedger(i, b) == \E p \in payments : p.intent = i /\ p.booking = b

\* What the request that creates a booking carries between its commits.
CreationsAreBacked ==
    \A b \in Bookings :
        /\ creating[b].pc \in {"opened", "linked", "recorded"} =>
             Opened(creating[b].intent, b, "deposit", creating[b].deposit)
        /\ creating[b].pc = "recorded" => OnLedger(creating[b].intent, b)

\* A deposit a customer can pay, or has paid, has its row.
PayableDepositIsOnLedger ==
    \A i \in Intents :
        stripe[i].kind = "deposit" /\ (stripe[i].payable \/ stripe[i].state = "captured") =>
            OnLedger(i, stripe[i].booking)

IndInv ==
    /\ TypeOK
    /\ InHand
    /\ RowsAreDistinct
    /\ EventsAreReal
    /\ DeliveriesAreReal
    /\ RowsAreBacked
    /\ RequestsAreBacked
    /\ CreationsAreBacked
    /\ PayableDepositIsOnLedger
    /\ PaidOnlyIfCaptured
    /\ ProcessedMeansApplied

---------------------------------------------------------------------------
(* Stripe never forgets. *)

\* What no step changes of an opened intent.
StripeKeeps(i) ==
    /\ stripe'[i].state # "unused"
    /\ stripe'[i].booking = stripe[i].booking
    /\ stripe'[i].kind = stripe[i].kind
    /\ stripe'[i].amount = stripe[i].amount
    /\ stripe[i].state = "captured" => stripe'[i].state = "captured"

LEMMA StripeGrows ==
    ASSUME TypeOK, [Next]_vars, NEW i \in Intents, stripe[i].state # "unused"
    PROVE  StripeKeeps(i)
<1>0. stripe \in [Intents -> StripeIntent] /\ stripe[i] \in StripeIntent
  BY DEF TypeOK
<1> USE <1>0 DEF StripeKeeps, StripeIntent
<1>1. CASE UNCHANGED stripe
  BY <1>1
<1>2. ASSUME NEW j \in Intents, stripe' = [stripe EXCEPT ![j].payable = TRUE]
      PROVE  StripeKeeps(i)
  BY <1>2
<1>3. ASSUME NEW b \in Bookings, AnswerCreate(b) PROVE StripeKeeps(i)
  BY <1>3, <1>2 DEF AnswerCreate
<1>4. ASSUME NEW b \in Bookings, OpenDepositIntent(b) PROVE StripeKeeps(i)
  BY <1>4 DEF OpenDepositIntent
<1>5. ASSUME NEW b \in Bookings, SweepCancelIntent(b) PROVE StripeKeeps(i)
  BY <1>5 DEF SweepCancelIntent
<1>6. ASSUME NEW j \in Intents, Pay(j) PROVE StripeKeeps(i)
  BY <1>6 DEF Pay
<1>7. ASSUME NEW j, NEW n, StripeRefund(j, n) PROVE StripeKeeps(i)
  BY <1>7 DEF StripeRefund
<1>8. ASSUME NEW r \in Requests, OpenBalanceSession(r) PROVE StripeKeeps(i)
  BY <1>8 DEF OpenBalanceSession
<1>9. ASSUME NEW r \in Requests, SendBalanceLink(r) PROVE StripeKeeps(i)
  BY <1>9, <1>2 DEF SendBalanceLink
<1> QED
  BY <1>1, <1>3, <1>4, <1>5, <1>6, <1>7, <1>8, <1>9, StripeFrame
     DEF StripeChanges, DashboardRefund, RefundAtStripe

LEMMA CapturedStays ==
    ASSUME TypeOK, [Next]_vars, NEW b \in Bookings, Captured(b)
    PROVE  Captured(b)'
<1>1. PICK i \in Intents : stripe[i].booking = b /\ stripe[i].state = "captured"
  BY DEF Captured
<1>2. StripeKeeps(i)
  BY <1>1, StripeGrows
<1> QED
  BY <1>1, <1>2 DEF Captured, StripeKeeps

LEMMA OpenedStays ==
    ASSUME TypeOK, [Next]_vars, NEW i, NEW b, NEW kind, NEW amount,
           Opened(i, b, kind, amount)
    PROVE  Opened(i, b, kind, amount)'
BY StripeGrows DEF Opened, StripeKeeps

\* What a row of the ledger says of Stripe remains true.
LEMMA RowBackedStays ==
    ASSUME TypeOK, [Next]_vars, NEW p \in Payment, RowBacked(p)
    PROVE  RowBacked(p)'
<1>1. p.booking \in Bookings /\ p.charge \in Intents \cup {NoIntent}
      /\ p.intent \in Intents \cup {NoIntent}
  BY DEF Payment
<1>2. p.kind = "refund" => Captured(p.booking)'
  BY <1>1, CapturedStays DEF RowBacked
<1>3. p.intent # NoIntent => Opened(p.intent, p.booking, p.kind, p.amount)'
  BY OpenedStays DEF RowBacked
<1>4. \A i \in Intents : stripe[i].state = "captured" =>
          stripe'[i].state = "captured" /\ stripe'[i].booking = stripe[i].booking
  BY StripeGrows DEF StripeKeeps
<1> QED
  BY <1>1, <1>2, <1>3, <1>4 DEF RowBacked

---------------------------------------------------------------------------
(* Every change of the ledger adds a row that Stripe backs or updates a row *)
(* in place.                                                               *)

RowAdded(new) ==
    /\ AddPayment(new)
    /\ new.pk = nextPk
    /\ \A p \in payments : p.event = new.event => new.event = NoEvent

RowUpdated(p, new) ==
    /\ UpdatePayment(p, new) /\ nextPk' = nextPk
    /\ new.pk = p.pk /\ new.booking = p.booking /\ new.kind = p.kind
    /\ new.amount = p.amount /\ new.intent = p.intent
    /\ p.intent # NoIntent /\ p.charge = p.intent => new.charge = p.charge
    /\ new.event = p.event \/ EventIsFree(p.pk, new.event)

LedgerMoves ==
    \/ UNCHANGED ledger
    \/ \E new \in Payment : RowAdded(new) /\ RowBacked(new)'
    \/ \E p \in payments, new \in Payment : RowUpdated(p, new) /\ RowBacked(new)'

LEMMA NewPaymentFields ==
    ASSUME NEW b, NEW kind, NEW amount, NEW i
    PROVE  LET new == NewPayment(b, kind, amount, i) IN
           /\ new.pk = nextPk /\ new.booking = b /\ new.kind = kind /\ new.amount = amount
           /\ new.intent = i /\ new.charge = NoIntent /\ new.status = "pending"
           /\ new.event = NoEvent
BY DEF NewPayment

LEMMA LedgerStep == IndInv /\ [Next]_vars => LedgerMoves
<1> SUFFICES ASSUME IndInv, [Next]_vars PROVE LedgerMoves
  OBVIOUS
<1>0. TypeOK /\ InHand /\ payments \subseteq Payment
  BY DEF IndInv, TypeOK
<1>1. ASSUME NEW b \in Bookings, RecordDeposit(b) PROVE LedgerMoves
  <2> DEFINE new == NewPayment(b, "deposit", creating[b].deposit, creating[b].intent)
  <2>1. new \in payments'
    BY <1>1 DEF RecordDeposit, AddPayment
  <2>2. new \in Payment
    BY <2>1, TypeStep, <1>0 DEF TypeOK
  <2>3. Opened(creating[b].intent, b, "deposit", creating[b].deposit)
    BY <1>1 DEF IndInv, CreationsAreBacked, RecordDeposit, CreateStep
  <2>4. RowAdded(new)
    BY <1>1, NewPaymentFields DEF RecordDeposit, RowAdded
  <2>5. RowBacked(new)
    BY <2>3, NewPaymentFields DEF RowBacked
  <2> QED
    BY <1>0, <2>2, <2>4, <2>5, RowBackedStays DEF LedgerMoves
<1>2. ASSUME NEW w \in Workers, HandleSucceeded(w) PROVE LedgerMoves
  <2> DEFINE e == worker[w].event
  <2>1. e \in events /\ e \in Event /\ e.type = "succeeded"
    BY <1>0, <1>2 DEF HandleSucceeded, Handling, WorkerAt, InHand, TypeOK
  <2>2. e.intent \in Intents /\ e.intent # NoIntent
    BY <2>1, DomainAssumption DEF Event
  <2> DEFINE upd(p) == [p EXCEPT !.status = "succeeded", !.charge = e.intent, !.event = e]
  <2>3. PICK p \in payments : /\ p.intent = e.intent /\ EventIsFree(p.pk, e)
                              /\ UpdatePayment(p, upd(p))
    BY <1>2 DEF HandleSucceeded, IsLatest, OfIntent
  <2> DEFINE new == upd(p)
  <2>4. p \in Payment /\ new \in Payment
    BY <1>0, <2>1, <2>2, PaymentUpdates
  <2>5. /\ new.pk = p.pk /\ new.booking = p.booking /\ new.kind = p.kind
        /\ new.amount = p.amount /\ new.intent = p.intent /\ new.event = e
        /\ new.charge = e.intent /\ new.status = "succeeded"
    BY <2>4 DEF Payment
  <2> HIDE DEF new
  <2>6. stripe[e.intent].state = "captured"
    BY <2>1 DEF IndInv, EventsAreReal
  <2>7. RowBacked(p)
    BY DEF IndInv, RowsAreBacked
  <2>8. RowBacked(new)
    BY <2>2, <2>3, <2>5, <2>6, <2>7 DEF RowBacked, Opened
  <2>9. RowUpdated(p, new)
    BY <1>2, <2>3, <2>5 DEF RowUpdated, HandleSucceeded, Outside, new
  <2> QED
    BY <1>0, <2>4, <2>8, <2>9, RowBackedStays DEF LedgerMoves
<1>3. ASSUME NEW w \in Workers, HandleFailed(w) PROVE LedgerMoves
  <2> DEFINE e == worker[w].event
  <2>1. e \in Event
    BY <1>0, <1>3 DEF HandleFailed, Handling, WorkerAt, InHand, TypeOK
  <2> DEFINE upd(p) == [p EXCEPT !.status = "failed", !.event = e]
  <2>2. PICK p \in payments : EventIsFree(p.pk, e) /\ UpdatePayment(p, upd(p))
    BY <1>3 DEF HandleFailed
  <2> DEFINE new == upd(p)
  <2>3. p \in Payment /\ new \in Payment
    BY <1>0, <2>1, PaymentUpdates
  <2>4. /\ new.pk = p.pk /\ new.booking = p.booking /\ new.kind = p.kind
        /\ new.amount = p.amount /\ new.intent = p.intent /\ new.event = e
        /\ new.charge = p.charge /\ new.status = "failed"
    BY <2>3 DEF Payment
  <2> HIDE DEF new
  <2>5. RowBacked(p)
    BY DEF IndInv, RowsAreBacked
  <2>6. RowBacked(new)
    BY <2>4, <2>5 DEF RowBacked
  <2>7. RowUpdated(p, new)
    BY <1>3, <2>2, <2>4 DEF RowUpdated, HandleFailed, Outside, new
  <2> QED
    BY <1>0, <2>3, <2>6, <2>7, RowBackedStays DEF LedgerMoves
<1>4. ASSUME NEW w \in Workers, HandleRefundCommit(w) PROVE LedgerMoves
  <2> DEFINE e == worker[w].event
             b == worker[w].booking
             k == worker[w].pick
  <2>1. e \in events /\ e \in Event /\ b \in Bookings
    BY <1>0, <1>4 DEF HandleRefundCommit, WorkerAt, InHand, TypeOK
  <2>2. e.intent \in Intents /\ e.intent # NoIntent /\ e # NoEvent
    BY <2>1, DomainAssumption DEF Event, NoEvent
  <2>3. e.type = "refunded" /\ stripe[e.intent].booking = b
    BY <1>4 DEF IndInv, DeliveriesAreReal, HandleRefundCommit, WorkerAt
  <2>4. stripe[e.intent].state = "captured" /\ Captured(b)
    BY <2>1, <2>2, <2>3 DEF IndInv, EventsAreReal, Captured
  <2> DEFINE upd(p) == [p EXCEPT !.status = "succeeded", !.charge = e.intent, !.event = e]
  <2>free. EventIsFree(k, e)
    BY <1>4 DEF HandleRefundCommit
  <2>pk. \A p \in payments : p.pk # 0
    BY DEF IndInv, RowsAreDistinct
  <2>5. ASSUME k = 0, AddPayment(upd(NewPayment(b, "refund", -e.refunded, NoIntent)))
        PROVE  LedgerMoves
    <3> DEFINE new == upd(NewPayment(b, "refund", -e.refunded, NoIntent))
    <3>1. new \in Payment
      BY <1>0, <2>5, TypeStep DEF TypeOK, AddPayment
    <3>2. /\ new.pk = nextPk /\ new.booking = b /\ new.kind = "refund"
          /\ new.intent = NoIntent /\ new.charge = e.intent /\ new.event = e
      BY DEF NewPayment
    <3>3. \A p \in payments : p.event # e
      BY <2>5, <2>free, <2>pk DEF EventIsFree
    <3> HIDE DEF new
    <3>4. RowAdded(new)
      BY <2>5, <3>2, <3>3 DEF RowAdded, new
    <3>5. RowBacked(new)
      BY <2>3, <2>4, <3>2 DEF RowBacked
    <3> QED
      BY <1>0, <3>1, <3>4, <3>5, RowBackedStays DEF LedgerMoves
  <2>6. ASSUME NEW p \in payments, p.pk = k, UpdatePayment(p, upd(p)), UNCHANGED nextPk
        PROVE  LedgerMoves
    <3> DEFINE new == upd(p)
    <3>1. p \in Payment /\ new \in Payment
      BY <1>0, <2>1, <2>2, PaymentUpdates
    <3>2. /\ new.pk = p.pk /\ new.booking = p.booking /\ new.kind = p.kind
          /\ new.amount = p.amount /\ new.intent = p.intent /\ new.event = e
          /\ new.charge = e.intent
      BY <3>1 DEF Payment
    <3>3. k # 0 /\ EventIsFree(p.pk, e)
      BY <2>6, <2>free, <2>pk
    <3>4. p.kind = "refund" /\ p.booking = b
      BY <1>4, <2>6, <3>3 DEF IndInv, DeliveriesAreReal, HandleRefundCommit, WorkerAt, RefundRow
    <3>5. RowBacked(p)
      BY DEF IndInv, RowsAreBacked
    <3> HIDE DEF new
    <3>6. RowBacked(new)
      BY <2>3, <2>4, <3>2, <3>4, <3>5 DEF RowBacked
    <3>7. RowUpdated(p, new)
      BY <2>6, <3>2, <3>3, <3>4, <3>5 DEF RowUpdated, RowBacked, new
    <3> QED
      BY <1>0, <3>1, <3>6, <3>7, RowBackedStays DEF LedgerMoves
  <2> QED
    BY <1>4, <2>5, <2>6 DEF HandleRefundCommit
<1>5. ASSUME NEW r \in Requests, ProvisionRefund(r) PROVE LedgerMoves
  <2> DEFINE new == NewPayment(request[r].booking, "refund", -request[r].amount, NoIntent)
  <2>1. new \in Payment
    BY <1>0, <1>5, TypeStep DEF TypeOK, ProvisionRefund, AddPayment
  <2>2. Captured(request[r].booking)
    BY <1>5 DEF IndInv, RequestsAreBacked, ProvisionRefund, RequestAt
  <2>3. RowAdded(new)
    BY <1>5, NewPaymentFields DEF ProvisionRefund, RowAdded
  <2>4. RowBacked(new)
    BY <2>2, NewPaymentFields DEF RowBacked
  <2> QED
    BY <1>0, <2>1, <2>3, <2>4, RowBackedStays DEF LedgerMoves
<1>6. ASSUME NEW r \in Requests, MarkRefundFailed(r) \/ RefundOnPaper(r) PROVE LedgerMoves
  <2>1. PICK p \in payments, st \in {"succeeded", "failed"} :
          p.pk = request[r].pk /\ UpdatePayment(p, [p EXCEPT !.status = st])
    BY <1>6 DEF MarkRefundFailed, RefundOnPaper, SetPaymentStatus
  <2> DEFINE new == [p EXCEPT !.status = st]
  <2>2. p \in Payment /\ new \in Payment
    BY <1>0, PaymentUpdates
  <2>3. /\ new.pk = p.pk /\ new.booking = p.booking /\ new.kind = p.kind
        /\ new.amount = p.amount /\ new.intent = p.intent /\ new.event = p.event
        /\ new.charge = p.charge
    BY <2>2 DEF Payment
  <2>4. p.kind = "refund"
    BY <1>6, <2>1 DEF IndInv, RequestsAreBacked, MarkRefundFailed, RefundOnPaper, RequestAt,
                      RefundRow
  <2>5. RowBacked(p)
    BY DEF IndInv, RowsAreBacked
  <2> HIDE DEF new
  <2>6. RowBacked(new)
    BY <2>3, <2>4, <2>5 DEF RowBacked
  <2>7. RowUpdated(p, new)
    BY <1>6, <2>1, <2>3 DEF RowUpdated, MarkRefundFailed, RefundOnPaper, new
  <2> QED
    BY <1>0, <2>2, <2>6, <2>7, RowBackedStays DEF LedgerMoves
<1>7. ASSUME NEW r \in Requests, RecordBalance(r) PROVE LedgerMoves
  <2>1. PICK i \in {request[r].intent, NoIntent} :
          AddPayment(NewPayment(request[r].booking, "balance", request[r].amount, i))
    BY <1>7 DEF RecordBalance
  <2> DEFINE new == NewPayment(request[r].booking, "balance", request[r].amount, i)
  <2>2. new \in Payment
    BY <1>0, <2>1, TypeStep DEF TypeOK, AddPayment
  <2>3. Opened(request[r].intent, request[r].booking, "balance", request[r].amount)
    BY <1>7 DEF IndInv, RequestsAreBacked, RecordBalance, RequestAt
  <2>4. RowAdded(new)
    BY <2>1, NewPaymentFields DEF RowAdded
  <2>5. RowBacked(new)
    BY <2>3, NewPaymentFields DEF RowBacked
  <2> QED
    BY <1>0, <2>2, <2>4, <2>5, RowBackedStays DEF LedgerMoves
<1> QED
  BY <1>1, <1>2, <1>3, <1>4, <1>5, <1>6, <1>7, LedgerFrame DEF LedgerChanges, LedgerMoves

\* Primary keys stay distinct.
LEMMA RowsDistinctStep == IndInv /\ [Next]_vars => RowsAreDistinct'
<1> SUFFICES ASSUME IndInv, [Next]_vars PROVE RowsAreDistinct'
  OBVIOUS
<1>0. RowsAreDistinct /\ nextPk \in Nat /\ payments \subseteq Payment
      /\ \A p \in Payment : p.pk \in Nat
  BY DEF IndInv, TypeOK, Payment
<1>1. CASE UNCHANGED ledger
  BY <1>0, <1>1 DEF ledger, RowsAreDistinct
<1>2. ASSUME NEW new \in Payment, RowAdded(new) PROVE RowsAreDistinct'
  <2>1. /\ payments' = payments \cup {new} /\ nextPk' = nextPk + 1
        /\ new.pk = nextPk /\ 0 < nextPk
    BY <1>2 DEF RowAdded, AddPayment, IndInv, TypeOK
  <2>2. \A q \in payments : 0 < q.pk /\ q.pk < nextPk /\ q.pk < nextPk + 1 /\ q.pk # new.pk
    BY <1>0, <2>1 DEF RowsAreDistinct
  <2> QED
    BY <1>0, <2>1, <2>2 DEF RowsAreDistinct
<1>3. ASSUME NEW p \in payments, NEW new \in Payment, RowUpdated(p, new)
      PROVE  RowsAreDistinct'
  BY <1>0, <1>3 DEF RowsAreDistinct, RowUpdated, UpdatePayment
<1> QED
  BY <1>1, <1>2, <1>3, LedgerStep DEF LedgerMoves

LEMMA RowsBackedStep == IndInv /\ [Next]_vars => RowsAreBacked'
<1> SUFFICES ASSUME IndInv, [Next]_vars, NEW p \in payments' PROVE RowBacked(p)'
  BY DEF RowsAreBacked
<1>1. \A q \in payments : q \in Payment /\ RowBacked(q)'
  BY RowBackedStays DEF IndInv, RowsAreBacked, TypeOK
<1> QED
  BY <1>1, LedgerStep DEF LedgerMoves, RowAdded, RowUpdated, AddPayment, UpdatePayment, ledger

\* A row keeps its booking and intent, and a charge that is its intent.
LEMMA LedgerGrows ==
    ASSUME IndInv, [Next]_vars, NEW p \in payments
    PROVE  \E q \in payments' :
             /\ q.intent = p.intent /\ q.booking = p.booking
             /\ p.intent # NoIntent /\ p.charge = p.intent => q.charge = p.charge
BY LedgerStep DEF LedgerMoves, RowAdded, RowUpdated, AddPayment, UpdatePayment, ledger

LEMMA OnLedgerStays ==
    ASSUME IndInv, [Next]_vars, NEW i, NEW b, OnLedger(i, b)
    PROVE  OnLedger(i, b)'
BY LedgerGrows DEF OnLedger

LEMMA AppliedStays ==
    ASSUME IndInv, [Next]_vars, NEW e \in Event, Applied(e)
    PROVE  Applied(e)'
<1>1. e.intent # NoIntent
  BY DomainAssumption DEF Event
<1> QED
  BY <1>1, LedgerGrows DEF Applied

LEMMA RefundRowStays ==
    ASSUME IndInv, [Next]_vars, NEW k \in Nat, NEW b, RefundRow(k, b)
    PROVE  RefundRow(k, b)'
<1>0. nextPk \in Nat
  BY DEF IndInv, TypeOK
<1>1. CASE UNCHANGED ledger
  BY <1>1 DEF ledger, RefundRow
<1>2. ASSUME NEW new \in Payment, RowAdded(new) PROVE RefundRow(k, b)'
  BY <1>0, <1>2 DEF RefundRow, RowAdded, AddPayment
<1>3. ASSUME NEW p \in payments, NEW new \in Payment, RowUpdated(p, new)
      PROVE  RefundRow(k, b)'
  BY <1>3 DEF RefundRow, RowUpdated, UpdatePayment
<1> QED
  BY <1>1, <1>2, <1>3, LedgerStep DEF LedgerMoves

---------------------------------------------------------------------------
LEMMA EventsRealStep == IndInv /\ [Next]_vars => EventsAreReal'
<1> SUFFICES ASSUME IndInv, [Next]_vars PROVE EventsAreReal'
  OBVIOUS
<1>0. TypeOK /\ EventsAreReal /\ events \subseteq Event
  BY DEF IndInv, TypeOK
<1>1. \A i \in Intents : stripe[i].state = "captured" => stripe'[i].state = "captured"
  BY <1>0, StripeGrows DEF StripeKeeps
<1>2. \A e \in events : e.type \in {"succeeded", "refunded"} =>
          stripe'[e.intent].state = "captured"
  BY <1>0, <1>1 DEF EventsAreReal, Event
<1>3. CASE UNCHANGED events
  BY <1>2, <1>3 DEF EventsAreReal
<1>4. ASSUME NEW i \in Intents, NEW type, NEW n, Emit(type, i, n),
             type \in {"succeeded", "refunded"} => stripe'[i].state = "captured"
      PROVE  EventsAreReal'
  BY <1>2, <1>4 DEF EventsAreReal, Emit
<1>5. ASSUME NEW i \in Intents, Pay(i) PROVE EventsAreReal'
  BY <1>0, <1>4, <1>5 DEF Pay, TypeOK, StripeIntent
<1>6. ASSUME NEW i \in Intents, Decline(i) PROVE EventsAreReal'
  BY <1>4, <1>6 DEF Decline
<1>7. ASSUME NEW i \in Intents, NEW n, StripeRefund(i, n) PROVE EventsAreReal'
  BY <1>1, <1>4, <1>7 DEF StripeRefund
<1>8. ASSUME NEW r \in Requests, RefundAtStripe(r) PROVE EventsAreReal'
  <2>1. request[r].seen.intent \in Intents
    BY <1>0, <1>8 DEF RefundAtStripe, TypeOK, StaffRequest, BookingRow
  <2> QED
    BY <1>7, <1>8, <2>1 DEF RefundAtStripe
<1> QED
  BY <1>3, <1>5, <1>6, <1>7, <1>8, EventsFrame DEF EventsChange, DashboardRefund

\* An event in hand or processed keeps what it says of its intent.
LEMMA EventsKeepKind ==
    ASSUME IndInv, [Next]_vars, NEW e \in events, e.type \in {"succeeded", "refunded"}
    PROVE  /\ e.intent \in Intents
           /\ stripe'[e.intent].kind = stripe[e.intent].kind
           /\ stripe'[e.intent].booking = stripe[e.intent].booking
<1>1. TypeOK /\ e.intent \in Intents /\ stripe[e.intent].state = "captured"
  BY DEF IndInv, TypeOK, EventsAreReal, Event
<1> QED
  BY <1>1, StripeGrows DEF StripeKeeps

LEMMA ProcessedStep == IndInv /\ [Next]_vars => ProcessedMeansApplied'
<1> SUFFICES ASSUME IndInv, [Next]_vars, NEW e \in processed', IsDeposit(e)'
             PROVE  Applied(e)'
  BY DEF ProcessedMeansApplied, IsDeposit, Applied
<1>0. TypeOK /\ InHand /\ processed \subseteq events /\ events \subseteq Event
  BY DEF IndInv, TypeOK
<1>1. CASE e \in processed
  <2>1. IsDeposit(e)
    BY <1>0, <1>1, EventsKeepKind DEF IsDeposit
  <2>2. Applied(e)
    BY <1>1, <2>1 DEF IndInv, ProcessedMeansApplied, IsDeposit, Applied
  <2> QED
    BY <1>0, <1>1, <2>2, AppliedStays
<1>2. CASE e \notin processed
  <2>1. PICK w \in Workers : worker[w].pc = "mark" /\ e = worker[w].event
    <3>1. UNCHANGED processed \/ \E w \in Workers : MarkProcessed(w)
      BY ProcessedFrame DEF ProcessedChanges
    <3> QED
      BY <1>2, <3>1 DEF MarkProcessed, WorkerAt
  <2>2. e \in events
    BY <1>0, <2>1 DEF InHand
  <2>3. IsDeposit(e)
    BY <2>2, EventsKeepKind DEF IsDeposit
  <2>4. Applied(e)
    BY <2>1, <2>3 DEF IndInv, DeliveriesAreReal
  <2> QED
    BY <1>0, <2>2, <2>4, AppliedStays
<1> QED
  BY <1>1, <1>2

LEMMA DeliveriesStep == IndInv /\ [Next]_vars => DeliveriesAreReal'
<1> SUFFICES ASSUME IndInv, [Next]_vars, NEW w \in Workers,
                    NEW e, NEW b, NEW k,
                    e = worker'[w].event, b = worker'[w].booking, k = worker'[w].pick
             PROVE  /\ worker'[w].pc = "refund" =>
                         /\ e.type = "refunded" /\ stripe'[e.intent].booking = b
                         /\ k # 0 => RefundRow(k, b)'
                    /\ worker'[w].pc = "mark" /\ IsDeposit(e)' => Applied(e)'
  BY DEF DeliveriesAreReal, IsDeposit, Applied, RefundRow
<1> DEFINE Goal == /\ worker'[w].pc = "refund" =>
                        /\ e.type = "refunded" /\ stripe'[e.intent].booking = b
                        /\ k # 0 => RefundRow(k, b)'
                   /\ worker'[w].pc = "mark" /\ IsDeposit(e)' => Applied(e)'
<1>0. TypeOK /\ InHand /\ events \subseteq Event /\ worker[w] \in Delivery
  BY DEF IndInv, TypeOK
\* A delivery that does not move.
<1>1. CASE worker'[w] = worker[w]
  <2>1. CASE worker[w].pc = "refund"
    <3>1. e \in events /\ e.type = "refunded" /\ stripe[e.intent].booking = b
          /\ (k # 0 => RefundRow(k, b)) /\ k \in Nat
      BY <1>0, <1>1, <2>1 DEF InHand, IndInv, DeliveriesAreReal, Delivery
    <3>2. stripe'[e.intent].booking = b
      BY <3>1, EventsKeepKind
    <3>3. k # 0 => RefundRow(k, b)'
      BY <3>1, RefundRowStays
    <3> QED
      BY <1>1, <2>1, <3>1, <3>2, <3>3
  <2>2. CASE worker[w].pc = "mark"
    <3>1. e \in events /\ e \in Event /\ (IsDeposit(e) => Applied(e))
      BY <1>0, <1>1, <2>2 DEF InHand, IndInv, DeliveriesAreReal
    <3>2. IsDeposit(e)' => IsDeposit(e)
      BY <3>1, EventsKeepKind DEF IsDeposit
    <3>3. IsDeposit(e)' => Applied(e)'
      BY <3>1, <3>2, AppliedStays
    <3> QED
      BY <1>1, <2>2, <3>3
  <2> QED
    BY <1>1, <2>1, <2>2
\* A delivery that moves neither to the refund's commit nor to the mark.
<1>2. CASE worker'[w].pc \notin {"refund", "mark"}
  BY <1>2
<1>3. CASE NoPaymentFound(w)
  <2>1. /\ worker'[w].pc = "mark" /\ worker[w].event = e
        /\ UNCHANGED <<payments, stripe>> /\ e \in events
    BY <1>0, <1>3 DEF NoPaymentFound, GoTo, WorkerAt, Outside, InHand, TypeOK, Delivery
  <2>2. ~IsDeposit(e)
    <3> SUFFICES ASSUME IsDeposit(e) PROVE FALSE
      OBVIOUS
    <3>1. stripe[e.intent].kind = "deposit" /\ stripe[e.intent].state = "captured"
          /\ e.intent \in Intents /\ e.type = "succeeded"
      BY <1>0, <2>1 DEF IsDeposit, IndInv, EventsAreReal, Event
    <3>2. \E p \in payments : p.intent = e.intent
      BY <3>1 DEF IndInv, PayableDepositIsOnLedger, OnLedger
    <3> QED
      BY <1>3, <2>1, <3>1, <3>2 DEF NoPaymentFound, OfIntent
  <2>3. ~IsDeposit(e)'
    BY <2>1, <2>2 DEF IsDeposit
  <2> QED
    BY <2>1, <2>3
<1>4. CASE HandleSucceeded(w)
  <2>1. worker'[w].pc = "mark" /\ worker[w].event = e
    BY <1>0, <1>4 DEF HandleSucceeded, Handling, GoTo, WorkerAt, TypeOK, Delivery
  <2> DEFINE upd(p) == [p EXCEPT !.status = "succeeded", !.charge = e.intent, !.event = e]
  <2>2. PICK p \in payments : p.intent = e.intent /\ UpdatePayment(p, upd(p))
    BY <1>4, <2>1 DEF HandleSucceeded, IsLatest, OfIntent
  <2>3. upd(p).intent = e.intent /\ upd(p).charge = e.intent
    BY <1>0, <2>2 DEF TypeOK, Payment
  <2>4. upd(p) \in payments'
    BY <2>2 DEF UpdatePayment
  <2> HIDE DEF upd
  <2>5. Applied(e)'
    BY <2>3, <2>4 DEF Applied
  <2> QED
    BY <2>1, <2>5
<1>5. CASE HandleFailed(w)
  <2>1. worker'[w].pc = "mark" /\ e.type = "payment_failed"
    BY <1>0, <1>5 DEF HandleFailed, Handling, GoTo, WorkerAt, TypeOK, Delivery
  <2> QED
    BY <2>1 DEF IsDeposit
<1>6. CASE HandleRefundRead(w)
  <2>1. /\ worker[w].event.type = "refunded" /\ worker[w].event \in events
        /\ worker[w].event.intent \in Intents /\ UNCHANGED <<payments, nextPk, stripe>>
    BY <1>0, <1>6 DEF HandleRefundRead, Handling, WorkerAt, InHand, Event, Outside
  <2>2. PICK p \in payments, n \in {q.pk : q \in payments} \cup {0} :
          /\ p.charge = worker[w].event.intent
          /\ \/ n = 0
             \/ \E q \in payments : q.pk = n /\ q.booking = p.booking /\ q.kind = "refund"
          /\ worker' = [worker EXCEPT ![w] =
               [@ EXCEPT !.pc = "refund", !.pick = n, !.booking = p.booking,
                         !.deposit = booking[p.booking].deposit]]
    BY <1>6 DEF HandleRefundRead, IsLatest, OfCharge, PendingRefunds
  <2>3. worker'[w].pc = "refund" /\ e = worker[w].event /\ b = p.booking /\ k = n
    BY <1>0, <2>2 DEF TypeOK, Delivery
  <2>4. stripe[e.intent].booking = b
    BY <2>1, <2>2, <2>3, DomainAssumption DEF IndInv, RowsAreBacked, RowBacked
  <2>5. k # 0 => RefundRow(k, b)
    BY <2>2, <2>3 DEF RefundRow, IndInv, RowsAreDistinct
  <2>6. k # 0 => RefundRow(k, b)'
    BY <2>1, <2>5 DEF RefundRow
  <2> QED
    BY <2>1, <2>3, <2>4, <2>6
<1>7. CASE HandleRefundCommit(w)
  <2>1. worker[w].pc = "refund"
    BY <1>7 DEF HandleRefundCommit, WorkerAt
  <2>2. worker'[w].pc = "mark" /\ e = worker[w].event
    BY <1>0, <1>7 DEF HandleRefundCommit, TypeOK, IdleWorker
  <2>3. e.type = "refunded"
    BY <2>1, <2>2 DEF IndInv, DeliveriesAreReal
  <2> QED
    BY <2>2, <2>3 DEF IsDeposit
<1>8. ASSUME NEW v \in Workers, Webhook(v)
      PROVE  \/ worker'[w] = worker[w]
             \/ worker'[w].pc \notin {"refund", "mark"}
             \/ NoPaymentFound(w) \/ HandleSucceeded(w) \/ HandleFailed(w)
             \/ HandleRefundRead(w) \/ HandleRefundCommit(w)
  <2>1. CASE Handle(v)
    BY <1>0, <2>1 DEF Handle, NoPaymentFound, HandleSucceeded, HandleFailed,
                      HandleRefundRead, HandleRefundCommit, GoTo, TypeOK
  <2>2. CASE \E x \in events : Receive(v, x)
    <3>1. PICK x \in events, pc \in {"handle", "claim"} :
            \/ UNCHANGED worker
            \/ worker' = [worker EXCEPT ![v] = [@ EXCEPT !.event = x, !.pc = pc]]
      BY <2>2 DEF Receive
    <3> QED
      BY <1>0, <3>1 DEF TypeOK, Delivery
  <2>3. CASE Claim(v)
    BY <1>0, <2>3 DEF Claim, GoTo, IdleWorker, TypeOK, Delivery
  <2>4. CASE HandlerRaises(v) \/ MarkProcessed(v) \/ CrashWorker(v)
    BY <1>0, <2>4 DEF HandlerRaises, MarkProcessed, CrashWorker, Answer, IdleWorker, TypeOK,
                      Delivery
  <2> QED
    BY <1>8, <2>1, <2>2, <2>3, <2>4 DEF Webhook
<1> HIDE DEF Goal
<1> QED
  BY <1>1, <1>2, <1>3, <1>4, <1>5, <1>6, <1>7, <1>8, WorkerFrame DEF WorkerChanges

---------------------------------------------------------------------------
LEMMA RequestsStep == IndInv /\ [Next]_vars => RequestsAreBacked'
<1> SUFFICES ASSUME IndInv, [Next]_vars, NEW r \in Requests,
                    NEW req, NEW to, req = request[r], to = request'[r]
             PROVE  /\ to.pc \notin {"idle", "done"} =>
                         (to.seen.payment_status \in EverPaid => Captured(to.booking)')
                    /\ to.pc \in {"refund", "provisioned", "refused", "papered"} =>
                         Captured(to.booking)'
                    /\ to.pc \in {"provisioned", "refused", "papered"} =>
                         RefundRow(to.pk, to.booking)'
                    /\ to.pc \in {"session", "link"} =>
                         Opened(to.intent, to.booking, "balance", to.amount)'
  BY DEF RequestsAreBacked, Captured, RefundRow, Opened
<1> DEFINE Goal == /\ to.pc \notin {"idle", "done"} =>
                        (to.seen.payment_status \in EverPaid => Captured(to.booking)')
                   /\ to.pc \in {"refund", "provisioned", "refused", "papered"} =>
                        Captured(to.booking)'
                   /\ to.pc \in {"provisioned", "refused", "papered"} =>
                        RefundRow(to.pk, to.booking)'
                   /\ to.pc \in {"session", "link"} =>
                        Opened(to.intent, to.booking, "balance", to.amount)'
<1>0. TypeOK /\ InHand /\ RequestsAreBacked /\ req \in StaffRequest /\ req.pk \in Nat
  BY DEF IndInv, TypeOK, StaffRequest
\* What the request carried is still true.
<1>1. /\ req.pc \notin {"idle", "done"} =>
           req.booking \in Bookings /\
           (req.seen.payment_status \in EverPaid => Captured(req.booking)')
      /\ req.pc \in {"refund", "provisioned", "refused", "papered"} => Captured(req.booking)'
      /\ req.pc \in {"provisioned", "refused", "papered"} => RefundRow(req.pk, req.booking)'
      /\ req.pc \in {"session", "link"} =>
           Opened(req.intent, req.booking, "balance", req.amount)'
  <2>1. req.pc \notin {"idle", "done"} => req.booking \in Bookings
    BY <1>0 DEF InHand
  <2>2. req.pc \notin {"idle", "done"} /\ req.seen.payment_status \in EverPaid =>
           Captured(req.booking)'
    BY <1>0, <2>1, CapturedStays DEF RequestsAreBacked
  <2>3. req.pc \in {"refund", "provisioned", "refused", "papered"} => Captured(req.booking)'
    BY <1>0, <2>1, CapturedStays DEF RequestsAreBacked
  <2>4. req.pc \in {"provisioned", "refused", "papered"} => RefundRow(req.pk, req.booking)'
    BY <1>0, RefundRowStays DEF RequestsAreBacked
  <2>5. req.pc \in {"session", "link"} =>
           Opened(req.intent, req.booking, "balance", req.amount)'
    BY <1>0, OpenedStays DEF RequestsAreBacked
  <2> QED
    BY <2>1, <2>2, <2>3, <2>4, <2>5
<1>2. CASE to = req
  BY <1>1, <1>2
<1>3. ASSUME Staff(r) PROVE Goal
  <2>1. CASE to.pc = "done"
    BY <2>1
  <2>2. CASE \E b \in Bookings : /\ to.pc \in {"cancel", "balance", "patch"}
                                  /\ to.booking = b /\ to.seen = booking[b]
    <3>1. PICK b \in Bookings : to.booking = b /\ to.seen = booking[b]
      BY <2>2
    <3>2. booking[b].payment_status \in EverPaid => Captured(b)'
      BY <1>0, CapturedStays DEF IndInv, PaidOnlyIfCaptured
    <3> QED
      BY <2>2, <3>1, <3>2
  <2>3. CASE req.pc = "cancel" /\ Moved(r, "refund") /\ req.seen.payment_status \in Paid
    BY <1>1, <2>3 DEF Moved, EverPaid
  <2>4. CASE /\ ProvisionRefund(r) /\ req.pc = "refund"
             /\ Moved(r, "provisioned") /\ to.pk = nextPk
    <3> DEFINE new == NewPayment(req.booking, "refund", -req.amount, NoIntent)
    <3>1. payments' = payments \cup {new} /\ nextPk' = nextPk + 1
      BY <2>4 DEF ProvisionRefund, AddPayment
    <3>2. new.pk = nextPk /\ new.kind = "refund" /\ new.booking = req.booking
      BY DEF NewPayment
    <3> HIDE DEF new
    <3>3. \A p \in payments : p.pk # nextPk
      <4>1. \A p \in payments : p.pk \in Nat /\ p.pk < nextPk
        BY <1>0 DEF IndInv, RowsAreDistinct, TypeOK, Payment
      <4> QED
        BY <1>0, <4>1 DEF TypeOK
    <3>4. nextPk < nextPk'
      BY <1>0, <3>1 DEF TypeOK
    <3>5. to.pk = nextPk /\ to.booking = req.booking /\ to.pc = "provisioned"
          /\ to.seen = req.seen
      BY <2>4 DEF Moved
    <3>6. RefundRow(to.pk, to.booking)'
      BY <3>1, <3>2, <3>3, <3>4, <3>5 DEF RefundRow
    <3> QED
      BY <1>1, <2>4, <3>5, <3>6
  <2>5. CASE /\ req.pc = "provisioned"
             /\ Moved(r, "refused") \/ Moved(r, "papered")
             /\ to.pk = req.pk
    <3>1. /\ to.booking = req.booking /\ to.seen = req.seen
          /\ to.pc = "refused" \/ to.pc = "papered"
      BY <2>5 DEF Moved
    <3>2. RefundRow(to.pk, to.booking)'
      BY <1>1, <2>5, <3>1
    <3> QED
      BY <1>1, <2>5, <3>1, <3>2
  <2>6. CASE OpenBalanceSession(r) /\ req.pc = "balance" /\ Moved(r, "session")
    <3>1. PICK i \in Intents :
            /\ stripe' = [stripe EXCEPT ![i] =
                 [booking |-> req.booking, kind |-> "balance",
                  amount |-> Total - req.seen.deposit,
                  state |-> "open", payable |-> FALSE, refunded |-> 0]]
            /\ request' = [request EXCEPT ![r] =
                 [@ EXCEPT !.pc = "session", !.intent = i,
                           !.amount = Total - req.seen.deposit]]
      BY <2>6 DEF OpenBalanceSession
    <3>2. to.intent = i /\ to.amount = Total - req.seen.deposit
      BY <1>0, <3>1 DEF TypeOK, StaffRequest
    <3>3. Opened(i, req.booking, "balance", Total - req.seen.deposit)'
      BY <1>0, <3>1 DEF TypeOK, Opened
    <3> QED
      BY <1>1, <2>6, <3>2, <3>3 DEF Moved
  <2>7. CASE /\ req.pc = "session" /\ Moved(r, "link")
             /\ to.intent = req.intent /\ to.amount = req.amount
    BY <1>1, <2>7 DEF Moved
  <2> HIDE DEF Goal
  <2> QED
    BY <1>0, <1>3, <2>1, <2>2, <2>3, <2>4, <2>5, <2>6, <2>7, StaffMoves
<1>4. ASSUME NEW q \in Requests, Staff(q) PROVE q = r \/ to = req
  BY <1>0, <1>4, StaffMoves
<1> HIDE DEF Goal
<1> QED
  BY <1>2, <1>3, <1>4, RequestFrame DEF RequestChanges, Goal

LEMMA CreationsStep == IndInv /\ [Next]_vars => CreationsAreBacked'
<1> SUFFICES ASSUME IndInv, [Next]_vars, NEW b \in Bookings,
                    NEW c, NEW to, c = creating[b], to = creating'[b]
             PROVE  /\ to.pc \in {"opened", "linked", "recorded"} =>
                         Opened(to.intent, b, "deposit", to.deposit)'
                    /\ to.pc = "recorded" => OnLedger(to.intent, b)'
  BY DEF CreationsAreBacked, Opened, OnLedger
<1>0. TypeOK /\ CreationsAreBacked /\ creating \in [Bookings -> Creation]
  BY DEF IndInv, TypeOK
<1>1. /\ c.pc \in {"opened", "linked", "recorded"} => Opened(c.intent, b, "deposit", c.deposit)'
      /\ c.pc = "recorded" => OnLedger(c.intent, b)'
  BY <1>0, OpenedStays, OnLedgerStays DEF CreationsAreBacked
<1>2. CASE to = c
  BY <1>1, <1>2
<1>3. CASE to.pc \notin {"opened", "linked", "recorded"}
  BY <1>3
<1>4. CASE OpenDepositIntent(b)
  <2>1. PICK i \in Intents :
          /\ stripe' = [stripe EXCEPT ![i] =
               [UnusedIntent EXCEPT !.booking = b, !.state = "open",
                                    !.amount = creating[b].deposit]]
          /\ creating' = [creating EXCEPT ![b] = [@ EXCEPT !.pc = "opened", !.intent = i]]
    BY <1>4 DEF OpenDepositIntent
  <2>2. to.intent = i /\ to.deposit = c.deposit /\ to.pc = "opened"
    BY <1>0, <2>1 DEF Creation
  <2>3. Opened(i, b, "deposit", c.deposit)'
    BY <1>0, <2>1 DEF TypeOK, Opened, UnusedIntent
  <2> QED
    BY <2>2, <2>3
<1>5. CASE LinkIntent(b)
  <2>1. c.pc = "opened" /\ to.pc = "linked" /\ to.intent = c.intent /\ to.deposit = c.deposit
    BY <1>0, <1>5 DEF LinkIntent, CreateStep, Creation
  <2> QED
    BY <1>1, <2>1
<1>6. CASE RecordDeposit(b)
  <2>1. c.pc = "linked" /\ to.pc = "recorded" /\ to.intent = c.intent /\ to.deposit = c.deposit
    BY <1>0, <1>6 DEF RecordDeposit, CreateStep, Creation
  <2>2. NewPayment(b, "deposit", c.deposit, c.intent) \in payments'
    BY <1>6 DEF RecordDeposit, AddPayment
  <2>3. OnLedger(c.intent, b)'
    BY <2>2, NewPaymentFields DEF OnLedger
  <2> QED
    BY <1>1, <2>1, <2>3
<1>7. ASSUME NEW d \in Bookings, Create(d)
      PROVE  \/ to = c
             \/ to.pc \notin {"opened", "linked", "recorded"}
             \/ OpenDepositIntent(b) \/ LinkIntent(b) \/ RecordDeposit(b)
  <2>1. CASE d = b
    <3>1. CASE InsertBooking(b) \/ NoDepositDue(b) \/ StripeUnavailable(b)
      BY <1>0, <3>1 DEF CreateStep, InsertBooking, NoDepositDue, StripeUnavailable, Creation
    <3>2. CASE HoldForDeposit(b)
      BY <1>0, <3>2 DEF HoldForDeposit, Creation
    <3>3. CASE AnswerCreate(b) \/ CrashCreate(b)
      BY <1>0, <3>3 DEF CreateStep, AnswerCreate, CrashCreate, Creation
    <3> QED
      BY <1>7, <2>1, <3>1, <3>2, <3>3 DEF Create
  <2>2. CASE d # b
    BY <1>0, <1>7, <2>2
       DEF Create, CreateStep, InsertBooking, NoDepositDue, HoldForDeposit, OpenDepositIntent,
           StripeUnavailable, LinkIntent, RecordDeposit, AnswerCreate, CrashCreate
  <2> QED
    BY <2>1, <2>2
<1> QED
  BY <1>2, <1>3, <1>4, <1>5, <1>6, <1>7, CreatingFrame DEF CreatingChanges

LEMMA PayableStep == IndInv /\ [Next]_vars => PayableDepositIsOnLedger'
<1> DEFINE Due(x) == x.kind = "deposit" /\ (x.payable \/ x.state = "captured")
<1> SUFFICES ASSUME IndInv, [Next]_vars, NEW i \in Intents,
                    NEW from, NEW to, from = stripe[i], to = stripe'[i], Due(to)
             PROVE  OnLedger(i, to.booking)'
  BY DEF PayableDepositIsOnLedger, OnLedger
<1>0. TypeOK /\ stripe \in [Intents -> StripeIntent] /\ from \in StripeIntent
  BY DEF IndInv, TypeOK
<1>1. ASSUME Due(from), to.booking = from.booking PROVE OnLedger(i, to.booking)'
  <2>1. OnLedger(i, from.booking)
    BY <1>1 DEF IndInv, PayableDepositIsOnLedger
  <2> QED
    BY <1>1, <2>1, OnLedgerStays
<1>2. CASE to = from
  BY <1>1, <1>2
<1>3. ASSUME NEW b \in Bookings, AnswerCreate(b) PROVE OnLedger(i, to.booking)'
  <2>1. CASE i = creating[b].intent
    <3>1. Opened(i, b, "deposit", creating[b].deposit) /\ OnLedger(i, b)
      BY <1>3, <2>1 DEF IndInv, CreationsAreBacked, AnswerCreate, CreateStep
    <3>2. to.booking = b
      BY <1>0, <1>3, <3>1 DEF AnswerCreate, Opened, StripeIntent
    <3> QED
      BY <3>1, <3>2, OnLedgerStays
  <2>2. CASE i # creating[b].intent
    BY <1>0, <1>2, <1>3, <2>2 DEF AnswerCreate
  <2> QED
    BY <2>1, <2>2
<1>4. ASSUME NEW b \in Bookings, OpenDepositIntent(b) PROVE OnLedger(i, to.booking)'
  BY <1>0, <1>2, <1>4 DEF OpenDepositIntent, UnusedIntent
<1>5. ASSUME NEW b \in Bookings, SweepCancelIntent(b) PROVE OnLedger(i, to.booking)'
  BY <1>0, <1>1, <1>2, <1>5 DEF SweepCancelIntent, StripeIntent
<1>6. ASSUME NEW j \in Intents, Pay(j) PROVE OnLedger(i, to.booking)'
  BY <1>0, <1>1, <1>2, <1>6 DEF Pay, StripeIntent
<1>7. ASSUME NEW j, NEW n, StripeRefund(j, n) PROVE OnLedger(i, to.booking)'
  BY <1>0, <1>1, <1>2, <1>7 DEF StripeRefund, StripeIntent
<1>8. ASSUME NEW r \in Requests, OpenBalanceSession(r) PROVE OnLedger(i, to.booking)'
  BY <1>0, <1>2, <1>8 DEF OpenBalanceSession
<1>9. ASSUME NEW r \in Requests, SendBalanceLink(r) PROVE OnLedger(i, to.booking)'
  <2>1. CASE i = request[r].intent
    <3>1. stripe[i].kind = "balance"
      BY <1>9, <2>1 DEF IndInv, RequestsAreBacked, SendBalanceLink, RequestAt, Opened
    <3>2. to.kind = "balance"
      BY <1>0, <1>9, <3>1 DEF SendBalanceLink, StripeIntent
    <3> QED
      BY <3>2
  <2>2. CASE i # request[r].intent
    BY <1>0, <1>2, <1>9, <2>2 DEF SendBalanceLink
  <2> QED
    BY <2>1, <2>2
<1> HIDE DEF Due
<1> QED
  BY <1>2, <1>3, <1>4, <1>5, <1>6, <1>7, <1>8, <1>9, StripeFrame
     DEF StripeChanges, DashboardRefund, RefundAtStripe

LEMMA PaidStep == IndInv /\ [Next]_vars => PaidOnlyIfCaptured'
<1> SUFFICES ASSUME IndInv, [Next]_vars, NEW b \in Bookings,
                    booking'[b].payment_status \in EverPaid
             PROVE  Captured(b)'
  BY DEF PaidOnlyIfCaptured, Captured
<1> SUFFICES Captured(b)
  BY CapturedStays DEF IndInv
<1>0. TypeOK /\ InHand /\ booking \in [Bookings -> BookingRow]
  BY DEF IndInv, TypeOK
<1>1. CASE booking'[b].payment_status = booking[b].payment_status
  BY <1>1 DEF IndInv, PaidOnlyIfCaptured
<1>2. ASSUME NEW d \in Bookings, InsertBooking(d) \/ HoldForDeposit(d) \/ SweepSave(d)
      PROVE  Captured(b)
  BY <1>0, <1>1, <1>2, ZenonT(40)
     DEF InsertBooking, HoldForDeposit, SweepSave, AbsentBooking, EverPaid, Paid, BookingRow
<1>3. ASSUME NEW d \in Bookings, LinkIntent(d) \/ PortalCancel(d) PROVE Captured(b)
  BY <1>0, <1>1, <1>3 DEF LinkIntent, PortalCancel, BookingRow
<1>4. ASSUME NEW w \in Workers, HandleSucceeded(w) PROVE Captured(b)
  <2> DEFINE e == worker[w].event
  <2>1. e \in events /\ e.type = "succeeded" /\ e.intent \in Intents /\ e.intent # NoIntent
    BY <1>0, <1>4, DomainAssumption
       DEF HandleSucceeded, Handling, WorkerAt, InHand, TypeOK, Event
  <2>2. PICK p \in payments :
          /\ p.intent = e.intent
          /\ booking' =
               IF p.kind = "deposit"
               THEN [booking EXCEPT ![p.booking] =
                       [@ EXCEPT !.payment_status = "deposit_paid", !.status = "confirmed"]]
               ELSE [booking EXCEPT ![p.booking].payment_status = "paid_in_full"]
    BY <1>4 DEF HandleSucceeded, IsLatest, OfIntent
  <2>3. stripe[e.intent].state = "captured" /\ stripe[e.intent].booking = p.booking
    BY <2>1, <2>2 DEF IndInv, EventsAreReal, RowsAreBacked, RowBacked, Opened
  <2>4. CASE p.booking = b
    BY <2>1, <2>3, <2>4 DEF Captured
  <2>5. CASE p.booking # b
    BY <1>0, <1>1, <2>2, <2>5
  <2> QED
    BY <2>4, <2>5
<1>5. ASSUME NEW w \in Workers, HandleRefundCommit(w) PROVE Captured(b)
  <2> DEFINE e == worker[w].event
  <2>1. /\ e \in events /\ e.type = "refunded" /\ e.intent \in Intents
        /\ stripe[e.intent].booking = worker[w].booking
    BY <1>0, <1>5
       DEF HandleRefundCommit, WorkerAt, InHand, TypeOK, Event, IndInv, DeliveriesAreReal
  <2>2. stripe[e.intent].state = "captured"
    BY <2>1 DEF IndInv, EventsAreReal
  <2>3. CASE worker[w].booking = b
    BY <2>1, <2>2, <2>3 DEF Captured
  <2>4. CASE worker[w].booking # b
    BY <1>0, <1>1, <1>5, <2>4 DEF HandleRefundCommit
  <2> QED
    BY <2>3, <2>4
<1>6. ASSUME NEW r \in Requests, CancelSave(r) PROVE Captured(b)
  BY <1>0, <1>1, <1>6, ZenonT(40) DEF CancelSave, BookingRow
<1>7. ASSUME NEW r \in Requests, SaveRefunded(r) PROVE Captured(b)
  <2>1. Captured(request[r].booking)
    BY <1>7 DEF SaveRefunded, RequestAt, IndInv, RequestsAreBacked
  <2>2. CASE request[r].booking # b
    BY <1>0, <1>1, <1>7, <2>2 DEF SaveRefunded
  <2> QED
    BY <2>1, <2>2
<1>8. ASSUME NEW r \in Requests, PatchSave(r) PROVE Captured(b)
  <2>1. PICK s \in PatchStatuses \cup {request[r].seen.status} :
          booking' = [booking EXCEPT ![request[r].booking] =
                        [request[r].seen EXCEPT !.status = s]]
    BY <1>8 DEF PatchSave
  <2>2. CASE request[r].booking = b
    <3>1. request[r].seen \in BookingRow
      BY <1>0 DEF TypeOK, StaffRequest
    <3>2. booking'[b].payment_status = request[r].seen.payment_status
      BY <1>0, <2>1, <2>2, <3>1 DEF BookingRow
    <3> QED
      BY <1>8, <2>2, <3>2 DEF PatchSave, RequestAt, IndInv, RequestsAreBacked
  <2>3. CASE request[r].booking # b
    BY <1>0, <1>1, <2>1, <2>3
  <2> QED
    BY <2>2, <2>3
<1> QED
  BY <1>1, <1>2, <1>3, <1>4, <1>5, <1>6, <1>7, <1>8, BookingFrame DEF BookingChanges

---------------------------------------------------------------------------
\* IndInv holds at the start and every step keeps it.
LEMMA InductiveInvariant == Spec => []IndInv
<1>1. Init => IndInv
  <2> SUFFICES ASSUME Init PROVE IndInv
    OBVIOUS
  <2>1. TypeOK /\ InHand
    BY InitialTypes
  <2>2. RowsAreDistinct /\ EventsAreReal /\ RowsAreBacked /\ ProcessedMeansApplied
    BY DEF Init, RowsAreDistinct, EventsAreReal, RowsAreBacked, ProcessedMeansApplied
  <2>3. DeliveriesAreReal /\ RequestsAreBacked /\ CreationsAreBacked
    BY DEF Init, DeliveriesAreReal, RequestsAreBacked, CreationsAreBacked, IdleWorker,
           IdleRequest
  <2>4. PayableDepositIsOnLedger /\ PaidOnlyIfCaptured
    BY DEF Init, PayableDepositIsOnLedger, PaidOnlyIfCaptured, UnusedIntent, AbsentBooking,
           EverPaid, Paid
  <2> QED
    BY <2>1, <2>2, <2>3, <2>4 DEF IndInv
<1>2. IndInv /\ [Next]_vars => IndInv'
  BY TypeStep, InHandStep, RowsDistinctStep, EventsRealStep, DeliveriesStep, RowsBackedStep,
     RequestsStep, CreationsStep, PayableStep, PaidStep, ProcessedStep
     DEF IndInv
<1> QED
  BY <1>1, <1>2, PTL DEF Spec

\* No booking is shown as paid or refunded without a captured charge, however
\* webhooks, refunds, stale edits and the sweeper interleave or die.
THEOREM PaidOnlyIfCapturedHolds == Spec => []PaidOnlyIfCaptured
BY InductiveInvariant, PTL DEF IndInv

\* A settled deposit or balance row stands for a charge Stripe captured, for
\* the row's booking and amount (handle_payment_intent_succeeded).
THEOREM SettledRowsHold == Spec => []SettledRowsAreCaptured
<1>1. IndInv => SettledRowsAreCaptured
  BY DEF IndInv, RowsAreBacked, RowBacked, Opened, SettledRowsAreCaptured
<1> QED
  BY <1>1, InductiveInvariant, PTL

\* No refund row, not even a provisional one, for a booking whose money was
\* never captured (cancel_booking_with_refund, handle_charge_refunded).
THEOREM RefundsFollowCaptureHolds == Spec => []RefundsFollowCapture
<1>1. IndInv => RefundsFollowCapture
  BY DEF IndInv, RowsAreBacked, RowBacked, RefundsFollowCapture
<1> QED
  BY <1>1, InductiveInvariant, PTL

\* A captured deposit has its ledger row, wherever _maybe_open_deposit dies.
THEOREM CapturedDepositHasRow == Spec => []CapturedDepositIsOnLedger
<1>1. IndInv => CapturedDepositIsOnLedger
  BY DEF IndInv, PayableDepositIsOnLedger, OnLedger, CapturedDepositIsOnLedger
<1> QED
  BY <1>1, InductiveInvariant, PTL

\* A success marked processed has been applied: wherever a delivery dies, the
\* event it leaves unmarked is handled again (stripe_webhook).
THEOREM ProcessedMeansAppliedHolds == Spec => []ProcessedMeansApplied
<1>1. IndInv => ProcessedMeansApplied
  BY DEF IndInv
<1> QED
  BY <1>1, InductiveInvariant, PTL
=============================================================================
