--------------------------- MODULE MCBookingPayments ---------------------------
(***************************************************************************)
(* Model-checking instance of BookingPayments, and the statements of the   *)
(* repository's documents and comments that its behaviour contradicts.     *)
(***************************************************************************)
EXTENDS BookingPayments, FiniteSetsExt, TLC

Symmetry == Permutations(Workers) \cup Permutations(Requests) \cup Permutations(Intents)

\* A bound: a second staff request begins when the first is over, and only to cancel a
\* booking whose balance was paid though Stripe had not opened its deposit: the refund on
\* paper needs the two.
TakingTurns == \A r, q \in Requests :
    r # q /\ request[r].pc = "idle" /\ request'[r].pc # "idle" =>
        \/ request[q].pc = "idle"
        \/ LET b == request'[r].booking IN
           /\ request[q] = DoneRequest /\ request'[r].pc = "cancel"
           /\ creating[b].pc = "answered" /\ booking[b].intent = NoIntent
           /\ booking[b].payment_status \in Paid

IntentsOf(b) == {i \in Intents : stripe[i].booking = b}
CapturedTotal(b) ==
    MapThenSumSet(LAMBDA i : IF stripe[i].state = "captured" THEN stripe[i].amount ELSE 0,
                  IntentsOf(b))
RefundedTotal(b) == MapThenSumSet(LAMBDA i : stripe[i].refunded, IntentsOf(b))
LedgerRefunds(b) ==
    MapThenSumSet(LAMBDA p : -p.amount,
        {p \in payments : p.booking = b /\ p.kind = "refund" /\ p.status = "succeeded"})

\* The sweep cancels only bookings whose payment is still pending when it
\* writes (sweep_pending_payments: "Cancel bookings stuck in pending_payment").
SweepSparesPaid ==
    [][\A b \in Bookings : SweepSave(b) => booking[b].payment_status = "pending_payment"]_vars

\* Cancelling a booking never returns more than the matrix yields
\* (cancel_booking_with_refund: "a refund per the store's matrix").
RefundWithinMatrix ==
    \A i \in Intents :
        stripe[i].refunded > 0 =>
            \E due \in RefundsDue(stripe[i].amount) : stripe[i].refunded <= due

\* The ledger's refunds never add up to more than Stripe returned (Payment:
\* "refunds are negative so a running SUM aggregates correctly").
LedgerRefundsMatch == \A b \in Bookings : LedgerRefunds(b) <= RefundedTotal(b)

\* No booking is charged more than its total (charge-balance refuses one that
\* is "Already paid in full.").
NeverOvercharged == \A b \in Bookings : CapturedTotal(b) <= Total
=============================================================================
