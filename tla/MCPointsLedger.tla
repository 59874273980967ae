----------------------------- MODULE MCPointsLedger -----------------------------
(* The points ledger on small instances. *)
EXTENDS PointsLedger

BalanceAfter(c, i) == IF i = 0 THEN 0 ELSE ledger[c][i].balance_after

\* memberships_check compares the sum with the balance of the latest row, each
\* read in a query of its own.  Both are balances the customer really had, the
\* second no earlier than the first: on a consistent ledger the drift it
\* reports is what was committed between the two.
DriftIsInBetween ==
    audit.pc = "reported" =>
        \E i, j \in 0..Len(ledger[audit.customer]) :
            /\ i <= j
            /\ audit.total = BalanceAfter(audit.customer, i)
            /\ audit.balance = BalanceAfter(audit.customer, j)

\* What both readers of the ledger report is sound, although neither holds a
\* lock between its reads: the audit's drift is what was committed meanwhile,
\* and the next tier of a membership page lies above the tier and the points
\* the same page shows.
ReadersAreSound == DriftIsInBetween /\ NextTierIsAhead
================================================================================
