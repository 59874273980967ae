----------------------------- MODULE PointsAccount -----------------------------
(***************************************************************************)
(* What the points of a customer promise: a balance that earnings and      *)
(* staff adjustments change, and vouchers (redemptions) that are handed    *)
(* out one at a time, each paid from a balance that covers its cost.       *)
(***************************************************************************)
EXTENDS Integers

CONSTANTS Customers, Backfills, Earnings, Costs, Adjustments

VARIABLES balance, vouchers

vars == <<balance, vouchers>>

Init ==
    /\ balance \in [Customers -> {0} \cup Backfills]
    /\ vouchers = [c \in Customers |-> 0]

Change(c, delta) == balance' = [balance EXCEPT ![c] = @ + delta]

Earn(c, points) == Change(c, points) /\ UNCHANGED vouchers

\* Staff may correct a balance either way, below zero too.
Adjust(c, delta) == Change(c, delta) /\ UNCHANGED vouchers

Redeem(c, cost) ==
    /\ balance[c] >= cost
    /\ Change(c, -cost)
    /\ vouchers' = [vouchers EXCEPT ![c] = @ + 1]

Next == \E c \in Customers :
    \/ \E points \in Earnings : Earn(c, points)
    \/ \E delta \in Adjustments : Adjust(c, delta)
    \/ \E cost \in Costs : Redeem(c, cost)

Spec == Init /\ [][Next]_vars
================================================================================
