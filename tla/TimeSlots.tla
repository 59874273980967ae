------------------------------- MODULE TimeSlots -------------------------------
(* Half-open stretches of time [start, end) on one resource, in grid units. *)
EXTENDS Integers

CONSTANT Horizon   \* bound: the last instant of the calendar

ASSUME HorizonAssumption == Horizon \in Nat

Slot == {s \in [start : 0..Horizon, end : 0..Horizon] : s.start < s.end}
NoSlot == [start |-> 0, end |-> 0]

Duration(s) == s.end - s.start

Overlap(s, t) == s.start < t.end /\ s.end > t.start
================================================================================
