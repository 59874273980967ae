-------------------------------- MODULE Calendar --------------------------------
(***************************************************************************)
(* What the calendar of a resource promises: a booking holds at most one   *)
(* slot, takes one only when no other booking holds any part of it, and    *)
(* gives it up when its row goes.                                          *)
(***************************************************************************)
EXTENDS TimeSlots

CONSTANT Bookings

VARIABLE held

Free(b, s) == \A c \in Bookings \ {b} : held[c] # NoSlot => ~Overlap(s, held[c])

Init ==
    /\ held \in [Bookings -> Slot \cup {NoSlot}]
    /\ \A b \in Bookings : held[b] # NoSlot => Free(b, held[b])

Take(b, s) == Free(b, s) /\ held' = [held EXCEPT ![b] = s]

Release(gone) == held' = [b \in Bookings |-> IF b \in gone THEN NoSlot ELSE held[b]]

Next ==
    \/ \E b \in Bookings, s \in Slot : Take(b, s)
    \/ \E gone \in SUBSET Bookings : Release(gone)

Spec == Init /\ [][Next]_held
================================================================================
