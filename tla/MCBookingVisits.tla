----------------------------- MODULE MCBookingVisits -----------------------------
(* The visits of a customer on small instances. *)
EXTENDS BookingVisits, TLC

Symmetry == Permutations(Workers) \cup Permutations(Bookings)

\* What the comment of _award_points_on_completion says of its save, "does
\* not double-credit, guarded by a dedup check on (source, reference)": no
\* booking is credited a second time.
NeverCreditedTwice == \A b \in Bookings : credits[b] <= 1
================================================================================
