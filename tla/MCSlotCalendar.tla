----------------------------- MODULE MCSlotCalendar -----------------------------
(* The slots of a resource on small instances. *)
EXTENDS SlotCalendar, Availability

\* The web calendar and the agent agree, whatever the business hours and
\* whatever has been booked in, across or outside them: a slot within hours
\* is offered by the one when it lies in a free stretch of the day, and by
\* the other when no booking that stands overlaps it; and a window that the agent
\* suggests for a taken slot, if it is within hours, is in a free stretch too.
ChannelsAgree ==
    LET standing == {b \in Bookings : Exists(b) /\ row[b].status # "cancelled"}
        Offered(hours) == Availability({row[b].slot : b \in standing}, hours)
        Within(s, t) == t.start <= s.start /\ s.end <= t.end
        Suggested(s) == LET near == Windows(s, 1, Horizon)
                        IN  Suggestions(near, {w \in Range(near) : ~FreeFor(w)})
        suggested == UNION {Suggested(s) : s \in {t \in Slot : ~FreeFor(t)}}
    IN  \A hours \in Slot : LET free == Offered(hours) IN
          /\ \A s \in Slot : Within(s, hours) =>
               (FreeFor(s) <=> \E f \in free : Within(s, f))
          /\ \A s \in suggested : Within(s, hours) => \E f \in free : Within(s, f)

\* The portal's refusal: "Reschedule cannot exceed 150% of original
\* duration."  Nobody but the portal has moved the booking.
DurationCapped == \A b \in Bookings :
    Exists(b) /\ b \notin byHand => \E n \in Lengths : 2 * Duration(row[b].slot) <= 3 * n
================================================================================
