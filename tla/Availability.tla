------------------------------ MODULE Availability ------------------------------
(* _compute_availability: the slots a day still has, from its bookings. *)
EXTENDS TimeSlots, SequencesExt

\* One turn of the loop over the bookings: the gap before this one is free.
MovePast(day, booked, hours) ==
    LET start == Max({booked.start, hours.start})
        end   == Min({booked.end, hours.end})
    IN  [cursor |-> Max({day.cursor, end}),
         free   |-> day.free \cup
            (IF start > day.cursor THEN {[start |-> day.cursor, end |-> start]} ELSE {})]

\* Fault: without order_by("start_time") the latest may come first.
InAnyOrder(bookings) ==
    CHOOSE s \in Surjection(1..Cardinality(bookings), bookings) :
        \A i, j \in DOMAIN s : i < j => s[i].start >= s[j].start

InOrder(bookings) ==
    CHOOSE s \in Surjection(1..Cardinality(bookings), bookings) :
        \A i, j \in DOMAIN s : i < j => s[i].start <= s[j].start

Availability(bookings, hours) ==
    LET ordered == InOrder(bookings)
        swept[n \in 0..Cardinality(bookings)] ==
            IF n = 0 THEN [cursor |-> hours.start, free |-> {}]
            ELSE MovePast(swept[n - 1], ordered[n], hours)
        day == swept[Cardinality(bookings)]
    IN  day.free \cup
        (IF day.cursor < hours.end THEN {[start |-> day.cursor, end |-> hours.end]} ELSE {})

\* check_availability: the windows around a slot, 1 or 2 hours off or a day later; when
\* the slot is taken, the first two of them that are free are suggested.
Windows(slot, hour, day) ==
    LET offsets == <<-hour, hour, -2 * hour, 2 * hour, day>>
    IN  [k \in 1..5 |-> [start |-> slot.start + offsets[k], end |-> slot.end + offsets[k]]]

Suggestions(windows, taken) ==
    LET open == {k \in DOMAIN windows : windows[k] \notin taken}
    IN  {windows[k] : k \in {i \in open : Cardinality({j \in open : j < i}) < 2}}
================================================================================
