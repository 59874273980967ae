------------------------------- MODULE QuietHours -------------------------------
(***************************************************************************)
(* When a message may be sent: the quiet window of a store and the time to *)
(* which a message due inside it is put off.  A day has DayLength ticks,   *)
(* and tick 0 is a midnight of the store.                                  *)
(***************************************************************************)
EXTENDS Naturals

CONSTANT DayLength

ASSUME DayAssumption == DayLength \in Nat \ {0}

Window == [start : 0..DayLength-1, end : 0..DayLength-1]

InQuietWindow(t, q) ==
    \/ q.start < q.end /\ q.start <= t /\ t < q.end
    \/ q.start > q.end /\ (q.start <= t \/ t < q.end)

\* Fault: the end is always that of the day the message is due.
EndOfDay(at, q) == at - (at % DayLength) + q.end

\* The next end of the window after a time.
NextEnd(at, q) ==
    LET candidate == at - (at % DayLength) + q.end
    IN  IF candidate > at THEN candidate ELSE candidate + DayLength

NextSendTime(at, q, urgent) ==
    IF ~urgent /\ InQuietWindow(at % DayLength, q) THEN NextEnd(at, q) ELSE at
================================================================================
