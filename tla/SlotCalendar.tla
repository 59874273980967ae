------------------------------ MODULE SlotCalendar ------------------------------
(***************************************************************************)
(* The bookings of one resource: made on the web, by the staff or as a     *)
(* hold by the agent; moved by the customer's portal, the agent and the    *)
(* staff; cancelled, deleted, confirmed by a paid Checkout session, and    *)
(* reaped by expire_holds.                                                 *)
(*                                                                         *)
(* A request loads the row, decides, and saves some of its columns.  No    *)
(* row is locked: only the exclusion constraint booking_no_overlap, which  *)
(* the database checks in every INSERT and UPDATE, keeps slots apart.      *)
(***************************************************************************)
EXTENDS TimeSlots

CONSTANTS
    Bookings, NoBooking,
    Requests,            \* each is served once
    Lengths,             \* the durations that new bookings have
    Edits                \* the statuses that staff PATCH a booking to

BookingStatus == {"pending", "confirmed", "cancelled", "pending_payment",
                  "checked_in", "completed"}

ASSUME CalendarAssumption ==
    /\ NoBooking \notin Bookings
    /\ Edits \subseteq BookingStatus

\* A row that is not in the table.
NoRow == {"unborn", "deleted"}
Missing(status) == [status |-> status, slot |-> NoSlot, quoted |-> NoSlot, old |-> FALSE]

\* "quoted" is the slot that total_amount was computed for; the agent stores
\* none.  "old" says that created_at is before the cutoff of expire_holds.
Row == [status : BookingStatus \cup NoRow, slot : Slot \cup {NoSlot},
        quoted : Slot \cup {NoSlot}, old : BOOLEAN]

\* "copy" is the booking in the memory of the request, with its changes.
Request == [pc : {"idle", "checkout", "save", "done"},
            verb : {"none", "hold", "modify", "reschedule", "patch", "cancel", "delete"},
            booking : Bookings \cup {NoBooking},
            copy : Row]

VARIABLES
    row,      \* the Booking rows
    request,
    session,  \* of each booking: its Checkout session (external)
    reaper,   \* expire_holds: the rows its query returned
    byHand    \* history: bookings that the staff or the agent set out to move

vars == <<row, request, session, reaper, byHand>>

NewSlot == {s \in Slot : Duration(s) \in Lengths}
Online(s) == [status |-> "pending", slot |-> s, quoted |-> s, old |-> FALSE]
Hold(s) == [status |-> "pending_payment", slot |-> s, quoted |-> NoSlot, old |-> FALSE]

\* Some bookings were made before.
Init ==
    /\ row \in [Bookings -> {Missing("unborn")} \cup {Online(s) : s \in NewSlot}]
    /\ \A b, c \in Bookings :
         b # c /\ row[b].status # "unborn" /\ row[c].status # "unborn" =>
           ~Overlap(row[b].slot, row[c].slot)
    /\ request = [r \in Requests |->
         [pc |-> "idle", verb |-> "none", booking |-> NoBooking, copy |-> Missing("unborn")]]
    /\ session = [b \in Bookings |-> "none"]
    /\ reaper = {}
    /\ byHand = {}

Exists(b) == row[b].status \in BookingStatus
RequestAt(r, pc) == request[r].pc = pc
Done(r) == request' = [request EXCEPT ![r] = [@ EXCEPT !.pc = "done"]]

\* Fault: the constraint leaves cancelled bookings out.
FitsStanding(b, s) == \A c \in Bookings \ {b} :
    Exists(c) /\ row[c].status # "cancelled" => ~Overlap(s, row[c].slot)

\* booking_no_overlap, whatever the status of the other rows.
Fits(b, s) == \A c \in Bookings \ {b} : Exists(c) => ~Overlap(s, row[c].slot)

\* _resources_free_in: what the agent offers.
FreeFor(s) == \A b \in Bookings :
    Exists(b) /\ row[b].status # "cancelled" => ~Overlap(s, row[b].slot)

---------------------------------------------------------------------------
(* New bookings.  An INSERT that the constraint refuses leaves nothing.    *)

Insert(b, new) ==
    /\ row[b].status = "unborn"
    /\ Fits(b, new.slot)
    /\ row' = [row EXCEPT ![b] = new]

BookOnline(r, b, s) ==
    /\ RequestAt(r, "idle")
    /\ Insert(b, Online(s))
    /\ Done(r)
    /\ UNCHANGED <<session, reaper, byHand>>

BookByAgent(r, b, s) ==
    /\ RequestAt(r, "idle")
    /\ Insert(b, Hold(s))
    /\ request' = [request EXCEPT ![r] =
         [@ EXCEPT !.pc = "checkout", !.verb = "hold", !.booking = b]]
    /\ UNCHANGED <<session, reaper, byHand>>

OpenCheckout(r) ==
    /\ RequestAt(r, "checkout")
    /\ session' = [session EXCEPT ![request[r].booking] = "open"]
    /\ Done(r)
    /\ UNCHANGED <<row, reaper, byHand>>

\* Stripe is not configured, or fails, or the process dies: the hold stays.
NoCheckout(r) ==
    /\ RequestAt(r, "checkout")
    /\ Done(r)
    /\ UNCHANGED <<row, session, reaper, byHand>>

---------------------------------------------------------------------------
(* Changes of a booking: loaded, decided, saved.  A request that is        *)
(* refused, or dies, before its save has changed nothing.                  *)

Load(r, b, verb, copy) ==
    /\ RequestAt(r, "idle")
    /\ Exists(b)
    /\ request' = [request EXCEPT ![r] =
         [@ EXCEPT !.pc = "save", !.verb = verb, !.booking = b, !.copy = copy]]
    /\ byHand' = IF verb = "modify" \/ (verb = "patch" /\ copy.slot # row[b].slot)
                 THEN byHand \cup {b} ELSE byHand
    /\ UNCHANGED <<row, session, reaper>>

Modify(r, b, s) ==
    /\ row[b].status # "cancelled"
    /\ Load(r, b, "modify", [row[b] EXCEPT !.slot = s])

\* The portal: at most 150% of the duration, and a new quote.
Reschedule(r, b, s) ==
    /\ 2 * Duration(s) <= 3 * Duration(row[b].slot)
    /\ Load(r, b, "reschedule", [row[b] EXCEPT !.slot = s, !.quoted = s])

Patch(r, b) == \E s \in Slot, status \in Edits \cup {row[b].status} :
    Load(r, b, "patch", [row[b] EXCEPT !.slot = s, !.status = status])

\* The portal and the staff cancel a cancelled booking again.
Cancel(r, b) == Load(r, b, "cancel", [row[b] EXCEPT !.status = "cancelled"])

\* The agent says that it was cancelled already.
CancelByAgent(r, b) == row[b].status # "cancelled" /\ Cancel(r, b)

Delete(r, b) == Load(r, b, "delete", row[b])

\* Fault: PATCH saves the columns it may change, and leaves the price.
SavedWithoutPrice(q, old) ==
    CASE q.verb = "modify"     -> [old EXCEPT !.slot = q.copy.slot]
      [] q.verb = "reschedule" -> [old EXCEPT !.slot = q.copy.slot, !.quoted = q.copy.quoted]
      [] q.verb = "cancel"     -> [old EXCEPT !.status = q.copy.status]
      [] q.verb = "patch"      -> [old EXCEPT !.slot = q.copy.slot, !.status = q.copy.status]

\* The row after the UPDATE of request q: update_fields name the columns;
\* PATCH names none and saves all of them.
Saved(q, old) ==
    CASE q.verb = "modify"     -> [old EXCEPT !.slot = q.copy.slot]
      [] q.verb = "reschedule" -> [old EXCEPT !.slot = q.copy.slot, !.quoted = q.copy.quoted]
      [] q.verb = "cancel"     -> [old EXCEPT !.status = q.copy.status]
      [] q.verb = "patch"      -> [q.copy EXCEPT !.old = old.old]

\* A save of named columns fails when the row is gone.
SaveColumns(r) ==
    LET q == request[r]
        b == q.booking
    IN  /\ RequestAt(r, "save") /\ q.verb \in {"modify", "reschedule", "cancel"}
        /\ IF Exists(b) /\ Fits(b, Saved(q, row[b]).slot)
           THEN row' = [row EXCEPT ![b] = Saved(q, row[b])]
           ELSE UNCHANGED row

\* A save of all columns inserts a row that is gone again, as a new one.
SaveWhole(r) ==
    LET q   == request[r]
        b   == q.booking
        new == IF Exists(b) THEN Saved(q, row[b]) ELSE [q.copy EXCEPT !.old = FALSE]
    IN  /\ RequestAt(r, "save") /\ q.verb = "patch"
        /\ IF Fits(b, new.slot) THEN row' = [row EXCEPT ![b] = new] ELSE UNCHANGED row

\* The constraint refuses the UPDATE, or it is made; the request is answered.
Save(r) ==
    /\ SaveColumns(r) \/ SaveWhole(r)
    /\ Done(r)
    /\ UNCHANGED <<session, reaper, byHand>>

DeleteRow(r) ==
    /\ RequestAt(r, "save") /\ request[r].verb = "delete"
    /\ row' = [row EXCEPT ![request[r].booking] = Missing("deleted")]
    /\ Done(r)
    /\ UNCHANGED <<session, reaper, byHand>>

Serve(r) ==
    \/ \E b \in Bookings :
         \/ \E s \in NewSlot : BookOnline(r, b, s) \/ BookByAgent(r, b, s)
         \/ \E s \in Slot : Modify(r, b, s) \/ Reschedule(r, b, s)
         \/ Patch(r, b) \/ Cancel(r, b) \/ CancelByAgent(r, b) \/ Delete(r, b)
    \/ OpenCheckout(r) \/ NoCheckout(r) \/ Save(r) \/ DeleteRow(r)

---------------------------------------------------------------------------
(* Payment of a hold, and its end.                                         *)

Pay(b) ==
    /\ session[b] = "open"
    /\ session' = [session EXCEPT ![b] = "paid"]
    /\ UNCHANGED <<row, request, reaper, byHand>>

\* One conditional UPDATE; an event that matches no row changes nothing.
ConfirmPaid(b) ==
    /\ session[b] = "paid"
    /\ row[b].status = "pending_payment"
    /\ row' = [row EXCEPT ![b].status = "confirmed"]
    /\ UNCHANGED <<request, session, reaper, byHand>>

\* STRIPE_HOLD_MINUTES pass.
HoldAges(b) ==
    /\ row[b].status = "pending_payment" /\ ~row[b].old
    /\ row' = [row EXCEPT ![b].old = TRUE]
    /\ UNCHANGED <<request, session, reaper, byHand>>

\* Fault: holds that never got a Checkout session are not looked for.
UnpaidSessions == {b \in Bookings :
    row[b].status = "pending_payment" /\ row[b].old /\ session[b] = "open"}

StaleHolds == {b \in Bookings : row[b].status = "pending_payment" /\ row[b].old}

\* QuerySet.delete() of a model with delete signals fetches the rows ...
ReaperSelect ==
    /\ reaper = {} /\ StaleHolds # {}
    /\ reaper' = StaleHolds
    /\ UNCHANGED <<row, request, session, byHand>>

\* ... and deletes them by primary key, in one transaction.
ReaperDelete ==
    /\ reaper # {}
    /\ row' = [b \in Bookings |-> IF b \in reaper THEN Missing("deleted") ELSE row[b]]
    /\ reaper' = {}
    /\ UNCHANGED <<request, session, byHand>>

Next ==
    \/ \E r \in Requests : Serve(r)
    \/ \E b \in Bookings : Pay(b) \/ ConfirmPaid(b) \/ HoldAges(b)
    \/ ReaperSelect \/ ReaperDelete

Spec == Init /\ [][Next]_vars

\* Time passes, and expire_holds is run by cron.
FairSpec == Spec /\ WF_vars(ReaperSelect) /\ WF_vars(ReaperDelete)
                 /\ \A b \in Bookings : WF_vars(HoldAges(b))

---------------------------------------------------------------------------
\* Every variable keeps its type; a row is in the table with a slot or not at all.
TypeOK ==
    /\ row \in [Bookings -> Row]
    /\ \A b \in Bookings : Exists(b) <=> row[b].slot \in Slot
    /\ request \in [Requests -> Request]
    /\ session \in [Bookings -> {"none", "open", "paid"}]
    /\ reaper \subseteq Bookings
    /\ byHand \subseteq Bookings

\* The total of a booking is that of its slot, through reschedules, stale
\* saves of all columns and re-insertions, unless the staff or the agent
\* moved it, who leave the price.
QuotedForItsSlot == \A b \in Bookings :
    Exists(b) /\ b \notin byHand => row[b].quoted \in {row[b].slot, NoSlot}

\* The calendar is implemented: each step takes one slot that is free at
\* that instant, or gives some up.
SlotsHeld == INSTANCE Calendar WITH held <- [b \in Bookings |-> row[b].slot]
ImplementsCalendar == SlotsHeld!Spec

\* A hold that is not paid ends, whether or not it got a Checkout session:
\* it does not block its slot for ever.
HoldsEnd == \A b \in Bookings :
    row[b].status = "pending_payment" ~> row[b].status # "pending_payment"
================================================================================
