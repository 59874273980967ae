------------------------------ MODULE BookingVisits ------------------------------
(***************************************************************************)
(* The visits of one customer: bookings are made, checked in by a token, a *)
(* QR scan or the staff, undone, cancelled, edited, confirmed by a payment *)
(* event, deleted, and completed by the auto_complete_checked_in job.      *)
(* Every save of a booking runs the signals that keep total_visits and     *)
(* credit points the first time the booking is completed.                  *)
(*                                                                         *)
(* A request loads the booking, decides, and saves what it loaded; the     *)
(* save is a read of the prior status, the write of the row and then the   *)
(* signals, each a commit of its own.  Only the job holds a row lock.      *)
(***************************************************************************)
EXTENDS Integers, FiniteSets

CONSTANTS
    Bookings, NoBooking,  \* the bookings of the customer
    Workers,              \* web workers: each serves one request at a time
    Edits,                \* the statuses that staff PATCH a booking to
    MaxMishaps            \* bound: how many workers die in a request, and saves
                          \* find another status than they read, together

BookingStatus == {"pending", "confirmed", "cancelled", "pending_payment",
                  "checked_in", "completed"}

ASSUME VisitsAssumption ==
    /\ NoBooking \notin Bookings
    /\ IsFiniteSet(Bookings) /\ IsFiniteSet(Workers)
    /\ Edits \subseteq BookingStatus
    /\ MaxMishaps \in Nat

\* A row that is not in the table.
NoRow == {"unborn", "deleted"}

IsVisit(s) == s \in BookingStatus \ {"cancelled"}

\* What the signals make of a status: pre_save stashes it, None without a row.
Standing(s) == CASE s \in NoRow -> "none" [] IsVisit(s) -> "visit" [] OTHER -> "cancelled"

\* What a worker carries through a request: "status" is that of the booking
\* in its memory, "prior" what pre_save found in the table, "change" what
\* the save owes to total_visits.
Request == [pc : {"idle", "prior", "write", "remove", "count", "look", "award"},
            booking : Bookings \cup {NoBooking},
            status : BookingStatus \cup NoRow,
            whole : BOOLEAN,   \* it saves all columns
            prior : {"none", "visit", "cancelled"},
            change : {-1, 0, 1}]
Idle == [pc |-> "idle", booking |-> NoBooking, status |-> "unborn", whole |-> FALSE,
         prior |-> "none", change |-> 0]

VARIABLES
    status,       \* the status column of each booking
    total_visits, \* of the customer
    credits,      \* the PointTransaction rows that refer to each booking
    request,      \* of each worker
    job,          \* auto_complete_checked_in: the booking it is at
    crashes,
    \* History, which no action reads but for the bound:
    raced,        \* the bookings whose credit two saves looked for before either wrote it
    overtaken,    \* how many saves and deletions found another status than they had read
    floored       \* how many decrements found total_visits at zero

history == <<raced, overtaken, floored>>
vars == <<status, total_visits, credits, request, job, crashes, history>>

Init ==
    /\ status = [b \in Bookings |-> "unborn"]
    /\ total_visits = 0
    /\ credits = [b \in Bookings |-> 0]
    /\ request = [w \in Workers |-> Idle]
    /\ job = [pc |-> "idle", booking |-> NoBooking, credited |-> FALSE]
    /\ crashes = 0
    /\ raced = {}
    /\ overtaken = 0
    /\ floored = 0

Exists(b) == status[b] \in BookingStatus
RowIsLocked(b) == job.booking = b /\ job.pc \in {"look", "commit"}
Served(b) == \E w \in Workers : request[w].booking = b

At(w, pc) == request[w].pc = pc
JobAt(pc) == job.pc = pc
GoTo(w, pc) == request' = [request EXCEPT ![w].pc = pc]
Finish(w) == request' = [request EXCEPT ![w] = Idle]

---------------------------------------------------------------------------
(* Requests load a booking and decide.                                     *)

Begin(w, q) == At(w, "idle") /\ request' = [request EXCEPT ![w] = q]

Load(w, b, pc, newStatus, whole) ==
    /\ Exists(b)
    /\ Begin(w, [Idle EXCEPT !.pc = pc, !.booking = b, !.status = newStatus, !.whole = whole])
    /\ UNCHANGED <<status, total_visits, credits, job, crashes, history>>

\* A new booking has no prior status to read: it is inserted at once, to be
\* confirmed by a payment event or by the staff.
Create(w, b) ==
    /\ status[b] = "unborn"
    /\ Begin(w, [Idle EXCEPT !.pc = "count", !.booking = b, !.status = "pending", !.change = 1])
    /\ status' = [status EXCEPT ![b] = "pending"]
    /\ UNCHANGED <<total_visits, credits, job, crashes, history>>

\* The customer's link, and the QR scan; a second tap is answered like the first.
CheckIn(w, b) == status[b] = "confirmed" /\ Load(w, b, "prior", "checked_in", FALSE)

\* The staff's button; a second press is an error.
CheckInByStaff(w, b) == status[b] = "confirmed" /\ Load(w, b, "prior", "checked_in", FALSE)

UndoCheckIn(w, b) == status[b] = "checked_in" /\ Load(w, b, "prior", "confirmed", FALSE)

\* The portal and the staff do not ask whether it is cancelled already.
Cancel(w, b) == Load(w, b, "prior", "cancelled", FALSE)

\* The event of a paid deposit.
Confirm(w, b) == Load(w, b, "prior", "confirmed", FALSE)

\* PATCH: of the status, or of other columns; it writes every column back.
Edit(w, b) == \E s \in Edits \cup {status[b]} : Load(w, b, "prior", s, TRUE)

Delete(w, b) == Load(w, b, "remove", status[b], FALSE)

---------------------------------------------------------------------------
(* Booking.save() and Booking.delete(), with their signals.                *)

CapturePriorStatus(w) ==
    /\ At(w, "prior")
    /\ request' = [request EXCEPT ![w].pc = "write",
                                  ![w].prior = Standing(status[request[w].booking])]
    /\ UNCHANGED <<status, total_visits, credits, job, crashes, history>>

\* Fault: the prior status is not compared.
ChangeWithoutPrior(q, created) == CASE ~IsVisit(q.status) -> -1
                                    [] IsVisit(q.status) /\ created -> 1
                                    [] OTHER              -> 0

\* What _update_customer_counters makes of the save of request q.
Change(q, created) ==
    CASE created /\ IsVisit(q.status)                            -> 1
      [] ~created /\ q.prior = "visit" /\ ~IsVisit(q.status)     -> -1
      [] ~created /\ q.prior = "cancelled" /\ IsVisit(q.status)  -> 1
      [] OTHER                                                   -> 0

\* History, and its bound: the row was cancelled, confirmed or deleted since
\* the request read that it was of the given standing.
NotesOvertaking(b, standing) ==
    LET changed == Standing(status[b]) # standing IN
    /\ changed => crashes + overtaken < MaxMishaps
    /\ overtaken' = overtaken + (IF changed THEN 1 ELSE 0)

\* A save of named columns fails when the row is gone; a save of all
\* columns inserts the row again.
WriteRow(w) ==
    LET q == request[w]  b == q.booking IN
    /\ At(w, "write")
    /\ ~RowIsLocked(b)
    /\ \/ /\ Exists(b)
          /\ NotesOvertaking(b, q.prior)
          /\ status' = [status EXCEPT ![b] = q.status]
          /\ request' = [request EXCEPT ![w] =
               [Idle EXCEPT !.pc = "count", !.booking = b, !.status = q.status,
                            !.change = Change(q, FALSE)]]
       \/ /\ ~Exists(b) /\ q.whole
          /\ status' = [status EXCEPT ![b] = q.status]
          /\ request' = [request EXCEPT ![w] =
               [Idle EXCEPT !.pc = "count", !.booking = b, !.status = q.status,
                            !.change = Change(q, TRUE)]]
          /\ UNCHANGED overtaken
       \/ ~Exists(b) /\ ~q.whole /\ Finish(w) /\ UNCHANGED <<status, overtaken>>
    /\ UNCHANGED <<total_visits, credits, job, crashes, raced, floored>>

Decremented == IF total_visits > 0 THEN total_visits - 1 ELSE 0

\* History: a decrement that filter(total_visits__gt=0) refuses.
NotesFloor(decrements) ==
    floored' = floored + (IF decrements /\ total_visits = 0 THEN 1 ELSE 0)

\* One transaction: the row goes, and post_delete looks at the copy that
\* was loaded.
RemoveRow(w) ==
    LET q == request[w]  b == q.booking IN
    /\ At(w, "remove")
    /\ ~RowIsLocked(b)
    /\ status' = [status EXCEPT ![b] = "deleted"]
    /\ total_visits' = IF IsVisit(q.status) THEN Decremented ELSE total_visits
    /\ NotesOvertaking(b, Standing(q.status))
    /\ NotesFloor(IsVisit(q.status))
    /\ Finish(w)
    /\ UNCHANGED <<credits, job, crashes, raced>>

UpdateCounters(w) ==
    LET change == request[w].change IN
    /\ At(w, "count")
    /\ total_visits' = IF change = -1 THEN Decremented ELSE total_visits + change
    /\ NotesFloor(change = -1)
    /\ request' = [request EXCEPT ![w] =
         IF @.status = "completed" THEN [@ EXCEPT !.pc = "look", !.change = 0] ELSE Idle]
    /\ UNCHANGED <<status, credits, job, crashes, raced, overtaken>>

\* Fault: the credit is not looked for.
Unaware(b) == FALSE

\* The dedup check: a row with this source and reference.
Credited(b) == credits[b] > 0

\* A save of b that has found no credit and has not written its own yet.
Crediting(b) ==
    \/ \E w \in Workers : At(w, "award") /\ request[w].booking = b
    \/ JobAt("commit") /\ job.booking = b /\ ~job.credited

\* History: a second save of b finds no credit beside it.
NotesRace(b) == raced' = IF Crediting(b) /\ ~Credited(b) THEN raced \cup {b} ELSE raced

LookForCredit(w) ==
    LET b == request[w].booking IN
    /\ At(w, "look")
    /\ IF Credited(b) THEN Finish(w) ELSE GoTo(w, "award")
    /\ NotesRace(b)
    /\ UNCHANGED <<status, total_visits, credits, job, crashes, overtaken, floored>>

AwardPoints(w) ==
    /\ At(w, "award")
    /\ credits' = [credits EXCEPT ![request[w].booking] = @ + 1]
    /\ Finish(w)
    /\ UNCHANGED <<status, total_visits, job, crashes, history>>

\* The worker dies.  What its request has committed stays.
Crash(w) ==
    /\ ~At(w, "idle")
    /\ crashes + overtaken < MaxMishaps
    /\ crashes' = crashes + 1
    /\ Finish(w)
    /\ UNCHANGED <<status, total_visits, credits, job, history>>

Serve(w) ==
    \/ \E b \in Bookings :
         \/ Create(w, b) \/ CheckIn(w, b) \/ CheckInByStaff(w, b) \/ UndoCheckIn(w, b)
         \/ Cancel(w, b) \/ Confirm(w, b) \/ Edit(w, b) \/ Delete(w, b)
    \/ CapturePriorStatus(w) \/ WriteRow(w) \/ RemoveRow(w) \/ UpdateCounters(w)
    \/ LookForCredit(w) \/ AwardPoints(w)

---------------------------------------------------------------------------
(* auto_complete_checked_in, one booking of its list at a time.            *)

JobRests == job' = [pc |-> "idle", booking |-> NoBooking, credited |-> FALSE]

\* The list is read without a lock, of bookings that ended a while ago.
JobSelect(b) ==
    /\ JobAt("idle")
    /\ status[b] = "checked_in"
    /\ job' = [pc |-> "lock", booking |-> b, credited |-> FALSE]
    /\ UNCHANGED <<status, total_visits, credits, request, crashes, history>>

\* Fault: the status is not read again under the lock.
JobLockUnchecked ==
    /\ JobAt("lock")
    /\ job' = [job EXCEPT !.pc = "look"]
    /\ UNCHANGED <<status, total_visits, credits, request, crashes, history>>

\* Another status, or no row, and the job goes on to the next booking.
JobLock ==
    /\ JobAt("lock")
    /\ IF status[job.booking] = "checked_in" THEN job' = [job EXCEPT !.pc = "look"]
                                             ELSE JobRests
    /\ UNCHANGED <<status, total_visits, credits, request, crashes, history>>

\* The save inside the transaction: no change of total_visits is due, and
\* the credit is looked for before the commit.
JobLook ==
    /\ JobAt("look")
    /\ job' = [job EXCEPT !.pc = "commit", !.credited = Credited(job.booking)]
    /\ NotesRace(job.booking)
    /\ UNCHANGED <<status, total_visits, credits, request, crashes, overtaken, floored>>

\* Fault: queryset.update() instead of save(), so no signal runs.
JobCommitSilently ==
    /\ JobAt("commit")
    /\ status' = [status EXCEPT ![job.booking] = "completed"]
    /\ JobRests
    /\ UNCHANGED <<total_visits, credits, request, crashes, history>>

JobCommit ==
    /\ JobAt("commit")
    /\ status' = [status EXCEPT ![job.booking] = "completed"]
    /\ credits' = [credits EXCEPT ![job.booking] = @ + (IF job.credited THEN 0 ELSE 1)]
    /\ JobRests
    /\ UNCHANGED <<total_visits, request, crashes, history>>

\* The job dies and its transaction is rolled back.
JobCrash ==
    /\ ~JobAt("idle")
    /\ JobRests
    /\ UNCHANGED <<status, total_visits, credits, request, crashes, history>>

Job == (\E b \in Bookings : JobSelect(b)) \/ JobLock \/ JobLook \/ JobCommit \/ JobCrash

Next == (\E w \in Workers : Serve(w) \/ Crash(w)) \/ Job

Spec == Init /\ [][Next]_vars

---------------------------------------------------------------------------
\* Every variable keeps its type.
TypeOK ==
    /\ status \in [Bookings -> BookingStatus \cup NoRow]
    /\ total_visits \in Nat
    /\ credits \in [Bookings -> Nat]
    /\ request \in [Workers -> Request]
    /\ job \in [pc : {"idle", "lock", "look", "commit"},
                booking : Bookings \cup {NoBooking}, credited : BOOLEAN]
    /\ crashes \in Nat
    /\ raced \subseteq Bookings
    /\ overtaken \in Nat
    /\ floored \in Nat

Due(change) == Cardinality({w \in Workers : At(w, "count") /\ request[w].change = change})

\* total_visits and the changes that saves still owe it are the number of
\* bookings that are not cancelled, while any number of requests save any of
\* them.  It misses at most one visit for each worker that died and for each
\* save that another overtook between its read of the prior status and its
\* write; it counts one too many at most for each of these and for each
\* decrement that came before its increment and found nothing to take.
VisitsAreBookings ==
    LET visits == Cardinality({b \in Bookings : IsVisit(status[b])})
        drift  == total_visits + Due(1) - Due(-1) - visits
    IN  /\ -(crashes + overtaken) <= drift
        /\ drift <= crashes + overtaken + floored

\* A booking is credited once, through check-in, completion by the job or by
\* an edit, its undoing and a second completion, unless two of the saves
\* looked for the credit before either had written it.
CreditedOnce == \A b \in Bookings \ raced : credits[b] <= 1

\* A completed booking that nobody is serving has its credit, unless a
\* worker died over it.
CompletedIsCredited ==
    \A b \in Bookings :
        status[b] = "completed" /\ ~Served(b) /\ crashes = 0 => credits[b] > 0

\* The job completes a booking only while it is checked in: an undo or a
\* cancellation since the job's list was read is respected.
CompletesOnlyCheckedIn ==
    [][\A b \in Bookings :
         JobAt("commit") /\ job.booking = b /\ status'[b] # status[b] =>
             status[b] = "checked_in"]_vars
================================================================================
