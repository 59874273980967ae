--------------------------- MODULE BookingVisitsProofs ---------------------------
(***************************************************************************)
(* Proofs about the visits of a customer, for any bookings, workers and    *)
(* edits, and any number of requests at one booking.  The job relies on    *)
(* its lock: the booking it completes stays checked in until it commits.   *)
(* The credit of a booking that was not raced for relies on its looking:   *)
(* at most one save is between the look that found nothing and the write.  *)
(* total_visits is counted: each step moves it, the changes due to it and  *)
(* the visits by amounts that the history variables account for.           *)
(***************************************************************************)
EXTENDS BookingVisits, FiniteSetTheorems, TLAPS

\* A busy worker has a booking, and looks for a credit only when it saved
\* the booking as completed.
Hand(q) ==
    /\ q.pc = "idle" <=> q.booking = NoBooking
    /\ q.pc \in {"look", "award"} => q.status = "completed"
Hands == \A w \in Workers : Hand(request[w])

LockedIsCheckedIn ==
    /\ job.pc # "idle" => job.booking \in Bookings
    /\ job.pc \in {"look", "commit"} => status[job.booking] = "checked_in"

DeskInv == TypeOK /\ Hands /\ LockedIsCheckedIn

\* The worker, and the job, that found no credit of b and will write it.
Awards(w, b) == At(w, "award") /\ request[w].booking = b
JobAwards(b) == JobAt("commit") /\ job.booking = b /\ ~job.credited

\* One of them at most, and only while there is no credit.
OneCredits(b) ==
    /\ \A v, w \in Workers : Awards(v, b) /\ Awards(w, b) => v = w
    /\ \A w \in Workers : Awards(w, b) => ~JobAwards(b) /\ credits[b] = 0
    /\ JobAwards(b) => credits[b] = 0
    /\ credits[b] <= 1

CreditInv == DeskInv /\ \A b \in Bookings \ raced : OneCredits(b)

\* A request that has saved b as completed, and will see to its credit.
Credits(q, b) ==
    q.booking = b /\ q.status = "completed" /\ q.pc \in {"count", "look", "award"}

JobSaw == job.pc = "commit" /\ job.credited => credits[job.booking] > 0

CreditIsDue(b) == \E w \in Workers : Credits(request[w], b)
CompletedIsDue == \A b \in Bookings :
    crashes = 0 /\ status[b] = "completed" => credits[b] > 0 \/ CreditIsDue(b)

DueInv == DeskInv /\ JobSaw /\ CompletedIsDue

VisitInv == DeskInv /\ VisitsAreBookings

---------------------------------------------------------------------------
LEMMA InitialDesk == Init => DeskInv
<1> SUFFICES ASSUME Init PROVE DeskInv
  OBVIOUS
<1>1. Idle \in Request
  BY DEF Idle, Request, NoRow
<1>2. TypeOK
  BY <1>1 DEF Init, TypeOK, NoRow
<1>3. Hands /\ LockedIsCheckedIn
  BY DEF Init, Idle, Hands, Hand, LockedIsCheckedIn
<1> QED
  BY <1>2, <1>3 DEF DeskInv

---------------------------------------------------------------------------
\* The history keeps its type, and only grows.
HistoryMoves ==
    /\ raced' \subseteq Bookings /\ raced \subseteq raced'
    /\ overtaken' \in Nat /\ floored' \in Nat

LEMMA HistoryStays == ASSUME DeskInv, UNCHANGED history PROVE HistoryMoves
BY DEF DeskInv, TypeOK, history, HistoryMoves

\* A worker w goes on to q; rows the job has locked keep their status.
Moves(w, q) ==
    /\ q \in Request /\ Hand(q)
    /\ request' = [request EXCEPT ![w] = q]
    /\ UNCHANGED job
    /\ status' \in [Bookings -> BookingStatus \cup NoRow]
    /\ \A b \in Bookings : RowIsLocked(b) => status'[b] = status[b]
    /\ total_visits' \in Nat /\ credits' \in [Bookings -> Nat] /\ crashes' \in Nat
    /\ HistoryMoves

LEMMA MovesKeepDesk ==
    ASSUME DeskInv, NEW w \in Workers, NEW q, Moves(w, q)
    PROVE  DeskInv'
<1>1. TypeOK'
  BY DEF DeskInv, TypeOK, Moves, HistoryMoves
<1>2. Hands'
  BY DEF DeskInv, TypeOK, Moves, Hands
<1>3. LockedIsCheckedIn'
  BY DEF DeskInv, Moves, LockedIsCheckedIn, RowIsLocked
<1> QED
  BY <1>1, <1>2, <1>3 DEF DeskInv

---------------------------------------------------------------------------
LEMMA IdleFields ==
    /\ Idle \in Request /\ Hand(Idle) /\ Idle.booking = NoBooking /\ Idle.pc = "idle"
    /\ Idle.status = "unborn" /\ Idle.change = 0
BY DEF Idle, Request, Hand, NoRow

\* The request of a worker that has just loaded booking b.
Loaded(pc, b, s, whole) ==
    [Idle EXCEPT !.pc = pc, !.booking = b, !.status = s, !.whole = whole]

\* The request of a worker that has just written row b.
Saved(b, s, change) ==
    [Idle EXCEPT !.pc = "count", !.booking = b, !.status = s, !.change = change]

LEMMA LoadedFields ==
    ASSUME NEW pc \in {"prior", "remove"}, NEW b \in Bookings, NEW s \in BookingStatus,
           NEW whole \in BOOLEAN
    PROVE  /\ Loaded(pc, b, s, whole) \in Request /\ Hand(Loaded(pc, b, s, whole))
           /\ Loaded(pc, b, s, whole).pc = pc
           /\ Loaded(pc, b, s, whole).booking = b
<1>1. /\ Loaded(pc, b, s, whole) \in Request
      /\ Loaded(pc, b, s, whole).pc = pc
      /\ Loaded(pc, b, s, whole).booking = b
  BY DEF Loaded, Idle, Request, NoRow
<1>2. b # NoBooking
  BY VisitsAssumption
<1> QED
  BY <1>1, <1>2 DEF Hand

LEMMA SavedFields ==
    ASSUME NEW b \in Bookings, NEW s \in BookingStatus \cup NoRow, NEW change \in {-1, 0, 1}
    PROVE  /\ Saved(b, s, change) \in Request /\ Hand(Saved(b, s, change))
           /\ Saved(b, s, change).pc = "count"
           /\ Saved(b, s, change).booking = b
           /\ Saved(b, s, change).status = s
           /\ Saved(b, s, change).change = change
<1>1. /\ Saved(b, s, change) \in Request
      /\ Saved(b, s, change).pc = "count"
      /\ Saved(b, s, change).booking = b
      /\ Saved(b, s, change).status = s
      /\ Saved(b, s, change).change = change
  BY DEF Saved, Idle, Request, NoRow
<1>2. b # NoBooking
  BY VisitsAssumption
<1> QED
  BY <1>1, <1>2 DEF Hand

\* A worker that loads b, with status s in its memory.
LEMMA LoadMoves ==
    ASSUME DeskInv, NEW w \in Workers, NEW b \in Bookings, NEW pc \in {"prior", "remove"},
           NEW s \in BookingStatus, NEW whole \in BOOLEAN, Load(w, b, pc, s, whole)
    PROVE  Moves(w, Loaded(pc, b, s, whole))
<1>1. request' = [request EXCEPT ![w] = Loaded(pc, b, s, whole)]
  BY DEF Load, Begin, Loaded
<1>2. UNCHANGED <<status, total_visits, credits, job, crashes, history>>
  BY DEF Load
<1>3. Loaded(pc, b, s, whole) \in Request /\ Hand(Loaded(pc, b, s, whole))
  BY LoadedFields
<1> QED
  BY <1>1, <1>2, <1>3, HistoryStays DEF DeskInv, TypeOK, Moves

\* The requests that load a booking.
Requested(w, b) ==
    \/ CheckIn(w, b) \/ CheckInByStaff(w, b) \/ UndoCheckIn(w, b) \/ Cancel(w, b)
    \/ Confirm(w, b) \/ Edit(w, b) \/ Delete(w, b)

LEMMA RequestedIsLoad ==
    ASSUME DeskInv, NEW w \in Workers, NEW b \in Bookings, Requested(w, b)
    PROVE  \E pc \in {"prior", "remove"}, s \in BookingStatus, whole \in BOOLEAN :
               Load(w, b, pc, s, whole)
<1>1. ASSUME NEW pc, NEW s, NEW whole, Load(w, b, pc, s, whole)
      PROVE  status[b] \in BookingStatus
  BY <1>1 DEF Load, Exists
<1>2. CASE CheckIn(w, b) \/ CheckInByStaff(w, b)
  BY <1>2 DEF CheckIn, CheckInByStaff, BookingStatus
<1>3. CASE UndoCheckIn(w, b)
  BY <1>3 DEF UndoCheckIn, BookingStatus
<1>4. CASE Cancel(w, b)
  BY <1>4 DEF Cancel, BookingStatus
<1>5. CASE Confirm(w, b)
  BY <1>5 DEF Confirm, BookingStatus
<1>6. CASE Edit(w, b)
  <2>1. PICK s \in Edits \cup {status[b]} : Load(w, b, "prior", s, TRUE)
    BY <1>6 DEF Edit
  <2>2. s \in BookingStatus
    BY <1>1, <2>1, VisitsAssumption
  <2> QED
    BY <2>1, <2>2
<1>7. CASE Delete(w, b)
  <2>1. Load(w, b, "remove", status[b], FALSE)
    BY <1>7 DEF Delete
  <2>2. status[b] \in BookingStatus
    BY <1>1, <2>1
  <2> QED
    BY <2>1, <2>2
<1> QED
  BY <1>2, <1>3, <1>4, <1>5, <1>6, <1>7 DEF Requested

---------------------------------------------------------------------------
LEMMA CreateMoves ==
    ASSUME DeskInv, NEW w \in Workers, NEW b \in Bookings, Create(w, b)
    PROVE  Moves(w, Saved(b, "pending", 1))
<1>1. request' = [request EXCEPT ![w] = Saved(b, "pending", 1)]
  BY DEF Create, Begin, Saved
<1>2. /\ UNCHANGED <<total_visits, credits, job, crashes, history>>
      /\ status' = [status EXCEPT ![b] = "pending"]
      /\ status[b] = "unborn"
  BY DEF Create
<1>3. Saved(b, "pending", 1) \in Request /\ Hand(Saved(b, "pending", 1))
  BY SavedFields DEF BookingStatus
<1>4. status' \in [Bookings -> BookingStatus \cup NoRow]
  BY <1>2 DEF DeskInv, TypeOK, BookingStatus
<1>5. ASSUME NEW c \in Bookings, RowIsLocked(c) PROVE status'[c] = status[c]
  <2>1. status[c] = "checked_in"
    BY <1>5 DEF DeskInv, LockedIsCheckedIn, RowIsLocked
  <2> QED
    BY <1>2, <2>1 DEF DeskInv, TypeOK
<1> QED
  BY <1>1, <1>2, <1>3, <1>4, <1>5, HistoryStays DEF DeskInv, TypeOK, Moves

\* The row b of a busy worker is a booking.
LEMMA BusyHasBooking ==
    ASSUME DeskInv, NEW w \in Workers, ~At(w, "idle")
    PROVE  request[w] \in Request /\ request[w].booking \in Bookings
BY DEF DeskInv, TypeOK, Hands, Hand, At, Request

LEMMA CapturePriorMoves ==
    ASSUME DeskInv, NEW w \in Workers, CapturePriorStatus(w)
    PROVE  \E q : /\ Moves(w, q) /\ q.booking = request[w].booking /\ q.pc = "write"
                  /\ request[w].pc = "prior"
                  /\ UNCHANGED <<status, total_visits, credits, job, crashes, history>>
<1> DEFINE p == Standing(status[request[w].booking])
           q == [request[w] EXCEPT !.pc = "write", !.prior = p]
<1>1. request[w].pc = "prior" /\ ~At(w, "idle")
  BY DEF CapturePriorStatus, At
<1>2. request[w] \in Request /\ request[w].booking \in Bookings
  BY <1>1, BusyHasBooking
<1>3. p \in {"none", "visit", "cancelled"}
  BY DEF Standing
<1>4. request' = [request EXCEPT ![w] = q]
  BY DEF CapturePriorStatus, DeskInv, TypeOK
<1> HIDE DEF p
<1>5. /\ q \in Request /\ q.booking = request[w].booking /\ q.pc = "write"
      /\ q.booking # NoBooking
  BY <1>2, <1>3, VisitsAssumption DEF Request
<1>6. UNCHANGED <<status, total_visits, credits, job, crashes, history>>
  BY DEF CapturePriorStatus
<1> HIDE DEF q
<1>7. Hand(q)
  BY <1>5 DEF Hand
<1>8. Moves(w, q)
  BY <1>4, <1>5, <1>6, <1>7, HistoryStays DEF DeskInv, TypeOK, Moves
<1> QED
  BY <1>1, <1>5, <1>6, <1>8

\* A worker that ends its request and leaves the rows as they are.
LEMMA FinishMoves ==
    ASSUME DeskInv, NEW w \in Workers, Finish(w), crashes' \in Nat, total_visits' \in Nat,
           HistoryMoves, UNCHANGED <<status, credits, job>>
    PROVE  Moves(w, Idle)
BY IdleFields DEF DeskInv, TypeOK, Finish, Moves

LEMMA OvertakingCounts ==
    ASSUME DeskInv, NEW b, NEW standing, NotesOvertaking(b, standing)
    PROVE  /\ overtaken' \in Nat
           /\ Standing(status[b]) = standing => overtaken' = overtaken
           /\ Standing(status[b]) # standing => overtaken' = overtaken + 1
BY DEF NotesOvertaking, DeskInv, TypeOK

LEMMA ChangeRange == \A q, c : Change(q, c) \in {-1, 0, 1}
BY DEF Change

\* What WriteRow does to a row that is there, and to one it inserts again.
Writes(w, created) ==
    LET q == request[w] IN
    /\ status' = [status EXCEPT ![q.booking] = q.status]
    /\ request' = [request EXCEPT ![w] = Saved(q.booking, q.status, Change(q, created))]
    /\ Moves(w, Saved(q.booking, q.status, Change(q, created)))

LEMMA WriteMoves ==
    ASSUME DeskInv, NEW w \in Workers, WriteRow(w)
    PROVE  /\ request[w] \in Request /\ request[w].booking \in Bookings
           /\ request[w].pc = "write"
           /\ UNCHANGED <<total_visits, credits, job, crashes, raced, floored>>
           /\ \/ /\ Exists(request[w].booking) /\ Writes(w, FALSE)
                 /\ NotesOvertaking(request[w].booking, request[w].prior)
              \/ /\ ~Exists(request[w].booking) /\ Writes(w, TRUE)
                 /\ UNCHANGED overtaken
              \/ Finish(w) /\ Moves(w, Idle) /\ UNCHANGED <<status, overtaken>>
<1> DEFINE b == request[w].booking
           s == request[w].status
<1>1. /\ At(w, "write") /\ ~RowIsLocked(b) /\ request[w].pc = "write" /\ ~At(w, "idle")
      /\ UNCHANGED <<total_visits, credits, job, crashes, raced, floored>>
  BY DEF WriteRow, At
<1>2. request[w] \in Request /\ b \in Bookings
  BY <1>1, BusyHasBooking
<1>3. s \in BookingStatus \cup NoRow
  BY <1>2 DEF Request
<1>4. ASSUME NEW c \in BOOLEAN, status' = [status EXCEPT ![b] = s], overtaken' \in Nat,
             request' = [request EXCEPT ![w] = Saved(b, s, Change(request[w], c))]
      PROVE  Writes(w, c)
  <2> DEFINE q == Saved(b, s, Change(request[w], c))
  <2>1. q \in Request /\ Hand(q)
    BY <1>2, <1>3, ChangeRange, SavedFields
  <2>2. HistoryMoves
    BY <1>1, <1>4 DEF HistoryMoves, DeskInv, TypeOK
  <2>3. request' = [request EXCEPT ![w] = q]
    BY <1>4
  <2> HIDE DEF q
  <2>4. Moves(w, q)
    BY <1>1, <1>2, <1>3, <1>4, <2>1, <2>2, <2>3 DEF DeskInv, TypeOK, Moves
  <2> QED
    BY <1>4, <2>4 DEF Writes, q
<1>5. CASE Exists(b)
  <2>1. /\ NotesOvertaking(b, request[w].prior) /\ status' = [status EXCEPT ![b] = s]
        /\ request' = [request EXCEPT ![w] = Saved(b, s, Change(request[w], FALSE))]
    BY <1>5 DEF WriteRow, Saved
  <2>2. overtaken' \in Nat
    BY <2>1, OvertakingCounts
  <2> QED
    BY <1>1, <1>2, <1>4, <1>5, <2>1, <2>2
<1>6. CASE ~Exists(b) /\ request[w].whole
  <2>1. /\ UNCHANGED overtaken /\ status' = [status EXCEPT ![b] = s]
        /\ request' = [request EXCEPT ![w] = Saved(b, s, Change(request[w], TRUE))]
    BY <1>6 DEF WriteRow, Saved
  <2>2. overtaken' \in Nat
    BY <2>1 DEF DeskInv, TypeOK
  <2> QED
    BY <1>1, <1>2, <1>4, <1>6, <2>1, <2>2
<1>7. CASE ~Exists(b) /\ ~request[w].whole
  <2>1. Finish(w) /\ UNCHANGED <<status, overtaken>>
    BY <1>7 DEF WriteRow
  <2>2. Moves(w, Idle)
    BY <1>1, <2>1, HistoryStays, FinishMoves DEF DeskInv, TypeOK, history
  <2> QED
    BY <1>1, <1>2, <2>1, <2>2
<1> QED
  BY <1>5, <1>6, <1>7

LEMMA DecrementedType ==
    ASSUME total_visits \in Nat
    PROVE  /\ Decremented \in Nat
           /\ total_visits > 0 => Decremented = total_visits - 1
           /\ total_visits = 0 => Decremented = 0
BY DEF Decremented

LEMMA FloorCounts ==
    ASSUME DeskInv, NEW d \in BOOLEAN, NotesFloor(d)
    PROVE  /\ floored' \in Nat
           /\ d /\ total_visits = 0 => floored' = floored + 1
           /\ ~(d /\ total_visits = 0) => floored' = floored
BY DEF NotesFloor, DeskInv, TypeOK

LEMMA RemoveMoves ==
    ASSUME DeskInv, NEW w \in Workers, RemoveRow(w)
    PROVE  /\ Moves(w, Idle) /\ Finish(w) /\ UNCHANGED <<credits, job, crashes, raced>>
           /\ request[w].pc = "remove" /\ request[w].booking \in Bookings
           /\ request[w] \in Request
           /\ status' = [status EXCEPT ![request[w].booking] = "deleted"]
<1>1. /\ request[w].pc = "remove" /\ ~RowIsLocked(request[w].booking) /\ ~At(w, "idle")
      /\ status' = [status EXCEPT ![request[w].booking] = "deleted"]
      /\ Finish(w) /\ UNCHANGED <<credits, job, crashes, raced>>
  BY DEF RemoveRow, At
<1>2. request[w] \in Request /\ request[w].booking \in Bookings
  BY <1>1, BusyHasBooking
<1>3. total_visits' \in Nat
  BY DecrementedType DEF RemoveRow, DeskInv, TypeOK
<1>4. status' \in [Bookings -> BookingStatus \cup NoRow]
  BY <1>1 DEF DeskInv, TypeOK, NoRow
<1>5. HistoryMoves
  <2>1. overtaken' \in Nat
    BY OvertakingCounts DEF RemoveRow
  <2>2. floored' \in Nat
    <3>1. NotesFloor(IsVisit(request[w].status)) /\ IsVisit(request[w].status) \in BOOLEAN
      BY DEF RemoveRow, IsVisit
    <3> QED
      BY <3>1, FloorCounts
  <2> QED
    BY <1>1, <2>1, <2>2 DEF HistoryMoves, DeskInv, TypeOK
<1>6. Moves(w, Idle)
  BY <1>1, <1>2, <1>3, <1>4, <1>5, IdleFields DEF DeskInv, TypeOK, Moves, Finish
<1> QED
  BY <1>1, <1>2, <1>6

LEMMA CountMoves ==
    ASSUME DeskInv, NEW w \in Workers, UpdateCounters(w)
    PROVE  /\ UNCHANGED <<status, credits, job, crashes, raced, overtaken>>
           /\ request[w].pc = "count" /\ request[w] \in Request
           /\ request[w].booking \in Bookings
           /\ \E q : /\ Moves(w, q) /\ q.pc \in {"idle", "look"}
                     /\ request[w].status = "completed" =>
                          /\ q.pc = "look" /\ q.status = "completed"
                          /\ q.booking = request[w].booking
<1>1. /\ UNCHANGED <<status, credits, job, crashes, raced, overtaken>>
      /\ request[w].pc = "count" /\ ~At(w, "idle")
  BY DEF UpdateCounters, At
<1>2. request[w] \in Request /\ request[w].booking \in Bookings
  BY <1>1, BusyHasBooking
<1>3. request[w].change \in {-1, 0, 1}
  BY <1>2 DEF Request
<1>4. total_visits' \in Nat
  <2>1. CASE request[w].change = -1
    BY <2>1, DecrementedType DEF UpdateCounters, DeskInv, TypeOK
  <2>2. CASE request[w].change # -1
    BY <1>3, <2>2 DEF UpdateCounters, DeskInv, TypeOK
  <2> QED
    BY <2>1, <2>2
<1>5. HistoryMoves
  <2>1. floored' \in Nat
    BY FloorCounts DEF UpdateCounters
  <2> QED
    BY <1>1, <2>1 DEF HistoryMoves, DeskInv, TypeOK
<1>6. CASE request[w].status # "completed"
  <2>1. Finish(w)
    BY <1>6 DEF UpdateCounters, Finish, DeskInv, TypeOK
  <2>2. Moves(w, Idle)
    BY <1>1, <1>4, <1>5, <2>1, FinishMoves DEF DeskInv, TypeOK
  <2> QED
    BY <1>1, <1>2, <1>6, <2>2, IdleFields
<1>7. CASE request[w].status = "completed"
  <2> DEFINE q == [request[w] EXCEPT !.pc = "look", !.change = 0]
  <2>1. request' = [request EXCEPT ![w] = q]
    BY <1>7 DEF UpdateCounters, DeskInv, TypeOK
  <2>2. /\ q \in Request /\ q.pc = "look" /\ q.booking = request[w].booking
        /\ q.status = "completed" /\ q.booking # NoBooking
    BY <1>2, <1>7, VisitsAssumption DEF Request
  <2> HIDE DEF q
  <2>3. Moves(w, q)
    BY <1>1, <1>4, <1>5, <2>1, <2>2 DEF DeskInv, TypeOK, Moves, Hand
  <2> QED
    BY <1>1, <1>2, <2>2, <2>3
<1> QED
  BY <1>6, <1>7

LEMMA RaceGrows ==
    ASSUME DeskInv, NEW b \in Bookings, NotesRace(b)
    PROVE  /\ raced \subseteq raced' /\ raced' \subseteq Bookings
           /\ Crediting(b) /\ ~Credited(b) => b \in raced'
BY DEF NotesRace, DeskInv, TypeOK

LEMMA LookMoves ==
    ASSUME DeskInv, NEW w \in Workers, LookForCredit(w)
    PROVE  /\ UNCHANGED <<status, total_visits, credits, job, crashes, overtaken, floored>>
           /\ NotesRace(request[w].booking)
           /\ request[w].pc = "look" /\ request[w].booking \in Bookings
           /\ \E q : /\ Moves(w, q)
                     /\ \/ q.pc = "idle" /\ Credited(request[w].booking)
                        \/ /\ q.pc = "award" /\ ~Credited(request[w].booking)
                           /\ q.status = "completed" /\ q.booking = request[w].booking
<1>1. /\ UNCHANGED <<status, total_visits, credits, job, crashes, overtaken, floored>>
      /\ NotesRace(request[w].booking) /\ request[w].pc = "look" /\ ~At(w, "idle")
  BY DEF LookForCredit, At
<1>2. request[w] \in Request /\ request[w].booking \in Bookings
  BY <1>1, BusyHasBooking
<1>3. request[w].status = "completed"
  BY <1>1 DEF DeskInv, Hands, Hand
<1>4. HistoryMoves
  BY <1>1, <1>2, RaceGrows DEF HistoryMoves, DeskInv, TypeOK
<1>5. CASE Credited(request[w].booking)
  <2>1. Finish(w)
    BY <1>5 DEF LookForCredit
  <2>2. Moves(w, Idle)
    BY <1>1, <1>4, <2>1, FinishMoves DEF DeskInv, TypeOK
  <2> QED
    BY <1>1, <1>2, <1>5, <2>2, IdleFields
<1>6. CASE ~Credited(request[w].booking)
  <2> DEFINE q == [request[w] EXCEPT !.pc = "award"]
  <2>1. request' = [request EXCEPT ![w] = q]
    BY <1>6 DEF LookForCredit, GoTo
  <2>2. /\ q \in Request /\ q.pc = "award" /\ q.booking = request[w].booking
        /\ q.status = "completed" /\ q.booking # NoBooking
    BY <1>2, <1>3, VisitsAssumption DEF Request
  <2> HIDE DEF q
  <2>3. Moves(w, q)
    BY <1>1, <1>4, <2>1, <2>2 DEF DeskInv, TypeOK, Moves, Hand
  <2> QED
    BY <1>1, <1>2, <1>6, <2>2, <2>3
<1> QED
  BY <1>5, <1>6

LEMMA AwardMoves ==
    ASSUME DeskInv, NEW w \in Workers, AwardPoints(w)
    PROVE  /\ Moves(w, Idle) /\ UNCHANGED <<status, total_visits, job, crashes, history>>
           /\ Finish(w) /\ Awards(w, request[w].booking) /\ request[w].booking \in Bookings
           /\ credits' = [credits EXCEPT ![request[w].booking] = @ + 1]
<1>1. /\ At(w, "award") /\ Finish(w) /\ ~At(w, "idle")
      /\ UNCHANGED <<status, total_visits, job, crashes, history>>
      /\ credits' = [credits EXCEPT ![request[w].booking] = @ + 1]
  BY DEF AwardPoints, At
<1>2. request[w].booking \in Bookings
  BY <1>1, BusyHasBooking
<1>3. credits' \in [Bookings -> Nat]
  BY <1>1, <1>2 DEF DeskInv, TypeOK
<1>4. Moves(w, Idle)
  BY <1>1, <1>3, IdleFields, HistoryStays DEF DeskInv, TypeOK, Moves, Finish
<1> QED
  BY <1>1, <1>2, <1>4 DEF Awards

LEMMA CrashMoves ==
    ASSUME DeskInv, NEW w \in Workers, Crash(w)
    PROVE  /\ Moves(w, Idle) /\ Finish(w) /\ crashes' = crashes + 1
           /\ UNCHANGED <<status, total_visits, credits, job, history>>
<1>1. /\ Finish(w) /\ crashes' = crashes + 1
      /\ UNCHANGED <<status, total_visits, credits, job, history>>
  BY DEF Crash
<1>2. Moves(w, Idle)
  BY <1>1, FinishMoves, HistoryStays DEF DeskInv, TypeOK
<1> QED
  BY <1>1, <1>2

---------------------------------------------------------------------------
\* Whatever a worker does, the locked rows keep their status.
LEMMA WorkersKeepDesk ==
    ASSUME DeskInv, NEW w \in Workers, Serve(w) \/ Crash(w)
    PROVE  DeskInv'
<1>2. CASE \E b \in Bookings : Create(w, b)
  BY <1>2, CreateMoves, MovesKeepDesk
<1>3. CASE \E b \in Bookings : Requested(w, b)
  BY <1>3, RequestedIsLoad, LoadMoves, MovesKeepDesk
<1>4. CASE CapturePriorStatus(w)
  BY <1>4, CapturePriorMoves, MovesKeepDesk
<1>5. CASE WriteRow(w)
  BY <1>5, WriteMoves, MovesKeepDesk DEF Writes
<1>6. CASE RemoveRow(w)
  BY <1>6, RemoveMoves, MovesKeepDesk
<1>7. CASE UpdateCounters(w)
  BY <1>7, CountMoves, MovesKeepDesk
<1>8. CASE LookForCredit(w)
  BY <1>8, LookMoves, MovesKeepDesk
<1>9. CASE AwardPoints(w)
  BY <1>9, AwardMoves, MovesKeepDesk
<1>10. CASE Crash(w)
  BY <1>10, CrashMoves, MovesKeepDesk
<1> QED
  BY <1>2, <1>3, <1>4, <1>5, <1>6, <1>7, <1>8, <1>9, <1>10 DEF Serve, Requested

---------------------------------------------------------------------------
LEMMA JobCommitsRows ==
    ASSUME DeskInv, JobCommit
    PROVE  /\ job.booking \in Bookings /\ status[job.booking] = "checked_in"
           /\ status' = [status EXCEPT ![job.booking] = "completed"]
           /\ status' \in [Bookings -> BookingStatus \cup NoRow]
           /\ credits' \in [Bookings -> Nat]
           /\ \A b \in Bookings \ {job.booking} : credits'[b] = credits[b]
           /\ credits'[job.booking] = credits[job.booking] + (IF job.credited THEN 0 ELSE 1)
<1>1. job.pc = "commit" /\ job.booking \in Bookings /\ status[job.booking] = "checked_in"
  BY DEF JobCommit, JobAt, DeskInv, LockedIsCheckedIn
<1>2. status' = [status EXCEPT ![job.booking] = "completed"]
  BY DEF JobCommit
<1>3. status' \in [Bookings -> BookingStatus \cup NoRow]
  BY <1>1, <1>2 DEF DeskInv, TypeOK, BookingStatus
<1> DEFINE n == credits[job.booking] + (IF job.credited THEN 0 ELSE 1)
<1>4. n \in Nat
  BY <1>1 DEF DeskInv, TypeOK
<1>5. credits' = [credits EXCEPT ![job.booking] = n]
  BY DEF JobCommit
<1> HIDE DEF n
<1>6. /\ credits' \in [Bookings -> Nat] /\ credits'[job.booking] = n
      /\ \A b \in Bookings \ {job.booking} : credits'[b] = credits[b]
  BY <1>1, <1>4, <1>5 DEF DeskInv, TypeOK
<1> QED
  BY <1>1, <1>2, <1>3, <1>6 DEF n

\* The job locks a row that is checked in, or goes on.
LEMMA JobKeepsDesk ==
    ASSUME DeskInv, Job
    PROVE  DeskInv'
<1>1. ASSUME JobRests, status' \in [Bookings -> BookingStatus \cup NoRow],
             credits' \in [Bookings -> Nat], UNCHANGED <<total_visits, request, crashes>>,
             HistoryMoves
      PROVE  DeskInv'
  <2>1. TypeOK'
    BY <1>1 DEF DeskInv, TypeOK, JobRests, HistoryMoves
  <2>2. Hands' /\ LockedIsCheckedIn'
    BY <1>1 DEF DeskInv, Hands, LockedIsCheckedIn, JobRests
  <2> QED
    BY <2>1, <2>2 DEF DeskInv
<1>2. ASSUME UNCHANGED <<status, total_visits, credits, request, crashes>>,
             NEW pc \in {"lock", "look", "commit"}, NEW b \in Bookings, NEW c \in BOOLEAN,
             job' = [pc |-> pc, booking |-> b, credited |-> c],
             pc \in {"look", "commit"} => status[b] = "checked_in", HistoryMoves
      PROVE  DeskInv'
  <2>1. TypeOK'
    BY <1>2 DEF DeskInv, TypeOK, HistoryMoves
  <2>2. Hands' /\ LockedIsCheckedIn'
    BY <1>2 DEF DeskInv, Hands, LockedIsCheckedIn
  <2> QED
    BY <2>1, <2>2 DEF DeskInv
<1>3. ASSUME NEW b \in Bookings, JobSelect(b) PROVE DeskInv'
  BY <1>2, <1>3, HistoryStays DEF JobSelect
<1>4. CASE JobLock
  <2>1. /\ job.pc = "lock" /\ job.booking \in Bookings /\ job.credited \in BOOLEAN
        /\ UNCHANGED <<status, total_visits, credits, request, crashes>> /\ HistoryMoves
    BY <1>4, HistoryStays DEF JobLock, JobAt, DeskInv, LockedIsCheckedIn, TypeOK
  <2>2. CASE status[job.booking] = "checked_in"
    <3>1. job' = [pc |-> "look", booking |-> job.booking, credited |-> job.credited]
      BY <1>4, <2>2 DEF JobLock, DeskInv, TypeOK
    <3> QED
      BY <1>2, <2>1, <2>2, <3>1
  <2>3. CASE status[job.booking] # "checked_in"
    BY <1>1, <1>4, <2>1, <2>3 DEF JobLock, DeskInv, TypeOK
  <2> QED
    BY <2>2, <2>3
<1>5. CASE JobLook
  <2>1. /\ job.booking \in Bookings /\ status[job.booking] = "checked_in"
        /\ UNCHANGED <<status, total_visits, credits, request, crashes, overtaken, floored>>
        /\ NotesRace(job.booking)
    BY <1>5 DEF JobLook, JobAt, DeskInv, LockedIsCheckedIn
  <2>2. job' = [pc |-> "commit", booking |-> job.booking, credited |-> Credited(job.booking)]
    BY <1>5 DEF JobLook, DeskInv, TypeOK
  <2>3. Credited(job.booking) \in BOOLEAN
    BY DEF Credited
  <2>4. HistoryMoves
    BY <2>1, RaceGrows DEF HistoryMoves, DeskInv, TypeOK
  <2> QED
    BY <1>2, <2>1, <2>2, <2>3, <2>4
<1>6. CASE JobCommit
  BY <1>1, <1>6, JobCommitsRows, HistoryStays DEF JobCommit
<1>7. CASE JobCrash
  BY <1>1, <1>7, HistoryStays DEF JobCrash, DeskInv, TypeOK
<1> QED
  BY <1>3, <1>4, <1>5, <1>6, <1>7 DEF Job

---------------------------------------------------------------------------
LEMMA DeskInvariance == Spec => []DeskInv
<1>1. DeskInv /\ [Next]_vars => DeskInv'
  <2> SUFFICES ASSUME DeskInv, [Next]_vars PROVE DeskInv'
    OBVIOUS
  <2>1. CASE Next
    BY <2>1, WorkersKeepDesk, JobKeepsDesk DEF Next
  <2>2. CASE UNCHANGED vars
    BY <2>2 DEF vars, history, DeskInv, TypeOK, Hands, LockedIsCheckedIn
  <2> QED
    BY <2>1, <2>2
<1> QED
  BY <1>1, InitialDesk, PTL DEF Spec

\* Every variable keeps its type: in particular total_visits, a positive
\* column, is never driven below zero by late or repeated decrements.
THEOREM TypeCorrect == Spec => []TypeOK
<1>1. DeskInv => TypeOK
  BY DEF DeskInv
<1> QED
  BY <1>1, DeskInvariance, PTL

\* auto_complete_checked_in completes a booking only while it is checked in,
\* whatever undoes, cancels, edits or deletes it around the lock.
THEOREM CompletesOnlyCheckedInHolds == Spec => CompletesOnlyCheckedIn
<1> DEFINE A == \A b \in Bookings :
                  JobAt("commit") /\ job.booking = b /\ status'[b] # status[b] =>
                    status[b] = "checked_in"
<1>1. DeskInv /\ [Next]_vars => [A]_vars
  BY DEF DeskInv, LockedIsCheckedIn, JobAt
<1>2. Spec => [][A]_vars
  BY <1>1, DeskInvariance, PTL DEF Spec
<1> QED
  BY <1>2 DEF CompletesOnlyCheckedIn

---------------------------------------------------------------------------
(* The credit.  A save that finds none, while another one has found none   *)
(* too, puts its booking among the raced ones; of the others no two saves  *)
(* are about to write one.                                                 *)

LEMMA StaysOne ==
    ASSUME NEW b \in Bookings, OneCredits(b), credits'[b] = credits[b],
           \A w \in Workers : Awards(w, b)' => Awards(w, b), JobAwards(b)' => JobAwards(b)
    PROVE  OneCredits(b)'
BY DEF OneCredits

LEMMA FewerAwards ==
    ASSUME CreditInv, DeskInv', raced \subseteq raced', UNCHANGED credits,
           \A b \in Bookings : \A w \in Workers : Awards(w, b)' => Awards(w, b),
           \A b \in Bookings : JobAwards(b)' => JobAwards(b)
    PROVE  CreditInv'
<1> SUFFICES ASSUME NEW b \in Bookings, b \notin raced' PROVE OneCredits(b)'
  BY DEF CreditInv
<1>1. OneCredits(b)
  BY DEF CreditInv
<1> QED
  BY <1>1, StaysOne

\* A worker that does not go on to award.
LEMMA MovesKeepCredit ==
    ASSUME CreditInv, NEW w \in Workers, NEW q, Moves(w, q), q.pc # "award", UNCHANGED credits
    PROVE  CreditInv'
<1>1. DeskInv' /\ raced \subseteq raced'
  BY MovesKeepDesk DEF CreditInv, Moves, HistoryMoves
<1>2. request'[w] = q /\ \A v \in Workers \ {w} : request'[v] = request[v]
  BY DEF CreditInv, DeskInv, TypeOK, Moves
<1>3. \A b \in Bookings : \A v \in Workers : Awards(v, b)' => Awards(v, b)
  BY <1>2 DEF Awards, At
<1>4. \A b \in Bookings : JobAwards(b)' => JobAwards(b)
  BY DEF JobAwards, JobAt, Moves
<1> QED
  BY <1>1, <1>3, <1>4, FewerAwards

LEMMA NobodyCredits ==
    ASSUME NEW b \in Bookings, ~Crediting(b)
    PROVE  ~JobAwards(b) /\ \A w \in Workers : ~Awards(w, b)
BY DEF Crediting, JobAwards, Awards

LEMMA LookKeepsCredit ==
    ASSUME CreditInv, NEW w \in Workers, LookForCredit(w)
    PROVE  CreditInv'
<1> DEFINE b == request[w].booking
<1>1. DeskInv /\ UNCHANGED <<job, credits>> /\ NotesRace(b) /\ b \in Bookings
  BY LookMoves DEF CreditInv
<1>2. PICK q : /\ Moves(w, q)
               /\ \/ q.pc = "idle" /\ Credited(b)
                  \/ /\ q.pc = "award" /\ ~Credited(b)
                     /\ q.status = "completed" /\ q.booking = b
  BY LookMoves DEF CreditInv
<1>3. CASE q.pc = "idle"
  BY <1>1, <1>2, <1>3, MovesKeepCredit
<1>4. CASE q.pc = "award" /\ ~Credited(b) /\ q.booking = b
  <2>1. DeskInv' /\ raced \subseteq raced'
    BY <1>1, <1>2, MovesKeepDesk DEF Moves, HistoryMoves
  <2>2. request'[w] = q /\ \A v \in Workers \ {w} : request'[v] = request[v]
    BY <1>1, <1>2 DEF DeskInv, TypeOK, Moves
  <2>3. \A c \in Bookings : JobAwards(c)' <=> JobAwards(c)
    BY <1>1 DEF JobAwards, JobAt
  <2> SUFFICES ASSUME NEW c \in Bookings, c \notin raced' PROVE OneCredits(c)'
    BY <2>1 DEF CreditInv
  <2>4. OneCredits(c)
    BY <2>1 DEF CreditInv
  <2>5. CASE c # b
    <3>1. \A v \in Workers : Awards(v, c)' => Awards(v, c)
      BY <1>4, <2>2, <2>5 DEF Awards, At
    <3> QED
      BY <1>1, <2>3, <2>4, <3>1, StaysOne
  <2>6. CASE c = b
    <3>1. ~Crediting(b)
      BY <1>1, <1>4, <2>6, RaceGrows
    <3>2. ~JobAwards(c) /\ \A v \in Workers : ~Awards(v, c)
      BY <1>1, <2>6, <3>1, NobodyCredits
    <3>3. \A v \in Workers : Awards(v, c)' => v = w
      BY <2>2, <3>2 DEF Awards, At
    <3>4. credits'[c] = 0
      BY <1>1, <1>4, <2>6 DEF Credited, DeskInv, TypeOK
    <3> QED
      BY <2>3, <3>2, <3>3, <3>4 DEF OneCredits
  <2> QED
    BY <2>5, <2>6
<1> QED
  BY <1>2, <1>3, <1>4

LEMMA AwardKeepsCredit ==
    ASSUME CreditInv, NEW w \in Workers, AwardPoints(w)
    PROVE  CreditInv'
<1> DEFINE b == request[w].booking
<1>1. /\ Moves(w, Idle) /\ UNCHANGED <<job, raced>> /\ Awards(w, b) /\ b \in Bookings
      /\ credits' = [credits EXCEPT ![b] = @ + 1]
  BY AwardMoves DEF CreditInv, history
<1>2. DeskInv' /\ DeskInv
  BY <1>1, MovesKeepDesk DEF CreditInv
<1>3. request'[w] = Idle /\ \A v \in Workers \ {w} : request'[v] = request[v]
  BY <1>1, <1>2 DEF DeskInv, TypeOK, Moves
<1>4. \A c \in Bookings : \A v \in Workers : Awards(v, c)' => v # w /\ Awards(v, c)
  BY <1>3, IdleFields DEF Awards, At
<1>5. \A c \in Bookings : JobAwards(c)' <=> JobAwards(c)
  BY <1>1 DEF JobAwards, JobAt
<1> SUFFICES ASSUME NEW c \in Bookings, c \notin raced PROVE OneCredits(c)'
  BY <1>1, <1>2 DEF CreditInv
<1>6. OneCredits(c)
  BY DEF CreditInv
<1>7. CASE c # b
  <2>1. credits'[c] = credits[c]
    BY <1>1, <1>2, <1>7 DEF DeskInv, TypeOK
  <2> QED
    BY <1>4, <1>5, <1>6, <2>1, StaysOne
<1>8. CASE c = b
  <2>1. credits[c] = 0 /\ ~JobAwards(c) /\ \A v \in Workers : Awards(v, c) => v = w
    BY <1>1, <1>6, <1>8 DEF OneCredits
  <2>2. credits'[c] = 1
    BY <1>1, <1>2, <1>8, <2>1 DEF DeskInv, TypeOK
  <2>3. \A v \in Workers : ~Awards(v, c)'
    BY <1>4, <2>1
  <2> QED
    BY <1>5, <2>1, <2>2, <2>3 DEF OneCredits
<1> QED
  BY <1>7, <1>8

LEMMA WorkersKeepCredit ==
    ASSUME CreditInv, NEW w \in Workers, Serve(w) \/ Crash(w)
    PROVE  CreditInv'
<1>0. DeskInv
  BY DEF CreditInv
<1>1. ASSUME NEW b \in Bookings, Create(w, b)
      PROVE  CreditInv'
  <2>1. /\ Moves(w, Saved(b, "pending", 1)) /\ UNCHANGED credits
        /\ Saved(b, "pending", 1).pc # "award"
    BY <1>0, <1>1, CreateMoves, SavedFields DEF Create, BookingStatus
  <2> QED
    BY <2>1, MovesKeepCredit
<1>2. ASSUME NEW b \in Bookings, Requested(w, b)
      PROVE  CreditInv'
  <2>1. PICK pc \in {"prior", "remove"}, s \in BookingStatus, whole \in BOOLEAN :
          Load(w, b, pc, s, whole)
    BY <1>0, <1>2, RequestedIsLoad
  <2>2. Moves(w, Loaded(pc, b, s, whole)) /\ UNCHANGED credits
    BY <1>0, <2>1, LoadMoves DEF Load
  <2>3. Loaded(pc, b, s, whole).pc # "award"
    BY LoadedFields
  <2> QED
    BY <2>2, <2>3, MovesKeepCredit
<1>3. CASE CapturePriorStatus(w)
  BY <1>0, <1>3, CapturePriorMoves, MovesKeepCredit
<1>4. CASE WriteRow(w)
  <2>1. /\ UNCHANGED credits /\ request[w] \in Request /\ request[w].booking \in Bookings
        /\ Writes(w, TRUE) \/ Writes(w, FALSE) \/ Moves(w, Idle)
    BY <1>0, <1>4, WriteMoves
  <2>2. ASSUME NEW c \in BOOLEAN, Writes(w, c)
        PROVE  CreditInv'
    <3> DEFINE q == Saved(request[w].booking, request[w].status, Change(request[w], c))
    <3>1. request[w].status \in BookingStatus \cup NoRow
      BY <2>1 DEF Request
    <3>2. q.pc = "count"
      BY <2>1, <3>1, SavedFields, ChangeRange
    <3>3. Moves(w, q)
      BY <2>2 DEF Writes
    <3> HIDE DEF q
    <3> QED
      BY <2>1, <3>2, <3>3, MovesKeepCredit
  <2> QED
    BY <2>1, <2>2, IdleFields, MovesKeepCredit
<1>5. CASE RemoveRow(w)
  BY <1>0, <1>5, RemoveMoves, IdleFields, MovesKeepCredit
<1>6. CASE UpdateCounters(w)
  BY <1>0, <1>6, CountMoves, MovesKeepCredit
<1>7. CASE Crash(w)
  BY <1>0, <1>7, CrashMoves, IdleFields, MovesKeepCredit
<1> QED
  BY <1>1, <1>2, <1>3, <1>4, <1>5, <1>6, <1>7, LookKeepsCredit, AwardKeepsCredit
     DEF Serve, Requested

LEMMA JobKeepsCredit ==
    ASSUME CreditInv, Job
    PROVE  CreditInv'
<1>1. DeskInv /\ DeskInv'
  BY JobKeepsDesk DEF CreditInv
<1>2. UNCHANGED request
  BY DEF Job, JobSelect, JobLock, JobLook, JobCommit, JobCrash
<1>3. \A c \in Bookings : \A w \in Workers : Awards(w, c)' <=> Awards(w, c)
  BY <1>2 DEF Awards, At
<1>4. CASE JobCommit
  <2> DEFINE b == job.booking
  <2>1. /\ b \in Bookings /\ UNCHANGED raced /\ JobAt("commit") /\ job'.pc = "idle"
        /\ \A c \in Bookings \ {b} : credits'[c] = credits[c]
        /\ credits'[b] = credits[b] + (IF job.credited THEN 0 ELSE 1)
        /\ credits[b] \in Nat
    BY <1>1, <1>4, JobCommitsRows DEF JobCommit, JobRests, history, DeskInv, TypeOK
  <2>2. \A c \in Bookings : ~JobAwards(c)'
    BY <2>1 DEF JobAwards, JobAt
  <2> SUFFICES ASSUME NEW c \in Bookings, c \notin raced PROVE OneCredits(c)'
    BY <1>1, <2>1 DEF CreditInv
  <2>3. OneCredits(c)
    BY DEF CreditInv
  <2>4. CASE c # b \/ job.credited
    <3>1. credits'[c] = credits[c]
      BY <2>1, <2>4
    <3> QED
      BY <1>3, <2>2, <2>3, <3>1, StaysOne
  <2>5. CASE c = b /\ ~job.credited
    <3>1. JobAwards(c)
      BY <2>1, <2>5 DEF JobAwards
    <3>2. credits[c] = 0 /\ \A w \in Workers : ~Awards(w, c)
      BY <2>3, <3>1 DEF OneCredits
    <3>3. credits'[c] = 1
      BY <2>1, <2>5, <3>2
    <3> QED
      BY <1>3, <2>2, <3>2, <3>3 DEF OneCredits
  <2> QED
    BY <2>4, <2>5
<1>5. CASE JobLook
  <2> DEFINE b == job.booking
  <2>1. /\ job' = [pc |-> "commit", booking |-> b, credited |-> Credited(b)]
        /\ NotesRace(b) /\ UNCHANGED credits
    BY <1>1, <1>5 DEF JobLook, DeskInv, TypeOK
  <2>2. b \in Bookings
    BY <1>1, <1>5 DEF JobLook, JobAt, DeskInv, LockedIsCheckedIn
  <2>3. raced \subseteq raced' /\ (Crediting(b) /\ ~Credited(b) => b \in raced')
    BY <1>1, <2>1, <2>2, RaceGrows
  <2>4. \A c \in Bookings : JobAwards(c)' => c = b /\ ~Credited(b)
    BY <2>1 DEF JobAwards, JobAt
  <2> SUFFICES ASSUME NEW c \in Bookings, c \notin raced' PROVE OneCredits(c)'
    BY <1>1 DEF CreditInv
  <2>5. OneCredits(c)
    BY <2>3 DEF CreditInv
  <2>6. CASE c # b \/ Credited(b)
    BY <1>3, <2>1, <2>4, <2>5, <2>6, StaysOne
  <2>7. CASE c = b /\ ~Credited(b)
    <3>1. \A w \in Workers : ~Awards(w, c)
      BY <2>2, <2>3, <2>7, NobodyCredits
    <3>2. credits'[c] = 0
      BY <1>1, <2>1, <2>7 DEF Credited, DeskInv, TypeOK
    <3> QED
      BY <1>3, <3>1, <3>2 DEF OneCredits
  <2> QED
    BY <2>6, <2>7
<1>6. CASE (\E b \in Bookings : JobSelect(b)) \/ JobLock \/ JobCrash
  <2>1. UNCHANGED <<credits, raced>> /\ job'.pc # "commit"
    BY <1>1, <1>6 DEF JobSelect, JobLock, JobAt, JobCrash, JobRests, history, DeskInv, TypeOK
  <2>2. \A c \in Bookings : ~JobAwards(c)'
    BY <2>1 DEF JobAwards, JobAt
  <2> QED
    BY <1>1, <1>3, <2>1, <2>2, FewerAwards
<1> QED
  BY <1>4, <1>5, <1>6 DEF Job

\* A booking is credited once, however many requests and job runs complete it
\* and undo it, at once or one after another, and wherever they die: unless two
\* saves looked for the credit before either had written it.
THEOREM CreditedOnceHolds == Spec => []CreditedOnce
<1>1. Init => CreditInv
  <2> SUFFICES ASSUME Init PROVE CreditInv
    OBVIOUS
  <2>1. \A b \in Bookings : OneCredits(b)
    BY DEF Init, Idle, OneCredits, Awards, At, JobAwards, JobAt
  <2> QED
    BY <2>1, InitialDesk DEF CreditInv
<1>2. CreditInv /\ [Next]_vars => CreditInv'
  <2> SUFFICES ASSUME CreditInv, [Next]_vars PROVE CreditInv'
    OBVIOUS
  <2>1. CASE Next
    BY <2>1, WorkersKeepCredit, JobKeepsCredit DEF Next
  <2>2. CASE UNCHANGED vars
    <3>1. DeskInv'
      BY <2>2 DEF vars, history, CreditInv, DeskInv, TypeOK, Hands, LockedIsCheckedIn
    <3>2. \A b \in Bookings : OneCredits(b)' <=> OneCredits(b)
      BY <2>2 DEF vars, history, OneCredits, Awards, At, JobAwards, JobAt
    <3> QED
      BY <2>2, <3>1, <3>2 DEF vars, history, CreditInv
  <2> QED
    BY <2>1, <2>2
<1>3. CreditInv => CreditedOnce
  BY DEF CreditInv, OneCredits, CreditedOnce
<1> QED
  BY <1>1, <1>2, <1>3, PTL DEF Spec

---------------------------------------------------------------------------
(* A completed booking has its credit, or a request that will see to it;   *)
(* no matter how many requests serve the booking at once.                  *)

\* A worker goes on to q; every booking that reads completed afterwards has
\* a credit or was and is in the same hands, or in those of q.
LEMMA MovesKeepDue ==
    ASSUME DueInv, NEW w \in Workers, NEW q, Moves(w, q), UNCHANGED crashes,
           \A b \in Bookings : credits[b] > 0 => credits'[b] > 0,
           \A b \in Bookings : status'[b] = "completed" =>
               \/ status[b] = "completed" /\ ~Credits(request[w], b)
               \/ Credits(q, b) \/ credits'[b] > 0
    PROVE  DueInv'
<1>1. DeskInv'
  BY MovesKeepDesk DEF DueInv
<1>2. JobSaw'
  BY DEF DueInv, DeskInv, LockedIsCheckedIn, JobSaw, Moves
<1>3. CompletedIsDue'
  <2> SUFFICES ASSUME NEW b \in Bookings, crashes = 0, status'[b] = "completed",
                      ~(credits'[b] > 0)
               PROVE  CreditIsDue(b)'
    BY DEF CompletedIsDue
  <2>1. request'[w] = q /\ \A v \in Workers : v # w => request'[v] = request[v]
    BY DEF DueInv, DeskInv, TypeOK, Moves
  <2>2. CASE Credits(q, b)
    BY <2>1, <2>2 DEF CreditIsDue
  <2>3. CASE status[b] = "completed" /\ ~Credits(request[w], b)
    <3>1. PICK v \in Workers : Credits(request[v], b)
      BY <2>3 DEF DueInv, CompletedIsDue, CreditIsDue
    <3>2. v # w
      BY <2>3, <3>1
    <3> QED
      BY <2>1, <3>1, <3>2 DEF CreditIsDue
  <2> QED
    BY <2>2, <2>3
<1> QED
  BY <1>1, <1>2, <1>3 DEF DueInv

\* A worker that ends its request without a completed booking on its hands.
LEMMA FinishKeepsDue ==
    ASSUME DueInv, NEW w \in Workers, Moves(w, Idle), UNCHANGED <<status, credits, crashes>>,
           \A b \in Bookings : Credits(request[w], b) => credits[b] > 0
    PROVE  DueInv'
<1>1. \A b \in Bookings : status'[b] = "completed" =>
        (status[b] = "completed" /\ ~Credits(request[w], b)) \/ credits'[b] > 0
  OBVIOUS
<1> HIDE DEF Idle
<1> QED
  BY <1>1, MovesKeepDue

\* A worker that goes on with the rows as they are, and its credit still due.
LEMMA GoesOnKeepsDue ==
    ASSUME DueInv, NEW w \in Workers, NEW q, Moves(w, q),
           UNCHANGED <<status, credits, crashes>>,
           \A b \in Bookings : Credits(request[w], b) => Credits(q, b)
    PROVE  DueInv'
<1>1. \A b \in Bookings : status'[b] = "completed" =>
        (status[b] = "completed" /\ ~Credits(request[w], b)) \/ Credits(q, b)
  OBVIOUS
<1> QED
  BY <1>1, MovesKeepDue

LEMMA WorkersKeepDue ==
    ASSUME DueInv, NEW w \in Workers, Serve(w) \/ Crash(w)
    PROVE  DueInv'
<1>0. DeskInv
  BY DEF DueInv
<1>1. ASSUME NEW b \in Bookings, Create(w, b)
      PROVE  DueInv'
  <2> DEFINE q == Saved(b, "pending", 1)
  <2>1. Moves(w, q)
    BY <1>0, <1>1, CreateMoves
  <2>2. /\ UNCHANGED <<credits, crashes>> /\ status' = [status EXCEPT ![b] = "pending"]
        /\ request[w].pc = "idle"
    BY <1>1 DEF Create, Begin, At
  <2>3. \A c \in Bookings : status'[c] = "completed" =>
          status[c] = "completed" /\ ~Credits(request[w], c)
    BY <1>0, <2>2 DEF DeskInv, TypeOK, Credits
  <2> HIDE DEF q
  <2> QED
    BY <2>1, <2>2, <2>3, MovesKeepDue
<1>2. ASSUME NEW b \in Bookings, Requested(w, b)
      PROVE  DueInv'
  <2>1. PICK pc \in {"prior", "remove"}, s \in BookingStatus, whole \in BOOLEAN :
          Load(w, b, pc, s, whole)
    BY <1>0, <1>2, RequestedIsLoad
  <2>2. Moves(w, Loaded(pc, b, s, whole))
    BY <1>0, <2>1, LoadMoves
  <2>3. UNCHANGED <<status, credits, crashes>> /\ request[w].pc = "idle"
    BY <2>1 DEF Load, Begin, At
  <2>4. \A c \in Bookings : ~Credits(request[w], c)
    BY <2>3 DEF Credits
  <2> QED
    BY <2>2, <2>3, <2>4, GoesOnKeepsDue
<1>3. CASE CapturePriorStatus(w)
  <2>1. PICK q : /\ Moves(w, q) /\ UNCHANGED <<status, credits, crashes>>
                 /\ request[w].pc = "prior"
    BY <1>0, <1>3, CapturePriorMoves
  <2>2. \A c \in Bookings : ~Credits(request[w], c)
    BY <2>1 DEF Credits
  <2> QED
    BY <2>1, <2>2, GoesOnKeepsDue
<1>4. CASE WriteRow(w)
  <2>1. /\ UNCHANGED <<credits, crashes>> /\ request[w].pc = "write"
        /\ request[w] \in Request /\ request[w].booking \in Bookings
        /\ \/ Writes(w, TRUE) \/ Writes(w, FALSE)
           \/ Moves(w, Idle) /\ UNCHANGED status
    BY <1>0, <1>4, WriteMoves
  <2>2. \A c \in Bookings : ~Credits(request[w], c)
    BY <2>1 DEF Credits
  <2>3. CASE Moves(w, Idle) /\ UNCHANGED status
    BY <2>1, <2>2, <2>3, FinishKeepsDue
  <2>4. ASSUME NEW c \in BOOLEAN, Writes(w, c)
        PROVE  DueInv'
    <3> DEFINE q == Saved(request[w].booking, request[w].status, Change(request[w], c))
    <3>1. request[w].status \in BookingStatus \cup NoRow
      BY <2>1 DEF Request
    <3>2. q.pc = "count" /\ q.booking = request[w].booking /\ q.status = request[w].status
      BY <2>1, <3>1, SavedFields, ChangeRange
    <3>3. Moves(w, q) /\ status' = [status EXCEPT ![request[w].booking] = request[w].status]
      BY <2>4 DEF Writes
    <3> HIDE DEF q
    <3>4. \A a \in Bookings : status'[a] = "completed" => status[a] = "completed" \/ Credits(q, a)
      BY <1>0, <3>2, <3>3 DEF DeskInv, TypeOK, Credits
    <3> QED
      BY <2>1, <2>2, <3>3, <3>4, MovesKeepDue
  <2> QED
    BY <2>1, <2>3, <2>4
<1>5. CASE RemoveRow(w)
  <2>1. /\ Moves(w, Idle) /\ UNCHANGED <<credits, crashes>>
        /\ \A c \in Bookings : ~Credits(request[w], c)
    BY <1>0, <1>5, RemoveMoves DEF RemoveRow, At, Credits
  <2>2. \A c \in Bookings : status'[c] = "completed" => status[c] = "completed"
    BY <1>0, <1>5, RemoveMoves DEF DeskInv, TypeOK
  <2> HIDE DEF Idle
  <2> QED
    BY <2>1, <2>2, MovesKeepDue
<1>6. CASE UpdateCounters(w)
  <2>1. UNCHANGED <<status, credits, crashes>>
    BY <1>0, <1>6, CountMoves
  <2>2. PICK q : /\ Moves(w, q)
                 /\ request[w].status = "completed" =>
                      /\ q.pc = "look" /\ q.status = "completed"
                      /\ q.booking = request[w].booking
    BY <1>0, <1>6, CountMoves
  <2>3. \A b \in Bookings : Credits(request[w], b) => Credits(q, b)
    BY <2>2 DEF Credits
  <2> QED
    BY <2>1, <2>2, <2>3, GoesOnKeepsDue
<1>7. CASE LookForCredit(w)
  <2>1. UNCHANGED <<status, credits, crashes>> /\ request[w].booking \in Bookings
    BY <1>0, <1>7, LookMoves
  <2>2. PICK q : /\ Moves(w, q)
                 /\ \/ q.pc = "idle" /\ Credited(request[w].booking)
                    \/ /\ q.pc = "award" /\ q.status = "completed"
                       /\ q.booking = request[w].booking
    BY <1>0, <1>7, LookMoves
  <2>3. \A b \in Bookings : Credits(request[w], b) => Credits(q, b) \/ credits[b] > 0
    BY <2>2 DEF Credits, Credited
  <2>4. \A b \in Bookings : status'[b] = "completed" =>
          \/ status[b] = "completed" /\ ~Credits(request[w], b)
          \/ Credits(q, b) \/ credits'[b] > 0
    BY <2>1, <2>3
  <2> QED
    BY <2>1, <2>2, <2>4, MovesKeepDue
<1>8. CASE AwardPoints(w)
  <2>1. /\ Moves(w, Idle) /\ UNCHANGED <<status, crashes>> /\ request[w].booking \in Bookings
        /\ credits' = [credits EXCEPT ![request[w].booking] = @ + 1]
    BY <1>0, <1>8, AwardMoves
  <2>2. /\ \A c \in Bookings : credits[c] > 0 => credits'[c] > 0
        /\ credits'[request[w].booking] > 0
    BY <1>0, <2>1 DEF DeskInv, TypeOK
  <2>3. \A c \in Bookings : status'[c] = "completed" =>
          (status[c] = "completed" /\ ~Credits(request[w], c)) \/ credits'[c] > 0
    BY <2>1, <2>2 DEF Credits
  <2> HIDE DEF Idle
  <2> QED
    BY <2>1, <2>2, <2>3, MovesKeepDue
<1>9. CASE Crash(w)
  <2>1. DeskInv'
    BY <1>0, <1>9, WorkersKeepDesk
  <2>2. crashes' # 0 /\ UNCHANGED <<credits, job>>
    BY <1>0, <1>9, CrashMoves DEF DeskInv, TypeOK
  <2>3. JobSaw' /\ CompletedIsDue'
    BY <2>2 DEF DueInv, JobSaw, CompletedIsDue
  <2> QED
    BY <2>1, <2>3 DEF DueInv
<1> QED
  BY <1>1, <1>2, <1>3, <1>4, <1>5, <1>6, <1>7, <1>8, <1>9 DEF Serve, Requested

LEMMA JobKeepsDue ==
    ASSUME DueInv, Job
    PROVE  DueInv'
<1>0. DeskInv
  BY DEF DueInv
<1>1. DeskInv'
  BY <1>0, JobKeepsDesk
<1>2. CASE JobCommit
  <2>1. /\ job.pc = "commit" /\ UNCHANGED <<request, crashes>> /\ job'.pc = "idle"
    BY <1>2 DEF JobCommit, JobAt, JobRests
  <2>2. /\ job.booking \in Bookings
        /\ status' = [status EXCEPT ![job.booking] = "completed"]
        /\ \A b \in Bookings \ {job.booking} : credits'[b] = credits[b]
        /\ credits'[job.booking] = credits[job.booking] + (IF job.credited THEN 0 ELSE 1)
    BY <1>0, <1>2, JobCommitsRows
  <2>3. credits'[job.booking] > 0
    <3>1. credits[job.booking] \in Nat /\ (job.credited => credits[job.booking] > 0)
      BY <1>0, <2>1, <2>2 DEF DueInv, JobSaw, DeskInv, TypeOK
    <3> QED
      BY <2>2, <3>1
  <2>4. \A b \in Bookings \ {job.booking} : status'[b] = status[b]
    BY <1>0, <2>2 DEF DeskInv, TypeOK
  <2>5. JobSaw'
    BY <2>1 DEF JobSaw
  <2>6. CompletedIsDue'
    BY <2>1, <2>2, <2>3, <2>4 DEF DueInv, CompletedIsDue, CreditIsDue
  <2> QED
    BY <1>1, <2>5, <2>6 DEF DueInv
<1>3. CASE ~JobCommit
  <2>1. UNCHANGED <<status, credits, request, crashes>>
    BY <1>3 DEF Job, JobSelect, JobLock, JobLook, JobCrash
  <2>2. JobSaw'
    <3>1. CASE JobLook
      <4>1. job' = [pc |-> "commit", booking |-> job.booking, credited |-> Credited(job.booking)]
        BY <1>0, <3>1 DEF JobLook, DeskInv, TypeOK
      <4> QED
        BY <2>1, <4>1 DEF JobSaw, Credited
    <3>2. CASE ~JobLook
      <4>1. job'.pc # "commit"
        BY <1>0, <1>3, <3>2 DEF DeskInv, TypeOK, Job, JobSelect, JobLock, JobCrash, JobRests
      <4> QED
        BY <4>1 DEF JobSaw
    <3> QED
      BY <3>1, <3>2
  <2>3. CompletedIsDue'
    BY <2>1 DEF DueInv, CompletedIsDue, CreditIsDue
  <2> QED
    BY <1>1, <2>2, <2>3 DEF DueInv
<1> QED
  BY <1>2, <1>3

\* A completed booking that no request is at has its credit, unless a worker
\* died: also when requests for one booking overlap, where it may have two.
THEOREM CompletedIsCreditedHolds == Spec => []CompletedIsCredited
<1>1. Init => DueInv
  <2> SUFFICES ASSUME Init PROVE DueInv
    OBVIOUS
  <2>1. JobSaw /\ CompletedIsDue
    BY DEF Init, JobSaw, CompletedIsDue
  <2> QED
    BY <2>1, InitialDesk DEF DueInv
<1>2. DueInv /\ [Next]_vars => DueInv'
  <2> SUFFICES ASSUME DueInv, [Next]_vars PROVE DueInv'
    OBVIOUS
  <2>1. CASE Next
    BY <2>1, WorkersKeepDue, JobKeepsDue DEF Next
  <2>2. CASE UNCHANGED vars
    <3>1. DeskInv'
      BY <2>2 DEF vars, history, DueInv, DeskInv, TypeOK, Hands, LockedIsCheckedIn
    <3> QED
      BY <2>2, <3>1 DEF vars, DueInv, JobSaw, CompletedIsDue, CreditIsDue
  <2> QED
    BY <2>1, <2>2
<1>3. DueInv => CompletedIsCredited
  BY DEF DueInv, CompletedIsDue, CreditIsDue, CompletedIsCredited, Served, Credits
<1> QED
  BY <1>1, <1>2, <1>3, PTL DEF Spec

---------------------------------------------------------------------------
(* total_visits.  Sets of workers and of bookings change one element at a  *)
(* time, and so do their cardinalities.                                    *)

LEMMA OneChanges ==
    ASSUME NEW U, IsFiniteSet(U), NEW S \in SUBSET U, NEW T \in SUBSET U, NEW x \in U,
           \A y \in U : y # x => (y \in S <=> y \in T)
    PROVE  /\ Cardinality(S) \in Nat /\ Cardinality(T) \in Nat
           /\ Cardinality(T) = Cardinality(S) + (IF x \in T THEN 1 ELSE 0) - (IF x \in S THEN 1 ELSE 0)
<1>1. IsFiniteSet(S) /\ IsFiniteSet(T)
  BY FS_Subset
<1>2. S \ {x} = T \ {x}
  OBVIOUS
<1>3. Cardinality(S \ {x}) = Cardinality(S) - (IF x \in S THEN 1 ELSE 0)
  BY <1>1, FS_RemoveElement, FS_CardinalityType
<1>4. Cardinality(T \ {x}) = Cardinality(T) - (IF x \in T THEN 1 ELSE 0)
  BY <1>1, FS_RemoveElement, FS_CardinalityType
<1>5. Cardinality(S) \in Nat /\ Cardinality(T) \in Nat
  BY <1>1, FS_CardinalityType
<1>6. (IF x \in S THEN 1 ELSE 0) \in 0..1 /\ (IF x \in T THEN 1 ELSE 0) \in 0..1
  OBVIOUS
<1>7. Cardinality(T) - (IF x \in T THEN 1 ELSE 0) = Cardinality(S) - (IF x \in S THEN 1 ELSE 0)
  BY <1>2, <1>3, <1>4
<1> QED
  BY <1>5, <1>6, <1>7

Owes(q, change) == q.pc = "count" /\ q.change = change
VisitSet == {b \in Bookings : IsVisit(status[b])}
Visits == Cardinality(VisitSet)
Drift == total_visits + Due(1) - Due(-1) - Visits

LEMMA Numbers == Due(1) \in Nat /\ Due(-1) \in Nat /\ Visits \in Nat
<1>1. \A c : {w \in Workers : At(w, "count") /\ request[w].change = c} \in SUBSET Workers
  OBVIOUS
<1>2. \A c : Due(c) \in Nat
  BY <1>1, VisitsAssumption, FS_Subset, FS_CardinalityType DEF Due
<1>3. VisitSet \in SUBSET Bookings
  BY DEF VisitSet
<1> QED
  BY <1>2, <1>3, VisitsAssumption, FS_Subset, FS_CardinalityType DEF Visits

LEMMA BoundedDrift ==
    VisitsAreBookings <=> /\ -(crashes + overtaken) <= Drift
                          /\ Drift <= crashes + overtaken + floored
BY DEF VisitsAreBookings, Drift, Visits, VisitSet

LEMMA DueChanges ==
    ASSUME DeskInv, NEW w \in Workers, NEW q, request' = [request EXCEPT ![w] = q]
    PROVE  \A c \in {1, -1} : Due(c)' =
             Due(c) + (IF Owes(q, c) THEN 1 ELSE 0) - (IF Owes(request[w], c) THEN 1 ELSE 0)
<1> SUFFICES ASSUME NEW c \in {1, -1}
             PROVE  Due(c)' = Due(c) + (IF Owes(q, c) THEN 1 ELSE 0)
                                     - (IF Owes(request[w], c) THEN 1 ELSE 0)
  OBVIOUS
<1> DEFINE S == {v \in Workers : At(v, "count") /\ request[v].change = c}
           T == {v \in Workers : request'[v].pc = "count" /\ request'[v].change = c}
<1>1. request'[w] = q /\ \A v \in Workers : v # w => request'[v] = request[v]
  BY DEF DeskInv, TypeOK
<1>2. \A v \in Workers : v # w => (v \in S <=> v \in T)
  BY <1>1 DEF At
<1>3. (w \in S <=> Owes(request[w], c)) /\ (w \in T <=> Owes(q, c))
  BY <1>1 DEF At, Owes
<1>4. S \in SUBSET Workers /\ T \in SUBSET Workers /\ IsFiniteSet(Workers)
  BY VisitsAssumption
<1>5. Due(c) = Cardinality(S) /\ Due(c)' = Cardinality(T)
  BY DEF Due, At
<1> HIDE DEF S, T
<1>6. Cardinality(T) = Cardinality(S) + (IF w \in T THEN 1 ELSE 0) - (IF w \in S THEN 1 ELSE 0)
  BY <1>2, <1>4, OneChanges
<1> QED
  BY <1>3, <1>5, <1>6

LEMMA VisitsChange ==
    ASSUME DeskInv, NEW b \in Bookings, NEW s, status' = [status EXCEPT ![b] = s]
    PROVE  Visits' = Visits + (IF IsVisit(s) THEN 1 ELSE 0) - (IF IsVisit(status[b]) THEN 1 ELSE 0)
<1> DEFINE T == {c \in Bookings : IsVisit(status'[c])}
<1>1. status'[b] = s /\ \A c \in Bookings : c # b => status'[c] = status[c]
  BY DEF DeskInv, TypeOK
<1>2. \A c \in Bookings : c # b => (c \in VisitSet <=> c \in T)
  BY <1>1 DEF VisitSet
<1>3. (b \in VisitSet <=> IsVisit(status[b])) /\ (b \in T <=> IsVisit(s))
  BY <1>1 DEF VisitSet
<1>4. VisitSet \in SUBSET Bookings /\ T \in SUBSET Bookings /\ IsFiniteSet(Bookings)
  BY VisitsAssumption DEF VisitSet
<1>5. Visits' = Cardinality(T)
  BY DEF Visits, VisitSet, IsVisit
<1> HIDE DEF T
<1>6. Cardinality(T) = Cardinality(VisitSet) + (IF b \in T THEN 1 ELSE 0) - (IF b \in VisitSet THEN 1 ELSE 0)
  BY <1>2, <1>4, OneChanges
<1> QED
  BY <1>3, <1>5, <1>6 DEF Visits

\* What request q is still to add to total_visits.
Owed(q) == IF q.pc = "count" THEN q.change ELSE 0

LEMMA DriftMoves ==
    ASSUME DeskInv, NEW w \in Workers, NEW q, Moves(w, q), Visits' \in Nat
    PROVE  /\ Owed(q) \in {-1, 0, 1} /\ Owed(request[w]) \in {-1, 0, 1} /\ Drift \in Int
           /\ Drift' = Drift + (total_visits' - total_visits) + Owed(q) - Owed(request[w])
                             - (Visits' - Visits)
<1>1. q \in Request /\ request[w] \in Request /\ request' = [request EXCEPT ![w] = q]
  BY DEF Moves, DeskInv, TypeOK
<1>2. Owed(q) \in {-1, 0, 1} /\ Owed(request[w]) \in {-1, 0, 1}
  BY <1>1 DEF Owed, Request
<1>3. \A c \in {1, -1} : Due(c)' =
        Due(c) + (IF Owes(q, c) THEN 1 ELSE 0) - (IF Owes(request[w], c) THEN 1 ELSE 0)
  BY <1>1, DueChanges
<1>4. ASSUME NEW r \in Request
      PROVE  Owed(r) = (IF Owes(r, 1) THEN 1 ELSE 0) - (IF Owes(r, -1) THEN 1 ELSE 0)
  BY DEF Owed, Owes, Request
<1>5. /\ Owed(q) = (IF Owes(q, 1) THEN 1 ELSE 0) - (IF Owes(q, -1) THEN 1 ELSE 0)
      /\ Owed(request[w]) = (IF Owes(request[w], 1) THEN 1 ELSE 0)
                              - (IF Owes(request[w], -1) THEN 1 ELSE 0)
  BY <1>1, <1>4
<1>6. /\ Due(1)' = Due(1) + (IF Owes(q, 1) THEN 1 ELSE 0) - (IF Owes(request[w], 1) THEN 1 ELSE 0)
      /\ Due(-1)' = Due(-1) + (IF Owes(q, -1) THEN 1 ELSE 0)
                            - (IF Owes(request[w], -1) THEN 1 ELSE 0)
  BY <1>3
<1>7. \A c : /\ (IF Owes(q, c) THEN 1 ELSE 0) \in Int
             /\ (IF Owes(request[w], c) THEN 1 ELSE 0) \in Int
  OBVIOUS
<1>8. /\ Due(1)' \in Int /\ Due(-1)' \in Int
      /\ Due(1)' - Due(-1)' = Due(1) - Due(-1) + Owed(q) - Owed(request[w])
  BY <1>2, <1>5, <1>6, <1>7, Numbers
<1>9. total_visits \in Nat /\ total_visits' \in Nat
  BY DEF DeskInv, TypeOK, Moves
<1> QED
  BY <1>2, <1>8, <1>9, Numbers DEF Drift

\* A step of a worker that moves the drift by d, and the history by m and f.
LEMMA StepKeepsVisits ==
    ASSUME VisitInv, NEW w \in Workers, NEW q, Moves(w, q), NEW d \in Int, NEW m \in Nat,
           NEW f \in Nat, Drift' = Drift + d, -m <= d, d <= m + f,
           crashes' + overtaken' = crashes + overtaken + m, floored' = floored + f
    PROVE  VisitInv'
<1>1. DeskInv' /\ DeskInv
  BY MovesKeepDesk DEF VisitInv
<1>2. /\ crashes \in Nat /\ overtaken \in Nat /\ floored \in Nat
      /\ total_visits \in Nat
  BY <1>1 DEF DeskInv, TypeOK
<1>3. Drift \in Int
  BY <1>2, Numbers DEF Drift
<1>4. -(crashes + overtaken) <= Drift /\ Drift <= crashes + overtaken + floored
  BY BoundedDrift DEF VisitInv
<1> HIDE DEF Drift
<1>5. -(crashes' + overtaken') <= Drift' /\ Drift' <= crashes' + overtaken' + floored'
  BY <1>2, <1>3, <1>4
<1>6. VisitsAreBookings'
  BY <1>5 DEF VisitsAreBookings, Drift, Visits, VisitSet
<1> QED
  BY <1>1, <1>6 DEF VisitInv

LEMMA VisitsStay == UNCHANGED status => Visits' = Visits
BY DEF Visits, VisitSet

\* A step that changes no row and no counter, and owes nothing before or after.
LEMMA QuietKeepsVisits ==
    ASSUME VisitInv, NEW w \in Workers, NEW q, Moves(w, q), Owed(q) = 0, Owed(request[w]) = 0,
           UNCHANGED <<status, total_visits, crashes, overtaken, floored>>
    PROVE  VisitInv'
<1>1. Visits' = Visits /\ Visits' \in Nat
  BY VisitsStay, Numbers
<1>2. Drift' = Drift + 0
  BY <1>1, DriftMoves, Numbers DEF VisitInv, DeskInv, TypeOK
<1>3. crashes' + overtaken' = crashes + overtaken + 0 /\ floored' = floored + 0
  BY DEF VisitInv, DeskInv, TypeOK
<1> QED
  BY <1>2, <1>3, StepKeepsVisits

LEMMA CreateKeepsVisits ==
    ASSUME VisitInv, NEW w \in Workers, NEW b \in Bookings, Create(w, b)
    PROVE  VisitInv'
<1> DEFINE q == Saved(b, "pending", 1)
<1>0. DeskInv
  BY DEF VisitInv
<1>1. Moves(w, q)
  BY <1>0, CreateMoves
<1>2. /\ UNCHANGED <<total_visits, crashes, overtaken, floored>> /\ status[b] = "unborn"
      /\ status' = [status EXCEPT ![b] = "pending"] /\ request[w].pc = "idle"
  BY DEF Create, Begin, At, history
<1>3. Owed(q) = 1 /\ Owed(request[w]) = 0
  BY <1>2, SavedFields DEF Owed, BookingStatus
<1> HIDE DEF q
<1>4. IsVisit("pending") /\ ~IsVisit("unborn")
  BY DEF IsVisit, BookingStatus
<1>5. Visits' = Visits + 1
  <2>1. Visits' = Visits + (IF IsVisit("pending") THEN 1 ELSE 0)
                         - (IF IsVisit(status[b]) THEN 1 ELSE 0)
    BY <1>0, <1>2, VisitsChange
  <2> QED
    BY <1>2, <1>4, <2>1, Numbers
<1>6. Drift' = Drift + 0
  <2>1. /\ Drift \in Int /\ Drift' = Drift + (total_visits' - total_visits) + 1 - 0
                                           - (Visits' - Visits)
    BY <1>0, <1>1, <1>3, <1>5, DriftMoves, Numbers
  <2>2. total_visits \in Nat
    BY <1>0 DEF DeskInv, TypeOK
  <2> QED
    BY <1>2, <1>5, <2>1, <2>2, Numbers
<1>7. crashes' + overtaken' = crashes + overtaken + 0 /\ floored' = floored + 0
  BY <1>0, <1>2 DEF DeskInv, TypeOK
<1> QED
  BY <1>1, <1>6, <1>7, StepKeepsVisits

\* What a save of a row that is there owes is what it makes of the row, unless
\* the row was cancelled, confirmed or deleted since pre_save read it; then it
\* misses one visit, or counts one too many.
LEMMA WriteOwes ==
    ASSUME NEW q, NEW s \in BookingStatus,
           NEW made, made = (IF IsVisit(q.status) THEN 1 ELSE 0) - (IF IsVisit(s) THEN 1 ELSE 0)
    PROVE  /\ Change(q, FALSE) - made \in {-1, 0, 1}
           /\ q.prior = Standing(s) => Change(q, FALSE) - made = 0
<1> DEFINE owes == Change(q, FALSE)
<1>1. Standing(s) = IF IsVisit(s) THEN "visit" ELSE "cancelled"
  BY DEF Standing, NoRow, BookingStatus
<1>2. CASE IsVisit(q.status)
  <2>1. owes = IF q.prior = "cancelled" THEN 1 ELSE 0
    BY <1>2 DEF Change
  <2> HIDE DEF owes
  <2>2. CASE IsVisit(s)
    <3>1. made = 0 /\ Standing(s) = "visit"
      BY <1>1, <1>2, <2>2
    <3>2. owes - made \in {-1, 0, 1} /\ (q.prior = Standing(s) => owes - made = 0)
      BY <2>1, <3>1
    <3> QED
      BY <3>2 DEF owes
  <2>3. CASE ~IsVisit(s)
    <3>1. made = 1 /\ Standing(s) = "cancelled"
      BY <1>1, <1>2, <2>3
    <3>2. owes - made \in {-1, 0, 1} /\ (q.prior = Standing(s) => owes - made = 0)
      BY <2>1, <3>1
    <3> QED
      BY <3>2 DEF owes
  <2> QED
    BY <2>2, <2>3
<1>3. CASE ~IsVisit(q.status)
  <2>1. owes = IF q.prior = "visit" THEN -1 ELSE 0
    BY <1>3 DEF Change
  <2> HIDE DEF owes
  <2>2. CASE IsVisit(s)
    <3>1. made = -1 /\ Standing(s) = "visit"
      BY <1>1, <1>3, <2>2
    <3>2. owes - made \in {-1, 0, 1} /\ (q.prior = Standing(s) => owes - made = 0)
      BY <2>1, <3>1
    <3> QED
      BY <3>2 DEF owes
  <2>3. CASE ~IsVisit(s)
    <3>1. made = 0 /\ Standing(s) = "cancelled"
      BY <1>1, <1>3, <2>3
    <3>2. owes - made \in {-1, 0, 1} /\ (q.prior = Standing(s) => owes - made = 0)
      BY <2>1, <3>1
    <3> QED
      BY <3>2 DEF owes
  <2> QED
    BY <2>2, <2>3
<1> QED
  BY <1>2, <1>3

LEMMA WriteKeepsVisits ==
    ASSUME VisitInv, NEW w \in Workers, WriteRow(w)
    PROVE  VisitInv'
<1> DEFINE b == request[w].booking
           s == request[w].status
           made == (IF IsVisit(s) THEN 1 ELSE 0) - (IF IsVisit(status[b]) THEN 1 ELSE 0)
<1>0. DeskInv
  BY DEF VisitInv
<1>1. /\ request[w] \in Request /\ b \in Bookings /\ request[w].pc = "write"
      /\ UNCHANGED <<total_visits, credits, job, crashes, raced, floored>>
  BY <1>0, WriteMoves
<1>2. /\ crashes \in Nat /\ overtaken \in Nat /\ floored \in Nat /\ total_visits \in Nat
      /\ s \in BookingStatus \cup NoRow /\ status[b] \in BookingStatus \cup NoRow
  BY <1>0, <1>1 DEF DeskInv, TypeOK, Request
<1>3. Owed(request[w]) = 0 /\ made \in {-1, 0, 1}
  BY <1>1 DEF Owed
<1>4. ASSUME NEW c \in BOOLEAN, Writes(w, c)
      PROVE  /\ Moves(w, Saved(b, s, Change(request[w], c)))
             /\ Drift' = Drift + (Change(request[w], c) - made)
  <2> DEFINE q == Saved(b, s, Change(request[w], c))
  <2>1. Moves(w, q) /\ status' = [status EXCEPT ![b] = s]
    BY <1>4 DEF Writes
  <2>2. q.pc = "count" /\ q.change = Change(request[w], c)
    BY <1>1, <1>2, ChangeRange, SavedFields
  <2> HIDE DEF q
  <2>3. Owed(q) = Change(request[w], c)
    BY <2>2 DEF Owed
  <2>4. Visits' = Visits + (IF IsVisit(s) THEN 1 ELSE 0) - (IF IsVisit(status[b]) THEN 1 ELSE 0)
    BY <1>0, <1>1, <2>1, VisitsChange
  <2>5. IsFiniteSet(Bookings) /\ VisitSet' \subseteq Bookings
    BY VisitsAssumption DEF VisitSet
  <2>6. Visits' \in Nat
    BY <2>5, FS_Subset, FS_CardinalityType DEF Visits
  <2>7. Visits' - Visits = made
    BY <2>4, Numbers
  <2>8. /\ Drift \in Int /\ Owed(q) \in {-1, 0, 1}
        /\ Drift' = Drift + (total_visits' - total_visits) + Owed(q) - Owed(request[w])
                          - (Visits' - Visits)
    BY <1>0, <2>1, <2>6, DriftMoves
  <2>9. total_visits' - total_visits = 0
    BY <1>1, <1>2
  <2> HIDE DEF made
  <2>10. Drift' = Drift + Owed(q) - made
    BY <1>3, <2>7, <2>8, <2>9
  <2>11. Drift' = Drift + (Change(request[w], c) - made)
    BY <1>3, <2>3, <2>8, <2>10
  <2> QED
    BY <2>1, <2>11 DEF q
<1>5. CASE Exists(b) /\ Writes(w, FALSE) /\ NotesOvertaking(b, request[w].prior)
  <2> DEFINE d == Change(request[w], FALSE) - made
             q == Saved(b, s, Change(request[w], FALSE))
  <2>1. Moves(w, q) /\ Drift' = Drift + d
    BY <1>4, <1>5
  <2>2. d \in {-1, 0, 1} /\ (request[w].prior = Standing(status[b]) => d = 0)
    <3>1. status[b] \in BookingStatus
      BY <1>5 DEF Exists
    <3>2. /\ Change(request[w], FALSE) - made \in {-1, 0, 1}
          /\ request[w].prior = Standing(status[b]) => Change(request[w], FALSE) - made = 0
      BY <3>1, WriteOwes
    <3> QED
      BY <3>2 DEF d
  <2>3. /\ Standing(status[b]) = request[w].prior => overtaken' = overtaken
        /\ Standing(status[b]) # request[w].prior => overtaken' = overtaken + 1
    BY <1>0, <1>5, OvertakingCounts
  <2>4. floored' = floored + 0 /\ crashes' = crashes
    BY <1>1, <1>2
  <2> HIDE DEF d, q
  <2>5. CASE Standing(status[b]) = request[w].prior
    <3>1. crashes' + overtaken' = crashes + overtaken + 0 /\ -0 <= d /\ d <= 0 + 0 /\ d \in Int
      BY <1>2, <2>2, <2>3, <2>4, <2>5
    <3> QED
      BY <2>1, <2>4, <3>1, StepKeepsVisits
  <2>6. CASE Standing(status[b]) # request[w].prior
    <3>1. crashes' + overtaken' = crashes + overtaken + 1 /\ -1 <= d /\ d <= 1 + 0 /\ d \in Int
      BY <1>2, <2>2, <2>3, <2>4, <2>6
    <3> QED
      BY <2>1, <2>4, <3>1, StepKeepsVisits
  <2> QED
    BY <2>5, <2>6
<1>6. CASE ~Exists(b) /\ Writes(w, TRUE) /\ UNCHANGED overtaken
  <2> DEFINE q == Saved(b, s, Change(request[w], TRUE))
  <2>1. Moves(w, q) /\ Drift' = Drift + (Change(request[w], TRUE) - made)
    BY <1>4, <1>6
  <2>2. ~IsVisit(status[b])
    BY <1>6 DEF Exists, IsVisit
  <2>3. Change(request[w], TRUE) = IF IsVisit(s) THEN 1 ELSE 0
    BY DEF Change
  <2>4. Change(request[w], TRUE) - made = 0
    <3>1. made = IF IsVisit(s) THEN 1 ELSE 0
      BY <2>2
    <3> DEFINE owes == Change(request[w], TRUE)
    <3>2. owes = made
      BY <2>3, <3>1
    <3>3. made \in Int
      BY <1>3
    <3> HIDE DEF made, owes
    <3>4. owes - made = 0
      BY <3>2, <3>3
    <3> QED
      BY <3>4 DEF owes
  <2>5. crashes' + overtaken' = crashes + overtaken + 0 /\ floored' = floored + 0
    BY <1>1, <1>2, <1>6
  <2> HIDE DEF q
  <2>6. Drift' = Drift + 0
    BY <2>1, <2>4
  <2>7. Moves(w, q)
    BY <2>1
  <2> QED
    BY <2>5, <2>6, <2>7, StepKeepsVisits
<1>7. CASE Finish(w) /\ Moves(w, Idle) /\ UNCHANGED <<status, overtaken>>
  BY <1>1, <1>3, <1>7, IdleFields, QuietKeepsVisits DEF Owed
<1> QED
  BY <1>0, <1>5, <1>6, <1>7, WriteMoves

\* A decrement at zero is refused, and leaves the drift one too high.
LEMMA Decrements ==
    ASSUME DeskInv, NEW v, v = Decremented
    PROVE  /\ total_visits > 0 => v - total_visits = -1
           /\ total_visits = 0 => v - total_visits = 0
BY DecrementedType DEF DeskInv, TypeOK

LEMMA RemoveKeepsVisits ==
    ASSUME VisitInv, NEW w \in Workers, RemoveRow(w)
    PROVE  VisitInv'
<1> DEFINE b == request[w].booking
           s == request[w].status
           lost == IF IsVisit(status[b]) THEN 1 ELSE 0
           took == IF IsVisit(s) THEN 1 ELSE 0
           f == IF IsVisit(s) /\ total_visits = 0 THEN 1 ELSE 0
           m == IF Standing(status[b]) # Standing(s) THEN 1 ELSE 0
<1>0. DeskInv
  BY DEF VisitInv
<1>1. /\ Moves(w, Idle) /\ UNCHANGED crashes /\ request[w].pc = "remove" /\ b \in Bookings
      /\ status' = [status EXCEPT ![b] = "deleted"]
  BY <1>0, RemoveMoves
<1>2. /\ crashes \in Nat /\ overtaken \in Nat /\ floored \in Nat /\ total_visits \in Nat
  BY <1>0 DEF DeskInv, TypeOK
<1>3. Visits' = Visits - lost /\ Visits' \in Nat
  <2>1. Visits' = Visits + (IF IsVisit("deleted") THEN 1 ELSE 0) - lost
    BY <1>0, <1>1, VisitsChange
  <2>2. ~IsVisit("deleted")
    BY DEF IsVisit, BookingStatus
  <2>3. VisitSet' \subseteq Bookings
    BY DEF VisitSet
  <2>4. Visits' \in Nat
    BY <2>3, VisitsAssumption, FS_Subset, FS_CardinalityType DEF Visits
  <2> QED
    BY <2>1, <2>2, <2>4, Numbers
<1>4. total_visits' - total_visits = f - took
  <2>1. CASE IsVisit(s)
    BY <1>0, <1>2, <2>1, Decrements DEF RemoveRow
  <2>2. CASE ~IsVisit(s)
    BY <1>2, <2>2 DEF RemoveRow
  <2> QED
    BY <2>1, <2>2
<1>5. overtaken' = overtaken + m /\ floored' = floored + f
  <2>1. NotesOvertaking(b, Standing(s)) /\ NotesFloor(IsVisit(s)) /\ IsVisit(s) \in BOOLEAN
    BY DEF RemoveRow, IsVisit
  <2>2. /\ IsVisit(s) /\ total_visits = 0 => floored' = floored + 1
        /\ ~(IsVisit(s) /\ total_visits = 0) => floored' = floored
    BY <1>0, <2>1, FloorCounts
  <2>3. /\ Standing(status[b]) = Standing(s) => overtaken' = overtaken
        /\ Standing(status[b]) # Standing(s) => overtaken' = overtaken + 1
    BY <1>0, <2>1, OvertakingCounts
  <2> QED
    BY <1>2, <2>2, <2>3
<1>6. Standing(status[b]) = Standing(s) => lost = took
  BY DEF Standing, IsVisit, NoRow, BookingStatus
<1>7. Owed(Idle) = 0 /\ Owed(request[w]) = 0
  BY <1>1, IdleFields DEF Owed
<1>8. lost \in {0, 1} /\ took \in {0, 1} /\ f \in {0, 1} /\ m \in {0, 1}
      /\ (m = 0 => lost = took)
  BY <1>6
<1>9. /\ Drift \in Int
      /\ Drift' = Drift + (total_visits' - total_visits) + Owed(Idle) - Owed(request[w])
                        - (Visits' - Visits)
  BY <1>0, <1>1, <1>3, DriftMoves
<1>10. Visits' - Visits = -lost
  BY <1>3, <1>8, Numbers
<1> HIDE DEF lost, took, f, m
<1>11. Drift' = Drift + (f - took + lost)
  BY <1>4, <1>7, <1>8, <1>9, <1>10
<1> DEFINE d == f - took + lost
<1>12. d \in Int /\ -m <= d /\ d <= m + f /\ m \in Nat /\ f \in Nat
  BY <1>8
<1>13. crashes' + overtaken' = crashes + overtaken + m
  BY <1>1, <1>2, <1>5, <1>8
<1> HIDE DEF d
<1>14. Drift' = Drift + d
  BY <1>11 DEF d
<1> QED
  BY <1>1, <1>5, <1>12, <1>13, <1>14, StepKeepsVisits

\* The change a request owes is paid.
LEMMA CountKeepsVisits ==
    ASSUME VisitInv, NEW w \in Workers, UpdateCounters(w)
    PROVE  VisitInv'
<1> DEFINE change == request[w].change
           f == IF change = -1 /\ total_visits = 0 THEN 1 ELSE 0
<1>0. DeskInv
  BY DEF VisitInv
<1>1. /\ UNCHANGED <<status, crashes, overtaken>> /\ request[w].pc = "count"
      /\ request[w] \in Request
  BY <1>0, CountMoves
<1>2. PICK q : Moves(w, q) /\ q.pc \in {"idle", "look"}
  BY <1>0, CountMoves
<1>3. crashes \in Nat /\ overtaken \in Nat /\ floored \in Nat /\ total_visits \in Nat
  BY <1>0 DEF DeskInv, TypeOK
<1>4. change \in {-1, 0, 1} /\ Owed(request[w]) = change /\ Owed(q) = 0
  BY <1>1, <1>2 DEF Owed, Request
<1>5. Visits' = Visits /\ Visits' \in Nat
  BY <1>1, VisitsStay, Numbers
<1>6. total_visits' - total_visits = change + f
  <2>1. CASE change = -1
    <3>1. total_visits' = Decremented
      BY <2>1 DEF UpdateCounters
    <3> QED
      BY <1>0, <1>3, <2>1, <3>1, Decrements
  <2>2. CASE change # -1
    BY <1>3, <1>4, <2>2 DEF UpdateCounters
  <2> QED
    BY <2>1, <2>2
<1>7. floored' = floored + f
  <2>1. NotesFloor(change = -1)
    BY DEF UpdateCounters
  <2>2. /\ change = -1 /\ total_visits = 0 => floored' = floored + 1
        /\ ~(change = -1 /\ total_visits = 0) => floored' = floored
    BY <2>1, <1>3 DEF NotesFloor
  <2> QED
    BY <1>3, <2>2
<1>8. f \in {0, 1}
  OBVIOUS
<1>9. /\ Drift \in Int
      /\ Drift' = Drift + (total_visits' - total_visits) + Owed(q) - Owed(request[w])
                        - (Visits' - Visits)
  BY <1>0, <1>2, <1>5, DriftMoves
<1> HIDE DEF f, change
<1>10. Drift' = Drift + f
  BY <1>4, <1>5, <1>6, <1>8, <1>9, Numbers
<1>11. crashes' + overtaken' = crashes + overtaken + 0
  BY <1>1, <1>3
<1>12. f \in Int /\ f \in Nat /\ -0 <= f /\ f <= 0 + f
  BY <1>8
<1> QED
  BY <1>2, <1>7, <1>10, <1>11, <1>12, StepKeepsVisits

\* A worker that dies keeps back one change at most.
LEMMA CrashKeepsVisits ==
    ASSUME VisitInv, NEW w \in Workers, Crash(w)
    PROVE  VisitInv'
<1> DEFINE d == -Owed(request[w])
<1>0. DeskInv
  BY DEF VisitInv
<1>1. /\ Moves(w, Idle) /\ crashes' = crashes + 1
      /\ UNCHANGED <<status, total_visits, overtaken, floored>>
  BY <1>0, CrashMoves DEF history
<1>2. crashes \in Nat /\ overtaken \in Nat /\ floored \in Nat /\ total_visits \in Nat
  BY <1>0 DEF DeskInv, TypeOK
<1>3. Visits' = Visits /\ Visits' \in Nat
  BY <1>1, VisitsStay, Numbers
<1>4. Owed(Idle) = 0
  BY IdleFields DEF Owed
<1>5. /\ Drift \in Int /\ Owed(request[w]) \in {-1, 0, 1}
      /\ Drift' = Drift + (total_visits' - total_visits) + Owed(Idle) - Owed(request[w])
                        - (Visits' - Visits)
  BY <1>0, <1>1, <1>3, DriftMoves
<1>6. Drift' = Drift + d
  BY <1>1, <1>2, <1>3, <1>4, <1>5, Numbers
<1>7. /\ d \in Int /\ -1 <= d /\ d <= 1 + 0 /\ floored' = floored + 0
      /\ crashes' + overtaken' = crashes + overtaken + 1
  BY <1>1, <1>2, <1>5
<1> HIDE DEF d
<1> QED
  BY <1>1, <1>6, <1>7, StepKeepsVisits

LEMMA WorkersKeepVisits ==
    ASSUME VisitInv, NEW w \in Workers, Serve(w) \/ Crash(w)
    PROVE  VisitInv'
<1>0. DeskInv
  BY DEF VisitInv
<1>1. ASSUME NEW b \in Bookings, Requested(w, b)
      PROVE  VisitInv'
  <2>1. PICK pc \in {"prior", "remove"}, s \in BookingStatus, whole \in BOOLEAN :
          Load(w, b, pc, s, whole)
    BY <1>0, <1>1, RequestedIsLoad
  <2> DEFINE q == Loaded(pc, b, s, whole)
  <2>2. /\ UNCHANGED <<status, total_visits, crashes, overtaken, floored>>
        /\ request[w].pc = "idle"
    BY <2>1 DEF Load, Begin, At, history
  <2>3. Moves(w, q)
    BY <1>0, <2>1, LoadMoves
  <2>4. q.pc # "count"
    BY LoadedFields
  <2> HIDE DEF q
  <2>5. Owed(q) = 0 /\ Owed(request[w]) = 0
    BY <2>2, <2>4 DEF Owed
  <2> QED
    BY <2>2, <2>3, <2>5, QuietKeepsVisits
<1>2. CASE CapturePriorStatus(w)
  <2>1. PICK q : /\ Moves(w, q) /\ q.pc = "write" /\ request[w].pc = "prior"
                 /\ UNCHANGED <<status, total_visits, credits, job, crashes, history>>
    BY <1>0, <1>2, CapturePriorMoves
  <2>2. Owed(q) = 0 /\ Owed(request[w]) = 0
    BY <2>1 DEF Owed
  <2> QED
    BY <2>1, <2>2, QuietKeepsVisits DEF history
<1>3. CASE LookForCredit(w)
  <2>1. /\ UNCHANGED <<status, total_visits, crashes, overtaken, floored>>
        /\ request[w].pc = "look"
    BY <1>0, <1>3, LookMoves
  <2>2. PICK q : Moves(w, q) /\ q.pc \in {"idle", "award"}
    BY <1>0, <1>3, LookMoves
  <2>3. Owed(q) = 0 /\ Owed(request[w]) = 0
    BY <2>1, <2>2 DEF Owed
  <2> QED
    BY <2>1, <2>2, <2>3, QuietKeepsVisits
<1>4. CASE AwardPoints(w)
  <2>1. /\ Moves(w, Idle) /\ Awards(w, request[w].booking)
        /\ UNCHANGED <<status, total_visits, job, crashes, history>>
    BY <1>0, <1>4, AwardMoves
  <2>2. Owed(Idle) = 0 /\ Owed(request[w]) = 0
    BY <2>1, IdleFields DEF Owed, Awards, At
  <2> HIDE DEF Idle
  <2> QED
    BY <2>1, <2>2, QuietKeepsVisits DEF history
<1> QED
  BY <1>1, <1>2, <1>3, <1>4, CreateKeepsVisits, WriteKeepsVisits, RemoveKeepsVisits,
     CountKeepsVisits, CrashKeepsVisits DEF Serve, Requested

\* A booking that the job completes was a visit, and is one.
LEMMA JobKeepsVisits ==
    ASSUME VisitInv, Job
    PROVE  VisitInv'
<1>0. DeskInv
  BY DEF VisitInv
<1>1. DeskInv' /\ UNCHANGED <<total_visits, request, crashes, overtaken, floored>>
  BY <1>0, JobKeepsDesk DEF Job, JobSelect, JobLock, JobLook, JobCommit, JobCrash, history
<1>2. \A b \in Bookings : IsVisit(status'[b]) <=> IsVisit(status[b])
  <2>1. CASE JobCommit
    <3>1. /\ job.booking \in Bookings /\ status[job.booking] = "checked_in"
          /\ status' = [status EXCEPT ![job.booking] = "completed"]
      BY <1>0, <2>1, JobCommitsRows
    <3> QED
      BY <1>0, <3>1 DEF DeskInv, TypeOK, IsVisit, BookingStatus
  <2>2. CASE ~JobCommit
    BY <2>2 DEF Job, JobSelect, JobLock, JobLook, JobCrash
  <2> QED
    BY <2>1, <2>2
<1>3. Visits' = Visits
  <2>1. VisitSet' = VisitSet
    BY <1>2 DEF VisitSet, IsVisit
  <2> QED
    BY <2>1 DEF Visits
<1>4. Due(1)' = Due(1) /\ Due(-1)' = Due(-1)
  BY <1>1 DEF Due, At
<1>5. Drift' = Drift
  BY <1>1, <1>3, <1>4 DEF Drift
<1>6. -(crashes' + overtaken') <= Drift' /\ Drift' <= crashes' + overtaken' + floored'
  BY <1>1, <1>5, BoundedDrift DEF VisitInv
<1>7. VisitsAreBookings'
  BY <1>6 DEF VisitsAreBookings, Drift, Visits, VisitSet
<1> QED
  BY <1>1, <1>7 DEF VisitInv

\* total_visits is the number of the customer's bookings that are not
\* cancelled, once the saves under way have run their signal, whatever requests
\* make, cancel, confirm, edit, insert again and delete them at once: up to one
\* visit for each worker that died, for each save or deletion that another one
\* overtook, and, upwards, for each decrement that found nothing to take.
THEOREM VisitsAreBookingsHolds == Spec => []VisitsAreBookings
<1>1. Init => VisitInv
  <2> SUFFICES ASSUME Init PROVE VisitInv
    OBVIOUS
  <2>1. DeskInv
    BY InitialDesk
  <2>2. Due(1) = 0 /\ Due(-1) = 0
    <3>1. \A c : {w \in Workers : At(w, "count") /\ request[w].change = c} = {}
      BY IdleFields DEF Init, At
    <3> QED
      BY <3>1, FS_EmptySet DEF Due
  <2>3. Visits = 0
    <3>1. VisitSet = {}
      BY DEF Init, VisitSet, IsVisit, BookingStatus
    <3> QED
      BY <3>1, FS_EmptySet DEF Visits
  <2>4. VisitsAreBookings
    BY <2>2, <2>3, BoundedDrift DEF Init, Drift
  <2> QED
    BY <2>1, <2>4 DEF VisitInv
<1>2. VisitInv /\ [Next]_vars => VisitInv'
  <2> SUFFICES ASSUME VisitInv, [Next]_vars PROVE VisitInv'
    OBVIOUS
  <2>1. CASE Next
    BY <2>1, WorkersKeepVisits, JobKeepsVisits DEF Next
  <2>2. CASE UNCHANGED vars
    <3>1. DeskInv'
      BY <2>2 DEF vars, history, VisitInv, DeskInv, TypeOK, Hands, LockedIsCheckedIn
    <3>2. VisitsAreBookings'
      BY <2>2 DEF vars, history, VisitInv, VisitsAreBookings, Due, At
    <3> QED
      BY <3>1, <3>2 DEF VisitInv
  <2> QED
    BY <2>1, <2>2
<1>3. VisitInv => VisitsAreBookings
  BY DEF VisitInv
<1> QED
  BY <1>1, <1>2, <1>3, PTL DEF Spec
================================================================================
