------------------------------- MODULE Retention -------------------------------
\* The cohort and the churn score of a customer: core/retention.py, the nightly
\* recompute_retention command, and the counters it reads, which core/signals.py keeps as
\* bookings are made, cancelled and deleted.  A booking counts as a visit from the moment
\* it is made, with the day it is for, past or to come.  Time is in days; a score of 1.0
\* is 900.
EXTENDS Integers, SequencesExt
CONSTANTS
  Never,      \* last_visit_at is NULL
  MaxVisits,  \* bound on total_visits
  MaxMissed,  \* times in a row that the command may miss
  Days,       \* numbers of days ago, below 0 to come: time goes by from one to the next
  Starts      \* those a booking may start at when it is made or confirmed

RetentionAssumption ==
  /\ Days \subseteq Int /\ 0 \in Days /\ Starts \subseteq Days
  /\ Never \notin Int

VARIABLES
  row,     \* columns of Customer; `last` and `age`: days since last_visit_at, created_at
  job,     \* the row as the command read it, while it is at it
  missed,  \* times since the command last read the row
  unseen   \* history: a change of the counters, not yet in a row that the command saved
vars == <<row, job, missed, unseen>>

Idle == [op |-> "idle"]
Cohorts == <<"new", "active", "at_risk", "dormant", "lost">>
Rank(cohort) == CHOOSE i \in DOMAIN Cohorts : Cohorts[i] = cohort

Init ==
  /\ row = [visits |-> 0, last |-> Never, age |-> 0, cohort |-> "new", score |-> 0]
  /\ job = Idle /\ missed = 0 /\ unseen = FALSE

------------------------------------------------------------------------------
ComputeCohort(r) ==
  IF r.visits = 0 /\ r.age < 7 THEN "new"
  ELSE IF r.last = Never \/ r.last > 90 THEN "lost"
  ELSE IF r.last > 60 THEN "dormant"
  ELSE IF r.last > 30 THEN "at_risk" ELSE "active"

ComputeChurnScore(r) ==
  LET tenths == IF r.visits >= 5 THEN Min({20, r.visits}) ELSE 10
  IN  IF r.last = Never THEN 900 ELSE Min({900, Max({0, r.last}) * tenths})

\* SCORE_EPSILON.
Epsilon == 9
Apart(s, t) == Max({s - t, t - s})

\* Fault: both must differ.
ChangedBoth(read, cohort, score) ==
  {read.cohort # cohort /\ Apart(read.score, score) > Epsilon}

\* The scores are floats: a difference of just epsilon may fall on either side.
Changed(read, cohort, score) ==
  IF read.cohort = cohort /\ Apart(read.score, score) = Epsilon THEN BOOLEAN
  ELSE {read.cohort # cohort \/ Apart(read.score, score) > Epsilon}

\* The command reads a chunk of rows, and saves each row that changed: its own columns.
ReadRow ==
  /\ job = Idle
  /\ job' = [op |-> "save", read |-> row]
  /\ missed' = 0
  /\ UNCHANGED <<row, unseen>>

AsRead == row.visits = job.read.visits /\ row.last = job.read.last
SaveRow ==
  LET cohort == ComputeCohort(job.read)
      score  == ComputeChurnScore(job.read)
  IN  /\ job.op = "save"
      /\ \E changed \in Changed(job.read, cohort, score) :
           row' = IF changed THEN [row EXCEPT !.cohort = cohort, !.score = score] ELSE row
      /\ job' = Idle
      /\ unseen' = ~AsRead
      /\ UNCHANGED missed

\* _bump_last_visit, for a booking that starts on day d: the newer day is kept.
Bumped(d) == IF row.last = Never \/ d < row.last THEN d ELSE row.last

\* A booking is made, or a cancelled one confirmed again.  A process that dies between the
\* two updates leaves the day.
VisitCounted(d) ==
  /\ row.visits < MaxVisits
  /\ \E last \in {row.last, Bumped(d)} :
       row' = [row EXCEPT !.visits = @ + 1, !.last = last]
  /\ unseen' = TRUE
  /\ UNCHANGED <<job, missed>>

\* A booking that counted is cancelled or deleted: its day stays.
VisitTakenBack ==
  /\ row.visits > 0
  /\ row' = [row EXCEPT !.visits = @ - 1]
  /\ unseen' = TRUE
  /\ UNCHANGED <<job, missed>>

\* A run that is not over by the next day has died.  A bound: few nights are missed.
NextDay(d) == IF \E n \in Days : n > d THEN Min({n \in Days : n > d}) ELSE d
DayPasses ==
  /\ missed <= MaxMissed
  /\ row' = [row EXCEPT !.last = IF @ = Never THEN @ ELSE NextDay(@),
                        !.age = NextDay(@)]
  /\ missed' = missed + 1
  /\ job' = Idle
  /\ UNCHANGED unseen

Next == ReadRow \/ SaveRow \/ (\E d \in Starts : VisitCounted(d)) \/ VisitTakenBack \/ DayPasses
Spec == Init /\ [][Next]_vars

------------------------------------------------------------------------------
\* Cohort labels are "ordered 'increasing concern'", a score from engaged to lost.  The
\* night's job leaves the label that the days say and a score within epsilon of theirs,
\* though it skips rows that hardly changed, unless a booking was made, cancelled or
\* deleted while it was at it; and with no booking since the row it saved before, neither
\* the label nor, by more than epsilon, the score goes back: a day to come or a cancelled
\* booking moves them only when it is made or cancelled.
ConcernGrows ==
  [][job.op = "save" /\ job' = Idle /\ missed' = missed /\ AsRead =>
       /\ row'.cohort = ComputeCohort(row)
       /\ Apart(row'.score, ComputeChurnScore(row)) <= Epsilon
       /\ ~unseen => /\ Rank(row.cohort) <= Rank(row'.cohort)
                     /\ row.score <= row'.score + Epsilon]_vars
==============================================================================
