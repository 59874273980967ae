------------------------------ MODULE QrActions ------------------------------
\* The chips of a store's QR landing page and their order: QRActionListCreateView,
\* QRActionDetailView and their helpers in api/views.py, over core.models.QRAction.
\* Only the column `position` is kept.  A statement outside a transaction commits alone.
EXTENDS Integers, SequencesExt
CONSTANTS
  Chips,       \* rows that may be created
  Requests,    \* requests of the staff at one moment
  MaxPosition  \* bound on the positions a request names

VARIABLES
  position,  \* QRAction.position of the rows there are
  unborn,    \* the rows not created yet: keys are not reused
  request    \* what each request is about to do
vars == <<position, unborn, request>>

Idle == [op |-> "idle"]
NextPlace == IF position = <<>> THEN 0 ELSE Max(Range(position)) + 1
Init ==
  /\ position = <<>> /\ unborn = Chips
  /\ request = [r \in Requests |-> Idle]

Do(r, what) == request' = [request EXCEPT ![r] = what]
Answer(r) == Do(r, Idle) /\ UNCHANGED <<position, unborn>>
Without(c) == [d \in DOMAIN position \ {c} |-> position[d]]
With(c, p) == [d \in DOMAIN position \union {c} |-> IF d = c THEN p ELSE position[d]]
IsFree(p) == p \notin Range(position)

------------------------------------------------------------------------------
\* QRActionListCreateView.post: the position is named, or read as one past the last.
StartCreate(r) ==
  /\ request[r] = Idle /\ unborn # {}
  /\ \E p \in 0..MaxPosition \union {NextPlace} : Do(r, [op |-> "create", at |-> p])
  /\ UNCHANGED <<position, unborn>>

\* The unique constraint refuses a position that was taken since.
Create(r) ==
  /\ request[r].op = "create"
  /\ IF IsFree(request[r].at)
     THEN \E c \in unborn : /\ position' = With(c, request[r].at)
                            /\ unborn' = unborn \ {c}
                            /\ Do(r, Idle)
     ELSE Answer(r)

\* patch: the row is read and saved whole, its position as it was read; a row that was
\* deleted since is inserted again.  A new position is a transaction of its own.
StartPatch(r) ==
  /\ request[r] = Idle
  /\ \E c \in DOMAIN position, p \in 0..MaxPosition :
       Do(r, [op |-> "save", chip |-> c, read |-> position[c], to |-> p])
  /\ UNCHANGED <<position, unborn>>

Save(r) ==
  LET q == request[r]
  IN  /\ q.op = "save"
      /\ IF q.read \in Range(Without(q.chip)) THEN Answer(r)
         ELSE /\ position' = With(q.chip, q.read)
              /\ Do(r, IF q.to = q.read THEN Idle
                       ELSE [op |-> "lock", moves |-> <<q.chip>>, to |-> q.to])
              /\ UNCHANGED unborn

\* delete, then _compact_positions in another transaction.
Delete(r) ==
  /\ request[r] = Idle
  /\ \E c \in DOMAIN position : position' = Without(c)
  /\ Do(r, [op |-> "lock", moves |-> <<>>, to |-> 0])
  /\ UNCHANGED unborn

\* SELECT ... ORDER BY position FOR UPDATE: it sorts the rows it sees, then waits for
\* their locks.
Lock(r) ==
  /\ request[r].op = "lock"
  /\ Do(r, [op |-> "rewrite", moves |-> request[r].moves, to |-> request[r].to, seen |-> position])
  /\ UNCHANGED <<position, unborn>>

\* Rows in the order they were sorted in.
Sorted(rows, seen) ==
  CHOOSE s \in Surjection(1..Cardinality(rows), rows) :
    \A i, j \in DOMAIN s : i < j => seen[s[i]] < seen[s[j]]

\* The rows that were seen, less the ones deleted meanwhile.
Locked(seen) == DOMAIN seen \intersect DOMAIN position

\* _reorder_actions puts the moved row in at its clamped place among the others, in
\* order; _compact_positions has no row to move.
PutIn(others, q) ==
  LET at == Min({q.to, Len(others)})
  IN  SubSeq(others, 1, at) \o q.moves \o SubSeq(others, at + 1, Len(others))

\* Fault: the moved row is still among the others.
RenumberedTwice(q) == PutIn(Sorted(Locked(q.seen), q.seen), q)

Renumbered(q) == PutIn(Sorted(Locked(q.seen) \ Range(q.moves), q.seen), q)

\* The new places are written in two passes.  A moved row that is gone, or a row added
\* since on one of the places, undoes them; so does the end of the process.
Rewrite(r) ==
  LET rows == Renumbered(request[r])
      places == 0..(Len(rows) - 1)
  IN  /\ request[r].op = "rewrite"
      /\ Range(request[r].moves) \subseteq DOMAIN position
      /\ \A c \in DOMAIN position \ Range(rows) : position[c] \notin places
      /\ position' = [c \in DOMAIN position |->
           IF c \in Range(rows) THEN CHOOSE i \in places : rows[i + 1] = c ELSE position[c]]
      /\ Do(r, Idle) /\ UNCHANGED unborn

RollBack(r) == request[r].op \in {"create", "lock", "rewrite"} /\ Answer(r)

Next == \E r \in Requests :
  \/ StartCreate(r) \/ Create(r) \/ StartPatch(r) \/ Save(r) \/ Delete(r)
  \/ Lock(r) \/ Rewrite(r) \/ RollBack(r)
Spec == Init /\ [][Next]_vars

------------------------------------------------------------------------------
Rewrites(r) == request[r].op = "rewrite" /\ request'[r] = Idle /\ position' # position

\* PATCH: "the whole store's actions are re-positioned atomically so positions stay
\* contiguous".  When no row changed while the rewrite waited for its locks, the rows
\* end on the places from 0 without a gap, whatever gaps there were, the moved row on the
\* place asked for or the last, and the others in the order they had.
RowsLand ==
  \A r \in Requests : Rewrites(r) /\ request[r].seen = position =>
    LET moved == Range(request[r].moves)
        last  == Cardinality(DOMAIN position) - 1
    IN  /\ Range(position') = 0..last
        /\ \A c \in moved : position'[c] = Min({request[r].to, last})
        /\ \A c, d \in DOMAIN position \ moved :
             position[c] < position[d] => position'[c] < position'[d]
MoveLands == [][RowsLand]_vars
==============================================================================
