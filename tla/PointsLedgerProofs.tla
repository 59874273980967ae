--------------------------- MODULE PointsLedgerProofs ---------------------------
(***************************************************************************)
(* Proofs about the points ledger, for any customers, requests and         *)
(* amounts.  The inductive invariant says what a request relies on while   *)
(* it holds the lock: what it read of the customer's rows is still so,     *)
(* because whoever appends a row holds the same lock; and the rows are in  *)
(* the order of their timestamps, so the latest row is the last one.       *)
(***************************************************************************)
EXTENDS MCPointsLedger, FiniteSetTheorems, WellFoundedInduction, TLAPS

\* A customer's rows carry the clock readings of their insertion, in order.
InOrder(s) ==
    /\ \A i, j \in DOMAIN s : i <= j => s[i].created_at <= s[j].created_at
    /\ \A i \in DOMAIN s : s[i].created_at <= clock
LedgerInOrder == \A c \in Customers : InOrder(ledger[c])

\* The balance by position instead of by timestamp.
LastBalance(s) == IF s = <<>> THEN 0 ELSE s[Len(s)].balance_after

\* A request that was made has its arguments.
Made(q) == /\ q.customer \in Customers
           /\ q.source \in Source
           /\ q.delta \in Deltas(q.source)
RequestsAreMade == \A r \in Requests : request[r].pc # "idle" => Made(request[r])

LockHeld == \A r \in Requests :
    request[r].pc \in Locked => owner[request[r].customer] = r

\* What a request works out from the rows s of its customer, by the time now.
Draft(q, s, now) ==
    /\ q.pc \in {"insert", "commit"} => q.prior = LastBalance(s)
    /\ q.pc \in {"read", "insert", "commit"} /\ q.source = "redemption" =>
         LastBalance(s) + q.delta >= 0
    /\ q.pc = "commit" =>
         /\ q.row.source = q.source /\ q.row.delta = q.delta
         /\ q.row.balance_after = q.prior + q.delta
         /\ q.row \in PointTransaction
         /\ q.row.created_at <= now
         /\ \A i \in DOMAIN s : s[i].created_at <= q.row.created_at
DraftsAreCurrent == \A r \in Requests : request[r].pc \in Locked =>
                        Draft(request[r], ledger[request[r].customer], clock)

RedemptionsAreRows ==
    /\ IsFiniteSet(redemptions)
    /\ \A x \in redemptions : x.row \in DOMAIN ledger[x.customer]

IndInv ==
    /\ TypeOK
    /\ LedgerInOrder
    /\ RequestsAreMade
    /\ LockHeld
    /\ DraftsAreCurrent
    /\ RedemptionsAreRows
    /\ RunningBalance
    /\ RedemptionsCovered

---------------------------------------------------------------------------
LEMMA DeltaTypes ==
    ASSUME NEW source \in Source, NEW delta \in Deltas(source)
    PROVE  delta \in Int \ {0}
BY PointsAssumption DEF Source, Deltas, Adjustments

\* order_by("-created_at", "-id").first() is the last row.
LEMMA LatestIsLast ==
    ASSUME NEW s \in Seq(PointTransaction), s # <<>>,
           \A i, j \in DOMAIN s : i <= j => s[i].created_at <= s[j].created_at
    PROVE  Latest(s) = Len(s)
<1>1. Len(s) \in Nat /\ Len(s) \in DOMAIN s /\ DOMAIN s = 1..Len(s)
  OBVIOUS
<1>2. \A i \in DOMAIN s : s[i].created_at \in Nat
  <2>1. \A i \in DOMAIN s : s[i] \in PointTransaction
    BY <1>1
  <2> QED
    BY <2>1 DEF PointTransaction
<1> DEFINE IsLatest(i) == \A j \in DOMAIN s :
                             \/ s[j].created_at < s[i].created_at
                             \/ s[j].created_at = s[i].created_at /\ j <= i
<1>3. IsLatest(Len(s))
  <2> SUFFICES ASSUME NEW j \in DOMAIN s
               PROVE  \/ s[j].created_at < s[Len(s)].created_at
                      \/ s[j].created_at = s[Len(s)].created_at /\ j <= Len(s)
    OBVIOUS
  <2>1. j <= Len(s) /\ j \in Int
    BY <1>1
  <2>2. s[j].created_at <= s[Len(s)].created_at
    BY <1>1, <2>1
  <2> QED
    BY <1>1, <1>2, <2>1, <2>2
<1>4. ASSUME NEW i \in DOMAIN s, IsLatest(i)
      PROVE  i = Len(s)
  <2>1. i \in Int /\ i <= Len(s)
    BY <1>1
  <2>2. s[i].created_at <= s[Len(s)].created_at
    BY <1>1, <2>1
  <2>3. \/ s[Len(s)].created_at < s[i].created_at
        \/ s[Len(s)].created_at = s[i].created_at /\ Len(s) <= i
    BY <1>1, <1>4
  <2> QED
    BY <1>1, <1>2, <2>1, <2>2, <2>3
<1> HIDE DEF IsLatest
<1>5. Latest(s) = CHOOSE i \in DOMAIN s : IsLatest(i)
  BY DEF Latest, IsLatest
<1> QED
  BY <1>1, <1>3, <1>4, <1>5

LEMMA BalanceIsLast ==
    ASSUME TypeOK, LedgerInOrder, NEW c \in Customers
    PROVE  CurrentBalance(c) = LastBalance(ledger[c])
<1>1. ledger[c] \in Seq(PointTransaction)
  BY DEF TypeOK
<1> QED
  BY <1>1, LatestIsLast DEF CurrentBalance, LastBalance, LedgerInOrder, InOrder

\* The same of the next state.
LEMMA BalanceIsLastAfter ==
    ASSUME TypeOK', LedgerInOrder', NEW c \in Customers
    PROVE  CurrentBalance(c)' = LastBalance(ledger'[c])
<1>1. ledger'[c] \in Seq(PointTransaction)
  BY DEF TypeOK
<1> QED
  BY <1>1, LatestIsLast DEF CurrentBalance, LastBalance, LedgerInOrder, InOrder

LEMMA LastBalanceType ==
    ASSUME NEW s \in Seq(PointTransaction)
    PROVE  LastBalance(s) \in Int
<1>1. CASE s = <<>>
  BY <1>1 DEF LastBalance
<1>2. CASE s # <<>>
  <2>1. s[Len(s)] \in PointTransaction
    BY <1>2
  <2> QED
    BY <1>2, <2>1 DEF LastBalance, PointTransaction
<1> QED
  BY <1>1, <1>2

LEMMA LastBalanceOfAppend ==
    ASSUME NEW s \in Seq(PointTransaction), NEW row \in PointTransaction
    PROVE  LastBalance(Append(s, row)) = row.balance_after
<1>1. /\ Append(s, row) # <<>>
      /\ Append(s, row)[Len(Append(s, row))] = row
  OBVIOUS
<1> QED
  BY <1>1 DEF LastBalance

---------------------------------------------------------------------------
\* Every step leaves the rows alone, or commits one row.
LEMMA InitialRows ==
    ASSUME Init, NEW c \in Customers
    PROVE  /\ ledger[c] \in Seq(PointTransaction)
           /\ \A i \in DOMAIN ledger[c] :
                /\ i = 1 /\ ledger[c][i].created_at = 0
                /\ ledger[c][i].source = "backfill"
                /\ ledger[c][i].delta \in Nat
                /\ ledger[c][i].balance_after = ledger[c][i].delta
           /\ \/ ledger[c] = <<>>
              \/ Len(ledger[c]) = 1 /\ ledger[c][1].balance_after \in Backfills
<1>1. CASE ledger[c] = <<>>
  <2>1. ledger[c] \in Seq(PointTransaction) /\ DOMAIN ledger[c] = {}
    BY <1>1
  <2> QED
    BY <1>1, <2>1
<1>2. CASE ledger[c] # <<>>
  <2>1. PICK points \in Backfills : ledger[c] = <<Backfill(points)>>
    BY <1>2 DEF Init
  <2>2. points \in Nat \ {0} /\ points \in Int
    BY PointsAssumption
  <2>3. Backfill(points) \in PointTransaction
    BY <2>2 DEF Backfill, PointTransaction
  <2>4. /\ Len(<<Backfill(points)>>) = 1 /\ DOMAIN <<Backfill(points)>> = 1..1
        /\ <<Backfill(points)>>[1] = Backfill(points)
        /\ <<Backfill(points)>> \in Seq(PointTransaction)
    BY <2>3
  <2> QED
    BY <2>1, <2>2, <2>4 DEF Backfill
<1> QED
  BY <1>1, <1>2

LEMMA InitialInv == Init => IndInv
<1> SUFFICES ASSUME Init PROVE IndInv
  OBVIOUS
<1>1. TypeOK
  <2>1. ledger \in [Customers -> Seq(PointTransaction)]
    BY InitialRows DEF Init
  <2> QED
    BY <2>1 DEF Init, TypeOK, Request, IdleRequest
<1>2. LedgerInOrder /\ RunningBalance /\ RedemptionsCovered
  <2>1. clock = 0
    BY DEF Init
  <2> QED
    BY <2>1, InitialRows DEF LedgerInOrder, InOrder, RunningBalance, RedemptionsCovered
<1>3. RequestsAreMade /\ LockHeld /\ DraftsAreCurrent
  BY DEF Init, RequestsAreMade, LockHeld, DraftsAreCurrent, IdleRequest, Locked
<1>4. RedemptionsAreRows
  BY FS_EmptySet DEF Init, RedemptionsAreRows
<1> QED
  BY <1>1, <1>2, <1>3, <1>4 DEF IndInv

ReadersType ==
    /\ DOMAIN page = {"pc", "customer", "lifetime", "tier", "next"}
    /\ page.pc \in {"blank", "lifetime", "tier", "shown"}
    /\ DOMAIN audit = {"pc", "customer", "total", "balance"}
    /\ audit.pc \in {"idle", "summed", "reported"}

\* A step that commits nothing and only moves the clock forward: it is enough
\* that the requests still satisfy what is said of them.
LEMMA RowsStay ==
    ASSUME IndInv, UNCHANGED rows, clock' \in Nat, clock <= clock',
           owner' \in [Customers -> Requests \cup {NoRequest}],
           request' \in [Requests -> Request],
           ReadersType',
           \A r \in Requests :
             /\ request'[r].pc # "idle" => Made(request'[r])
             /\ request'[r].pc \in Locked =>
                  /\ owner'[request'[r].customer] = r
                  /\ Draft(request'[r], ledger[request'[r].customer], clock')
    PROVE  IndInv'
<1>1. TypeOK'
  BY DEF IndInv, TypeOK, ReadersType, rows
<1>2. RequestsAreMade' /\ LockHeld' /\ DraftsAreCurrent'
  BY DEF rows, RequestsAreMade, LockHeld, DraftsAreCurrent
<1>3. RunningBalance' /\ RedemptionsCovered' /\ RedemptionsAreRows'
  BY DEF IndInv, rows, RunningBalance, RedemptionsCovered, RedemptionsAreRows
<1>4. LedgerInOrder'
  <2> SUFFICES ASSUME NEW c \in Customers, NEW i \in DOMAIN ledger[c]
               PROVE  ledger[c][i].created_at <= clock'
    BY DEF IndInv, rows, LedgerInOrder, InOrder
  <2>1. ledger[c][i].created_at <= clock
    BY DEF IndInv, LedgerInOrder, InOrder
  <2>2. ledger[c][i] \in PointTransaction
    BY DEF IndInv, TypeOK
  <2>3. ledger[c][i].created_at \in Nat /\ clock \in Nat
    BY <2>2 DEF PointTransaction, IndInv, TypeOK
  <2> QED
    BY <2>1, <2>3
<1> QED
  BY <1>1, <1>2, <1>3, <1>4 DEF IndInv

\* A request r moves on its own: the other requests keep what they had.
LEMMA OneRequestMoves ==
    ASSUME IndInv, UNCHANGED <<rows, clock, readers>>,
           NEW r \in Requests, NEW q \in Request,
           request' = [request EXCEPT ![r] = q],
           owner' \in [Customers -> Requests \cup {NoRequest}],
           \A x \in Requests \ {r} : request[x].pc \in Locked =>
               owner'[request[x].customer] = owner[request[x].customer],
           q.pc # "idle" => Made(q),
           q.pc \in Locked => owner'[q.customer] = r /\ Draft(q, ledger[q.customer], clock)
    PROVE  IndInv'
<1>1. request' \in [Requests -> Request]
  BY DEF IndInv, TypeOK
<1>2. request'[r] = q /\ \A x \in Requests \ {r} : request'[x] = request[x]
  BY DEF IndInv, TypeOK
<1>3. ASSUME NEW x \in Requests
      PROVE  /\ request'[x].pc # "idle" => Made(request'[x])
             /\ request'[x].pc \in Locked =>
                  /\ owner'[request'[x].customer] = x
                  /\ Draft(request'[x], ledger[request'[x].customer], clock')
  <2>1. CASE x = r
    BY <1>2, <2>1
  <2>2. CASE x # r
    BY <1>2, <2>2 DEF IndInv, RequestsAreMade, LockHeld, DraftsAreCurrent
  <2> QED
    BY <2>1, <2>2
<1>4. clock \in Nat /\ clock <= clock
  BY DEF IndInv, TypeOK
<1> QED
  BY <1>1, <1>3, <1>4, RowsStay DEF readers, rows, ReadersType, IndInv, TypeOK

LEMMA BeginStep ==
    ASSUME IndInv, NEW r \in Requests, NEW c \in Customers, NEW source \in Source,
           NEW delta \in Deltas(source), Begin(r, c, source, delta)
    PROVE  IndInv'
<1> DEFINE q == [request[r] EXCEPT !.pc = "lock", !.customer = c,
                                   !.source = source, !.delta = delta]
<1>1. request[r] \in Request
  BY DEF IndInv, TypeOK
<1>2. q \in Request /\ q.pc = "lock"
  BY <1>1, DeltaTypes DEF Request
<1>3. Made(q)
  BY <1>1 DEF Made, Request
<1>4. request' = [request EXCEPT ![r] = q] /\ UNCHANGED <<rows, owner, clock, readers>>
  BY DEF Begin
<1>5. q.pc \notin Locked /\ owner' \in [Customers -> Requests \cup {NoRequest}]
  BY <1>2, <1>4 DEF Locked, IndInv, TypeOK
<1> HIDE DEF q
<1> QED
  BY <1>2, <1>3, <1>4, <1>5, OneRequestMoves

\* A request that only moves its pc.
LEMMA MovedRequest ==
    ASSUME IndInv, NEW r \in Requests, NEW pc, pc \in {"lock", "done"} \cup Locked,
           request[r].pc # "idle", NEW q, q = [request[r] EXCEPT !.pc = pc]
    PROVE  /\ q \in Request /\ q.pc = pc /\ Made(q)
           /\ q.customer = request[r].customer /\ q.source = request[r].source
           /\ q.delta = request[r].delta /\ q.prior = request[r].prior
           /\ q.row = request[r].row
<1>1. request[r] \in Request
  BY DEF IndInv, TypeOK
<1>2. Made(request[r])
  BY DEF IndInv, RequestsAreMade
<1>3. /\ q.customer = request[r].customer /\ q.source = request[r].source
      /\ q.delta = request[r].delta /\ q.prior = request[r].prior
      /\ q.row = request[r].row /\ q.pc = pc /\ q \in Request
  BY <1>1 DEF Request
<1> QED
  BY <1>2, <1>3 DEF Made

LEMMA LockStep ==
    ASSUME IndInv, NEW r \in Requests, Lock(r)
    PROVE  IndInv'
<1> DEFINE pc == IF request[r].source = "redemption" THEN "check" ELSE "read"
           q == [request[r] EXCEPT !.pc = pc]
<1>1. request[r].pc = "lock" /\ pc \in {"check", "read"}
  BY DEF Lock, RequestAt
<1>2. /\ q \in Request /\ q.pc = pc /\ Made(q)
      /\ q.customer = request[r].customer /\ q.source = request[r].source
  BY <1>1, MovedRequest DEF Locked
<1>3. /\ request' = [request EXCEPT ![r] = q]
      /\ owner' = [owner EXCEPT ![request[r].customer] = r]
      /\ UNCHANGED <<rows, clock, readers>>
  BY DEF Lock, GoTo
<1>4. /\ request[r].customer \in Customers
      /\ owner \in [Customers -> Requests \cup {NoRequest}]
  BY <1>2 DEF Made, IndInv, TypeOK
<1>5. /\ owner' \in [Customers -> Requests \cup {NoRequest}]
      /\ owner'[q.customer] = r
  BY <1>2, <1>3, <1>4
<1>6. ASSUME NEW x \in Requests \ {r}, request[x].pc \in Locked
      PROVE  owner'[request[x].customer] = owner[request[x].customer]
  <2>1. owner[request[x].customer] = x /\ x # NoRequest
    BY <1>6, NamesAssumption DEF IndInv, LockHeld
  <2>2. request[x].customer # request[r].customer
    BY <2>1 DEF Lock
  <2> QED
    BY <1>3, <2>2, <1>4
<1>7. Draft(q, ledger[q.customer], clock)
  BY <1>1, <1>2 DEF Draft
<1> HIDE DEF q, pc
<1> QED
  BY <1>2, <1>3, <1>5, <1>6, <1>7, OneRequestMoves

LEMMA CheckBalanceStep ==
    ASSUME IndInv, NEW r \in Requests, CheckBalance(r)
    PROVE  IndInv'
<1> DEFINE q == [request[r] EXCEPT !.pc = "read"]
<1>1. request[r].pc = "check"
  BY DEF CheckBalance, RequestAt
<1>2. /\ q \in Request /\ q.pc = "read" /\ Made(q)
      /\ q.customer = request[r].customer /\ q.source = request[r].source
      /\ q.delta = request[r].delta
  BY <1>1, MovedRequest DEF Locked
<1>3. request' = [request EXCEPT ![r] = q] /\ UNCHANGED <<rows, owner, clock, readers>>
  BY DEF CheckBalance, GoTo
<1>4. owner' \in [Customers -> Requests \cup {NoRequest}] /\ owner'[q.customer] = r
  BY <1>1, <1>2, <1>3 DEF IndInv, TypeOK, LockHeld, Locked
<1>5. LastBalance(ledger[q.customer]) + q.delta >= 0
  <2> DEFINE c == q.customer
  <2>1. c \in Customers /\ q.delta \in Int
    BY <1>2, DeltaTypes DEF Made
  <2>2. CurrentBalance(c) >= -q.delta
    BY <1>2 DEF CheckBalance, Affords
  <2>3. CurrentBalance(c) = LastBalance(ledger[c])
    BY <2>1, BalanceIsLast DEF IndInv
  <2>4. ledger[c] \in Seq(PointTransaction)
    BY <2>1 DEF IndInv, TypeOK
  <2>5. LastBalance(ledger[c]) \in Int
    BY <2>4, LastBalanceType
  <2> HIDE DEF c
  <2>6. LastBalance(ledger[c]) + q.delta >= 0
    BY <2>1, <2>2, <2>3, <2>5
  <2> QED
    BY <2>6 DEF c
<1>6. Draft(q, ledger[q.customer], clock)
  BY <1>2, <1>5 DEF Draft
<1> HIDE DEF q
<1> QED
  BY <1>2, <1>3, <1>4, <1>6, OneRequestMoves

\* Refusal and crash end the transaction and change no row.
LEMMA EndStep ==
    ASSUME IndInv, NEW r \in Requests, request[r].pc \in {"lock"} \cup Locked, End(r),
           UNCHANGED <<rows, clock, readers>>
    PROVE  IndInv'
<1> DEFINE q == [request[r] EXCEPT !.pc = "done"]
<1>1. q \in Request /\ q.pc = "done" /\ Made(q)
  BY MovedRequest DEF Locked
<1>2. /\ request' = [request EXCEPT ![r] = q]
      /\ owner' = [c \in Customers |-> IF owner[c] = r THEN NoRequest ELSE owner[c]]
  BY DEF End, GoTo
<1>3. owner' \in [Customers -> Requests \cup {NoRequest}]
  BY <1>2 DEF IndInv, TypeOK
<1>4. ASSUME NEW x \in Requests \ {r}, request[x].pc \in Locked
      PROVE  owner'[request[x].customer] = owner[request[x].customer]
  <2>1. owner[request[x].customer] = x /\ request[x].customer \in Customers
    BY <1>4 DEF IndInv, LockHeld, RequestsAreMade, Made, Locked
  <2> QED
    BY <1>2, <2>1
<1>5. q.pc \notin Locked
  BY <1>1 DEF Locked
<1> HIDE DEF q
<1> QED
  BY <1>1, <1>2, <1>3, <1>4, <1>5, OneRequestMoves

LEMMA ReadLatestStep ==
    ASSUME IndInv, NEW r \in Requests, ReadLatest(r)
    PROVE  IndInv'
<1> DEFINE c == request[r].customer
           q == [request[r] EXCEPT !.pc = "insert", !.prior = CurrentBalance(c)]
<1>1. request[r].pc = "read" /\ request[r] \in Request /\ Made(request[r])
  BY DEF ReadLatest, RequestAt, IndInv, TypeOK, RequestsAreMade
<1>2. c \in Customers /\ ledger[c] \in Seq(PointTransaction)
  BY <1>1 DEF Made, IndInv, TypeOK
<1>3. CurrentBalance(c) = LastBalance(ledger[c]) /\ CurrentBalance(c) \in Int
  <2>1. CurrentBalance(c) = LastBalance(ledger[c])
    BY <1>2, BalanceIsLast DEF IndInv
  <2> QED
    BY <1>2, <2>1, LastBalanceType
<1>4. /\ q \in Request /\ q.pc = "insert" /\ q.customer = c /\ q.delta = request[r].delta
      /\ q.source = request[r].source /\ q.prior = CurrentBalance(c)
  BY <1>1, <1>3 DEF Request, Locked
<1>5. Made(q)
  BY <1>1, <1>4 DEF Made
<1>6. request' = [request EXCEPT ![r] = q] /\ UNCHANGED <<rows, owner, clock, readers>>
  BY DEF ReadLatest
<1>7. owner' \in [Customers -> Requests \cup {NoRequest}] /\ owner'[q.customer] = r
  BY <1>1, <1>4, <1>6 DEF IndInv, TypeOK, LockHeld, Locked
<1>8. Draft(q, ledger[q.customer], clock)
  <2>1. Draft(request[r], ledger[c], clock)
    BY <1>1 DEF IndInv, DraftsAreCurrent, Locked
  <2> QED
    BY <1>1, <1>3, <1>4, <2>1 DEF Draft
<1> HIDE DEF q
<1> QED
  BY <1>4, <1>5, <1>6, <1>7, <1>8, OneRequestMoves

LEMMA InsertStep ==
    ASSUME IndInv, NEW r \in Requests, Insert(r)
    PROVE  IndInv'
<1> DEFINE c == request[r].customer
           row == [source |-> request[r].source, delta |-> request[r].delta,
                   balance_after |-> request[r].prior + request[r].delta,
                   created_at |-> clock]
           q == [request[r] EXCEPT !.pc = "commit", !.row = row]
<1>1. request[r].pc = "insert" /\ request[r] \in Request /\ Made(request[r])
  BY DEF Insert, RequestAt, IndInv, TypeOK, RequestsAreMade
<1>2. c \in Customers /\ ledger[c] \in Seq(PointTransaction) /\ clock \in Nat
  BY <1>1 DEF Made, IndInv, TypeOK
<1>3. row \in PointTransaction
  <2>1. request[r].source \in Source /\ request[r].delta \in Int \ {0}
    BY <1>1, DeltaTypes DEF Made
  <2>2. request[r].prior \in Int
    BY <1>1 DEF Request
  <2> QED
    BY <1>2, <2>1, <2>2 DEF PointTransaction
<1>4. /\ q \in Request /\ q.pc = "commit" /\ q.customer = c /\ q.delta = request[r].delta
      /\ q.source = request[r].source /\ q.prior = request[r].prior /\ q.row = row
  BY <1>1, <1>3 DEF Request, Locked
<1>5. Made(q)
  BY <1>1, <1>4 DEF Made
<1>6. request' = [request EXCEPT ![r] = q] /\ UNCHANGED <<rows, owner, clock, readers>>
  BY DEF Insert
<1>7. owner' \in [Customers -> Requests \cup {NoRequest}] /\ owner'[q.customer] = r
  BY <1>1, <1>4, <1>6 DEF IndInv, TypeOK, LockHeld, Locked
<1>8. Draft(q, ledger[q.customer], clock)
  <2>1. Draft(request[r], ledger[c], clock)
    BY <1>1 DEF IndInv, DraftsAreCurrent, Locked
  <2>2. \A i \in DOMAIN ledger[c] : ledger[c][i].created_at <= clock
    BY <1>2 DEF IndInv, LedgerInOrder, InOrder
  <2>3. /\ row.source = request[r].source /\ row.delta = request[r].delta
        /\ row.balance_after = request[r].prior + request[r].delta
        /\ row.created_at = clock /\ clock <= clock
    BY <1>2
  <2> HIDE DEF row, q
  <2> QED
    BY <1>1, <1>3, <1>4, <2>1, <2>2, <2>3 DEF Draft
<1> HIDE DEF q
<1> QED
  BY <1>4, <1>5, <1>6, <1>7, <1>8, OneRequestMoves

LEMMA TickStep ==
    ASSUME IndInv, Tick
    PROVE  IndInv'
<1>1. clock \in Nat /\ clock' = clock + 1
  BY DEF Tick, IndInv, TypeOK
<1>2. ASSUME NEW r \in Requests, request[r].pc \in Locked
      PROVE  Draft(request[r], ledger[request[r].customer], clock')
  <2>1. Draft(request[r], ledger[request[r].customer], clock)
    BY <1>2 DEF IndInv, DraftsAreCurrent
  <2>2. request[r].pc = "commit" => request[r].row.created_at <= clock'
    <3> SUFFICES ASSUME request[r].pc = "commit"
                 PROVE  request[r].row.created_at <= clock'
      OBVIOUS
    <3>1. request[r].row \in PointTransaction /\ request[r].row.created_at <= clock
      BY <2>1 DEF Draft
    <3>2. request[r].row.created_at \in Nat
      BY <3>1 DEF PointTransaction
    <3> QED
      BY <1>1, <3>1, <3>2
  <2> QED
    BY <2>1, <2>2 DEF Draft
<1>3. \A r \in Requests :
        /\ request'[r].pc # "idle" => Made(request'[r])
        /\ request'[r].pc \in Locked =>
             /\ owner'[request'[r].customer] = r
             /\ Draft(request'[r], ledger[request'[r].customer], clock')
  BY <1>2 DEF Tick, IndInv, RequestsAreMade, LockHeld
<1> QED
  BY <1>1, <1>3, RowsStay DEF Tick, readers, ReadersType, IndInv, TypeOK

LEMMA ReadStep ==
    ASSUME IndInv, Read
    PROVE  IndInv'
<1>1. /\ UNCHANGED <<rows, owner, request, clock>>
      /\ ReadersType'
  BY DEF ReadersType, Read, PageLifetime, PageTier, PageNextTier, AuditSum, AuditLatest, IndInv, TypeOK
<1>2. clock \in Nat /\ clock <= clock
  BY DEF IndInv, TypeOK
<1>3. \A r \in Requests :
        /\ request'[r].pc # "idle" => Made(request'[r])
        /\ request'[r].pc \in Locked =>
             /\ owner'[request'[r].customer] = r
             /\ Draft(request'[r], ledger[request'[r].customer], clock')
  BY <1>1 DEF IndInv, RequestsAreMade, LockHeld, DraftsAreCurrent
<1> QED
  BY <1>1, <1>2, <1>3, RowsStay DEF IndInv, TypeOK

---------------------------------------------------------------------------
\* A commit: the row is added at the end, and whoever else is at work on the
\* rows of this customer would have to hold the same lock.
LEMMA CommitStep ==
    ASSUME IndInv, NEW r \in Requests, Commit(r)
    PROVE  IndInv'
<1> DEFINE q == request[r]
           c == q.customer
           s == ledger[c]
           n == Len(s) + 1
<1>1. /\ q.pc = "commit" /\ q \in Request /\ Made(q) /\ owner[c] = r
      /\ Draft(q, s, clock)
  BY DEF Commit, RequestAt, IndInv, TypeOK, RequestsAreMade, LockHeld, DraftsAreCurrent,
         Locked
<1>2. /\ c \in Customers /\ s \in Seq(PointTransaction) /\ clock \in Nat
      /\ q.row \in PointTransaction /\ Len(s) \in Nat
  BY <1>1 DEF Made, Draft, IndInv, TypeOK
<1>3. /\ ledger' = [ledger EXCEPT ![c] = Append(s, q.row)]
      /\ request' = [request EXCEPT ![r].pc = "done"]
      /\ owner' = [x \in Customers |-> IF owner[x] = r THEN NoRequest ELSE owner[x]]
      /\ UNCHANGED <<clock, readers>>
  BY <1>2 DEF Commit, AppendRow, End, GoTo, IndInv, TypeOK
<1>4. \/ redemptions' = redemptions
      \/ q.source = "redemption" /\ redemptions' = redemptions \cup {[customer |-> c, row |-> n]}
  BY DEF Commit
<1>5. /\ DOMAIN Append(s, q.row) = 1..n
      /\ Append(s, q.row)[n] = q.row
      /\ \A i \in DOMAIN s : Append(s, q.row)[i] = s[i]
      /\ DOMAIN s = 1..Len(s)
      /\ Append(s, q.row) \in Seq(PointTransaction)
  BY <1>2
<1>6. /\ ledger'[c] = Append(s, q.row)
      /\ \A x \in Customers \ {c} : ledger'[x] = ledger[x]
  BY <1>2, <1>3 DEF IndInv, TypeOK
<1> HIDE DEF n, s, c, q
<1>7. TypeOK'
  <2>1. ledger' \in [Customers -> Seq(PointTransaction)]
    BY <1>2, <1>3, <1>5 DEF IndInv, TypeOK
  <2>2. redemptions' \subseteq [customer : Customers, row : Nat \ {0}]
    <3>1. n \in Nat \ {0}
      BY <1>2 DEF n
    <3> QED
      BY <1>2, <1>4, <3>1 DEF IndInv, TypeOK
  <2>3. request' \in [Requests -> Request]
    <3>1. [request[r] EXCEPT !.pc = "done"] \in Request
      BY <1>1 DEF Request, q
    <3> QED
      BY <1>3, <3>1 DEF IndInv, TypeOK
  <2>4. owner' \in [Customers -> Requests \cup {NoRequest}]
    BY <1>3 DEF IndInv, TypeOK
  <2> QED
    BY <1>3, <2>1, <2>2, <2>3, <2>4 DEF IndInv, TypeOK, readers
<1>8. LedgerInOrder'
  <2> SUFFICES ASSUME NEW x \in Customers PROVE InOrder(ledger[x])'
    BY DEF LedgerInOrder
  <2>1. CASE x # c
    BY <1>3, <1>6, <2>1 DEF IndInv, LedgerInOrder, InOrder
  <2>2. CASE x = c
    <3>1. InOrder(s)
      BY <1>2 DEF IndInv, LedgerInOrder, s
    <3>2. /\ \A i \in DOMAIN s : s[i].created_at <= q.row.created_at
          /\ q.row.created_at <= clock /\ q.row.created_at \in Nat
      BY <1>1, <1>2 DEF Draft, PointTransaction
    <3>3. \A i \in 1..n : i \in DOMAIN s \/ i = n
      BY <1>2, <1>5 DEF n
    <3>4. \A i \in DOMAIN s : i < n
      BY <1>2, <1>5 DEF n
    <3>5. \A i, j \in 1..n : i <= j =>
            Append(s, q.row)[i].created_at <= Append(s, q.row)[j].created_at
      <4> SUFFICES ASSUME NEW i \in 1..n, NEW j \in 1..n, i <= j
                   PROVE  Append(s, q.row)[i].created_at <= Append(s, q.row)[j].created_at
        OBVIOUS
      <4>1. CASE j = n /\ i = n
        BY <1>5, <3>2, <4>1
      <4>2. CASE j = n /\ i \in DOMAIN s
        BY <1>5, <3>2, <4>2
      <4>3. CASE j \in DOMAIN s
        <5>1. i \in DOMAIN s
          BY <1>2, <1>5, <4>3 DEF n
        <5> QED
          BY <1>5, <3>1, <4>3, <5>1 DEF InOrder
      <4> QED
        BY <3>3, <4>1, <4>2, <4>3
    <3>6. \A i \in 1..n : Append(s, q.row)[i].created_at <= clock
      BY <1>5, <3>1, <3>2, <3>3 DEF InOrder
    <3> QED
      BY <1>3, <1>5, <1>6, <2>2, <3>5, <3>6 DEF InOrder
  <2> QED
    BY <2>1, <2>2
<1>9. \A x \in Requests \ {r} : request'[x] = request[x]
  BY <1>3 DEF IndInv, TypeOK
<1>10. request'[r].pc = "done" /\ Made(request'[r])
  BY <1>1, <1>3 DEF IndInv, TypeOK, Request, Made, q
<1>11. RequestsAreMade'
  BY <1>9, <1>10 DEF IndInv, RequestsAreMade
<1>12. ASSUME NEW x \in Requests, request'[x].pc \in Locked
       PROVE  /\ x # r /\ request'[x] = request[x]
              /\ request[x].customer \in Customers \ {c}
              /\ owner[request[x].customer] = x
  <2>1. x # r
    BY <1>10, <1>12 DEF Locked
  <2>2. request'[x] = request[x]
    BY <1>9, <2>1
  <2>3. owner[request[x].customer] = x /\ request[x].customer \in Customers
    BY <1>12, <2>2 DEF IndInv, LockHeld, RequestsAreMade, Made, Locked
  <2> QED
    BY <1>1, <2>1, <2>2, <2>3
<1>13. LockHeld'
  BY <1>3, <1>12 DEF LockHeld
<1>14. DraftsAreCurrent'
  <2> SUFFICES ASSUME NEW x \in Requests, request'[x].pc \in Locked
               PROVE  Draft(request'[x], ledger'[request'[x].customer], clock')
    BY DEF DraftsAreCurrent
  <2>1. /\ request'[x] = request[x] /\ request[x].pc \in Locked
        /\ ledger'[request[x].customer] = ledger[request[x].customer]
    BY <1>6, <1>12
  <2> QED
    BY <1>3, <2>1 DEF IndInv, DraftsAreCurrent
<1>15. RedemptionsAreRows'
  <2>1. IsFiniteSet(redemptions')
    BY <1>4, FS_AddElement DEF IndInv, RedemptionsAreRows
  <2>2. ASSUME NEW x \in redemptions' PROVE x.row \in DOMAIN ledger'[x.customer]
    <3>1. CASE x \in redemptions
      <4>1. x.row \in DOMAIN ledger[x.customer] /\ x.customer \in Customers
        BY <3>1 DEF IndInv, RedemptionsAreRows, TypeOK
      <4>2. CASE x.customer = c
        BY <1>2, <1>5, <1>6, <4>1, <4>2 DEF n, s
      <4> QED
        BY <1>6, <4>1, <4>2
    <3>2. CASE x = [customer |-> c, row |-> n]
      <4>1. n \in 1..n
        BY <1>2 DEF n
      <4> QED
        BY <1>5, <1>6, <3>2, <4>1
    <3> QED
      BY <1>4, <3>1, <3>2
  <2> QED
    BY <2>1, <2>2 DEF RedemptionsAreRows
<1>16. LastBalance(s) = (IF n = 1 THEN 0 ELSE s[n - 1].balance_after)
  <2>1. n = 1 <=> s = <<>>
    BY <1>2 DEF n
  <2>2. n - 1 = Len(s)
    BY <1>2 DEF n
  <2> QED
    BY <2>1, <2>2 DEF LastBalance
<1>17. RunningBalance'
  <2> SUFFICES ASSUME NEW x \in Customers, NEW i \in DOMAIN ledger'[x]
               PROVE  ledger'[x][i].balance_after =
                        (IF i = 1 THEN 0 ELSE ledger'[x][i - 1].balance_after) + ledger'[x][i].delta
    BY DEF RunningBalance
  <2>1. CASE x # c
    BY <1>6, <2>1 DEF IndInv, RunningBalance
  <2>2. CASE x = c /\ i \in DOMAIN s
    <3>1. i # 1 => i - 1 \in DOMAIN s
      BY <1>2, <1>5, <2>2
    <3>2. s[i].balance_after = (IF i = 1 THEN 0 ELSE s[i - 1].balance_after) + s[i].delta
      BY <1>2, <2>2 DEF IndInv, RunningBalance, s
    <3> QED
      BY <1>5, <1>6, <2>2, <3>1, <3>2
  <2>3. CASE x = c /\ i = n
    <3>1. q.row.balance_after = LastBalance(s) + q.row.delta
      BY <1>1 DEF Draft
    <3>2. n # 1 => n - 1 \in DOMAIN s
      BY <1>2, <1>5 DEF n
    <3> QED
      BY <1>5, <1>6, <1>16, <2>3, <3>1, <3>2
  <2> QED
    BY <1>2, <1>5, <1>6, <2>1, <2>2, <2>3 DEF n
<1>18. RedemptionsCovered'
  <2> SUFFICES ASSUME NEW x \in Customers, NEW i \in DOMAIN ledger'[x],
                      ledger'[x][i].source = "redemption"
               PROVE  ledger'[x][i].balance_after >= 0
    BY DEF RedemptionsCovered
  <2>1. CASE x # c
    BY <1>6, <2>1 DEF IndInv, RedemptionsCovered
  <2>2. CASE x = c /\ i \in DOMAIN s
    BY <1>2, <1>5, <1>6, <2>2 DEF IndInv, RedemptionsCovered, s
  <2>3. CASE x = c /\ i = n
    BY <1>1, <1>5, <1>6, <2>3 DEF Draft
  <2> QED
    BY <1>2, <1>5, <1>6, <2>1, <2>2, <2>3 DEF n
<1> QED
  BY <1>7, <1>8, <1>11, <1>13, <1>14, <1>15, <1>17, <1>18 DEF IndInv

LEMMA StutterStep ==
    ASSUME IndInv, UNCHANGED vars
    PROVE  IndInv'
BY DEF vars, IndInv, TypeOK, LedgerInOrder, InOrder, RequestsAreMade, LockHeld,
       DraftsAreCurrent, RedemptionsAreRows, RunningBalance, RedemptionsCovered

LEMMA InductiveStep == IndInv /\ [Next]_vars => IndInv'
<1> SUFFICES ASSUME IndInv, [Next]_vars PROVE IndInv'
  OBVIOUS
<1>1. ASSUME NEW r \in Requests, Serve(r) PROVE IndInv'
  <2>1. ASSUME NEW c \in Customers, NEW source \in Source, NEW delta \in Deltas(source),
               Begin(r, c, source, delta)
        PROVE  IndInv'
    BY <2>1, BeginStep
  <2>2. CASE Refuse(r)
    BY <2>2, EndStep DEF Refuse, RequestAt, Locked
  <2> QED
    BY <1>1, <2>1, <2>2, LockStep, CheckBalanceStep, ReadLatestStep, InsertStep, CommitStep
       DEF Serve
<1>2. ASSUME NEW r \in Requests, Crash(r) PROVE IndInv'
  BY <1>2, EndStep DEF Crash
<1> QED
  BY <1>1, <1>2, ReadStep, TickStep, StutterStep DEF Next

\* The inductive invariant holds in every reachable state.
THEOREM InductiveInvariant == Spec => []IndInv
<1> QED
  BY InitialInv, InductiveStep, PTL DEF Spec

\* Every variable keeps its type.
THEOREM TypeCorrect == Spec => []TypeOK
<1>1. IndInv => TypeOK
  BY DEF IndInv
<1> QED
  BY <1>1, InductiveInvariant, PTL

\* award_points never loses or repeats a concurrent change: each row continues
\* the balance of the row before it.
THEOREM RunningBalanceHolds == Spec => []RunningBalance
<1>1. IndInv => RunningBalance
  BY DEF IndInv
<1> QED
  BY <1>1, InductiveInvariant, PTL

\* No redemption overdraws the balance, however many run at once.
THEOREM RedemptionsCoveredHolds == Spec => []RedemptionsCovered
<1>1. IndInv => RedemptionsCovered
  BY DEF IndInv
<1> QED
  BY <1>1, InductiveInvariant, PTL

---------------------------------------------------------------------------
(* The ledger implements PointsAccount.                                    *)

Taken(c) == {x \in redemptions : x.customer = c}

\* What a step does to the rows: nothing, or one commit.
LEMMA RowsChangeByCommit ==
    ASSUME [Next]_vars
    PROVE  UNCHANGED rows \/ \E r \in Requests : Commit(r)
BY DEF Next, Serve, Begin, Lock, CheckBalance, Refuse, ReadLatest, Insert, Crash, Tick,
       Read, PageLifetime, PageTier, PageNextTier, AuditSum, AuditLatest, vars, rows

LEMMA CommitMovesAccount ==
    ASSUME IndInv, IndInv', NEW r \in Requests, Commit(r)
    PROVE  Account!Next
<1> SUFFICES ASSUME NEW q, q = request[r], NEW c, c = q.customer, NEW s, s = ledger[c]
             PROVE  Account!Next
  OBVIOUS
<1>1. q.pc = "commit" /\ Made(q) /\ Draft(q, s, clock)
  BY DEF Commit, RequestAt, IndInv, RequestsAreMade, DraftsAreCurrent, Locked
<1>2. c \in Customers /\ s \in Seq(PointTransaction) /\ q.row \in PointTransaction
  BY <1>1 DEF Made, Draft, IndInv, TypeOK
<1>3. ledger' = [ledger EXCEPT ![c] = Append(s, q.row)]
  BY <1>2 DEF Commit, AppendRow, IndInv, TypeOK
<1>4. /\ ledger'[c] = Append(s, q.row)
      /\ \A x \in Customers \ {c} : ledger'[x] = ledger[x]
  BY <1>2, <1>3 DEF IndInv, TypeOK
<1>5. \A x \in Customers : CurrentBalance(x) = LastBalance(ledger[x])
  BY BalanceIsLast DEF IndInv
<1>6. \A x \in Customers : CurrentBalance(x)' = LastBalance(ledger'[x])
  BY BalanceIsLastAfter DEF IndInv
<1>7. LastBalance(Append(s, q.row)) = q.row.balance_after
  BY <1>2, LastBalanceOfAppend
<1>8. q.row.balance_after = LastBalance(s) + q.delta
  BY <1>1 DEF Draft
<1>9. CurrentBalance(c) = LastBalance(s)
  BY <1>2, <1>5
<1>10. CurrentBalance(c)' = CurrentBalance(c) + q.delta
  BY <1>2, <1>4, <1>6, <1>7, <1>8, <1>9
<1>11. \A x \in Customers \ {c} : CurrentBalance(x)' = CurrentBalance(x)
  BY <1>4, <1>5, <1>6
<1>12. [x \in Customers |-> CurrentBalance(x)]' =
         [[x \in Customers |-> CurrentBalance(x)] EXCEPT ![c] = @ + q.delta]
  BY <1>2, <1>10, <1>11
<1>13. CASE q.source = "redemption"
  <2>1. PICK cost \in Costs : q.delta = -cost
    BY <1>1, <1>13 DEF Made, Deltas
  <2>2. cost \in Int /\ LastBalance(s) \in Int
    BY <1>2, PointsAssumption, LastBalanceType
  <2>3. CurrentBalance(c) >= cost
    BY <1>1, <1>9, <1>13, <2>1, <2>2 DEF Draft
  <2> PICK x : x = [customer |-> c, row |-> Len(s) + 1]
    OBVIOUS
  <2>4. redemptions' = redemptions \cup {x}
    BY <1>13 DEF Commit
  <2>5. x \notin redemptions
    <3>1. Len(s) + 1 \notin DOMAIN s
      BY <1>2
    <3> QED
      BY <3>1 DEF IndInv, RedemptionsAreRows
  <2>6. Taken(c)' = Taken(c) \cup {x} /\ x \notin Taken(c)
    BY <2>4, <2>5 DEF Taken
  <2>7. \A y \in Customers \ {c} : Taken(y)' = Taken(y)
    BY <2>4 DEF Taken
  <2>8. IsFiniteSet(Taken(c))
    BY FS_Subset DEF Taken, IndInv, RedemptionsAreRows
  <2>9. Cardinality(Taken(c))' = Cardinality(Taken(c)) + 1
    <3>1. Cardinality(Taken(c) \cup {x}) = Cardinality(Taken(c)) + 1
      BY <2>6, <2>8, FS_AddElement
    <3> QED
      BY <2>6, <3>1
  <2>10. [y \in Customers |-> Cardinality(Taken(y))]' =
           [[y \in Customers |-> Cardinality(Taken(y))] EXCEPT ![c] = @ + 1]
    BY <1>2, <2>7, <2>9
  <2>11. Account!Redeem(c, cost)
    BY <1>2, <1>12, <2>1, <2>3, <2>10 DEF Account!Redeem, Account!Change, Taken
  <2> QED
    BY <1>2, <2>11 DEF Account!Next
<1>14. CASE q.source # "redemption"
  <2>1. redemptions' = redemptions
    BY <1>14 DEF Commit
  <2>2. [y \in Customers |-> Cardinality(Taken(y))]' = [y \in Customers |-> Cardinality(Taken(y))]
    BY <2>1 DEF Taken
  <2>3. q.delta \in Earnings \/ q.delta \in Adjustments
    BY <1>1, <1>14 DEF Made, Deltas, Source
  <2>4. Account!Earn(c, q.delta) /\ Account!Adjust(c, q.delta)
    BY <1>12, <2>2 DEF Account!Earn, Account!Adjust, Account!Change, Taken
  <2> QED
    BY <1>2, <2>3, <2>4 DEF Account!Next
<1> QED
  BY <1>13, <1>14

LEMMA AccountStep == IndInv /\ IndInv' /\ [Next]_vars => [Account!Next]_(Account!vars)
<1> SUFFICES ASSUME IndInv, IndInv', [Next]_vars, UNCHANGED rows
             PROVE  UNCHANGED Account!vars
  BY RowsChangeByCommit, CommitMovesAccount
<1> QED
  BY DEF rows, Account!vars, CurrentBalance

LEMMA AccountInit == Init => Account!Init
<1> SUFFICES ASSUME Init PROVE Account!Init
  OBVIOUS
<1>1. \A c \in Customers : CurrentBalance(c) \in {0} \cup Backfills
  <2> SUFFICES ASSUME NEW c \in Customers PROVE CurrentBalance(c) \in {0} \cup Backfills
    OBVIOUS
  <2>1. CurrentBalance(c) = LastBalance(ledger[c])
    BY InitialInv, BalanceIsLast DEF IndInv
  <2> QED
    BY <2>1, InitialRows DEF LastBalance
<1>2. \A c \in Customers : Cardinality({x \in redemptions : x.customer = c}) = 0
  <2>1. \A c \in Customers : {x \in redemptions : x.customer = c} = {}
    BY DEF Init
  <2> QED
    BY <2>1, FS_EmptySet
<1> QED
  BY <1>1, <1>2 DEF Account!Init

\* The ledger is a points account: every commit earns, adjusts or redeems, and
\* a redemption is paid from a balance that covers it.
THEOREM LedgerImplementsAccount == Spec => ImplementsAccount
<1> QED
  BY AccountInit, AccountStep, InductiveInvariant, PTL DEF Spec, ImplementsAccount, Account!Spec

---------------------------------------------------------------------------
(* The sums over the rows, which the two readers ask for.                  *)

LEMMA LeastOfSome ==
    ASSUME NEW T, T \subseteq Nat, T # {}
    PROVE  \E n \in T : \A m \in T : n <= m
<1>1. PICK n \in T : \A m \in T : ~ (<<m, n>> \in OpToRel(<, Nat))
  BY NatLessThanWellFounded, WFMin
<1>2. OpToRel(<, Nat) = {p \in Nat \X Nat : p[1] < p[2]}
  BY DEF OpToRel
<1>3. ASSUME NEW m \in T PROVE n <= m
  <2>1. ~ (<<m, n>> \in {p \in Nat \X Nat : p[1] < p[2]})
    BY <1>1, <1>2
  <2>2. ~ (m < n)
    BY <2>1
  <2> QED
    BY <2>2
<1> QED
  BY <1>3

\* g holds the sums of the first amounts.
AddsUp(g, amounts) ==
    /\ g[0] = 0
    /\ \A i \in 1..Len(amounts) : g[i] = g[i - 1] + amounts[i]

\* Whatever adds up ends with the sum.
LEMMA SumIsLast ==
    ASSUME NEW s \in Seq(Int), NEW g \in [0..Len(s) -> Int], AddsUp(g, s)
    PROVE  SumOf(s) = g[Len(s)]
<1> DEFINE Sums(f) == [n \in 0..Len(s) |-> IF n = 0 THEN 0 ELSE f[n - 1] + s[n]]
           sum == CHOOSE f : f = Sums(f)
<1>1. g = Sums(g)
  BY DEF AddsUp
<1>2. sum = Sums(sum)
  BY <1>1
<1>3. SumOf(s) = sum[Len(s)]
  BY DEF SumOf
<1>4. \A n \in 0..Len(s) : sum[n] = IF n = 0 THEN 0 ELSE sum[n - 1] + s[n]
  BY <1>2
<1> HIDE DEF sum
<1> DEFINE T == {n \in 0..Len(s) : sum[n] # g[n]}
<1>5. T = {}
  <2> SUFFICES ASSUME T # {} PROVE FALSE
    OBVIOUS
  <2>1. T \subseteq Nat
    OBVIOUS
  <2>2. PICK n \in T : \A m \in T : n <= m
    BY <2>1, LeastOfSome
  <2>3. n \in 0..Len(s) /\ sum[n] # g[n]
    OBVIOUS
  <2>4. n # 0
    BY <1>4, <2>3 DEF AddsUp
  <2>5. n - 1 \in 0..Len(s) /\ ~(n <= n - 1)
    BY <2>3, <2>4
  <2>6. sum[n - 1] = g[n - 1]
    BY <2>2, <2>5
  <2>7. n \in 1..Len(s)
    BY <2>3, <2>4
  <2> QED
    BY <1>4, <2>3, <2>4, <2>6, <2>7 DEF AddsUp
<1>6. Len(s) \in 0..Len(s)
  OBVIOUS
<1> QED
  BY <1>3, <1>5, <1>6

LEMMA SomethingAddsUp ==
    ASSUME NEW s \in Seq(Int)
    PROVE  \E g \in [0..Len(s) -> Int] : AddsUp(g, s)
<1> DEFINE Good(n) == \E g \in [0..n -> Int] :
                        g[0] = 0 /\ \A i \in 1..n : g[i] = g[i - 1] + s[i]
           T == {n \in 0..Len(s) : ~Good(n)}
<1>1. T = {}
  <2> SUFFICES ASSUME T # {} PROVE FALSE
    OBVIOUS
  <2>1. T \subseteq Nat
    OBVIOUS
  <2> HIDE DEF Good
  <2>2. PICK n \in T : \A m \in T : n <= m
    BY <2>1, LeastOfSome
  <2>3. n \in 0..Len(s) /\ ~Good(n)
    OBVIOUS
  <2>4. Good(0)
    <3>1. [i \in 0..0 |-> 0] \in [0..0 -> Int] /\ [i \in 0..0 |-> 0][0] = 0 /\ 1..0 = {}
      OBVIOUS
    <3> QED
      BY <3>1 DEF Good
  <2>5. n # 0
    BY <2>3, <2>4
  <2>6. n - 1 \in 0..Len(s) /\ ~(n <= n - 1) /\ n \in 1..Len(s) /\ n \in Nat
    BY <2>3, <2>5
  <2>7. Good(n - 1)
    BY <2>2, <2>6
  <2>8. PICK g \in [0..(n - 1) -> Int] :
          g[0] = 0 /\ \A i \in 1..(n - 1) : g[i] = g[i - 1] + s[i]
    BY <2>7 DEF Good
  <2>9. PICK last \in Int : last = g[n - 1] + s[n]
    <3>1. g[n - 1] \in Int /\ s[n] \in Int
      BY <2>6
    <3> QED
      BY <3>1
  <2> DEFINE h == [i \in 0..n |-> IF i = n THEN last ELSE g[i]]
  <2>10. h \in [0..n -> Int]
    BY <2>6
  <2>11. h[0] = 0
    BY <2>5, <2>6, <2>8
  <2>12. ASSUME NEW i \in 1..n PROVE h[i] = h[i - 1] + s[i]
    <3>1. i - 1 \in 0..n /\ i - 1 # n /\ i \in 0..n
      BY <2>6
    <3>2. CASE i = n
      BY <2>9, <3>1, <3>2
    <3>3. CASE i # n
      <4>1. i \in 1..(n - 1)
        BY <2>6, <3>3
      <4> QED
        BY <2>8, <3>1, <3>3, <4>1
    <3> QED
      BY <3>2, <3>3
  <2> HIDE DEF h
  <2>13. Good(n)
    BY <2>10, <2>11, <2>12 DEF Good
  <2> QED
    BY <2>3, <2>13
<1>2. Len(s) \in 0..Len(s)
  OBVIOUS
<1>3. Good(Len(s))
  BY <1>1, <1>2
<1> QED
  BY <1>3 DEF AddsUp

\* A row more adds its amount.
LEMMA SumOfAppend ==
    ASSUME NEW s \in Seq(Int), NEW d \in Int
    PROVE  SumOf(s) \in Int /\ SumOf(Append(s, d)) = SumOf(s) + d
<1>1. PICK g \in [0..Len(s) -> Int] : AddsUp(g, s)
  BY SomethingAddsUp
<1>2. SumOf(s) = g[Len(s)] /\ g[Len(s)] \in Int
  BY <1>1, SumIsLast
<1> DEFINE t == Append(s, d)
<1>3. /\ t \in Seq(Int) /\ Len(t) = Len(s) + 1 /\ t[Len(s) + 1] = d
      /\ \A i \in 1..Len(s) : t[i] = s[i]
  OBVIOUS
<1> HIDE DEF t
<1>4. PICK last \in Int : last = g[Len(s)] + d
  BY <1>2
<1> DEFINE h == [i \in 0..Len(t) |-> IF i = Len(t) THEN last ELSE g[i]]
<1>5. Len(s) \in Nat
  OBVIOUS
<1>6. h \in [0..Len(t) -> Int] /\ h[Len(t)] = last
  BY <1>3, <1>5
<1>7. h[0] = 0
  BY <1>1, <1>3, <1>5 DEF AddsUp
<1>8. ASSUME NEW i \in 1..Len(t) PROVE h[i] = h[i - 1] + t[i]
  <2>1. i - 1 \in 0..Len(t) /\ i - 1 # Len(t) /\ i \in 0..Len(t)
    BY <1>3, <1>5
  <2>2. CASE i = Len(t)
    BY <1>3, <1>4, <1>5, <2>1, <2>2
  <2>3. CASE i # Len(t)
    <3>1. i \in 1..Len(s)
      BY <1>3, <1>5, <2>3
    <3> QED
      BY <1>1, <1>3, <2>1, <2>3, <3>1 DEF AddsUp
  <2> QED
    BY <2>2, <2>3
<1> HIDE DEF h
<1>9. AddsUp(h, t)
  BY <1>7, <1>8 DEF AddsUp
<1>10. SumOf(t) = last
  BY <1>3, <1>6, <1>9, SumIsLast
<1> QED
  BY <1>2, <1>4, <1>10 DEF t

\* What the rows say they add up to is what they add up to: the running balance is the
\* function that the sum is computed by.
LEMMA SumIsTheBalance ==
    ASSUME TypeOK, RunningBalance, NEW c \in Customers
    PROVE  SumOfDeltas(c) = BalanceAfter(c, Len(ledger[c]))
<1> DEFINE s == ledger[c]
           amounts == [i \in DOMAIN s |-> s[i].delta]
           g == [i \in 0..Len(s) |-> BalanceAfter(c, i)]
<1>1. s \in Seq(PointTransaction) /\ Len(s) \in Nat /\ DOMAIN s = 1..Len(s)
  BY DEF TypeOK
<1>2. \A i \in 1..Len(s) : s[i].delta \in Int /\ s[i].balance_after \in Int
  <2>1. \A i \in 1..Len(s) : s[i] \in PointTransaction
    BY <1>1
  <2> QED
    BY <2>1 DEF PointTransaction
<1>3. amounts \in Seq(Int) /\ Len(amounts) = Len(s) /\ \A i \in 1..Len(s) : amounts[i] = s[i].delta
  BY <1>1, <1>2
<1>4. \A i \in 1..Len(s) :
        s[i].balance_after = (IF i = 1 THEN 0 ELSE s[i - 1].balance_after) + s[i].delta
  BY <1>1 DEF RunningBalance
<1>5. SumOfDeltas(c) = SumOf(amounts)
  BY DEF SumOfDeltas
<1>6. /\ BalanceAfter(c, 0) = 0
      /\ \A i \in 1..Len(s) : BalanceAfter(c, i) = s[i].balance_after
  BY <1>1 DEF BalanceAfter
<1> HIDE DEF s, amounts
<1>7. g \in [0..Len(s) -> Int]
  <2>1. \A i \in 0..Len(s) : BalanceAfter(c, i) \in Int
    BY <1>1, <1>2, <1>6
  <2> QED
    BY <2>1
<1>8. g[0] = 0
  BY <1>1, <1>6
<1>9. ASSUME NEW i \in 1..Len(s) PROVE g[i] = g[i - 1] + amounts[i]
  <2>1. i \in 0..Len(s) /\ i - 1 \in 0..Len(s) /\ (i # 1 => i - 1 \in 1..Len(s))
    BY <1>1
  <2>2. g[i] = s[i].balance_after /\ g[i - 1] = IF i = 1 THEN 0 ELSE s[i - 1].balance_after
    BY <1>6, <2>1
  <2> QED
    BY <1>3, <1>4, <2>2
<1> HIDE DEF g
<1>10. g \in [0..Len(amounts) -> Int] /\ AddsUp(g, amounts)
  BY <1>3, <1>7, <1>8, <1>9 DEF AddsUp
<1>11. SumOf(amounts) = g[Len(s)]
  BY <1>3, <1>10, SumIsLast
<1>12. g[Len(s)] = BalanceAfter(c, Len(s))
  BY <1>1 DEF g
<1> QED
  BY <1>5, <1>11, <1>12 DEF s

\* A row more adds to the lifetime points what it earned, if it earned.
LEMMA LifetimeGrows ==
    ASSUME NEW s \in Seq(PointTransaction), NEW row \in PointTransaction
    PROVE  /\ SumOf(Earned(s)) \in Int
           /\ SumOf(Earned(s)) <= SumOf(Earned(Append(s, row)))
<1>1. /\ Len(s) \in Nat /\ DOMAIN s = 1..Len(s)
      /\ \A i \in 1..Len(s) : s[i].delta \in Int
  <2>1. \A i \in 1..Len(s) : s[i] \in PointTransaction
    OBVIOUS
  <2> QED
    BY <2>1 DEF PointTransaction
<1>2. PICK d \in Nat : d = IF row.delta > 0 THEN row.delta ELSE 0
  BY DEF PointTransaction
<1>3. /\ Earned(s) \in Seq(Int) /\ Len(Earned(s)) = Len(s)
      /\ \A i \in 1..Len(s) : Earned(s)[i] = IF s[i].delta > 0 THEN s[i].delta ELSE 0
  BY <1>1 DEF Earned
<1> DEFINE t == Append(s, row)
<1>4. /\ DOMAIN t = 1..(Len(s) + 1) /\ t[Len(s) + 1] = row
      /\ \A i \in 1..Len(s) : t[i] = s[i]
  OBVIOUS
<1> HIDE DEF t
<1>5. Earned(t) = [i \in 1..(Len(s) + 1) |-> IF t[i].delta > 0 THEN t[i].delta ELSE 0]
  BY <1>4 DEF Earned
<1>6. Append(Earned(s), d) = [i \in 1..(Len(s) + 1) |-> IF i = Len(s) + 1 THEN d ELSE Earned(s)[i]]
  <2> PICK f \in Seq(Int) : f = Earned(s)
    BY <1>3
  <2> DEFINE q == Append(f, d)
  <2>1. q \in Seq(Int) /\ Len(q) = Len(f) + 1 /\ q[Len(f) + 1] = d /\ \A i \in 1..Len(f) : q[i] = f[i]
    OBVIOUS
  <2> HIDE DEF q
  <2>2. q = [i \in 1..(Len(f) + 1) |-> q[i]]
    BY <2>1
  <2>3. \A i \in 1..(Len(f) + 1) : q[i] = IF i = Len(f) + 1 THEN d ELSE f[i]
    <3>1. Len(f) \in Nat
      OBVIOUS
    <3>2. \A i \in 1..(Len(f) + 1) : i = Len(f) + 1 \/ i \in 1..Len(f)
      BY <3>1
    <3> QED
      BY <2>1, <3>1, <3>2
  <2>4. q = [i \in 1..(Len(f) + 1) |-> IF i = Len(f) + 1 THEN d ELSE f[i]]
    BY <2>2, <2>3
  <2> QED
    BY <1>3, <2>4 DEF q
<1>7. ASSUME NEW i \in 1..(Len(s) + 1)
      PROVE  (IF t[i].delta > 0 THEN t[i].delta ELSE 0)
             = IF i = Len(s) + 1 THEN d ELSE Earned(s)[i]
  <2>1. CASE i = Len(s) + 1
    BY <1>2, <1>4, <2>1
  <2>2. CASE i # Len(s) + 1
    <3>1. i \in 1..Len(s)
      BY <1>1, <2>2
    <3> QED
      BY <1>3, <1>4, <2>2, <3>1
  <2> QED
    BY <2>1, <2>2
<1>8. Earned(t) = Append(Earned(s), d)
  BY <1>5, <1>6, <1>7
<1>9. SumOf(Earned(s)) \in Int /\ SumOf(Append(Earned(s), d)) = SumOf(Earned(s)) + d
  BY <1>2, <1>3, SumOfAppend
<1> QED
  BY <1>2, <1>8, <1>9 DEF t

LEMMA LifetimeType ==
    ASSUME TypeOK, NEW c \in Customers
    PROVE  LifetimePoints(c) \in Int
<1>1. ledger[c] \in Seq(PointTransaction)
  BY DEF TypeOK
<1>2. SumOf(Earned(ledger[c])) \in Int
  <2>1. [source |-> "backfill", delta |-> 1, balance_after |-> 1, created_at |-> 0] \in PointTransaction
    BY DEF PointTransaction
  <2> QED
    BY <1>1, <2>1, LifetimeGrows
<1> QED
  BY <1>2 DEF LifetimePoints

\* The tier is one reached, and the next tier one ahead.
LEMMA TierIsReached ==
    ASSUME TypeOK, NEW c \in Customers
    PROVE  /\ TierFor(c) = NoTier \/ (TierFor(c) \in Thresholds /\ TierFor(c) <= LifetimePoints(c))
           /\ NextTierFor(c) = NoTier
              \/ (NextTierFor(c) \in Thresholds /\ NextTierFor(c) > LifetimePoints(c))
<1>1. LifetimePoints(c) \in Int /\ Thresholds \subseteq Nat
  BY LifetimeType, PointsAssumption
<1> PICK points \in Int : points = LifetimePoints(c)
  BY <1>1
<1> DEFINE reached == {t \in Thresholds : points >= t}
           ahead   == {t \in Thresholds : t > points}
<1>2. ASSUME reached # {} PROVE Highest(reached) \in reached
  <2> DEFINE below == {points - t : t \in reached}
  <2>1. below \subseteq Nat /\ below # {}
    BY <1>1, <1>2
  <2>2. PICK n \in below : \A m \in below : n <= m
    BY <2>1, LeastOfSome
  <2>3. PICK t \in reached : n = points - t
    OBVIOUS
  <2>4. \A u \in reached : u <= t
    <3> SUFFICES ASSUME NEW u \in reached PROVE u <= t
      OBVIOUS
    <3>1. points - t <= points - u
      BY <2>2, <2>3
    <3>2. t \in Int /\ u \in Int
      BY <1>1
    <3> QED
      BY <3>1, <3>2
  <2> QED
    BY <2>4 DEF Highest
<1>3. ASSUME ahead # {} PROVE Lowest(ahead) \in ahead
  <2>1. ahead \subseteq Nat
    BY <1>1
  <2>2. PICK t \in ahead : \A u \in ahead : t <= u
    BY <1>3, <2>1, LeastOfSome
  <2> QED
    BY <2>2 DEF Lowest
<1>4. /\ TierFor(c) = IF reached = {} THEN NoTier ELSE Highest(reached)
      /\ NextTierFor(c) = IF ahead = {} THEN NoTier ELSE Lowest(ahead)
  BY DEF TierFor, NextTierFor
<1> HIDE DEF reached, ahead
<1>5. TierFor(c) = NoTier \/ TierFor(c) \in reached
  BY <1>2, <1>4
<1>6. NextTierFor(c) = NoTier \/ NextTierFor(c) \in ahead
  BY <1>3, <1>4
<1> QED
  BY <1>1, <1>5, <1>6 DEF reached, ahead

---------------------------------------------------------------------------
(* The page and the audit, between their reads.                            *)

\* Points that were read are still reached, and so is the tier.
PageInv ==
    /\ page.pc # "blank" => page.customer \in Customers
    /\ page.pc \in {"lifetime", "tier"} =>
         page.lifetime \in Int /\ page.lifetime <= LifetimePoints(page.customer)
    /\ page.pc = "tier" =>
         page.tier = NoTier
         \/ (page.tier \in Thresholds /\ page.tier <= LifetimePoints(page.customer))
    /\ NextTierIsAhead

\* The sum that was read is a balance that the customer had.
AuditInv ==
    /\ audit.pc # "idle" => audit.customer \in Customers
    /\ audit.pc = "summed" =>
         \E i \in 0..Len(ledger[audit.customer]) : audit.total = BalanceAfter(audit.customer, i)
    /\ DriftIsInBetween

ReadersInv == PageInv /\ AuditInv

\* Rows are only added: points grow and balances stay where they are.
LEMMA RowsOnlyAdded ==
    ASSUME IndInv, [Next]_vars, NEW c \in Customers
    PROVE  /\ LifetimePoints(c) <= LifetimePoints(c)'
           /\ Len(ledger[c]) <= Len(ledger'[c])
           /\ \A i \in 0..Len(ledger[c]) :
                i \in 0..Len(ledger'[c]) /\ BalanceAfter(c, i)' = BalanceAfter(c, i)
<1>1. ledger[c] \in Seq(PointTransaction) /\ Len(ledger[c]) \in Nat
  BY DEF IndInv, TypeOK
<1>2. LifetimePoints(c) \in Int
  BY LifetimeType DEF IndInv
<1>3. CASE ledger'[c] = ledger[c]
  BY <1>1, <1>2, <1>3 DEF LifetimePoints, BalanceAfter
<1>4. CASE \E r \in Requests : Commit(r) /\ request[r].customer = c
  <2>1. PICK r \in Requests : Commit(r) /\ request[r].customer = c
    BY <1>4
  <2>2. request[r].row \in PointTransaction
    BY <2>1 DEF Commit, RequestAt, IndInv, DraftsAreCurrent, Draft, Locked
  <2> PICK row \in PointTransaction : row = request[r].row
    BY <2>2
  <2>3. ledger'[c] = Append(ledger[c], row)
    BY <2>1 DEF Commit, AppendRow, IndInv, TypeOK
  <2>4. /\ Len(ledger'[c]) = Len(ledger[c]) + 1
        /\ \A i \in 1..Len(ledger[c]) : ledger'[c][i] = ledger[c][i]
    BY <1>1, <2>3
  <2>5. LifetimePoints(c) <= LifetimePoints(c)'
    <3>1. SumOf(Earned(ledger[c])) <= SumOf(Earned(Append(ledger[c], row)))
      BY <1>1, LifetimeGrows
    <3> QED
      BY <2>3, <3>1 DEF LifetimePoints
  <2>6. \A i \in 0..Len(ledger[c]) :
          i \in 0..Len(ledger'[c]) /\ BalanceAfter(c, i)' = BalanceAfter(c, i)
    <3> SUFFICES ASSUME NEW i \in 0..Len(ledger[c])
                 PROVE  i \in 0..Len(ledger'[c]) /\ BalanceAfter(c, i)' = BalanceAfter(c, i)
      OBVIOUS
    <3>1. i = 0 \/ i \in 1..Len(ledger[c])
      BY <1>1
    <3> QED
      BY <1>1, <2>4, <3>1 DEF BalanceAfter
  <2> QED
    BY <1>1, <2>4, <2>5, <2>6
<1>5. ledger'[c] = ledger[c] \/ \E r \in Requests : Commit(r) /\ request[r].customer = c
  <2>1. CASE UNCHANGED rows
    BY <2>1 DEF rows
  <2>2. ASSUME NEW r \in Requests, Commit(r), request[r].customer # c
        PROVE  ledger'[c] = ledger[c]
    BY <2>2 DEF Commit, AppendRow, IndInv, TypeOK
  <2> QED
    BY <2>1, <2>2, RowsChangeByCommit
<1> QED
  BY <1>3, <1>4, <1>5

\* Between its reads a reader keeps what it relies on.
LEMMA ReadersRest ==
    ASSUME IndInv, ReadersInv, [Next]_vars
    PROVE  /\ page' = page => PageInv'
           /\ audit' = audit => AuditInv'
<1>1. ASSUME page' = page PROVE PageInv'
  <2>1. CASE page.pc = "blank"
    BY <1>1, <2>1 DEF PageInv, NextTierIsAhead
  <2>2. CASE page.pc # "blank"
    <3> PICK c \in Customers : c = page.customer
      BY <2>2 DEF ReadersInv, PageInv
    <3>1. LifetimePoints(c) <= LifetimePoints(c)'
      BY RowsOnlyAdded
    <3>2. LifetimePoints(c) \in Int /\ LifetimePoints(c)' \in Int
      <4>1. TypeOK /\ TypeOK'
        BY InductiveStep DEF IndInv
      <4>2. ledger[c] \in Seq(PointTransaction) /\ ledger'[c] \in Seq(PointTransaction)
        BY <4>1 DEF TypeOK
      <4>3. [source |-> "backfill", delta |-> 1, balance_after |-> 1, created_at |-> 0]
              \in PointTransaction
        BY DEF PointTransaction
      <4>4. SumOf(Earned(ledger[c])) \in Int /\ SumOf(Earned(ledger'[c])) \in Int
        BY <4>2, <4>3, LifetimeGrows
      <4> QED
        BY <4>4 DEF LifetimePoints
    <3>3. Thresholds \subseteq Int
      BY PointsAssumption
    <3>4. /\ page.pc \in {"lifetime", "tier"} =>
               page.lifetime \in Int /\ page.lifetime <= LifetimePoints(c)'
          /\ page.pc = "tier" =>
               page.tier = NoTier \/ (page.tier \in Thresholds /\ page.tier <= LifetimePoints(c)')
      <4> PICK points \in Int : points = LifetimePoints(c)
        BY <3>2
      <4> PICK later \in Int : later = LifetimePoints(c)'
        BY <3>2
      <4>1. points <= later
        BY <3>1
      <4>2. /\ page.pc \in {"lifetime", "tier"} => page.lifetime \in Int /\ page.lifetime <= points
            /\ page.pc = "tier" =>
                 page.tier = NoTier \/ (page.tier \in Thresholds /\ page.tier <= points)
        BY DEF ReadersInv, PageInv
      <4>3. page.tier \in Thresholds /\ page.tier <= points => page.tier <= later
        <5>1. page.tier \in Thresholds => page.tier \in Int
          BY <3>3
        <5> QED
          BY <4>1, <5>1
      <4> QED
        BY <4>1, <4>2, <4>3
    <3> QED
      BY <1>1, <3>4 DEF ReadersInv, PageInv, NextTierIsAhead
  <2> QED
    BY <2>1, <2>2
<1>2. ASSUME audit' = audit PROVE AuditInv'
  <2>1. CASE audit.pc = "idle"
    BY <1>2, <2>1 DEF AuditInv, DriftIsInBetween
  <2>2. CASE audit.pc # "idle"
    <3> PICK c \in Customers : c = audit.customer
      BY <2>2 DEF ReadersInv, AuditInv
    <3>1. \A i \in 0..Len(ledger[c]) :
            i \in 0..Len(ledger'[c]) /\ BalanceAfter(c, i)' = BalanceAfter(c, i)
      BY RowsOnlyAdded
    <3>2. audit.pc = "summed" =>
            \E i \in 0..Len(ledger'[c]) : audit.total = BalanceAfter(c, i)'
      BY <3>1 DEF ReadersInv, AuditInv
    <3>3. audit.pc = "reported" =>
            \E i, j \in 0..Len(ledger'[c]) :
              i <= j /\ audit.total = BalanceAfter(c, i)' /\ audit.balance = BalanceAfter(c, j)'
      <4> SUFFICES ASSUME audit.pc = "reported"
                   PROVE  \E i, j \in 0..Len(ledger'[c]) :
                            i <= j /\ audit.total = BalanceAfter(c, i)' /\ audit.balance = BalanceAfter(c, j)'
        OBVIOUS
      <4>1. PICK i \in 0..Len(ledger[c]), j \in 0..Len(ledger[c]) :
              i <= j /\ audit.total = BalanceAfter(c, i) /\ audit.balance = BalanceAfter(c, j)
        BY DEF ReadersInv, AuditInv, DriftIsInBetween
      <4> QED
        BY <3>1, <4>1
    <3>4. /\ audit'.pc = audit.pc /\ audit'.customer = c /\ audit'.total = audit.total
          /\ audit'.balance = audit.balance
      BY <1>2
    <3>5. DriftIsInBetween'
      BY <3>3, <3>4 DEF DriftIsInBetween, BalanceAfter
    <3>6. audit'.pc = "summed" =>
            \E i \in 0..Len(ledger'[audit'.customer]) : audit'.total = BalanceAfter(audit.customer, i)'
      BY <3>2, <3>4
    <3> QED
      BY <3>4, <3>5, <3>6 DEF AuditInv
  <2> QED
    BY <2>1, <2>2
<1> QED
  BY <1>1, <1>2

LEMMA PageReads ==
    ASSUME IndInv, ReadersInv,
           (\E c \in Customers : PageLifetime(c)) \/ PageTier \/ PageNextTier
    PROVE  ReadersInv'
<1>1. TypeOK /\ ledger' = ledger /\ audit' = audit
  BY DEF IndInv, PageLifetime, PageTier, PageNextTier, rows
<1>2. AuditInv'
  BY <1>1 DEF ReadersInv, AuditInv, DriftIsInBetween, BalanceAfter
<1>3. ASSUME NEW c \in Customers PROVE LifetimePoints(c)' = LifetimePoints(c)
  BY <1>1 DEF LifetimePoints
<1>4. ASSUME NEW c \in Customers, PageLifetime(c) PROVE PageInv'
  <2>1. page'.pc = "lifetime" /\ page'.customer = c /\ page'.lifetime = LifetimePoints(c)
    BY <1>4 DEF PageLifetime, IndInv, TypeOK
  <2>2. LifetimePoints(c) \in Int
    BY <1>1, LifetimeType
  <2>3. LifetimePoints(page.customer)' = LifetimePoints(c)
    BY <1>1, <2>1 DEF LifetimePoints
  <2> QED
    BY <2>1, <2>2, <2>3 DEF PageInv, NextTierIsAhead
<1>5. CASE PageTier
  <2> PICK c \in Customers : c = page.customer
    BY <1>5 DEF PageTier, ReadersInv, PageInv
  <2>1. /\ page.pc = "lifetime" /\ page'.pc = "tier" /\ page'.customer = c
        /\ page'.lifetime = page.lifetime /\ page'.tier = TierFor(c)
    BY <1>5 DEF PageTier, IndInv, TypeOK
  <2>2. LifetimePoints(page.customer)' = LifetimePoints(c)
    BY <1>1, <2>1 DEF LifetimePoints
  <2>3. TierFor(c) = NoTier \/ (TierFor(c) \in Thresholds /\ TierFor(c) <= LifetimePoints(c))
    BY <1>1, TierIsReached
  <2>4. page.lifetime \in Int /\ page.lifetime <= LifetimePoints(c)
    BY <2>1 DEF ReadersInv, PageInv
  <2> QED
    BY <1>2, <2>1, <2>2, <2>3, <2>4 DEF ReadersInv, PageInv, NextTierIsAhead
<1>6. CASE PageNextTier
  <2> PICK c \in Customers : c = page.customer
    BY <1>6 DEF PageNextTier, ReadersInv, PageInv
  <2>1. /\ page.pc = "tier" /\ page'.pc = "shown" /\ page'.customer = c
        /\ page'.lifetime = page.lifetime /\ page'.tier = page.tier /\ page'.next = NextTierFor(c)
    BY <1>6 DEF PageNextTier, IndInv, TypeOK
  <2>2. NextTierFor(c) = NoTier
        \/ (NextTierFor(c) \in Thresholds /\ NextTierFor(c) > LifetimePoints(c))
    BY <1>1, TierIsReached
  <2>3. /\ page.lifetime \in Int /\ page.lifetime <= LifetimePoints(c)
        /\ page.tier = NoTier \/ (page.tier \in Thresholds /\ page.tier <= LifetimePoints(c))
    BY <2>1 DEF ReadersInv, PageInv
  <2>4. LifetimePoints(c) \in Int /\ Thresholds \subseteq Nat
    BY <1>1, LifetimeType, PointsAssumption
  <2> PICK points \in Int : points = LifetimePoints(c)
    BY <2>4
  <2> PICK next : next = NextTierFor(c)
    OBVIOUS
  <2>5. ASSUME next # NoTier PROVE next > page.lifetime /\ next > page.tier
    <3>1. next \in Nat /\ next > points
      BY <2>2, <2>4, <2>5
    <3>2. CASE page.tier = NoTier
      BY <2>3, <3>1, <3>2 DEF NoTier
    <3>3. CASE page.tier \in Thresholds /\ page.tier <= points
      <4>0. Thresholds \subseteq Int
        BY PointsAssumption
      <4>1. page.tier \in Int
        BY <3>3, <4>0
      <4> QED
        BY <2>3, <3>1, <3>3, <4>1
    <3> QED
      BY <2>3, <3>2, <3>3
  <2>6. NextTierIsAhead'
    BY <2>1, <2>5 DEF NextTierIsAhead
  <2> QED
    BY <1>2, <2>1, <2>6 DEF ReadersInv, PageInv
<1> QED
  BY <1>2, <1>4, <1>5, <1>6 DEF ReadersInv

LEMMA AuditReads ==
    ASSUME IndInv, ReadersInv, (\E c \in Customers : AuditSum(c)) \/ AuditLatest
    PROVE  ReadersInv'
<1>1. TypeOK /\ ledger' = ledger /\ page' = page
  BY DEF IndInv, AuditSum, AuditLatest, rows
<1>2. PageInv'
  BY <1>1 DEF ReadersInv, PageInv, NextTierIsAhead, LifetimePoints
<1>3. ASSUME NEW c \in Customers PROVE Len(ledger[c]) \in 0..Len(ledger[c])
  <2>1. ledger[c] \in Seq(PointTransaction)
    BY <1>1 DEF TypeOK
  <2> QED
    BY <2>1
<1>4. ASSUME NEW c \in Customers, AuditSum(c) PROVE AuditInv'
  <2>1. audit'.pc = "summed" /\ audit'.customer = c /\ audit'.total = SumOfDeltas(c)
    BY <1>4 DEF AuditSum, IndInv, TypeOK
  <2>2. SumOfDeltas(c) = BalanceAfter(c, Len(ledger[c]))
    BY SumIsTheBalance DEF IndInv
  <2>3. \E i \in 0..Len(ledger'[c]) : audit'.total = BalanceAfter(c, i)
    BY <1>1, <1>3, <2>1, <2>2
  <2> QED
    BY <1>1, <2>1, <2>3 DEF AuditInv, DriftIsInBetween, BalanceAfter
<1>5. CASE AuditLatest
  <2> PICK c \in Customers : c = audit.customer
    BY <1>5 DEF AuditLatest, ReadersInv, AuditInv
  <2>1. /\ audit.pc = "summed" /\ audit'.pc = "reported" /\ audit'.customer = c
        /\ audit'.total = audit.total /\ audit'.balance = CurrentBalance(c)
    BY <1>5 DEF AuditLatest, IndInv, TypeOK
  <2>2. CurrentBalance(c) = BalanceAfter(c, Len(ledger[c]))
    <3>1. CurrentBalance(c) = LastBalance(ledger[c])
      BY BalanceIsLast DEF IndInv
    <3>2. ledger[c] = <<>> <=> Len(ledger[c]) = 0
      <4>1. ledger[c] \in Seq(PointTransaction)
        BY <1>1 DEF TypeOK
      <4> QED
        BY <4>1
    <3> QED
      BY <3>1, <3>2 DEF LastBalance, BalanceAfter
  <2>3. PICK i \in 0..Len(ledger[c]) : audit.total = BalanceAfter(c, i)
    BY <2>1 DEF ReadersInv, AuditInv
  <2>4. i <= Len(ledger[c])
    OBVIOUS
  <2>5. \E k, j \in 0..Len(ledger'[c]) :
          k <= j /\ audit'.total = BalanceAfter(c, k) /\ audit'.balance = BalanceAfter(c, j)
    BY <1>1, <1>3, <2>1, <2>2, <2>3, <2>4
  <2>6. \A k : BalanceAfter(c, k)' = BalanceAfter(c, k)
    BY <1>1 DEF BalanceAfter
  <2>7. DriftIsInBetween'
    BY <1>1, <2>1, <2>5, <2>6 DEF DriftIsInBetween, BalanceAfter
  <2> QED
    BY <1>2, <2>1, <2>7 DEF ReadersInv, AuditInv
<1> QED
  BY <1>2, <1>4, <1>5 DEF ReadersInv

LEMMA ReadersStart == Init => ReadersInv
BY DEF Init, ReadersInv, PageInv, AuditInv, NextTierIsAhead, DriftIsInBetween

LEMMA ReadersStep ==
    ASSUME IndInv, ReadersInv, [Next]_vars
    PROVE  ReadersInv'
<1>1. CASE (\E c \in Customers : PageLifetime(c)) \/ PageTier \/ PageNextTier
  BY <1>1, PageReads
<1>2. CASE (\E c \in Customers : AuditSum(c)) \/ AuditLatest
  BY <1>2, AuditReads
<1>3. CASE UNCHANGED readers
  BY <1>3, ReadersRest DEF ReadersInv, readers
<1>4. Read => (\E c \in Customers : PageLifetime(c)) \/ PageTier \/ PageNextTier
              \/ (\E c \in Customers : AuditSum(c)) \/ AuditLatest
  BY DEF Read
<1>5. ~Read => UNCHANGED readers
  BY DEF Next, Serve, Begin, Lock, CheckBalance, Refuse, ReadLatest, Insert, Commit, Crash, Tick,
     vars, readers
<1> QED
  BY <1>1, <1>2, <1>3, <1>4, <1>5

\* memberships_check and the membership page read the ledger several times without a
\* lock: the drift that the one reports is what was committed in between, and the next
\* tier that the other shows is ahead of the tier and the points it shows.
THEOREM ReadersAreSoundHolds == Spec => []ReadersAreSound
<1>1. ReadersInv => ReadersAreSound
  BY DEF ReadersInv, PageInv, AuditInv, ReadersAreSound
<1>2. IndInv /\ ReadersInv /\ [Next]_vars => ReadersInv'
  BY ReadersStep
<1> QED
  BY <1>1, <1>2, ReadersStart, InductiveInvariant, PTL DEF Spec
================================================================================
