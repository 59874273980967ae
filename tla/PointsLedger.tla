------------------------------ MODULE PointsLedger ------------------------------
(***************************************************************************)
(* The points ledger: PointTransaction rows, each with the balance after   *)
(* it, appended only by award_points under a lock on the customer's row.   *)
(* Requests earn points, adjust them, and redeem rewards (a redemption     *)
(* tests the balance and writes a Redemption row in the same transaction). *)
(* Next to them a page reads balance and tiers, and memberships_check      *)
(* audits the ledger, both in several reads with no lock.                  *)
(*                                                                         *)
(* The rows of a customer are a sequence in the order of their ids.  What  *)
(* a transaction has written but not committed is in its request only.     *)
(***************************************************************************)
EXTENDS Integers, Sequences, FiniteSets

CONSTANTS
    Customers, NoCustomer,
    Requests, NoRequest, \* each request is made once
    Backfills,           \* points a migration credited for earlier visits
    Earnings,            \* points a completed booking or a QR click may earn
    Costs,               \* Reward.cost_points of the enabled rewards
    Corrections,         \* points staff may add or take off by hand
    Thresholds,          \* RewardTier.min_lifetime_points of the store's tiers
    Readers,             \* which readers run next to the requests
    MaxClock             \* bound: the last reading of the clock

ASSUME NamesAssumption == NoRequest \notin Requests /\ NoCustomer \notin Customers

ASSUME PointsAssumption ==
    /\ Backfills \subseteq Nat \ {0}
    /\ Earnings \subseteq Nat \ {0}
    /\ Costs \subseteq Nat \ {0}
    /\ Corrections \subseteq Nat \ {0}
    /\ Thresholds \subseteq Nat
    /\ Readers \subseteq {"page", "audit"}
    /\ MaxClock \in Nat

Source == {"earned", "adjustment", "redemption"}

Adjustments == Corrections \cup {-n : n \in Corrections}

Deltas(source) == CASE source = "earned"     -> Earnings
                    [] source = "adjustment" -> Adjustments
                    [] source = "redemption" -> {-cost : cost \in Costs}

PointTransaction == [source : Source \cup {"backfill"}, delta : Int \ {0},
                     balance_after : Int, created_at : Nat]
NoRow == [source |-> "none", delta |-> 0, balance_after |-> 0, created_at |-> 0]

\* A tier is named by its threshold.
NoTier == -1

\* The steps of a request while its transaction holds the customer's lock.
Locked == {"check", "read", "insert", "commit"}
Request == [pc : {"idle", "lock", "done"} \cup Locked,
            customer : Customers \cup {NoCustomer}, source : Source \cup {"none"},
            delta : Int, prior : Int, row : PointTransaction \cup {NoRow}]
IdleRequest == [pc |-> "idle", customer |-> NoCustomer, source |-> "none",
                delta |-> 0, prior |-> 0, row |-> NoRow]

VARIABLES
    ledger,      \* committed PointTransaction rows of each customer
    redemptions, \* committed Redemption rows: a customer and the row that paid
    owner,       \* the request whose transaction locks the customer's row
    request,
    clock,       \* timezone.now(); two rows may carry the same reading
    page,        \* the membership page being read
    audit        \* memberships_check at work on one customer

vars == <<ledger, redemptions, owner, request, clock, page, audit>>
readers == <<page, audit>>
rows == <<ledger, redemptions>>

Backfill(points) == [source |-> "backfill", delta |-> points, balance_after |-> points,
                     created_at |-> 0]

Init ==
    /\ ledger \in [Customers -> {<<>>} \cup {<<Backfill(points)>> : points \in Backfills}]
    /\ redemptions = {}
    /\ owner = [c \in Customers |-> NoRequest]
    /\ request = [r \in Requests |-> IdleRequest]
    /\ clock = 0
    /\ page = [pc |-> "blank", customer |-> NoCustomer, lifetime |-> 0,
               tier |-> NoTier, next |-> NoTier]
    /\ audit = [pc |-> "idle", customer |-> NoCustomer, total |-> 0, balance |-> 0]

---------------------------------------------------------------------------
(* Reads of the ledger.                                                    *)

\* Fault: the tie of two equal timestamps is not broken by the id.
LatestByTime(s) == CHOOSE i \in DOMAIN s :
                      \A j \in DOMAIN s : s[j].created_at <= s[i].created_at

\* order_by("-created_at", "-id").first(), as an index into the rows.
Latest(s) == CHOOSE i \in DOMAIN s : \A j \in DOMAIN s :
                \/ s[j].created_at < s[i].created_at
                \/ s[j].created_at = s[i].created_at /\ j <= i

CurrentBalance(c) ==
    IF ledger[c] = <<>> THEN 0 ELSE ledger[c][Latest(ledger[c])].balance_after

SumOf(amounts) ==
    LET sum[n \in 0..Len(amounts)] == IF n = 0 THEN 0 ELSE sum[n - 1] + amounts[n]
    IN  sum[Len(amounts)]

SumOfDeltas(c) == SumOf([i \in DOMAIN ledger[c] |-> ledger[c][i].delta])

Earned(s) == [i \in DOMAIN s |-> IF s[i].delta > 0 THEN s[i].delta ELSE 0]
LifetimePoints(c) == SumOf(Earned(ledger[c]))

Highest(tiers) == CHOOSE t \in tiers : \A u \in tiers : u <= t
Lowest(tiers) == CHOOSE t \in tiers : \A u \in tiers : t <= u

TierFor(c) ==
    LET reached == {t \in Thresholds : LifetimePoints(c) >= t}
    IN  IF reached = {} THEN NoTier ELSE Highest(reached)

NextTierFor(c) ==
    LET ahead == {t \in Thresholds : t > LifetimePoints(c)}
    IN  IF ahead = {} THEN NoTier ELSE Lowest(ahead)

---------------------------------------------------------------------------
(* award_points, called alone or by a redeem view inside its transaction.  *)

RequestAt(r, pc) == request[r].pc = pc
GoTo(r, pc) == request' = [request EXCEPT ![r].pc = pc]

\* The request ends and with it its transaction: the lock is released.
End(r) ==
    /\ GoTo(r, "done")
    /\ owner' = [c \in Customers |-> IF owner[c] = r THEN NoRequest ELSE owner[c]]

Begin(r, c, source, delta) ==
    /\ RequestAt(r, "idle")
    /\ request' = [request EXCEPT ![r] =
         [@ EXCEPT !.pc = "lock", !.customer = c, !.source = source, !.delta = delta]]
    /\ UNCHANGED <<rows, owner, clock, readers>>

\* Fault: the customer's row is read without select_for_update.
LockNothing(r) ==
    /\ RequestAt(r, "lock")
    /\ owner' = [owner EXCEPT ![request[r].customer] = r]
    /\ GoTo(r, IF request[r].source = "redemption" THEN "check" ELSE "read")
    /\ UNCHANGED <<rows, clock, readers>>

\* select_for_update waits for the lock; a redeem view takes it first, and
\* takes it again inside award_points, which changes nothing.
Lock(r) ==
    /\ RequestAt(r, "lock")
    /\ owner[request[r].customer] = NoRequest
    /\ owner' = [owner EXCEPT ![request[r].customer] = r]
    /\ GoTo(r, IF request[r].source = "redemption" THEN "check" ELSE "read")
    /\ UNCHANGED <<rows, clock, readers>>

Affords(r) == CurrentBalance(request[r].customer) >= -request[r].delta

CheckBalance(r) ==
    /\ RequestAt(r, "check")
    /\ Affords(r)
    /\ GoTo(r, "read")
    /\ UNCHANGED <<rows, owner, clock, readers>>

\* Fault: the refusal leaves its transaction open.
RefuseAndHold(r) ==
    /\ RequestAt(r, "check")
    /\ ~Affords(r)
    /\ GoTo(r, "done")
    /\ UNCHANGED <<rows, owner, clock, readers>>

\* The 409: return from inside the block ends the transaction.
Refuse(r) ==
    /\ RequestAt(r, "check")
    /\ ~Affords(r)
    /\ End(r)
    /\ UNCHANGED <<rows, clock, readers>>

ReadLatest(r) ==
    /\ RequestAt(r, "read")
    /\ request' = [request EXCEPT ![r] =
         [@ EXCEPT !.pc = "insert", !.prior = CurrentBalance(request[r].customer)]]
    /\ UNCHANGED <<rows, owner, clock, readers>>

\* created_at is the clock when the row is made, not when it is committed.
Insert(r) ==
    /\ RequestAt(r, "insert")
    /\ request' = [request EXCEPT ![r] =
         [@ EXCEPT !.pc = "commit",
                   !.row = [source |-> request[r].source, delta |-> request[r].delta,
                            balance_after |-> request[r].prior + request[r].delta,
                            created_at |-> clock]]]
    /\ UNCHANGED <<rows, owner, clock, readers>>

AppendRow(r) ==
    ledger' = [ledger EXCEPT ![request[r].customer] = Append(@, request[r].row)]

\* The row and, for a redemption, the Redemption that names it appear at once.
Commit(r) ==
    LET c == request[r].customer IN
    /\ RequestAt(r, "commit")
    /\ AppendRow(r)
    /\ redemptions' = redemptions \cup
         {x \in {[customer |-> c, row |-> Len(ledger[c]) + 1]} : request[r].source = "redemption"}
    /\ End(r)
    /\ UNCHANGED <<clock, readers>>

\* Fault: no transaction spans the award and the Redemption row.
CrashAfterAward(r) ==
    /\ request[r].pc \in {"lock"} \cup Locked
    /\ IF RequestAt(r, "commit") THEN AppendRow(r) ELSE UNCHANGED ledger
    /\ End(r)
    /\ UNCHANGED <<redemptions, clock, readers>>

\* The process dies; Postgres rolls its transaction back.
Crash(r) ==
    /\ request[r].pc \in {"lock"} \cup Locked
    /\ End(r)
    /\ UNCHANGED <<rows, clock, readers>>

Tick ==
    /\ clock < MaxClock
    /\ clock' = clock + 1
    /\ UNCHANGED <<rows, owner, request, readers>>

Serve(r) ==
    \/ \E c \in Customers, source \in Source : \E delta \in Deltas(source) :
         Begin(r, c, source, delta)
    \/ Lock(r) \/ CheckBalance(r) \/ Refuse(r) \/ ReadLatest(r) \/ Insert(r)
    \/ Commit(r)

---------------------------------------------------------------------------
(* The membership page: lifetime_points_earned is read for the page, then  *)
(* again by tier_for, then again by next_tier_for.                         *)

PageLifetime(c) ==
    /\ "page" \in Readers
    /\ page.pc \in {"blank", "shown"}
    /\ page' = [page EXCEPT !.pc = "lifetime", !.customer = c, !.lifetime = LifetimePoints(c)]
    /\ UNCHANGED <<rows, owner, request, clock, audit>>

PageTier ==
    /\ page.pc = "lifetime"
    /\ page' = [page EXCEPT !.pc = "tier", !.tier = TierFor(page.customer)]
    /\ UNCHANGED <<rows, owner, request, clock, audit>>

PageNextTier ==
    /\ page.pc = "tier"
    /\ page' = [page EXCEPT !.pc = "shown", !.next = NextTierFor(page.customer)]
    /\ UNCHANGED <<rows, owner, request, clock, audit>>

\* memberships_check: the sum of the deltas, then the latest row.
AuditSum(c) ==
    /\ "audit" \in Readers
    /\ audit.pc = "idle"
    /\ audit' = [audit EXCEPT !.pc = "summed", !.customer = c, !.total = SumOfDeltas(c)]
    /\ UNCHANGED <<rows, owner, request, clock, page>>

AuditLatest ==
    /\ audit.pc = "summed"
    /\ audit' = [audit EXCEPT !.pc = "reported", !.balance = CurrentBalance(audit.customer)]
    /\ UNCHANGED <<rows, owner, request, clock, page>>

Read ==
    \/ \E c \in Customers : PageLifetime(c) \/ AuditSum(c)
    \/ PageTier \/ PageNextTier \/ AuditLatest

Next ==
    \/ \E r \in Requests : Serve(r) \/ Crash(r)
    \/ Read
    \/ Tick

Spec == Init /\ [][Next]_vars

\* A request that was made goes on until it ends.  Postgres queues the
\* transactions that wait for a row, so a lock that is freed again and again
\* is obtained in the end.
FairSpec == Spec /\ \A r \in Requests :
    /\ SF_vars(Lock(r))
    /\ WF_vars(CheckBalance(r) \/ Refuse(r) \/ ReadLatest(r) \/ Insert(r) \/ Commit(r))

---------------------------------------------------------------------------
\* Every variable keeps its type.  The values the two readers have summed
\* are left out: what they are is said by ReadersAreSound.
TypeOK ==
    /\ ledger \in [Customers -> Seq(PointTransaction)]
    /\ redemptions \subseteq [customer : Customers, row : Nat \ {0}]
    /\ owner \in [Customers -> Requests \cup {NoRequest}]
    /\ request \in [Requests -> Request]
    /\ clock \in Nat
    /\ DOMAIN page = {"pc", "customer", "lifetime", "tier", "next"}
    /\ page.pc \in {"blank", "lifetime", "tier", "shown"}
    /\ DOMAIN audit = {"pc", "customer", "total", "balance"}
    /\ audit.pc \in {"idle", "summed", "reported"}

\* Each row's balance_after continues the one before it: award_points read
\* the row that really is the latest, under a lock nobody slipped past.
RunningBalance ==
    \A c \in Customers : \A i \in DOMAIN ledger[c] :
        ledger[c][i].balance_after =
            (IF i = 1 THEN 0 ELSE ledger[c][i - 1].balance_after) + ledger[c][i].delta

\* No redemption spends more than the balance, whatever other redemptions
\* and adjustments ran between the page and the click.
RedemptionsCovered ==
    \A c \in Customers : \A i \in DOMAIN ledger[c] :
        ledger[c][i].source = "redemption" => ledger[c][i].balance_after >= 0

\* The page reads the lifetime points three times while rows are appended:
\* the next tier it shows is still above the tier and the points it shows.
NextTierIsAhead ==
    page.pc = "shown" /\ page.next # NoTier =>
        page.next > page.tier /\ page.next > page.lifetime

\* The ledger implements the account of PointsAccount.
Account == INSTANCE PointsAccount WITH
    balance <- [c \in Customers |-> CurrentBalance(c)],
    vouchers <- [c \in Customers |-> Cardinality({x \in redemptions : x.customer = c})]
ImplementsAccount == Account!Spec

\* Every request that is made ends, whoever else dies holding the lock.
RequestsEnd == \A r \in Requests : RequestAt(r, "lock") ~> RequestAt(r, "done")
================================================================================
