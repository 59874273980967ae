------------------------------ MODULE MCBackOffice ------------------------------
\* Parts of the back office that share no row: a run picks one of them and lets it
\* move, while the others rest in one initial state.
EXTENDS Campaigns, Integers, TLC
CONSTANTS
  Pair,                              \* two of the Requests, for the smaller parts
  MaxPosition, MaxEvents,
  Cron, Staff, Minute, Rotations, Grace, MaxKeys,
  Totals, Values, Overrides, Matrices, Leads, Bookings,
  Never, MaxVisits, MaxMissed, Days, Starts,
  Visitors,                          \* the store of each row of one person
  Stores, FirstStore, NoStore, Nobody, Lifetime
VARIABLES
  part,
  keys, rotation, minting, sinceCron,
  position, unborn, chipRequest,
  account, enabled, charges, events, stripeRequest, said, raced,
  store, override, patch, booking,
  row, job, missed, unseen,
  slug, session, requests, since

MCOverrides ==
  {[mode |-> "", value |-> 0], [mode |-> "none", value |-> 0], [mode |-> "fixed", value |-> 335]}
MCMatrices ==
  LET Rule(hours, pct) == [min_hours |-> hours, refund_pct |-> pct]
  IN  {<<Rule(24, 50), Rule(0, 10), Rule(48, 100), Rule(24, 20)>>, <<Rule(0, 110)>>}
MCDays == {-1, 0, 6, 7, 30, 31, 60, 61, 90, 91}
MCStarts == {-1, 0, 31}
MCVisitors == [a |-> "A", b |-> "B"]   \* one person's rows at two stores

Keys == INSTANCE RotatingKeys
Chips == INSTANCE QrActions WITH Chips <- Customers, Requests <- Pair, request <- chipRequest
Stripe == INSTANCE StripeAccount WITH
  Accounts <- Customers, NoAccount <- NoCustomer, Requests <- Pair, request <- stripeRequest
Policy == INSTANCE DepositPolicy WITH Requests <- Pair, request <- patch
Retain == INSTANCE Retention
Browser == INSTANCE StoreSessions WITH
  Customers <- DOMAIN Visitors, Home <- Visitors, Requests <- Pair

ASSUME PartsAssumption ==
  /\ Keys!KeysAssumption /\ Policy!PolicyAssumption
  /\ Retain!RetentionAssumption /\ Browser!SessionsAssumption

PartsInit ==
  /\ part \in {"campaign", "keys", "chips", "stripe", "policy", "retention", "browser"}
  /\ Init /\ Keys!Init /\ Chips!Init /\ Stripe!Init /\ Policy!Init /\ Retain!Init /\ Browser!Init
  /\ part # "campaign" => status = "draft" /\ tags = [c \in Customers |-> {}]
  /\ part # "keys" => rotation = Minute
  /\ part # "policy" => override.mode = ""

Others ==
  /\ IF part = "campaign" THEN TRUE ELSE UNCHANGED <<status, run, tags, request, handed, reopened, retags>>
  /\ IF part = "keys" THEN TRUE ELSE UNCHANGED <<keys, rotation, minting, sinceCron>>
  /\ IF part = "chips" THEN TRUE ELSE UNCHANGED <<position, unborn, chipRequest>>
  /\ IF part = "stripe" THEN TRUE
     ELSE UNCHANGED <<account, enabled, charges, events, stripeRequest, said, raced>>
  /\ IF part = "policy" THEN TRUE ELSE UNCHANGED <<store, override, patch, booking>>
  /\ IF part = "retention" THEN TRUE ELSE UNCHANGED <<row, job, missed, unseen>>
  /\ IF part = "browser" THEN TRUE ELSE UNCHANGED <<slug, session, requests, since>>
  /\ UNCHANGED part

PartsNext ==
  \/ part = "campaign" /\ Next /\ Others
  \/ part = "keys" /\ Keys!Next /\ Others
  \/ part = "chips" /\ Chips!Next /\ Others
  \/ part = "stripe" /\ Stripe!Next /\ Others
  \/ part = "policy" /\ Policy!Next /\ Others
  \/ part = "retention" /\ Retain!Next /\ Others
  \/ part = "browser" /\ Browser!Next /\ Others
allVars == <<part, vars, keys, rotation, minting, sinceCron, position, unborn, chipRequest,
  account, enabled, charges, events, stripeRequest, said, raced, store, override, patch, booking,
  row, job, missed, unseen, slug, session, requests, since>>
PartsSpec == PartsInit /\ [][PartsNext]_allVars

\* The customers (and what stands for them elsewhere) are alike, and so are two requests.
Sym == Permutations(Customers) \union Permutations(Pair)

\* Cron leaves the door a key that lasts until its next run (rotate_checkin_keys).
DoorStaysOpen == Keys!DoorStaysOpen
\* Chips are rewritten on the places from 0, the moved one where it was asked to be
\* (_reorder_actions).
MoveLands == Chips!MoveLands
\* The flag for charges is one that Stripe set for the account in the row
\* (handle_account_updated, StripeReturnView).
FlagIsOfTheAccount == Stripe!FlagIsOfTheAccount
\* A deposit is within its total, a refund within the deposit, and with a matrix that
\* grows with notice longer notice gives no less (calc_deposit, calc_refund_amount).
DepositsAreCovered == Policy!DepositsAreCovered
\* Until a booking is made, cancelled or deleted, cohort and score move one way
\* (recompute_retention).
ConcernGrows == Retain!ConcernGrows
\* A request that names its store is served as no customer of another, and only within
\* the lifetime of a sign-in (CustomerSessionMiddleware).
ServedAtHome == Browser!ServedAtHome
================================================================================
