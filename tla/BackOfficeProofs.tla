--------------------------- MODULE BackOfficeProofs ---------------------------
(***************************************************************************)
(* What the parts of the back office keep to, each on its own, for every   *)
(* number of customers, requests, accounts, stores and amounts.            *)
(***************************************************************************)
EXTENDS MCBackOffice, Sequences, FiniteSetTheorems, SequenceTheorems, WellFoundedInduction,
  TLAPS

---------------------------------------------------------------------------
(* The Stripe account of a store.                                          *)

StripeEvent == [account : Customers, enabled : BOOLEAN]
ConnectRequest ==
    {[op |-> "idle"]}
    \union [op : {"link"}, read : {NoCustomer}, opened : DOMAIN charges]
    \union [op : {"refresh"}, heard : BOOLEAN]

StripeTyped ==
    /\ account \in DOMAIN charges \union {NoCustomer}
    /\ enabled \in BOOLEAN /\ raced \in BOOLEAN
    /\ DOMAIN charges \subseteq Customers
    /\ charges \in [DOMAIN charges -> BOOLEAN]
    /\ events \in Seq(StripeEvent)
    /\ stripeRequest \in [Pair -> ConnectRequest]
    /\ said \subseteq Customers

\* What reads "enabled", at Stripe or on its way from there, was said by Stripe
\* of the account it is about ...
EnabledWasSaid ==
    /\ \A a \in DOMAIN charges : charges[a] => a \in said
    /\ \A e \in DOMAIN events : events[e].enabled => events[e].account \in said

\* ... and an answer that names no account is of the one in the row.
HeardOfTheAccount ==
    \A r \in Pair :
        stripeRequest[r].op = "refresh" /\ stripeRequest[r].heard => account \in said \/ raced

StripeInv == StripeTyped /\ EnabledWasSaid /\ HeardOfTheAccount /\ FlagIsOfTheAccount

LEMMA StripeStarts == Stripe!Init => StripeInv
<1> SUFFICES ASSUME Stripe!Init PROVE StripeInv
  OBVIOUS
<1>1. /\ DOMAIN charges = {} /\ charges \in [{} -> BOOLEAN]
      /\ events \in Seq(StripeEvent) /\ stripeRequest = [r \in Pair |-> [op |-> "idle"]]
  BY DEF Stripe!Init, Stripe!Idle
<1>2. StripeTyped
  BY <1>1 DEF Stripe!Init, StripeTyped, ConnectRequest
<1>3. HeardOfTheAccount
  BY DEF Stripe!Init, Stripe!Idle, HeardOfTheAccount
<1>4. EnabledWasSaid /\ FlagIsOfTheAccount
  BY <1>1 DEF Stripe!Init, EnabledWasSaid, FlagIsOfTheAccount, Stripe!FlagIsOfTheAccount
<1> QED
  BY <1>2, <1>3, <1>4 DEF StripeInv

\* At Stripe: what an account may do changes, and an event says so.
LEMMA StripeChangesKeep ==
    ASSUME StripeInv, NEW a \in DOMAIN charges, Stripe!StripeChanges(a)
    PROVE  StripeInv'
<1> USE DEF StripeInv, StripeTyped
<1>1. /\ charges' = [charges EXCEPT ![a] = ~charges[a]]
      /\ events' = Append(events, [account |-> a, enabled |-> charges'[a]])
      /\ said' = said \union {b \in {a} : charges'[b]}
      /\ UNCHANGED <<account, enabled, stripeRequest, raced>>
  BY DEF Stripe!StripeChanges
<1>2. /\ DOMAIN charges' = DOMAIN charges /\ charges' \in [DOMAIN charges -> BOOLEAN]
      /\ charges'[a] \in BOOLEAN
      /\ \A b \in DOMAIN charges : b # a => charges'[b] = charges[b]
  BY <1>1
<1>3. [account |-> a, enabled |-> charges'[a]] \in StripeEvent
  BY <1>2 DEF StripeEvent
<1>4. said \subseteq said' /\ said' \subseteq Customers /\ (charges'[a] => a \in said')
  BY <1>1, <1>2
<1>5. StripeTyped'
  BY <1>1, <1>2, <1>3, <1>4 DEF ConnectRequest
<1>6. EnabledWasSaid'
  <2>1. \A b \in DOMAIN charges' : charges'[b] => b \in said'
    BY <1>2, <1>4 DEF EnabledWasSaid
  <2>2. \A e \in DOMAIN events' :
            \/ e \in DOMAIN events /\ events'[e] = events[e]
            \/ events'[e] = [account |-> a, enabled |-> charges'[a]]
    BY <1>1, <1>3
  <2> QED
    BY <2>1, <2>2, <1>4 DEF EnabledWasSaid
<1>7. HeardOfTheAccount' /\ FlagIsOfTheAccount'
  BY <1>1, <1>4 DEF HeardOfTheAccount, FlagIsOfTheAccount, Stripe!FlagIsOfTheAccount
<1> QED
  BY <1>5, <1>6, <1>7

\* An account is opened, and may not take charges yet.
LEMMA OpenAccountKeeps ==
    ASSUME StripeInv, NEW r \in Pair, Stripe!OpenAccount(r)
    PROVE  StripeInv'
<1> USE DEF StripeInv, StripeTyped
<1>1. PICK a \in Customers \ DOMAIN charges :
        /\ charges' = [b \in DOMAIN charges \union {a} |-> b # a /\ charges[b]]
        /\ stripeRequest' =
             [stripeRequest EXCEPT ![r] = [op |-> "link", read |-> account, opened |-> a]]
  BY DEF Stripe!OpenAccount, Stripe!Do
<1>2. account = NoCustomer /\ UNCHANGED <<account, enabled, events, said, raced>>
  BY DEF Stripe!OpenAccount
<1>3. /\ DOMAIN charges' = DOMAIN charges \union {a}
      /\ charges' \in [DOMAIN charges' -> BOOLEAN]
      /\ \A b \in DOMAIN charges' : charges'[b] => b \in DOMAIN charges /\ charges[b]
  BY <1>1
<1>4. /\ [op |-> "link", read |-> account, opened |-> a] \in ConnectRequest'
      /\ ConnectRequest \subseteq ConnectRequest'
  BY <1>2, <1>3 DEF ConnectRequest
<1>5. StripeTyped'
  BY <1>1, <1>2, <1>3, <1>4
<1>6. EnabledWasSaid' /\ HeardOfTheAccount' /\ FlagIsOfTheAccount'
  BY <1>1, <1>2, <1>3 DEF EnabledWasSaid, HeardOfTheAccount, FlagIsOfTheAccount,
                          Stripe!FlagIsOfTheAccount
<1> QED
  BY <1>5, <1>6

\* The account is saved: over no account, or over one the request had not seen.
LEMMA LinkAccountKeeps ==
    ASSUME StripeInv, NEW r \in Pair, Stripe!LinkAccount(r)
    PROVE  StripeInv'
<1> USE DEF StripeInv, StripeTyped
<1>1. /\ stripeRequest[r].op = "link"
      /\ account' = stripeRequest[r].opened
      /\ raced' = (raced \/ account # stripeRequest[r].read)
      /\ stripeRequest' = [stripeRequest EXCEPT ![r] = [op |-> "idle"]]
      /\ UNCHANGED <<enabled, charges, events, said>>
  BY DEF Stripe!LinkAccount, Stripe!Do, Stripe!Idle
<1>2. stripeRequest[r].read = NoCustomer /\ stripeRequest[r].opened \in DOMAIN charges
  BY <1>1 DEF ConnectRequest
<1>3. StripeTyped'
  BY <1>1, <1>2 DEF ConnectRequest
<1>4. ~raced' => account = NoCustomer /\ account \notin said
  BY <1>1, <1>2, CampaignAssumption DEF CampaignAssumption
<1>5. EnabledWasSaid' /\ HeardOfTheAccount' /\ FlagIsOfTheAccount'
  BY <1>1, <1>3, <1>4 DEF EnabledWasSaid, HeardOfTheAccount, FlagIsOfTheAccount,
                          Stripe!FlagIsOfTheAccount
<1> QED
  BY <1>3, <1>5

\* The owner comes back from Stripe: it is asked, and its answer saved.
LEMMA RefreshKeeps ==
    ASSUME StripeInv, NEW r \in Pair, Stripe!AskStripe(r) \/ Stripe!RefreshFlag(r) \/ Stripe!Die(r)
    PROVE  StripeInv'
<1> USE DEF StripeInv, StripeTyped
<1>1. CASE Stripe!RefreshFlag(r)
  <2>1. stripeRequest[r].heard \in BOOLEAN
    BY <1>1 DEF Stripe!RefreshFlag, ConnectRequest
  <2> QED
    BY <1>1, <2>1 DEF Stripe!RefreshFlag, Stripe!Do, Stripe!Idle, ConnectRequest,
         EnabledWasSaid, HeardOfTheAccount, FlagIsOfTheAccount, Stripe!FlagIsOfTheAccount
<1>2. CASE Stripe!Die(r)
  BY <1>2 DEF Stripe!Die, Stripe!Do, Stripe!Idle, ConnectRequest, EnabledWasSaid,
       HeardOfTheAccount, FlagIsOfTheAccount, Stripe!FlagIsOfTheAccount
<1>3. CASE Stripe!AskStripe(r)
  <2>1. /\ account \in DOMAIN charges
        /\ stripeRequest' =
             [stripeRequest EXCEPT ![r] = [op |-> "refresh", heard |-> charges[account]]]
        /\ UNCHANGED <<account, enabled, charges, events, said, raced>>
    BY <1>3 DEF Stripe!AskStripe, Stripe!Do
  <2>2. charges[account] \in BOOLEAN
    BY <2>1
  <2>3. [op |-> "refresh", heard |-> charges[account]] \in ConnectRequest
    BY <2>2 DEF ConnectRequest
  <2>4. StripeTyped'
    BY <2>1, <2>3 DEF ConnectRequest
  <2>5. HeardOfTheAccount'
    BY <2>1, <2>2 DEF HeardOfTheAccount, EnabledWasSaid
  <2> QED
    BY <2>1, <2>4, <2>5 DEF EnabledWasSaid, FlagIsOfTheAccount, Stripe!FlagIsOfTheAccount
<1> QED
  BY <1>1, <1>2, <1>3

\* "Mirror of Stripe's account.charges_enabled" (Store.stripe_charges_enabled): with
\* any number of accounts opened and left behind, of events delivered late, twice or out
\* of order, and of connects and returns at once, the flag is set only after Stripe said
\* so of the account in the row, unless one connect saved over another's account.
THEOREM FlagIsOfTheAccountHolds == Stripe!Spec => []FlagIsOfTheAccount
<1>1. StripeInv /\ [Stripe!Next]_Stripe!vars => StripeInv'
  <2> SUFFICES ASSUME StripeInv, [Stripe!Next]_Stripe!vars PROVE StripeInv'
    OBVIOUS
  <2>1. CASE \E e \in DOMAIN events : Stripe!HandleEvent(e)
    <3> PICK e \in DOMAIN events : Stripe!HandleEvent(e)
      BY <2>1
    <3>1. events \in Seq(StripeEvent)
      BY DEF StripeInv, StripeTyped
    <3>2. events[e] \in StripeEvent
      BY <3>1, e \in 1..Len(events)
    <3>3. events[e].enabled \in BOOLEAN
      BY <3>2 DEF StripeEvent
    <3> QED
      BY <3>3 DEF Stripe!HandleEvent, StripeInv, StripeTyped, ConnectRequest, EnabledWasSaid,
           HeardOfTheAccount, FlagIsOfTheAccount, Stripe!FlagIsOfTheAccount
  <2>2. CASE UNCHANGED Stripe!vars
    BY <2>2 DEF Stripe!vars, StripeInv, StripeTyped, ConnectRequest, EnabledWasSaid,
         HeardOfTheAccount, FlagIsOfTheAccount, Stripe!FlagIsOfTheAccount
  <2> QED
    BY <2>1, <2>2, StripeChangesKeep, OpenAccountKeeps, LinkAccountKeeps, RefreshKeeps
    DEF Stripe!Next
<1>2. StripeInv => FlagIsOfTheAccount
  BY DEF StripeInv
<1> QED
  BY <1>1, <1>2, StripeStarts, PTL DEF Stripe!Spec

---------------------------------------------------------------------------
(* A campaign.                                                             *)

\* Each request does its own step; Delete also marks the runs of the others.
CampaignStep(r) ==
    \/ PatchTest(r) \/ PatchLoad(r) \/ PatchSave(r) \/ Launch(r) \/ ReadQueued(r)
    \/ \E c \in Customers : SendOne(r, c)
    \/ SaveRun(r) \/ Finish(r) \/ Raise(r) \/ Cancel(r) \/ Delete(r) \/ Die(r)

LEMMA CampaignSteps ==
    ASSUME [Next]_vars
    PROVE  \/ UNCHANGED vars
           \/ \E c \in Customers, new \in SUBSET Tags : Retag(c, new)
           \/ \E r \in Requests : CampaignStep(r)
BY DEF Next, Serve, CampaignStep

LEMMA GotoIsTyped ==
    ASSUME TypeOK, NEW r \in Requests, NEW pc, Goto(r, pc),
           pc \in {"patch", "read", "done"}
    PROVE  /\ request' \in [Requests -> Request]
           /\ \A q \in Requests : request'[q].pc = "save" => request'[q].current # NoCustomer
           /\ request'[r].pc = pc
           /\ \A q \in Requests : q # r => request'[q] = request[q]
BY DEF TypeOK, Goto, Request

LEMMA CampaignTypes ==
    ASSUME TypeOK, NEW r \in Requests, CampaignStep(r)
    PROVE  TypeOK'
<1> USE DEF TypeOK
<1>1. CASE PatchTest(r) \/ Raise(r) \/ Die(r)
  BY <1>1, GotoIsTyped DEF PatchTest, Raise, Die
<1>2. CASE PatchLoad(r)
  BY <1>2, ZenonT(40) DEF PatchLoad, Request
<1>3. CASE PatchSave(r)
  <2>1. request[r].copy \in CampaignStatus
    BY DEF Request
  <2> QED
    BY <1>3, <2>1, GotoIsTyped DEF PatchSave
<1>4. CASE Launch(r)
  <2>1. run' \in [Customers -> CampaignRunStatus]
    BY <1>4 DEF Launch, CampaignRunStatus
  <2> QED
    BY <1>4, <2>1, GotoIsTyped DEF Launch, CampaignStatus
<1>5. CASE ReadQueued(r)
  BY <1>5, ZenonT(40) DEF ReadQueued, QueuedRuns, Request
<1>6. CASE \E c \in Customers : SendOne(r, c)
  <2> PICK c \in Customers : SendOne(r, c)
    BY <1>6
  <2>1. handed' \in [Customers -> Nat]
    BY DEF SendOne
  <2>2. c # NoCustomer
    BY CampaignAssumption DEF CampaignAssumption
  <2>3. PICK result \in SendResult \ {"raises"} :
          request' = [request EXCEPT ![r] =
              [request[r] EXCEPT !.pc = "save", !.todo = request[r].todo \ {c}, !.current = c,
                        !.result = IF result = "ok" THEN "sent" ELSE "failed"]]
    BY DEF SendOne
  <2> DEFINE new == [request[r] EXCEPT !.pc = "save", !.todo = request[r].todo \ {c},
                       !.current = c, !.result = IF result = "ok" THEN "sent" ELSE "failed"]
  <2>4. new \in Request /\ new.current = c
    BY DEF Request
  <2>5. request' = [request EXCEPT ![r] = new]
    BY <2>3
  <2> HIDE DEF new
  <2>6. /\ request' \in [Requests -> Request]
        /\ \A q \in Requests : request'[q].pc = "save" => request'[q].current # NoCustomer
    BY <2>2, <2>4, <2>5
  <2> QED
    BY <2>1, <2>6 DEF SendOne
<1>7. CASE SaveRun(r)
  <2>1. request[r] \in Request /\ request[r].current \in Customers
    BY <1>7 DEF SaveRun, Request
  <2>2. CASE request[r].orphan
    BY <1>7, <2>2, GotoIsTyped DEF SaveRun
  <2>3. CASE ~request[r].orphan
    <3>1. run' = [run EXCEPT ![request[r].current] = request[r].result]
      BY <1>7, <2>3 DEF SaveRun
    <3>2. run' \in [Customers -> CampaignRunStatus]
      BY <3>1, <2>1 DEF Request, CampaignRunStatus
    <3> DEFINE new == [request[r] EXCEPT !.pc = "send", !.current = NoCustomer, !.result = "none"]
    <3>3. new \in Request /\ new.pc = "send"
      BY DEF Request
    <3>4. request' = [request EXCEPT ![r] = new]
      BY <1>7, <2>3 DEF SaveRun
    <3> HIDE DEF new
    <3> QED
      BY <1>7, <2>3, <3>2, <3>3, <3>4 DEF SaveRun
  <2> QED
    BY <2>2, <2>3
<1>8. CASE Finish(r) \/ Cancel(r)
  BY <1>8, GotoIsTyped DEF Finish, Cancel, CampaignStatus
<1>9. CASE Delete(r)
  <2>1. /\ DOMAIN request' = Requests /\ request' = [q \in Requests |-> request'[q]]
        /\ \A q \in Requests : request'[q] =
             IF q = r THEN [request[q] EXCEPT !.pc = "done"]
             ELSE [request[q] EXCEPT !.orphan = request[q].orphan \/ request[q].pc \in {"send", "save"}]
    BY <1>9 DEF Delete
  <2>2. ASSUME NEW q \in Requests
        PROVE  /\ request'[q] \in Request /\ request'[q].current = request[q].current
               /\ request'[q].pc = "save" => request[q].pc = "save"
    <3>1. request[q] \in Request
      OBVIOUS
    <3>2. CASE q = r
      BY <2>1, <3>1, <3>2, SMTT(30) DEF Request
    <3>3. CASE q # r
      <4> DEFINE o == request[q].orphan \/ request[q].pc \in {"send", "save"}
      <4>1. o \in BOOLEAN
        OBVIOUS
      <4>2. request'[q] = [request[q] EXCEPT !.orphan = o]
        BY <2>1, <3>3
      <4> HIDE DEF o
      <4> QED
        BY <3>1, <4>1, <4>2 DEF Request
    <3> QED
      BY <3>2, <3>3
  <2>3. /\ request' \in [Requests -> Request]
        /\ \A q \in Requests : request'[q].pc = "save" => request'[q].current # NoCustomer
    BY <2>1, <2>2
  <2> QED
    BY <1>9, <2>3 DEF Delete, CampaignStatus, CampaignRunStatus
<1> QED
  BY <1>1, <1>2, <1>3, <1>4, <1>5, <1>6, <1>7, <1>8, <1>9 DEF CampaignStep

---------------------------------------------------------------------------
(* Who may still hand a customer the message: each launch gives one chance *)
(* to do so, and a campaign that is open to be launched has one more.      *)

Holds(r, c) ==
    \/ request[r].pc = "read"
    \/ request[r].pc \in {"send", "save"} /\ c \in request[r].todo
Senders(c) == {r \in Requests : Holds(r, c)}

ChancesCount == \A c \in Customers :
    handed[c] + Cardinality(Senders(c)) + (IF Launchable THEN 1 ELSE 0) <= 1 + reopened

\* Until an older status is written back, nobody is at the runs of a campaign
\* that is open, and nobody holds a run that was skipped.
NobodyHolds ==
    reopened = 0 => \A c \in Customers :
        run[c] = "skipped_optout" => handed[c] = 0 /\ \A r \in Requests :
            request[r].pc \in {"send", "save"} => c \notin request[r].todo

CampaignInv == TypeOK /\ ChancesCount /\ NobodyHolds

LEMMA SendersAreFinite ==
    ASSUME NEW c PROVE IsFiniteSet(Senders(c)) /\ Cardinality(Senders(c)) \in Nat
BY CampaignAssumption, FS_Subset, FS_CardinalityType DEF CampaignAssumption, Senders

LEMMA OneMoreOrLess ==
    ASSUME NEW S, IsFiniteSet(S), NEW T, NEW x
    PROVE  /\ T \subseteq S => Cardinality(T) <= Cardinality(S)
           /\ T \subseteq S \union {x} => Cardinality(T) <= Cardinality(S) + 1
           /\ x \in S /\ T \subseteq S \ {x} => Cardinality(T) <= Cardinality(S) - 1
<1>1. /\ IsFiniteSet(S \union {x}) /\ IsFiniteSet(S \ {x})
      /\ Cardinality(S \union {x}) <= Cardinality(S) + 1
      /\ x \in S => Cardinality(S \ {x}) = Cardinality(S) - 1
  BY FS_AddElement, FS_RemoveElement, FS_CardinalityType
<1>2. /\ Cardinality(S) \in Nat /\ Cardinality(S \union {x}) \in Nat /\ Cardinality(S \ {x}) \in Nat
      /\ \A U \in {S, S \union {x}, S \ {x}} :
           T \subseteq U => Cardinality(T) \in Nat /\ Cardinality(T) <= Cardinality(U)
  BY <1>1, FS_Subset, FS_CardinalityType
<1>3. T \subseteq S => Cardinality(T) <= Cardinality(S)
  BY <1>2
<1>4. ASSUME T \subseteq S \union {x} PROVE Cardinality(T) <= Cardinality(S) + 1
  <2>1. Cardinality(T) \in Nat /\ Cardinality(T) <= Cardinality(S \union {x})
    BY <1>2, <1>4
  <2> QED
    BY <2>1, <1>1, <1>2
<1>5. ASSUME x \in S, T \subseteq S \ {x} PROVE Cardinality(T) <= Cardinality(S) - 1
  <2>1. Cardinality(T) \in Nat /\ Cardinality(T) <= Cardinality(S \ {x})
    BY <1>2, <1>5
  <2> QED
    BY <2>1, <1>5, <1>1, <1>2
<1> QED
  BY <1>3, <1>4, <1>5

\* A step that lets no one else at the runs, and opens the campaign only by
\* writing an older status back.
LEMMA QuietStep ==
    ASSUME CampaignInv, TypeOK', handed' = handed,
           \A c \in Customers : Senders(c)' \subseteq Senders(c),
           \/ reopened' = reopened /\ (Launchable' => Launchable)
           \/ reopened' = reopened + 1
    PROVE  ChancesCount'
<1> SUFFICES ASSUME NEW c \in Customers
    PROVE handed'[c] + Cardinality(Senders(c)') + (IF Launchable' THEN 1 ELSE 0) <= 1 + reopened'
  BY DEF ChancesCount
<1>1. /\ handed[c] \in Nat /\ reopened \in Nat
      /\ Cardinality(Senders(c)) \in Nat /\ Cardinality(Senders(c)') \in Nat
  <2>1. Cardinality(Senders(c)') \in Nat
    BY SendersAreFinite, FS_Subset, FS_CardinalityType
  <2> QED
    BY <2>1, SendersAreFinite DEF CampaignInv, TypeOK
<1>2. Cardinality(Senders(c)') <= Cardinality(Senders(c))
  BY SendersAreFinite, OneMoreOrLess
<1>3. handed[c] + Cardinality(Senders(c)) + (IF Launchable THEN 1 ELSE 0) <= 1 + reopened
  BY DEF CampaignInv, ChancesCount
<1> QED
  BY <1>1, <1>2, <1>3

\* The requests that stay where they are, or leave.
LEMMA NoNewSender ==
    ASSUME NEW r \in Requests,
           \A q \in Requests : q # r => request'[q].pc = request[q].pc /\ request'[q].todo = request[q].todo,
           NEW c, Holds(r, c)' => Holds(r, c)
    PROVE  Senders(c)' \subseteq Senders(c)
BY DEF Senders, Holds

LEMMA LaunchKeeps ==
    ASSUME CampaignInv, TypeOK', NEW r \in Requests, Launch(r)
    PROVE  ChancesCount' /\ NobodyHolds'
<1>1. /\ Launchable /\ ~Launchable' /\ handed' = handed /\ reopened' = reopened
      /\ request[r].pc = "idle" /\ request'[r].pc = "read"
      /\ \A q \in Requests : q # r => request'[q] = request[q]
      /\ reopened \in Nat
  BY DEF Launch, Goto, Launchable, CampaignInv, TypeOK
<1>2. ASSUME NEW c \in Customers
      PROVE  handed'[c] + Cardinality(Senders(c)') + (IF Launchable' THEN 1 ELSE 0) <= 1 + reopened'
  <2>1. Senders(c)' \subseteq Senders(c) \union {r}
    BY <1>1 DEF Senders, Holds
  <2>2. Cardinality(Senders(c)') <= Cardinality(Senders(c)) + 1
    BY <2>1, SendersAreFinite, OneMoreOrLess
  <2>3. handed[c] + Cardinality(Senders(c)) + 1 <= 1 + reopened
    BY <1>1 DEF CampaignInv, ChancesCount
  <2>4. Cardinality(Senders(c)') \in Nat
    BY CampaignAssumption, FS_Subset, FS_CardinalityType DEF CampaignAssumption, Senders
  <2> QED
    BY <1>1, <2>2, <2>3, <2>4, SendersAreFinite DEF CampaignInv, TypeOK
<1>3. ASSUME reopened' = 0, NEW c \in Customers
      PROVE  handed'[c] = 0 /\ \A q \in Requests :
               request'[q].pc \in {"send", "save"} => c \notin request'[q].todo
  <2>1. handed[c] + Cardinality(Senders(c)) + 1 <= 1
    BY <1>1, <1>3 DEF CampaignInv, ChancesCount
  <2>2. handed[c] \in Nat
    BY DEF CampaignInv, TypeOK
  <2>3. handed[c] = 0 /\ Cardinality(Senders(c)) = 0
    BY <2>1, <2>2, SendersAreFinite
  <2>4. Senders(c) = {}
    BY <2>3, SendersAreFinite, FS_EmptySet
  <2> QED
    BY <1>1, <2>3, <2>4 DEF Senders, Holds
<1> QED
  BY <1>2, <1>3 DEF ChancesCount, NobodyHolds

LEMMA SendOneKeeps ==
    ASSUME CampaignInv, TypeOK', NEW r \in Requests, NEW c \in Customers, SendOne(r, c)
    PROVE  ChancesCount' /\ NobodyHolds'
<1>1. /\ request[r].pc = "send" /\ c \in request[r].todo
      /\ UNCHANGED <<status, run, reopened>>
      /\ \A d \in Customers : d # c => handed'[d] = handed[d]
      /\ handed'[c] \in {handed[c], handed[c] + 1}
  BY DEF SendOne, CampaignInv, TypeOK
<1>2. /\ request'[r].pc = "save" /\ request'[r].todo = request[r].todo \ {c}
      /\ \A q \in Requests : q # r => request'[q] = request[q]
  <2>1. request \in [Requests -> Request] /\ request[r] \in Request
    BY DEF CampaignInv, TypeOK
  <2> QED
    BY <2>1 DEF SendOne, Request
<1>3. ASSUME NEW d \in Customers
      PROVE  handed'[d] + Cardinality(Senders(d)') + (IF Launchable' THEN 1 ELSE 0) <= 1 + reopened'
  <2>1. IF d = c THEN r \in Senders(d) /\ Senders(d)' \subseteq Senders(d) \ {r}
        ELSE Senders(d)' \subseteq Senders(d)
    BY <1>1, <1>2 DEF Senders, Holds
  <2>2. IF d = c THEN Cardinality(Senders(d)') <= Cardinality(Senders(d)) - 1
        ELSE Cardinality(Senders(d)') <= Cardinality(Senders(d))
    BY <2>1, SendersAreFinite, OneMoreOrLess
  <2>3. Cardinality(Senders(d)') \in Nat /\ Cardinality(Senders(d)) \in Nat
    BY CampaignAssumption, FS_Subset, FS_CardinalityType DEF CampaignAssumption, Senders
  <2>4. handed[d] + Cardinality(Senders(d)) + (IF Launchable THEN 1 ELSE 0) <= 1 + reopened
    BY DEF CampaignInv, ChancesCount
  <2>5. (Launchable' <=> Launchable) /\ reopened' = reopened /\ reopened \in Nat /\ handed[d] \in Nat
    BY <1>1 DEF Launchable, CampaignInv, TypeOK
  <2>6. handed'[d] <= (IF d = c THEN handed[d] + 1 ELSE handed[d]) /\ handed'[d] \in Nat
    BY <1>1, <2>5
  <2> QED
    BY <2>2, <2>3, <2>4, <2>5, <2>6
<1>4. NobodyHolds'
  BY <1>1, <1>2 DEF CampaignInv, NobodyHolds
<1> QED
  BY <1>3, <1>4 DEF ChancesCount

LEMMA SaveRunKeeps ==
    ASSUME CampaignInv, TypeOK', NEW r \in Requests, SaveRun(r)
    PROVE  ChancesCount' /\ NobodyHolds'
<1>1. /\ request[r] \in Request /\ request[r].pc = "save"
      /\ UNCHANGED <<status, handed, reopened>>
  BY DEF SaveRun, CampaignInv, TypeOK
<1>2. /\ request'[r].pc \in {"send", "done"} /\ request'[r].todo = request[r].todo
      /\ \A q \in Requests : q # r => request'[q] = request[q]
  <2>1. CASE request[r].orphan
    <3>1. request' = [request EXCEPT ![r] = [request[r] EXCEPT !.pc = "done"]]
      BY <2>1 DEF SaveRun, Goto
    <3> QED
      BY <1>1, <3>1 DEF CampaignInv, TypeOK, Request
  <2>2. CASE ~request[r].orphan
    <3>1. request' = [request EXCEPT ![r] =
            [request[r] EXCEPT !.pc = "send", !.current = NoCustomer, !.result = "none"]]
      BY <2>2 DEF SaveRun
    <3> QED
      BY <1>1, <3>1 DEF CampaignInv, TypeOK, Request
  <2> QED
    BY <2>1, <2>2
<1>3. ChancesCount'
  <2>1. \A c \in Customers : Senders(c)' \subseteq Senders(c)
    BY <1>1, <1>2, NoNewSender DEF Holds
  <2> QED
    BY <1>1, <2>1, QuietStep DEF Launchable
<1>4. \A c \in Customers : run'[c] = "skipped_optout" => run[c] = "skipped_optout"
  <2>1. request[r].result # "skipped_optout"
    BY <1>1 DEF Request
  <2> QED
    BY <2>1 DEF SaveRun, CampaignInv, TypeOK
<1>5. NobodyHolds'
  BY <1>1, <1>2, <1>4 DEF CampaignInv, NobodyHolds
<1> QED
  BY <1>3, <1>5

\* The runs go, and no request gets a place among the senders.
LEMMA DeleteKeeps ==
    ASSUME CampaignInv, TypeOK', NEW r \in Requests, Delete(r)
    PROVE  ChancesCount' /\ NobodyHolds'
<1>1. /\ UNCHANGED <<handed, reopened>> /\ ~Launchable'
      /\ \A c \in Customers : run'[c] # "skipped_optout"
  BY DEF Delete, Launchable
<1>2. \A q \in Requests :
        /\ request'[q].todo = request[q].todo
        /\ request'[q].pc = IF q = r THEN "done" ELSE request[q].pc
  <2>1. request \in [Requests -> Request]
    BY DEF CampaignInv, TypeOK
  <2> QED
    BY <2>1 DEF Delete, Request
<1>3. \A c \in Customers : Senders(c)' \subseteq Senders(c)
  BY <1>2 DEF Senders, Holds
<1> QED
  BY <1>1, <1>3, QuietStep DEF NobodyHolds

LEMMA ReadQueuedKeeps ==
    ASSUME CampaignInv, TypeOK', NEW r \in Requests, ReadQueued(r)
    PROVE  ChancesCount' /\ NobodyHolds'
<1>1. /\ request[r].pc = "read" /\ UNCHANGED <<status, run, handed, reopened>>
      /\ request'[r].pc = "send" /\ request'[r].todo = QueuedRuns
      /\ \A q \in Requests : q # r => request'[q] = request[q]
  <2>1. request \in [Requests -> Request] /\ request[r] \in Request
    BY DEF CampaignInv, TypeOK
  <2> QED
    BY <2>1 DEF ReadQueued, Request
<1>2. \A c \in Customers : Senders(c)' \subseteq Senders(c)
  BY <1>1, NoNewSender DEF Holds
<1> QED
  BY <1>1, <1>2, QuietStep DEF Launchable, CampaignInv, NobodyHolds, QueuedRuns

\* The other steps leave the runs and the hand-overs alone, and move the request
\* to a place where it holds none.
LEMMA OtherStepsKeep ==
    ASSUME CampaignInv, TypeOK', NEW r \in Requests,
           \/ PatchTest(r) \/ PatchLoad(r) \/ PatchSave(r) \/ Finish(r) \/ Raise(r)
           \/ Cancel(r) \/ Die(r)
    PROVE  ChancesCount' /\ NobodyHolds'
<1>1. /\ UNCHANGED <<run, handed>>
      /\ request'[r].pc \in {"patch", "patchSave", "done"}
      /\ \A q \in Requests : q # r => request'[q] = request[q]
  <2>1. request \in [Requests -> Request] /\ request[r] \in Request
    BY DEF CampaignInv, TypeOK
  <2>2. CASE PatchLoad(r)
    BY <2>1, <2>2 DEF PatchLoad, Request
  <2>3. CASE ~PatchLoad(r)
    BY <2>1, <2>3 DEF PatchTest, PatchSave, Finish, Raise, Cancel, Die, Goto, Request
  <2> QED
    BY <2>2, <2>3
<1>2. /\ reopened \in Nat
      /\ \/ reopened' = reopened /\ (Launchable' => Launchable)
         \/ reopened' = reopened + 1
  BY DEF PatchTest, PatchLoad, PatchSave, Finish, Raise, Cancel, Die, Launchable, CampaignInv, TypeOK
<1>3. \A c \in Customers : Senders(c)' \subseteq Senders(c)
  BY <1>1 DEF Senders, Holds
<1>4. ChancesCount'
  BY <1>1, <1>2, <1>3, QuietStep
<1>5. reopened' = 0 => reopened = 0
  BY <1>2
<1>6. NobodyHolds'
  BY <1>1, <1>5 DEF CampaignInv, NobodyHolds
<1> QED
  BY <1>4, <1>6

LEMMA CampaignStarts == Init => CampaignInv
<1> SUFFICES ASSUME Init PROVE CampaignInv
  OBVIOUS
<1>1. TypeOK
  <2>1. tags \in [Customers -> SUBSET Tags]
    BY CampaignAssumption DEF Init, CampaignAssumption
  <2>2. request \in [Requests -> Request] /\ \A r \in Requests : request[r].pc = "idle"
    BY DEF Init, Request, CampaignStatus
  <2> QED
    <3>1. /\ status \in CampaignStatus /\ run \in [Customers -> CampaignRunStatus]
          /\ handed \in [Customers -> Nat] /\ reopened \in Nat
      BY DEF Init, CampaignStatus, CampaignRunStatus
    <3>2. retags \in 0..MaxRetags
      BY CampaignAssumption DEF Init, CampaignAssumption
    <3> QED
      BY <2>1, <2>2, <3>1, <3>2 DEF TypeOK
<1>2. \A c \in Customers : Cardinality(Senders(c)) = 0
  <2>1. \A c \in Customers : Senders(c) = {}
    BY DEF Init, Senders, Holds
  <2> QED
    BY <2>1, FS_EmptySet
<1>3. ChancesCount /\ NobodyHolds
  BY <1>2 DEF Init, ChancesCount, NobodyHolds
<1> QED
  BY <1>1, <1>3 DEF CampaignInv

LEMMA CampaignInvariance == Spec => []CampaignInv
<1>1. CampaignInv /\ [Next]_vars => CampaignInv'
  <2> SUFFICES ASSUME CampaignInv, [Next]_vars PROVE CampaignInv'
    OBVIOUS
  <2>1. CASE \/ UNCHANGED vars
             \/ \E c \in Customers, new \in SUBSET Tags : Retag(c, new)
    <3>1. /\ UNCHANGED <<status, run, request, handed, reopened>>
          /\ tags' \in [Customers -> SUBSET Tags] /\ retags' \in 0..MaxRetags
      BY <2>1, CampaignAssumption DEF Retag, vars, CampaignInv, TypeOK, CampaignAssumption
    <3>2. TypeOK'
      BY <3>1 DEF CampaignInv, TypeOK
    <3>3. ChancesCount' /\ NobodyHolds'
      BY <3>1 DEF CampaignInv, ChancesCount, NobodyHolds, Senders, Holds, Launchable
    <3> QED
      BY <3>2, <3>3 DEF CampaignInv
  <2>2. ASSUME NEW r \in Requests, CampaignStep(r) PROVE CampaignInv'
    <3>1. TypeOK'
      BY <2>2, CampaignTypes DEF CampaignInv
    <3> QED
      BY <2>2, <3>1, LaunchKeeps, SendOneKeeps, SaveRunKeeps, DeleteKeeps, ReadQueuedKeeps,
         OtherStepsKeep DEF CampaignStep, CampaignInv
  <2> QED
    BY <2>1, <2>2, CampaignSteps
<1> QED
  BY <1>1, CampaignStarts, PTL DEF Spec

\* However many launches, edits, deletions and deaths race, and however the
\* tags change, a customer is handed the campaign's message once, and once more for
\* each edit that wrote an older status back.
THEOREM SentOnceHolds == Spec => []SentOnce
<1>1. CampaignInv => SentOnce
  <2> SUFFICES ASSUME CampaignInv, NEW c \in Customers PROVE handed[c] <= 1 + reopened
    BY DEF SentOnce
  <2>1. handed[c] + Cardinality(Senders(c)) + (IF Launchable THEN 1 ELSE 0) <= 1 + reopened
    BY DEF CampaignInv, ChancesCount
  <2> QED
    BY <2>1, SendersAreFinite DEF CampaignInv, TypeOK
<1> QED
  BY <1>1, CampaignInvariance, PTL

\* As long as no edit wrote an older status back, a customer whose run says that
\* they had opted out when the campaign was launched is handed nothing.
THEOREM OptOutSkippedHolds == Spec => []OptOutSkipped
<1>1. CampaignInv => OptOutSkipped
  BY DEF CampaignInv, NobodyHolds, OptOutSkipped
<1> QED
  BY <1>1, CampaignInvariance, PTL

---------------------------------------------------------------------------
(* The cookies of a browser.                                               *)

Rows == DOMAIN Visitors
Cookie == [customer : Rows \union {Nobody}, left : 0..Lifetime]
SentRequest ==
    [pc : {"sent"}, op : {"read", "sign in", "log out"}, customer : Rows \union {Nobody},
     header : Stores \union {NoStore}, slug : Stores \union {NoStore}, session : Cookie]
ServedRequest ==
    [pc : {"served"}, header : Stores \union {NoStore}, as : Rows \union {Nobody},
     signedIn : Rows \union {Nobody}, sets : BOOLEAN, session : Cookie]
BrowserRequest == {[pc |-> "idle"]} \union SentRequest \union ServedRequest

LEMMA RequestKinds ==
    ASSUME NEW q \in BrowserRequest
    PROVE  /\ q.pc \in {"idle", "sent", "served"}
           /\ q.pc = "sent" => q \in SentRequest
           /\ q.pc = "served" => q \in ServedRequest
           /\ q.pc # "idle" => q.session \in Cookie /\ q.header \in Stores \union {NoStore}
<1>1. CASE q = [pc |-> "idle"]
  BY <1>1
<1>2. CASE q \in SentRequest
  BY <1>2 DEF SentRequest
<1>3. CASE q \in ServedRequest
  BY <1>3 DEF ServedRequest
<1> QED
  BY <1>1, <1>2, <1>3 DEF BrowserRequest

BrowserTyped ==
    /\ slug \in Stores \union {NoStore}
    /\ session \in Cookie
    /\ requests \in [Pair -> BrowserRequest]
    /\ since \in [Rows -> 0..Lifetime]
    /\ \A r \in Pair : requests[r].pc = "sent" /\ requests[r].op = "sign in"
                         => requests[r].customer \in Rows

\* A session cookie does not outlive the latest sign-in of its customer ...
SignedInSince(s) == s.left > 0 => s.customer \in Rows /\ s.left <= since[s.customer]

\* ... wherever a copy of it is.
CookiesAge ==
    /\ SignedInSince(session)
    /\ \A r \in Pair : requests[r].pc # "idle" => SignedInSince(requests[r].session)

BrowserInv == BrowserTyped /\ CookiesAge

LEMMA BrowserFacts == Visitors \in [Rows -> Stores] /\ FirstStore \in Stores /\ Lifetime \in Nat \ {0}
BY PartsAssumption DEF PartsAssumption, Browser!SessionsAssumption, Rows

LEMMA BrowserStarts == Browser!Init => BrowserInv
<1> SUFFICES ASSUME Browser!Init PROVE BrowserInv
  OBVIOUS
<1>1. [customer |-> Nobody, left |-> 0] \in Cookie
  BY BrowserFacts DEF Cookie
<1>2. BrowserTyped
  <2>1. since \in [Rows -> 0..Lifetime]
    BY BrowserFacts DEF Browser!Init, Rows
  <2>2. requests \in [Pair -> BrowserRequest] /\ \A r \in Pair : requests[r].pc = "idle"
    BY DEF Browser!Init, Browser!Idle, BrowserRequest
  <2> QED
    BY <1>1, <2>1, <2>2 DEF Browser!Init, Browser!NoSession, BrowserTyped
<1>3. CookiesAge
  BY DEF Browser!Init, Browser!NoSession, Browser!Idle, CookiesAge, SignedInSince
<1> QED
  BY <1>2, <1>3 DEF BrowserInv

LEMMA SendKeeps ==
    ASSUME BrowserInv, NEW r \in Pair, NEW op \in {"read", "sign in", "log out"},
           NEW c \in Rows \union {Nobody}, NEW h \in Stores \union {NoStore},
           Browser!Send(r, op, c, h)
    PROVE  BrowserInv'
<1> DEFINE new == [pc |-> "sent", op |-> op, customer |-> c, header |-> h,
                   slug |-> slug, session |-> session]
<1>1. requests' = [requests EXCEPT ![r] = new] /\ UNCHANGED <<slug, session, since>>
  BY DEF Browser!Send
<1>2. new \in BrowserRequest /\ new.session = session /\ new.pc = "sent"
  BY DEF BrowserRequest, SentRequest, BrowserInv, BrowserTyped
<1>3. new.op = "sign in" => new.customer \in Rows
  BY DEF Browser!Send, Rows
<1> HIDE DEF new
<1>4. BrowserTyped'
  BY <1>1, <1>2, <1>3 DEF BrowserInv, BrowserTyped
<1>5. CookiesAge'
  BY <1>1, <1>2 DEF BrowserInv, BrowserTyped, CookiesAge, SignedInSince
<1> QED
  BY <1>4, <1>5 DEF BrowserInv

LEMMA ArriveKeeps ==
    ASSUME BrowserInv, NEW r \in Pair, Browser!Arrive(r)
    PROVE  BrowserInv'
<1>1. /\ requests[r].pc = "served"
      /\ slug' = IF requests[r].header # NoStore THEN requests[r].header ELSE slug
      /\ session' = IF requests[r].sets THEN requests[r].session ELSE session
      /\ requests' = [requests EXCEPT ![r] = [pc |-> "idle"]]
      /\ since' = since
  BY DEF Browser!Arrive, Browser!At, Browser!Idle
<1>2. /\ requests[r].session \in Cookie /\ requests[r].header \in Stores \union {NoStore}
      /\ [pc |-> "idle"] \in BrowserRequest
  <2>1. requests[r] \in BrowserRequest
    BY DEF BrowserInv, BrowserTyped
  <2> QED
    BY <1>1, <2>1, RequestKinds DEF BrowserRequest
<1>3. BrowserTyped'
  BY <1>1, <1>2 DEF BrowserInv, BrowserTyped
<1>4. CookiesAge'
  BY <1>1 DEF BrowserInv, BrowserTyped, CookiesAge, SignedInSince
<1> QED
  BY <1>3, <1>4 DEF BrowserInv

LEMMA BrowserTickKeeps ==
    ASSUME BrowserInv, Browser!Tick
    PROVE  BrowserInv'
<1>1. /\ session' = [session EXCEPT !.left = Browser!Down(session.left)]
      /\ slug' = slug
      /\ requests' = [r \in Pair |-> IF requests[r].pc = "idle" THEN [pc |-> "idle"]
                        ELSE [requests[r] EXCEPT !.session = Browser!Aged(requests[r].session)]]
      /\ since' = [c \in Rows |-> Browser!Down(since[c])]
  BY DEF Browser!Tick, Browser!Aged, Browser!At, Browser!Idle, Rows
<1>2. ASSUME NEW n \in 0..Lifetime
      PROVE  /\ Browser!Down(n) \in 0..Lifetime /\ Browser!Down(n) <= n
             /\ \A k \in 0..Lifetime : n <= k => Browser!Down(n) <= Browser!Down(k)
  BY BrowserFacts DEF Browser!Down
<1>3. ASSUME NEW s \in Cookie
      PROVE  /\ Browser!Aged(s) \in Cookie
             /\ SignedInSince(s) => SignedInSince(Browser!Aged(s))'
  <2>1. /\ Browser!Aged(s) = [s EXCEPT !.left = Browser!Down(s.left)]
        /\ s.left \in 0..Lifetime
    BY DEF Browser!Aged, Cookie
  <2>2. /\ Browser!Aged(s) \in Cookie /\ Browser!Aged(s).customer = s.customer
        /\ Browser!Aged(s).left = Browser!Down(s.left)
    BY <2>1, <1>2 DEF Cookie
  <2>3. ASSUME SignedInSince(s) PROVE SignedInSince(Browser!Aged(s))'
    <3>1. ASSUME Browser!Down(s.left) > 0
          PROVE  s.customer \in Rows /\ Browser!Down(s.left) <= since'[s.customer]
      <4>1. s.left > 0
        BY <1>2, <2>1, <3>1
      <4>2. s.customer \in Rows /\ s.left <= since[s.customer] /\ since[s.customer] \in 0..Lifetime
        BY <4>1, <2>3 DEF SignedInSince, BrowserInv, BrowserTyped
      <4> QED
        BY <4>2, <2>1, <1>1, <1>2
    <3> QED
      BY <2>2, <3>1 DEF SignedInSince
  <2> QED
    BY <2>2, <2>3
<1>4. /\ session' = Browser!Aged(session)
      /\ session \in Cookie
  BY <1>1 DEF Browser!Aged, BrowserInv, BrowserTyped
<1>5. ASSUME NEW r \in Pair, requests[r].pc # "idle"
      PROVE  /\ requests[r].session \in Cookie
             /\ requests'[r] \in BrowserRequest
             /\ requests'[r].session = Browser!Aged(requests[r].session)
             /\ requests'[r].pc = requests[r].pc
             /\ requests[r].pc = "sent" => requests'[r].op = requests[r].op
                                           /\ requests'[r].customer = requests[r].customer
  <2>1. requests'[r] = [requests[r] EXCEPT !.session = Browser!Aged(requests[r].session)]
    BY <1>1, <1>5
  <2>2. requests[r] \in BrowserRequest
    BY DEF BrowserInv, BrowserTyped
  <2>3. requests[r].session \in Cookie
    BY <1>5, <2>2, RequestKinds
  <2>4. Browser!Aged(requests[r].session) \in Cookie
    BY <2>3, <1>3
  <2>5. CASE requests[r].pc = "sent"
    <3>1. requests[r] \in SentRequest
      BY <2>2, <2>5, RequestKinds
    <3>2. requests'[r] \in SentRequest
      BY <2>1, <2>4, <3>1 DEF SentRequest
    <3> QED
      BY <2>1, <3>1, <3>2 DEF SentRequest, BrowserRequest
  <2>6. CASE requests[r].pc = "served"
    <3>1. requests[r] \in ServedRequest
      BY <2>2, <2>6, RequestKinds
    <3>2. requests'[r] \in ServedRequest
      BY <2>1, <2>4, <3>1 DEF ServedRequest
    <3> QED
      BY <2>1, <2>6, <3>1, <3>2 DEF ServedRequest, BrowserRequest
  <2> QED
    BY <1>5, <2>2, <2>3, <2>5, <2>6, RequestKinds
<1>6. ASSUME NEW r \in Pair, requests[r].pc = "idle"
      PROVE  requests'[r] \in BrowserRequest /\ requests'[r].pc = "idle"
  BY <1>1, <1>6 DEF BrowserRequest
<1>7. BrowserTyped'
  <2>1. session' \in Cookie /\ since' \in [Rows -> 0..Lifetime]
    BY <1>1, <1>2, <1>3, <1>4 DEF BrowserInv, BrowserTyped
  <2>2. requests' \in [Pair -> BrowserRequest]
    BY <1>1, <1>5, <1>6
  <2> QED
    BY <1>1, <2>1, <2>2, <1>5, <1>6 DEF BrowserInv, BrowserTyped
<1>8. SignedInSince(session)'
  BY <1>3, <1>4 DEF BrowserInv, CookiesAge, SignedInSince
<1>9. ASSUME NEW r \in Pair, requests'[r].pc # "idle" PROVE SignedInSince(requests[r].session)'
  <2>1. requests[r].pc # "idle"
    BY <1>6, <1>9
  <2>2. SignedInSince(requests[r].session)
    BY <2>1 DEF BrowserInv, CookiesAge
  <2> QED
    BY <2>1, <2>2, <1>3, <1>5 DEF SignedInSince
<1> QED
  BY <1>7, <1>8, <1>9 DEF BrowserInv, CookiesAge

\* CustomerSessionMiddleware around the view: who is served, and what the answer
\* will do to the cookie.
LEMMA ServeKeeps ==
    ASSUME BrowserInv, NEW r \in Pair, Browser!Serve(r)
    PROVE  BrowserInv' /\ requests'[r].as = Browser!RequestCustomer(requests[r])
<1> DEFINE q == requests[r]
<1>1. /\ q \in BrowserRequest /\ q.pc = "sent" /\ q \in SentRequest
      /\ q.op = "sign in" => q.customer \in Rows
      /\ SignedInSince(q.session)
  BY RequestKinds DEF Browser!Serve, Browser!At, BrowserInv, BrowserTyped, CookiesAge
<1>2. PICK ok \in BOOLEAN :
        /\ requests' = [requests EXCEPT ![r] =
             [pc |-> "served", header |-> q.header, as |-> Browser!RequestCustomer(q),
              signedIn |-> IF q.op = "sign in" /\ ok THEN q.customer ELSE Nobody,
              sets |-> Browser!ClearsCookie(q) \/ q.op = "log out" \/ (q.op = "sign in" /\ ok),
              session |-> IF q.op = "sign in" /\ ok /\ ~Browser!ClearsCookie(q)
                            THEN [customer |-> q.customer, left |-> Lifetime]
                            ELSE [customer |-> Nobody, left |-> 0]]]
        /\ since' = IF q.op = "sign in" /\ ok THEN [since EXCEPT ![q.customer] = Lifetime] ELSE since
  BY DEF Browser!Serve, Browser!NoSession
<1>3. UNCHANGED <<slug, session>>
  BY DEF Browser!Serve
<1> DEFINE kept == IF q.op = "sign in" /\ ok /\ ~Browser!ClearsCookie(q)
                     THEN [customer |-> q.customer, left |-> Lifetime]
                     ELSE [customer |-> Nobody, left |-> 0]
           new == requests'[r]
<1>4. /\ new.pc = "served" /\ new.session = kept /\ new.as = Browser!RequestCustomer(q)
      /\ \A p \in Pair : p # r => requests'[p] = requests[p]
  BY <1>2 DEF BrowserInv, BrowserTyped
<1>5. kept \in Cookie
  <2>1. Lifetime \in 0..Lifetime /\ 0 \in 0..Lifetime
    BY BrowserFacts
  <2> QED
    BY <1>1, <2>1 DEF Cookie
<1>6. Browser!RequestCustomer(q) \in Rows \union {Nobody}
  BY <1>1 DEF Browser!RequestCustomer, SignedInSince
<1>7. requests' \in [Pair -> BrowserRequest]
  <2> DEFINE sets == Browser!ClearsCookie(q) \/ q.op = "log out" \/ (q.op = "sign in" /\ ok)
             signed == IF q.op = "sign in" /\ ok THEN q.customer ELSE Nobody
  <2>1. sets \in BOOLEAN
    OBVIOUS
  <2>2. signed \in Rows \union {Nobody} /\ q.header \in Stores \union {NoStore}
    BY <1>1 DEF SentRequest
  <2>3. requests' = [requests EXCEPT ![r] =
          [pc |-> "served", header |-> q.header, as |-> Browser!RequestCustomer(q),
           signedIn |-> signed, sets |-> sets, session |-> kept]]
    BY <1>2
  <2> HIDE DEF sets, signed, kept, q
  <2> QED
    BY <2>1, <2>2, <2>3, <1>5, <1>6 DEF BrowserInv, BrowserTyped, BrowserRequest, ServedRequest
<1> HIDE DEF kept, new
<1>8. /\ since' \in [Rows -> 0..Lifetime]
      /\ \A c \in Rows : since[c] <= since'[c]
      /\ kept.left > 0 => kept.customer \in Rows /\ kept.left <= since'[kept.customer]
  <2>1. since \in [Rows -> 0..Lifetime]
    BY DEF BrowserInv, BrowserTyped
  <2>2. Lifetime \in Nat /\ Lifetime \in 0..Lifetime
    BY BrowserFacts
  <2>5. \/ q.op = "sign in" /\ ok /\ kept = [customer |-> q.customer, left |-> Lifetime]
        \/ kept = [customer |-> Nobody, left |-> 0]
    BY DEF kept
  <2>3. CASE q.op = "sign in" /\ ok
    <3>1. since' = [since EXCEPT ![q.customer] = Lifetime] /\ q.customer \in Rows
      BY <1>1, <1>2, <2>3
    <3> HIDE DEF q
    <3>2. kept.left > 0 => kept.customer = q.customer /\ kept.left = Lifetime
      <4>1. CASE kept = [customer |-> q.customer, left |-> Lifetime]
        BY <4>1
      <4>2. CASE kept = [customer |-> Nobody, left |-> 0]
        <5>1. kept.left = 0
          BY <4>2
        <5> QED
          BY <5>1
      <4> QED
        BY <2>5, <4>1, <4>2
    <3>3. \A c \in Rows : since'[c] = (IF c = q.customer THEN Lifetime ELSE since[c])
      BY <2>1, <3>1
    <3> QED
      BY <2>1, <2>2, <3>1, <3>2, <3>3
  <2>4. CASE ~(q.op = "sign in" /\ ok)
    <3>1. since' = since /\ ~(kept.left > 0)
      <4>1. since' = since
        BY <1>2, <2>4
      <4>2. kept = [customer |-> Nobody, left |-> 0]
        BY <2>4, <2>5
      <4> QED
        BY <4>1, <4>2
    <3>2. \A c \in Rows : since[c] <= since[c]
      BY <2>1, <2>2
    <3> QED
      BY <2>1, <3>1, <3>2
  <2> QED
    BY <2>3, <2>4
<1>9. ASSUME NEW s \in Cookie, SignedInSince(s) PROVE s.left > 0 => s.customer \in Rows /\ s.left <= since'[s.customer]
  <2>1. s.left \in 0..Lifetime
    BY DEF Cookie
  <2> SUFFICES ASSUME s.left > 0 PROVE s.customer \in Rows /\ s.left <= since'[s.customer]
    OBVIOUS
  <2>2. s.customer \in Rows /\ s.left <= since[s.customer]
    BY <1>9 DEF SignedInSince
  <2>3. since[s.customer] \in 0..Lifetime /\ since'[s.customer] \in 0..Lifetime
    BY <2>2, <1>8 DEF BrowserInv, BrowserTyped
  <2>4. since[s.customer] <= since'[s.customer]
    BY <2>2, <1>8
  <2> QED
    BY <2>1, <2>2, <2>3, <2>4, BrowserFacts
<1>10. BrowserTyped'
  BY <1>3, <1>4, <1>7, <1>8 DEF new, BrowserInv, BrowserTyped
<1>11. SignedInSince(session)'
  BY <1>3, <1>9 DEF BrowserInv, BrowserTyped, CookiesAge, SignedInSince
<1>12. ASSUME NEW p \in Pair, requests'[p].pc # "idle" PROVE SignedInSince(requests[p].session)'
  <2>1. CASE p = r
    BY <2>1, <1>4, <1>8 DEF new, SignedInSince
  <2>2. CASE p # r
    <3>1. requests[p].session \in Cookie /\ SignedInSince(requests[p].session)
      <4>1. requests[p] \in BrowserRequest /\ requests[p].pc # "idle"
        BY <1>4, <1>12, <2>2 DEF BrowserInv, BrowserTyped
      <4> QED
        BY <4>1, RequestKinds DEF BrowserInv, CookiesAge
    <3> QED
      BY <2>2, <3>1, <1>4, <1>9 DEF SignedInSince
  <2> QED
    BY <2>1, <2>2
<1> QED
  BY <1>4, <1>10, <1>11, <1>12 DEF new, BrowserInv, CookiesAge

\* With any number of stores, of rows of the person and of requests under way, a
\* request that names its store is served as no customer of another, and as a
\* customer only within the lifetime of that customer's own sign-in.
THEOREM ServedAtHomeHolds == Browser!Spec => ServedAtHome
<1> DEFINE A == \A r \in Pair :
       Browser!At(r, "sent") /\ requests'[r].pc = "served" /\ requests'[r].as # Nobody =>
         /\ requests[r].header \in {NoStore, Visitors[requests'[r].as]}
         /\ since[requests'[r].as] > 0
<1>1. BrowserInv /\ [Browser!Next]_Browser!vars => BrowserInv'
  <2> SUFFICES ASSUME BrowserInv, [Browser!Next]_Browser!vars PROVE BrowserInv'
    OBVIOUS
  <2>1. CASE UNCHANGED Browser!vars
    BY <2>1 DEF Browser!vars, BrowserInv, BrowserTyped, CookiesAge, SignedInSince
  <2> QED
    BY <2>1, SendKeeps, ServeKeeps, ArriveKeeps, BrowserTickKeeps DEF Browser!Next, Rows
<1>2. BrowserInv /\ [Browser!Next]_Browser!vars => [A]_Browser!vars
  <2> SUFFICES ASSUME BrowserInv, Browser!Next, NEW r \in Pair,
                      requests[r].pc = "sent", requests'[r].pc = "served", requests'[r].as # Nobody
               PROVE  /\ requests[r].header \in {NoStore, Visitors[requests'[r].as]}
                      /\ since[requests'[r].as] > 0
    BY DEF Browser!At
  <2>1. requests'[r].as = Browser!RequestCustomer(requests[r])
    <3>1. CASE \E p \in Pair : Browser!Serve(p)
      <4> PICK p \in Pair : Browser!Serve(p)
        BY <3>1
      <4>1. requests[p].pc = "sent" /\ requests \in [Pair -> BrowserRequest]
        BY DEF Browser!Serve, Browser!At, BrowserInv, BrowserTyped
      <4>2. CASE p = r
        <5>1. requests'[p].as = Browser!RequestCustomer(requests[p])
          BY ServeKeeps
        <5> QED
          BY <4>2, <5>1
      <4>3. CASE p # r
        BY <4>1, <4>3 DEF Browser!Serve
      <4> QED
        BY <4>2, <4>3
    <3>2. CASE ~\E p \in Pair : Browser!Serve(p)
      <4>1. requests \in [Pair -> BrowserRequest]
        BY DEF BrowserInv, BrowserTyped
      <4>2. ASSUME NEW p \in Pair, NEW op, NEW c, NEW h, Browser!Send(p, op, c, h) PROVE FALSE
        BY <4>1, <4>2 DEF Browser!Send
      <4>3. ASSUME NEW p \in Pair, Browser!Arrive(p) PROVE FALSE
        BY <4>1, <4>3 DEF Browser!Arrive, Browser!Idle
      <4>4. ASSUME Browser!Tick PROVE FALSE
        <5>1. requests'[r] = [requests[r] EXCEPT !.session = Browser!Aged(requests[r].session)]
          BY <4>4 DEF Browser!Tick, Browser!At
        <5>2. requests[r] \in SentRequest
          BY <4>1, RequestKinds
        <5> QED
          BY <5>1, <5>2 DEF SentRequest
      <4> QED
        BY <3>2, <4>2, <4>3, <4>4 DEF Browser!Next
    <3> QED
      BY <3>1, <3>2
  <2>2. /\ requests[r].session.left > 0
        /\ requests'[r].as = requests[r].session.customer
        /\ Visitors[requests[r].session.customer] = Browser!ResolveStore(requests[r])
    BY <2>1 DEF Browser!RequestCustomer
  <2>3. requests'[r].as \in Rows /\ requests[r].session.left <= since[requests'[r].as]
    BY <2>2 DEF BrowserInv, CookiesAge, SignedInSince
  <2>4. requests[r].session.left \in Nat /\ since[requests'[r].as] \in Nat
    <3>1. requests[r] \in BrowserRequest /\ requests[r].pc # "idle"
      BY DEF BrowserInv, BrowserTyped
    <3>2. requests[r].session \in Cookie
      BY <3>1, RequestKinds
    <3>3. requests[r].session.left \in 0..Lifetime
      BY <3>2 DEF Cookie
    <3>4. since[requests'[r].as] \in 0..Lifetime
      BY <2>3 DEF BrowserInv, BrowserTyped
    <3> QED
      BY <3>3, <3>4, BrowserFacts
  <2> QED
    BY <2>2, <2>3, <2>4 DEF Browser!ResolveStore
<1>3. Browser!Spec => [][A]_Browser!vars
  BY <1>1, <1>2, BrowserStarts, PTL DEF Browser!Spec
<1> QED
  BY <1>3 DEF ServedAtHome, Browser!ServedAtHome, Browser!At

---------------------------------------------------------------------------
(* The deposit policy.  HalfUp(n, d) is n / d rounded half up.             *)

LEMMA LeastOfSome ==
    ASSUME NEW T, T \subseteq Nat, T # {}
    PROVE  \E n \in T : \A m \in T : n <= m
<1>1. PICK n \in T : \A m \in T : ~ (<<m, n>> \in OpToRel(<, Nat))
  BY NatLessThanWellFounded, WFMin
<1>2. OpToRel(<, Nat) = {p \in Nat \X Nat : p[1] < p[2]}
  BY DEF OpToRel
<1>3. ASSUME NEW m \in T PROVE n <= m
  <2>1. ~ (<<m, n>> \in {p \in Nat \X Nat : p[1] < p[2]})
    BY <1>1, <1>2
  <2>2. ~ (m < n)
    BY <2>1
  <2> QED
    BY <2>2
<1> QED
  BY <1>3

LEMMA Quotient ==
    ASSUME NEW n \in Nat, NEW d \in Nat \ {0}
    PROVE  n \div d \in Nat /\ d * (n \div d) <= n /\ n < d * (n \div d) + d
<1>1. n \div d \in Nat /\ n % d \in 0..d-1
  OBVIOUS
<1>2. n = d * (n \div d) + (n % d)
  BY Z3
<1>3. d * (n \div d) \in Nat
  BY <1>1
<1> QED
  BY <1>1, <1>2, <1>3

LEMMA QuotientGrows ==
    ASSUME NEW n \in Nat, NEW m \in Nat, NEW d \in Nat \ {0}, n <= m
    PROVE  n \div d <= m \div d
<1> DEFINE a == n \div d
           b == m \div d
<1>1. a \in Nat /\ b \in Nat /\ d * a <= n /\ m < d * b + d
  BY Quotient
<1> HIDE DEF a, b
<1>2. ASSUME b + 1 <= a PROVE FALSE
  <2>1. d * (b + 1) <= d * a
    BY <1>1, <1>2
  <2>2. d * (b + 1) = d * b + d /\ d * a \in Nat /\ d * b \in Nat
    BY <1>1
  <2> QED
    BY <1>1, <2>1, <2>2
<1>3. a <= b
  BY <1>1, <1>2
<1> QED
  BY <1>3 DEF a, b

LEMMA QuotientOfMultiple ==
    ASSUME NEW k \in Nat, NEW d \in Nat \ {0}, NEW n \in 0..d-1
    PROVE  (d * k + n) \div d = k
<1> DEFINE a == (d * k + n) \div d
<1>1. d * k + n \in Nat /\ d * k \in Nat
  OBVIOUS
<1>2. a \in Nat /\ d * a <= d * k + n /\ d * k + n < d * a + d
  BY <1>1, Quotient
<1> HIDE DEF a
<1>3. d * a \in Nat /\ d * (a + 1) = d * a + d /\ d * (k + 1) = d * k + d
  BY <1>2
<1>4. ASSUME a + 1 <= k PROVE FALSE
  <2>1. d * (a + 1) <= d * k
    BY <1>2, <1>4
  <2> QED
    BY <1>1, <1>2, <1>3, <2>1
<1>5. ASSUME k + 1 <= a PROVE FALSE
  <2>1. d * (k + 1) <= d * a
    BY <1>2, <1>5
  <2> QED
    BY <1>1, <1>2, <1>3, <2>1
<1>6. a = k
  BY <1>2, <1>4, <1>5
<1> QED
  BY <1>6 DEF a

LEMMA HalfUpRounds ==
    ASSUME NEW d \in Nat \ {0}
    PROVE  /\ \A n \in Nat : Policy!HalfUp(n, d) \in Nat
           /\ \A n, m \in Nat : n <= m => Policy!HalfUp(n, d) <= Policy!HalfUp(m, d)
           /\ \A k \in Nat : Policy!HalfUp(k * d, d) = k
<1>1. ASSUME NEW n \in Nat PROVE Policy!HalfUp(n, d) \in Nat
  <2>1. 2 * n + d \in Nat /\ 2 * d \in Nat \ {0}
    OBVIOUS
  <2> QED
    BY <2>1, Quotient DEF Policy!HalfUp
<1>2. ASSUME NEW n \in Nat, NEW m \in Nat, n <= m
      PROVE  Policy!HalfUp(n, d) <= Policy!HalfUp(m, d)
  <2>1. 2 * n + d \in Nat /\ 2 * m + d \in Nat /\ 2 * d \in Nat \ {0} /\ 2 * n + d <= 2 * m + d
    BY <1>2
  <2> QED
    BY <2>1, QuotientGrows DEF Policy!HalfUp
<1>3. ASSUME NEW k \in Nat PROVE Policy!HalfUp(k * d, d) = k
  <2>1. 2 * d \in Nat \ {0} /\ d \in 0..2*d-1
    OBVIOUS
  <2>2. ((2 * d) * k + d) \div (2 * d) = k
    BY <2>1, QuotientOfMultiple
  <2>3. 2 * (k * d) + d = (2 * d) * k + d
    OBVIOUS
  <2> QED
    BY <2>2, <2>3 DEF Policy!HalfUp
<1> QED
  BY <1>1, <1>2, <1>3

LEMMA WithinBounds ==
    ASSUME NEW v \in Int, NEW most \in Nat
    PROVE  Policy!Within(v, most) \in 0..most
<1>1. Policy!Min({v, most}) \in {v, most} /\ Policy!Min({v, most}) <= most
  BY DEF Policy!Min
<1> DEFINE low == Policy!Min({v, most})
<1>2. low \in Int /\ low <= most
  BY <1>1
<1> HIDE DEF low
<1>3. Policy!Max({0, low}) \in {0, low} /\ Policy!Max({0, low}) >= 0
  BY <1>2 DEF Policy!Max
<1>4. Policy!Within(v, most) = Policy!Max({0, low})
  BY DEF low, Policy!Within
<1> QED
  BY <1>2, <1>3, <1>4

\* A part of an amount is at most the amount, and grows with the part.
LEMMA PartRounds ==
    ASSUME NEW whole \in Nat, NEW d \in Nat \ {0}, NEW less \in 0..d, NEW more \in 0..d
    PROVE  /\ Policy!HalfUp(whole * less, d) \in 0..whole
           /\ less <= more => Policy!HalfUp(whole * less, d) <= Policy!HalfUp(whole * more, d)
<1>1. PICK n \in Nat, m \in Nat : n = whole * less /\ m = whole * more
  OBVIOUS
<1>2. n <= whole * d /\ whole * d \in Nat
  BY <1>1
<1>3. Policy!HalfUp(n, d) \in Nat /\ Policy!HalfUp(n, d) <= whole
  BY <1>2, HalfUpRounds
<1>4. less <= more => Policy!HalfUp(n, d) <= Policy!HalfUp(m, d)
  <2>1. less <= more => n <= m
    BY <1>1
  <2> QED
    BY <2>1, HalfUpRounds
<1> QED
  BY <1>1, <1>3, <1>4

\* A deposit within its total, under any policy.
LEMMA DepositWithinTotal ==
    ASSUME Policy!Policy.mode \in Policy!Modes, Policy!Policy.value \in Int, NEW total \in Nat
    PROVE  Policy!CalcDeposit(total) \in 0..total
<1>1. CASE Policy!Policy.mode = "none"
  BY <1>1 DEF Policy!CalcDeposit
<1>2. CASE Policy!Policy.mode = "fixed"
  BY <1>2, WithinBounds DEF Policy!CalcDeposit
<1>3. CASE Policy!Policy.mode = "percentage"
  <2>1. Policy!Hundred \in Nat \ {0}
    BY DEF Policy!Hundred
  <2>2. PICK pct \in 0..Policy!Hundred : pct = Policy!Within(Policy!Policy.value, Policy!Hundred)
    BY <2>1, WithinBounds
  <2>3. Policy!CalcDeposit(total) = Policy!HalfUp(total * pct, Policy!Hundred)
    BY <1>3, <2>2 DEF Policy!CalcDeposit
  <2> QED
    BY <2>1, <2>3, PartRounds, SMTT(30)
<1> QED
  BY <1>1, <1>2, <1>3 DEF Policy!Modes

---------------------------------------------------------------------------
(* The refund matrix.                                                      *)

MatrixRow == [min_hours : Int, refund_pct : Int]
GoodMatrix(matrix) == matrix \in Seq(MatrixRow) /\ Policy!ValidMatrix(matrix)

Met(lead) == {k \in DOMAIN store.matrix : lead >= store.matrix[k].min_hours}
Most(lead) == {k \in Met(lead) :
    \A other \in Met(lead) : store.matrix[other].min_hours <= store.matrix[k].min_hours}

LEMMA GoodRows ==
    ASSUME GoodMatrix(store.matrix), NEW k \in DOMAIN store.matrix
    PROVE  /\ k \in Nat
           /\ store.matrix[k] \in Policy!Range(store.matrix)
           /\ store.matrix[k].min_hours \in Nat
           /\ store.matrix[k].refund_pct \in 0..100
<1>1. store.matrix \in Seq(MatrixRow) /\ k \in 1..Len(store.matrix)
  BY DEF GoodMatrix
<1>2. store.matrix[k] \in MatrixRow /\ store.matrix[k] \in Policy!Range(store.matrix)
  BY <1>1 DEF Policy!Range
<1> QED
  BY <1>1, <1>2 DEF GoodMatrix, Policy!ValidMatrix, MatrixRow

\* The row of a notice that some row allows: one with most hours.
LEMMA RefundRow ==
    ASSUME GoodMatrix(store.matrix), NEW lead \in Int, Met(lead) # {}
    PROVE  \E k \in Most(lead) :
             /\ Policy!RefundPct(lead) = store.matrix[k].refund_pct
             /\ \A j \in Most(lead) : k <= j
<1>1. ASSUME NEW k \in Met(lead) PROVE lead - store.matrix[k].min_hours \in Nat
  BY GoodRows DEF Met
<1> DEFINE T == {lead - store.matrix[k].min_hours : k \in Met(lead)}
<1>2. T \subseteq Nat /\ T # {}
  BY <1>1
<1>3. PICK n \in T : \A m \in T : n <= m
  BY <1>2, LeastOfSome
<1>4. PICK k \in Met(lead) : n = lead - store.matrix[k].min_hours
  OBVIOUS
<1>5. ASSUME NEW j \in Met(lead) PROVE store.matrix[j].min_hours <= store.matrix[k].min_hours
  <2>1. n <= lead - store.matrix[j].min_hours
    BY <1>3
  <2>2. store.matrix[j].min_hours \in Nat /\ store.matrix[k].min_hours \in Nat
    BY GoodRows DEF Met
  <2> QED
    BY <2>1, <2>2, <1>4
<1>6. k \in Most(lead)
  BY <1>5 DEF Most
<1>7. Most(lead) \subseteq Nat
  BY GoodRows DEF Most, Met
<1>8. PICK first \in Most(lead) : \A j \in Most(lead) : first <= j
  BY <1>6, <1>7, LeastOfSome
<1>9. Policy!Min(Most(lead)) = first
  <2>1. \A x \in Most(lead) : (\A y \in Most(lead) : x <= y) => x = first
    BY <1>7, <1>8
  <2> QED
    BY <1>8, <2>1 DEF Policy!Min
<1>10. Policy!RefundPct(lead) = store.matrix[Policy!Min(Most(lead))].refund_pct
  BY DEF Policy!RefundPct, Met, Most
<1> QED
  BY <1>8, <1>9, <1>10

LEMMA NoRefundRow ==
    ASSUME NEW lead, Met(lead) = {}
    PROVE  Policy!RefundPct(lead) = 0
BY DEF Policy!RefundPct, Met

LEMMA RefundPctBounds ==
    ASSUME GoodMatrix(store.matrix), NEW lead \in Int
    PROVE  Policy!RefundPct(lead) \in 0..100
<1>1. CASE Met(lead) = {}
  BY <1>1, NoRefundRow
<1>2. CASE Met(lead) # {}
  <2>1. PICK k \in Most(lead) : Policy!RefundPct(lead) = store.matrix[k].refund_pct
    BY <1>2, RefundRow
  <2>2. k \in DOMAIN store.matrix
    BY DEF Most, Met
  <2> QED
    BY <2>1, <2>2, GoodRows
<1> QED
  BY <1>1, <1>2

\* Longer notice meets more rows: either one of more hours, or the same first one.
LEMMA RefundPctGrows ==
    ASSUME GoodMatrix(store.matrix), Policy!GrowsWithNotice(store.matrix),
           NEW short \in Int, NEW long \in Int, short <= long
    PROVE  Policy!RefundPct(short) <= Policy!RefundPct(long)
<1>1. CASE Met(short) = {}
  BY <1>1, NoRefundRow, RefundPctBounds
<1>2. CASE Met(short) # {}
  <2>1. Met(short) \subseteq Met(long)
    <3> SUFFICES ASSUME NEW k \in Met(short) PROVE k \in Met(long)
      OBVIOUS
    <3>1. store.matrix[k].min_hours \in Nat
      BY GoodRows DEF Met
    <3> QED
      BY <3>1 DEF Met
  <2>2. PICK s \in Most(short) :
          /\ Policy!RefundPct(short) = store.matrix[s].refund_pct
          /\ \A j \in Most(short) : s <= j
    BY <1>2, RefundRow
  <2>3. PICK l \in Most(long) :
          /\ Policy!RefundPct(long) = store.matrix[l].refund_pct
          /\ \A j \in Most(long) : l <= j
    BY <1>2, <2>1, RefundRow
  <2>4. /\ s \in DOMAIN store.matrix /\ l \in DOMAIN store.matrix
        /\ s \in Met(short) /\ s \in Met(long) /\ l \in Met(long)
    BY <2>1 DEF Most, Met
  <2> DEFINE hours(k) == store.matrix[k].min_hours
  <2>5. hours(s) <= hours(l)
    BY <2>4 DEF Most
  <2>6. CASE hours(s) < hours(l)
    BY <2>2, <2>3, <2>4, <2>6, GoodRows DEF Policy!GrowsWithNotice
  <2>7. CASE hours(s) = hours(l)
    <3>1. l \in Met(short)
      BY <2>4, <2>7 DEF Met
    <3>2. l \in Most(short)
      BY <2>7, <3>1 DEF Most
    <3>3. s \in Most(long)
      BY <2>4, <2>7 DEF Most
    <3>4. s = l
      BY <2>2, <2>3, <2>4, <3>2, <3>3, GoodRows
    <3> QED
      BY <2>2, <2>3, <2>4, <3>4, GoodRows
  <2> QED
    BY <2>4, <2>5, <2>6, <2>7, GoodRows
<1> QED
  BY <1>1, <1>2

---------------------------------------------------------------------------
(* The policy columns and the deposits under them.                         *)

\* What a PATCH in flight may save: the columns it names, each of them checked.
GoodPatch(columns) ==
  /\ "mode" \in DOMAIN columns => columns["mode"] \in Policy!Modes
  /\ "value" \in DOMAIN columns => columns["value"] \in Int
  /\ "matrix" \in DOMAIN columns => GoodMatrix(columns["matrix"])

PolicyTyped ==
  /\ DOMAIN store = {"mode", "value", "matrix"}
  /\ GoodPatch(store)
  /\ override \in [mode : Policy!Modes \union {""}, value : Int]
  /\ DOMAIN patch = Pair /\ \A r \in Pair : patch[r] # Policy!Nothing => GoodPatch(patch[r])

\* A deposit within its total, whatever the policy has become since.
DepositsFit == \A b \in Bookings : booking[b] # Policy!Nothing =>
  booking[b].total \in Nat /\ booking[b].deposit \in 0..booking[b].total

PolicyInv == PolicyTyped /\ DOMAIN booking = Bookings /\ DepositsFit

\* What the typing says of a state, of a later one as well.
LEMMA PolicyTypedAgain ==
    ASSUME DOMAIN store' = {"mode", "value", "matrix"}, GoodPatch(store'),
           override' \in [mode : Policy!Modes \union {""}, value : Int],
           DOMAIN patch' = Pair,
           \A r \in Pair : patch'[r] # Policy!Nothing => GoodPatch(patch'[r])
    PROVE  PolicyTyped'
BY DEF PolicyTyped, GoodPatch, GoodMatrix, Policy!Nothing, Policy!ValidMatrix, Policy!Range,
   Policy!Modes, MatrixRow

LEMMA PolicyIsKnown ==
    ASSUME PolicyTyped
    PROVE  /\ Policy!Policy.mode \in Policy!Modes
           /\ Policy!Policy.value \in Int
           /\ GoodMatrix(store.matrix)
BY DEF PolicyTyped, GoodPatch, Policy!Policy

LEMMA PolicyInit ==
    ASSUME Policy!PolicyAssumption, Policy!Init
    PROVE  PolicyInv
<1>1. GoodMatrix(Policy!DefaultMatrix)
  BY DEF GoodMatrix, MatrixRow, Policy!DefaultMatrix, Policy!Row, Policy!ValidMatrix, Policy!Range
<1>2. store = [mode |-> "none", value |-> 0, matrix |-> Policy!DefaultMatrix]
  BY DEF Policy!Init
<1>3. DOMAIN store = {"mode", "value", "matrix"} /\ GoodPatch(store)
  BY <1>1, <1>2 DEF GoodPatch, Policy!Modes
<1>4. override \in [mode : Policy!Modes \union {""}, value : Int]
  BY DEF Policy!PolicyAssumption, Policy!Init
<1>5. PolicyTyped
  BY <1>3, <1>4 DEF PolicyTyped, Policy!Init
<1> QED
  BY <1>5 DEF PolicyInv, DepositsFit, Policy!Init

LEMMA PolicyStep ==
    ASSUME Policy!PolicyAssumption, PolicyInv, [Policy!Next]_(Policy!vars)
    PROVE  PolicyInv'
<1>1. ASSUME NEW r \in Pair, Policy!StartPatch(r) PROVE PolicyInv'
  <2>1. PICK mode \in Policy!Modes, value \in Values, matrix \in Matrices,
             given \in SUBSET {"mode", "value", "matrix"} :
          LET read == IF "mode" \in given THEN mode ELSE store.mode
              all  == [mode |-> mode, value |-> value, matrix |-> matrix]
          IN  /\ "value" \in given => value >= 0 /\ (read = "percentage" => value <= Policy!Hundred)
              /\ "matrix" \in given => Policy!ValidMatrix(matrix)
              /\ patch' = [patch EXCEPT ![r] = [field \in given |-> all[field]]]
    BY <1>1, Zenon DEF Policy!StartPatch
  <2> DEFINE columns ==
        [field \in given |-> [mode |-> mode, value |-> value, matrix |-> matrix][field]]
  <2>2. GoodPatch(columns)
    <3>1. matrix \in Seq(MatrixRow) /\ value \in Int
      BY DEF Policy!PolicyAssumption, MatrixRow
    <3>2. "matrix" \in given => GoodMatrix(matrix)
      BY <2>1, <3>1 DEF GoodMatrix
    <3>3. DOMAIN columns = given
      OBVIOUS
    <3>4. /\ "mode" \in given => columns["mode"] = mode
          /\ "value" \in given => columns["value"] = value
          /\ "matrix" \in given => columns["matrix"] = matrix
      OBVIOUS
    <3> HIDE DEF columns
    <3> QED
      BY <3>1, <3>2, <3>3, <3>4 DEF GoodPatch
  <2> HIDE DEF columns
  <2>3. patch' = [patch EXCEPT ![r] = columns]
    BY <2>1 DEF columns
  <2>4. store' = store /\ override' = override /\ booking' = booking
    BY <1>1 DEF Policy!StartPatch
  <2>5. PolicyTyped'
    <3>1. DOMAIN patch' = Pair /\ \A q \in Pair : patch'[q] # Policy!Nothing => GoodPatch(patch'[q])
      BY <2>2, <2>3 DEF PolicyInv, PolicyTyped
    <3> QED
      BY <2>4, <3>1, PolicyTypedAgain DEF PolicyInv, PolicyTyped
  <2> QED
    BY <2>4, <2>5 DEF PolicyInv, DepositsFit, Policy!Nothing
<1>2. ASSUME NEW r \in Pair, Policy!SavePatch(r) PROVE PolicyInv'
  <2>1. /\ patch[r] # Policy!Nothing
        /\ store' = [field \in DOMAIN store |->
             IF field \in DOMAIN patch[r] THEN patch[r][field] ELSE store[field]]
        /\ patch' = [patch EXCEPT ![r] = Policy!Nothing]
        /\ override' = override /\ booking' = booking
    BY <1>2 DEF Policy!SavePatch
  <2>2. GoodPatch(patch[r]) /\ GoodPatch(store) /\ DOMAIN store = {"mode", "value", "matrix"}
    BY <2>1 DEF PolicyInv, PolicyTyped
  <2>3. DOMAIN store' = {"mode", "value", "matrix"}
    BY <2>1, <2>2
  <2>4. /\ store'["mode"] = IF "mode" \in DOMAIN patch[r] THEN patch[r]["mode"] ELSE store["mode"]
        /\ store'["value"] = IF "value" \in DOMAIN patch[r] THEN patch[r]["value"] ELSE store["value"]
        /\ store'["matrix"] = IF "matrix" \in DOMAIN patch[r] THEN patch[r]["matrix"] ELSE store["matrix"]
    BY <2>1, <2>2
  <2>5. GoodPatch(store')
    BY <2>2, <2>3, <2>4 DEF GoodPatch
  <2>6. PolicyTyped'
    <3>1. \A s \in Pair : patch'[s] # Policy!Nothing => GoodPatch(patch[s]) /\ patch'[s] = patch[s]
      BY <2>1 DEF PolicyInv, PolicyTyped
    <3>2. DOMAIN patch' = Pair
      BY <2>1 DEF PolicyInv, PolicyTyped
    <3>3. \A s \in Pair : patch'[s] # Policy!Nothing => GoodPatch(patch'[s])
      BY <3>1
    <3> QED
      BY <2>1, <2>3, <2>5, <3>2, <3>3, PolicyTypedAgain DEF PolicyInv, PolicyTyped
  <2> QED
    BY <2>1, <2>6 DEF PolicyInv, DepositsFit, Policy!Nothing
<1>3. ASSUME NEW b \in Bookings, Policy!Book(b) PROVE PolicyInv'
  <2>1. PICK total \in Totals :
          booking' = [booking EXCEPT ![b] = [total |-> total, deposit |-> Policy!CalcDeposit(total)]]
    BY <1>3 DEF Policy!Book
  <2>2. total \in Nat
    BY DEF Policy!PolicyAssumption
  <2>3. PICK deposit \in 0..total : deposit = Policy!CalcDeposit(total)
    BY <2>2, PolicyIsKnown, DepositWithinTotal DEF PolicyInv
  <2>4. booking' = [booking EXCEPT ![b] = [total |-> total, deposit |-> deposit]]
    BY <2>1, <2>3
  <2>5. store' = store /\ override' = override /\ patch' = patch
    BY <1>3 DEF Policy!Book
  <2>6. PolicyTyped'
    BY <2>5, PolicyTypedAgain DEF PolicyInv, PolicyTyped
  <2>7. DOMAIN booking' = Bookings
    BY <2>4 DEF PolicyInv
  <2>8. DepositsFit'
    BY <2>2, <2>4 DEF PolicyInv, DepositsFit, Policy!Nothing
  <2> QED
    BY <2>6, <2>7, <2>8 DEF PolicyInv
<1>4. ASSUME UNCHANGED Policy!vars PROVE PolicyInv'
  <2>1. store' = store /\ override' = override /\ patch' = patch /\ booking' = booking
    BY <1>4 DEF Policy!vars
  <2>2. PolicyTyped'
    BY <2>1, PolicyTypedAgain DEF PolicyInv, PolicyTyped
  <2> QED
    BY <2>1, <2>2 DEF PolicyInv, DepositsFit, Policy!Nothing
<1> QED
  BY <1>1, <1>2, <1>3, <1>4 DEF Policy!Next

\* A refund within its deposit, and no less for longer notice.
LEMMA RefundWithinDeposit ==
    ASSUME GoodMatrix(store.matrix), NEW deposit \in Nat, NEW lead \in Int
    PROVE  Policy!CalcRefund(deposit, lead) \in 0..deposit
<1>1. PICK hundred \in Nat \ {0} : hundred = 100
  OBVIOUS
<1>2. PICK pct \in 0..hundred : pct = Policy!RefundPct(lead)
  BY <1>1, RefundPctBounds
<1>3. Policy!CalcRefund(deposit, lead) = Policy!HalfUp(deposit * pct, hundred)
  BY <1>1, <1>2 DEF Policy!CalcRefund
<1> QED
  BY <1>3, PartRounds

LEMMA RefundGrows ==
    ASSUME GoodMatrix(store.matrix), Policy!GrowsWithNotice(store.matrix), NEW deposit \in Nat,
           NEW short \in Int, NEW long \in Int, short <= long
    PROVE  Policy!CalcRefund(deposit, short) <= Policy!CalcRefund(deposit, long)
<1>1. PICK hundred \in Nat \ {0} : hundred = 100
  OBVIOUS
<1>2. PICK less \in 0..hundred : less = Policy!RefundPct(short)
  BY <1>1, RefundPctBounds
<1>3. PICK more \in 0..hundred : more = Policy!RefundPct(long)
  BY <1>1, RefundPctBounds
<1>4. less <= more
  BY <1>2, <1>3, RefundPctGrows
<1>5. Policy!HalfUp(deposit * less, hundred) <= Policy!HalfUp(deposit * more, hundred)
  BY <1>4, PartRounds
<1> QED
  BY <1>1, <1>2, <1>3, <1>5 DEF Policy!CalcRefund

LEMMA PolicyInvCovers ==
    ASSUME Policy!PolicyAssumption, PolicyInv
    PROVE  Policy!DepositsAreCovered
<1> SUFFICES ASSUME NEW b \in Bookings, booking[b] # Policy!Nothing
             PROVE  /\ 0 <= booking[b].deposit /\ booking[b].deposit <= booking[b].total
                    /\ \A short, long \in Leads :
                         /\ Policy!CalcRefund(booking[b].deposit, long) <= booking[b].deposit
                         /\ short <= long /\ Policy!GrowsWithNotice(store.matrix)
                              => Policy!CalcRefund(booking[b].deposit, short)
                                   <= Policy!CalcRefund(booking[b].deposit, long)
  BY DEF Policy!DepositsAreCovered
<1>1. booking[b].total \in Nat /\ booking[b].deposit \in 0..booking[b].total
  BY DEF PolicyInv, DepositsFit
<1>2. GoodMatrix(store.matrix)
  BY PolicyIsKnown DEF PolicyInv
<1>3. PICK deposit \in Nat : deposit = booking[b].deposit
  BY <1>1
<1>4. Leads \subseteq Int
  BY DEF Policy!PolicyAssumption
<1>5. ASSUME NEW short \in Leads, NEW long \in Leads
      PROVE  /\ Policy!CalcRefund(deposit, long) <= deposit
             /\ short <= long /\ Policy!GrowsWithNotice(store.matrix)
                  => Policy!CalcRefund(deposit, short) <= Policy!CalcRefund(deposit, long)
  <2>1. Policy!CalcRefund(deposit, long) \in 0..deposit
    BY <1>2, <1>4, RefundWithinDeposit
  <2>2. ASSUME short <= long, Policy!GrowsWithNotice(store.matrix)
        PROVE  Policy!CalcRefund(deposit, short) <= Policy!CalcRefund(deposit, long)
    BY <1>2, <1>4, <2>2, RefundGrows
  <2> QED
    BY <2>1, <2>2
<1> QED
  BY <1>1, <1>3, <1>5

\* Whatever policies a store went through, a deposit lies within its total and a refund
\* within its deposit, and longer notice gives no less (calc_deposit, calc_refund_amount).
THEOREM DepositsAreCoveredHolds == Policy!Spec => []DepositsAreCovered
<1>1. Policy!PolicyAssumption
  BY PartsAssumption
<1>2. Policy!Init => PolicyInv
  BY <1>1, PolicyInit
<1>3. PolicyInv /\ [Policy!Next]_(Policy!vars) => PolicyInv'
  BY <1>1, PolicyStep
<1>4. PolicyInv => DepositsAreCovered
  BY <1>1, PolicyInvCovers DEF DepositsAreCovered
<1> QED
  BY <1>2, <1>3, <1>4, PTL DEF Policy!Spec

---------------------------------------------------------------------------
(* The retention of a customer.                                            *)

CustomerRow ==
    [visits : Nat, last : Int \union {Never}, age : Int, cohort : Range(Retain!Cohorts), score : Int]

\* Time has gone by since the day d of a last visit, if there was one.
Later(d, e) == \/ d = Never /\ e = Never
               \/ d \in Int /\ e \in Int /\ d <= e

RetentionTyped ==
    /\ row \in CustomerRow /\ row.age \in Days /\ row.last \in Days \union {Never}
    /\ job \in {Retain!Idle} \union [op : {"save"}, read : CustomerRow]
    /\ missed \in Nat /\ unseen \in BOOLEAN

\* What the job read is still the row, but for the counters of its bookings.
ReadIsRow ==
    job.op = "save" =>
        job.read.age = row.age /\ job.read.cohort = row.cohort /\ job.read.score = row.score

\* No label and no score says more than the days do.
NotAhead ==
    ~unseen => /\ Retain!Rank(row.cohort) <= Retain!Rank(Retain!ComputeCohort(row))
               /\ row.score <= Retain!ComputeChurnScore(row) + Retain!Epsilon

RetentionInv == RetentionTyped /\ ReadIsRow /\ NotAhead

LEMMA Ranks ==
    /\ Range(Retain!Cohorts) = {"new", "active", "at_risk", "dormant", "lost"}
    /\ Retain!Rank("new") = 1 /\ Retain!Rank("active") = 2 /\ Retain!Rank("at_risk") = 3
    /\ Retain!Rank("dormant") = 4 /\ Retain!Rank("lost") = 5
<1> DEFINE labels == <<"new", "active", "at_risk", "dormant", "lost">>
<1>1. DOMAIN labels = 1..5
  OBVIOUS
<1>2. /\ labels[1] = "new" /\ labels[2] = "active" /\ labels[3] = "at_risk"
      /\ labels[4] = "dormant" /\ labels[5] = "lost"
  OBVIOUS
<1>3. Retain!Cohorts = labels
  BY DEF Retain!Cohorts
<1> HIDE DEF labels
<1>4. DOMAIN labels = {1, 2, 3, 4, 5}
  BY <1>1
<1>5. Range(labels) = {"new", "active", "at_risk", "dormant", "lost"}
  BY <1>2, <1>4 DEF Range
<1>6. ASSUME NEW i \in DOMAIN labels PROVE Retain!Rank(labels[i]) = i
  <2>1. Retain!Rank(labels[i]) = CHOOSE j \in DOMAIN labels : labels[j] = labels[i]
    BY <1>3 DEF Retain!Rank
  <2>2. \A j \in DOMAIN labels : labels[j] = labels[i] => j = i
    BY <1>2, <1>4
  <2> QED
    BY <2>1, <2>2
<1> QED
  BY <1>2, <1>3, <1>4, <1>5, <1>6

\* The later the day the higher the label, for who has a last visit and for who has none.
LEMMA CohortGrows ==
    ASSUME NEW r \in CustomerRow, NEW s \in CustomerRow, r.visits = s.visits,
           r.age <= s.age, Later(r.last, s.last)
    PROVE  /\ Retain!ComputeCohort(r) \in Range(Retain!Cohorts)
           /\ Retain!Rank(Retain!ComputeCohort(r)) <= Retain!Rank(Retain!ComputeCohort(s))
<1> DEFINE Label(c) == IF c.visits = 0 /\ c.age < 7 THEN "new"
                       ELSE IF c.last = Never \/ c.last > 90 THEN "lost"
                       ELSE IF c.last > 60 THEN "dormant"
                       ELSE IF c.last > 30 THEN "at_risk" ELSE "active"
<1>1. ASSUME NEW c \in CustomerRow PROVE Retain!ComputeCohort(c) = Label(c)
  BY DEF Retain!ComputeCohort
<1>2. /\ r.visits \in Nat /\ r.age \in Int /\ s.age \in Int
  BY DEF CustomerRow
<1>3. Retain!Rank(Label(r)) <= Retain!Rank(Label(s)) /\ Label(r) \in Range(Retain!Cohorts)
  <2>1. CASE r.visits = 0 /\ r.age < 7
    BY <2>1, Ranks
  <2>2. CASE ~(r.visits = 0 /\ r.age < 7)
    <3>1. ~(s.visits = 0 /\ s.age < 7)
      BY <1>2, <2>2
    <3>2. CASE r.last = Never /\ s.last = Never
      BY <2>2, <3>1, <3>2, Ranks
    <3>3. CASE r.last \in Int /\ s.last \in Int /\ r.last <= s.last
      <4>1. r.last # Never /\ s.last # Never
        BY <3>3, PartsAssumption DEF Retain!RetentionAssumption
      <4> QED
        BY <2>2, <3>1, <3>3, <4>1, Ranks
    <3> QED
      BY <3>2, <3>3 DEF Later
  <2> QED
    BY <2>1, <2>2
<1> QED
  BY <1>1, <1>3

\* ... and no lower the score.
LEMMA ScoreGrows ==
    ASSUME NEW r \in CustomerRow, NEW s \in CustomerRow, r.visits = s.visits,
           Later(r.last, s.last)
    PROVE  /\ Retain!ComputeChurnScore(r) \in Int
           /\ Retain!ComputeChurnScore(r) <= Retain!ComputeChurnScore(s)
<1> DEFINE Factor(c) == IF c.visits >= 5 THEN Retain!Min({20, c.visits}) ELSE 10
           Capped(n) == Retain!Min({900, n})
           Gone(d)   == Retain!Max({0, d})
<1>1. /\ Factor(r) \in Nat /\ Factor(s) = Factor(r)
  BY DEF CustomerRow, Retain!Min
<1>2. ASSUME NEW n \in Int
      PROVE  Capped(n) = IF n <= 900 THEN n ELSE 900
  BY DEF Retain!Min
<1>3. ASSUME NEW n \in Int
      PROVE  Gone(n) = IF n <= 0 THEN 0 ELSE n
  BY DEF Retain!Max
<1>4. ASSUME NEW c \in {r, s}
      PROVE  Retain!ComputeChurnScore(c) =
               IF c.last = Never THEN 900 ELSE Capped(Gone(c.last) * Factor(c))
  BY DEF Retain!ComputeChurnScore
<1> HIDE DEF Factor, Capped, Gone
<1>5. CASE r.last = Never /\ s.last = Never
  BY <1>4, <1>5
<1>6. CASE r.last \in Int /\ s.last \in Int /\ r.last <= s.last
  <2>1. r.last # Never /\ s.last # Never
    BY <1>6, PartsAssumption DEF Retain!RetentionAssumption
  <2>2. PICK t \in Nat : t = Factor(r) /\ t = Factor(s)
    BY <1>1
  <2>3. PICK a \in Nat, b \in Nat : a = Gone(r.last) /\ b = Gone(s.last) /\ a <= b
    BY <1>3, <1>6
  <2>4. a * t \in Nat /\ b * t \in Nat /\ a * t <= b * t
    BY <2>3
  <2>5. /\ Retain!ComputeChurnScore(r) = Capped(a * t)
        /\ Retain!ComputeChurnScore(s) = Capped(b * t)
    BY <1>4, <2>1, <2>2, <2>3
  <2> QED
    BY <1>2, <2>4, <2>5
<1> QED
  BY <1>5, <1>6 DEF Later

\* What the command computes of a row is a label and a score.
LEMMA ComputedTypes ==
    ASSUME NEW r \in CustomerRow
    PROVE  /\ Retain!ComputeCohort(r) \in Range(Retain!Cohorts)
           /\ Retain!ComputeChurnScore(r) \in Int
<1>1. r.age <= r.age /\ Later(r.last, r.last)
  BY DEF CustomerRow, Later
<1> QED
  BY <1>1, CohortGrows, ScoreGrows

LEMMA NextDayIsLater ==
    ASSUME NEW d \in Days, Retain!RetentionAssumption
    PROVE  Retain!NextDay(d) \in Days /\ d <= Retain!NextDay(d)
<1> DEFINE later == {n \in Days : n > d}
<1>1. Days \subseteq Int /\ later \subseteq Int
  BY DEF Retain!RetentionAssumption
<1>2. CASE later = {}
  BY <1>1, <1>2 DEF Retain!NextDay
<1>3. CASE later # {}
  <2> DEFINE gaps == {n - d : n \in later}
  <2>4. gaps \subseteq Nat /\ gaps # {}
    BY <1>1, <1>3
  <2> HIDE DEF gaps
  <2>5. PICK g \in gaps : \A h \in gaps : g <= h
    BY <2>4, LeastOfSome
  <2>6. PICK n \in later : g = n - d
    BY DEF gaps
  <2>7. ASSUME NEW m \in later PROVE n <= m
    <3>1. m - d \in gaps
      BY DEF gaps
    <3>2. n - d <= m - d
      BY <2>5, <2>6, <3>1
    <3> QED
      BY <1>1, <3>2
  <2>1. \E k \in later : \A m \in later : k <= m
    BY <2>7
  <2>2. Retain!Min(later) \in later
    BY <2>1 DEF Retain!Min
  <2>3. Retain!NextDay(d) = Retain!Min(later)
    BY <1>3 DEF Retain!NextDay
  <2> QED
    BY <1>1, <2>2, <2>3
<1> QED
  BY <1>2, <1>3

LEMMA RetentionStarts ==
    ASSUME Retain!Init, Retain!RetentionAssumption
    PROVE  RetentionInv
<1>1. /\ row.visits = 0 /\ row.last = Never /\ row.age = 0
      /\ row.cohort = "new" /\ row.score = 0 /\ row \in CustomerRow
  BY Ranks DEF Retain!Init, CustomerRow
<1>2. RetentionTyped /\ ReadIsRow
  BY <1>1 DEF Retain!Init, Retain!RetentionAssumption, RetentionTyped, ReadIsRow, Retain!Idle
<1>3. Retain!ComputeCohort(row) = "new" /\ Retain!ComputeChurnScore(row) = 900
  BY <1>1 DEF Retain!ComputeCohort, Retain!ComputeChurnScore
<1>4. NotAhead
  BY <1>1, <1>3, Ranks DEF NotAhead, Retain!Epsilon
<1> QED
  BY <1>2, <1>4 DEF RetentionInv

LEMMA ReadRowKeeps ==
    ASSUME RetentionInv, Retain!ReadRow
    PROVE  RetentionInv'
<1>1. /\ job' = [op |-> "save", read |-> row] /\ missed' = 0 /\ row' = row /\ unseen' = unseen
  BY DEF Retain!ReadRow
<1>2. RetentionTyped'
  BY <1>1 DEF RetentionInv, RetentionTyped
<1>3. ReadIsRow'
  BY <1>1 DEF ReadIsRow
<1>4. NotAhead'
  <2>1. /\ Retain!ComputeCohort(row)' = Retain!ComputeCohort(row)
        /\ Retain!ComputeChurnScore(row)' = Retain!ComputeChurnScore(row)
    BY <1>1 DEF Retain!ComputeCohort, Retain!ComputeChurnScore
  <2> QED
    BY <1>1, <2>1 DEF RetentionInv, NotAhead
<1> QED
  BY <1>2, <1>3, <1>4 DEF RetentionInv

\* A step of a booking changes the counters, and leaves that the command has not seen it.
LEMMA CountersKeep ==
    ASSUME RetentionInv, NEW visits \in Nat, NEW last \in Days \union {Never},
           row' = [row EXCEPT !.visits = visits, !.last = last],
           unseen' = TRUE, job' = job, missed' = missed, Retain!RetentionAssumption
    PROVE  RetentionInv'
<1>1. row \in CustomerRow /\ row.age \in Days /\ last \in Int \union {Never}
  BY DEF RetentionInv, RetentionTyped, Retain!RetentionAssumption
<1>2. /\ row'.visits = visits /\ row'.last = last /\ row'.age = row.age
      /\ row'.cohort = row.cohort /\ row'.score = row.score /\ row' \in CustomerRow
  BY <1>1 DEF CustomerRow
<1>3. RetentionTyped'
  BY <1>1, <1>2 DEF RetentionInv, RetentionTyped
<1>4. ReadIsRow'
  BY <1>2 DEF RetentionInv, ReadIsRow
<1> QED
  BY <1>3, <1>4 DEF RetentionInv, NotAhead

LEMMA VisitCountedKeeps ==
    ASSUME RetentionInv, NEW d \in Starts, Retain!VisitCounted(d), Retain!RetentionAssumption
    PROVE  RetentionInv'
<1>1. PICK last \in {row.last, Retain!Bumped(d)} :
        row' = [row EXCEPT !.visits = row.visits + 1, !.last = last]
  BY DEF Retain!VisitCounted
<1>2. unseen' = TRUE /\ job' = job /\ missed' = missed
  BY DEF Retain!VisitCounted
<1>3. row.visits + 1 \in Nat /\ row.last \in Days \union {Never}
  BY DEF RetentionInv, RetentionTyped, CustomerRow
<1>4. d \in Days
  BY DEF Retain!RetentionAssumption
<1>5. last \in Days \union {Never}
  BY <1>1, <1>3, <1>4 DEF Retain!Bumped
<1> QED
  BY <1>1, <1>2, <1>3, <1>5, CountersKeep

LEMMA VisitTakenBackKeeps ==
    ASSUME RetentionInv, Retain!VisitTakenBack, Retain!RetentionAssumption
    PROVE  RetentionInv'
<1>1. /\ row.visits > 0 /\ row' = [row EXCEPT !.visits = row.visits - 1]
      /\ unseen' = TRUE /\ job' = job /\ missed' = missed
  BY DEF Retain!VisitTakenBack
<1>2. row \in CustomerRow /\ row.last \in Days \union {Never}
  BY DEF RetentionInv, RetentionTyped
<1>3. row.visits - 1 \in Nat
  BY <1>1, <1>2 DEF CustomerRow
<1>4. row' = [row EXCEPT !.visits = row.visits - 1, !.last = row.last]
  BY <1>1, <1>2 DEF CustomerRow
<1> QED
  BY <1>1, <1>2, <1>3, <1>4, CountersKeep

LEMMA DayPassesKeeps ==
    ASSUME RetentionInv, Retain!DayPasses, Retain!RetentionAssumption
    PROVE  RetentionInv'
<1> DEFINE last == IF row.last = Never THEN row.last ELSE Retain!NextDay(row.last)
           age  == Retain!NextDay(row.age)
<1>1. /\ row' = [row EXCEPT !.last = last, !.age = age]
      /\ missed' = missed + 1 /\ job' = Retain!Idle /\ unseen' = unseen
  BY DEF Retain!DayPasses
<1>2. /\ row \in CustomerRow /\ row.age \in Days /\ row.last \in Days \union {Never}
      /\ Days \subseteq Int
  BY DEF RetentionInv, RetentionTyped, Retain!RetentionAssumption
<1>3. age \in Days /\ row.age <= age
  BY <1>2, NextDayIsLater
<1>4. last \in Days \union {Never} /\ Later(row.last, last)
  <2>1. CASE row.last = Never
    BY <2>1 DEF Later
  <2>2. CASE row.last # Never
    <3>1. row.last \in Days /\ last = Retain!NextDay(row.last)
      BY <1>2, <2>2
    <3>2. last \in Days /\ row.last <= last
      BY <3>1, NextDayIsLater
    <3> QED
      BY <1>2, <3>1, <3>2 DEF Later
  <2> QED
    BY <2>1, <2>2
<1> HIDE DEF last, age
<1>5. /\ row'.visits = row.visits /\ row'.last = last /\ row'.age = age
      /\ row'.cohort = row.cohort /\ row'.score = row.score /\ row' \in CustomerRow
  BY <1>1, <1>2, <1>3, <1>4 DEF CustomerRow
<1>6. RetentionTyped'
  BY <1>1, <1>3, <1>4, <1>5 DEF RetentionInv, RetentionTyped
<1>7. ReadIsRow'
  BY <1>1 DEF ReadIsRow, Retain!Idle
<1>8. NotAhead'
  <2>1. PICK now \in CustomerRow : now = row'
    BY <1>5
  <2>2. now.visits = row.visits /\ row.age <= now.age /\ Later(row.last, now.last)
    BY <1>3, <1>4, <1>5, <2>1
  <2>3. /\ Retain!Rank(Retain!ComputeCohort(row)) <= Retain!Rank(Retain!ComputeCohort(now))
        /\ Retain!ComputeChurnScore(row) <= Retain!ComputeChurnScore(now)
    BY <1>2, <2>2, CohortGrows, ScoreGrows
  <2>4. /\ Retain!ComputeCohort(row) \in Range(Retain!Cohorts)
        /\ Retain!ComputeChurnScore(row) \in Int
        /\ Retain!ComputeCohort(now) \in Range(Retain!Cohorts)
        /\ Retain!ComputeChurnScore(now) \in Int
    BY <1>2, ComputedTypes
  <2>5. \A c \in Range(Retain!Cohorts) : Retain!Rank(c) \in Int
    BY Ranks
  <2>6. row.cohort \in Range(Retain!Cohorts) /\ row.score \in Int
    BY <1>2 DEF CustomerRow
  <2>7. ~unseen => /\ Retain!Rank(row.cohort) <= Retain!Rank(Retain!ComputeCohort(now))
                   /\ row.score <= Retain!ComputeChurnScore(now) + Retain!Epsilon
    BY <2>3, <2>4, <2>5, <2>6 DEF RetentionInv, NotAhead, Retain!Epsilon
  <2>8. /\ Retain!ComputeCohort(now) = Retain!ComputeCohort(row)'
        /\ Retain!ComputeChurnScore(now) = Retain!ComputeChurnScore(row)'
    BY <2>1 DEF Retain!ComputeCohort, Retain!ComputeChurnScore
  <2> QED
    BY <1>1, <1>5, <2>7, <2>8 DEF NotAhead
<1> QED
  BY <1>6, <1>7, <1>8 DEF RetentionInv

LEMMA AsReadIsRow ==
    ASSUME RetentionInv, job.op = "save", Retain!AsRead
    PROVE  job.read = row /\ row \in CustomerRow
<1>1. row \in CustomerRow /\ job.read \in CustomerRow
  BY DEF RetentionInv, RetentionTyped, Retain!Idle
<1>2. /\ row.visits = job.read.visits /\ row.last = job.read.last
      /\ job.read.age = row.age /\ job.read.cohort = row.cohort /\ job.read.score = row.score
  BY DEF RetentionInv, ReadIsRow, Retain!AsRead
<1> QED
  BY <1>1, <1>2 DEF CustomerRow

\* A row that is skipped has the label of the day and about its score; another one gets
\* both.
LEMMA SaveRowLeaves ==
    ASSUME RetentionInv, Retain!SaveRow, Retain!AsRead
    PROVE  /\ row' \in CustomerRow
           /\ row'.visits = row.visits /\ row'.last = row.last /\ row'.age = row.age
           /\ row'.cohort = Retain!ComputeCohort(row)
           /\ Retain!Apart(row'.score, Retain!ComputeChurnScore(row)) <= Retain!Epsilon
           /\ row'.score = row.score \/ row'.score = Retain!ComputeChurnScore(row)
<1> DEFINE cohort == Retain!ComputeCohort(row)
           score  == Retain!ComputeChurnScore(row)
<1>1. row \in CustomerRow /\ job.read = row
  BY AsReadIsRow DEF Retain!SaveRow
<1>2. cohort \in Range(Retain!Cohorts) /\ score \in Int /\ row.score \in Int
  BY <1>1, ComputedTypes DEF CustomerRow
<1>3. PICK changed \in Retain!Changed(row, cohort, score) :
        row' = IF changed THEN [row EXCEPT !.cohort = cohort, !.score = score] ELSE row
  BY <1>1 DEF Retain!SaveRow
<1> HIDE DEF cohort, score
<1>4. CASE row' = [row EXCEPT !.cohort = cohort, !.score = score]
  <2>1. /\ row'.visits = row.visits /\ row'.last = row.last /\ row'.age = row.age
        /\ row'.cohort = cohort /\ row'.score = score /\ row' \in CustomerRow
    BY <1>1, <1>2, <1>4 DEF CustomerRow
  <2>2. Retain!Apart(score, score) <= Retain!Epsilon
    BY <1>2 DEF Retain!Apart, Retain!Epsilon, Retain!Max
  <2> QED
    BY <2>1, <2>2 DEF cohort, score
<1>5. CASE row' # [row EXCEPT !.cohort = cohort, !.score = score]
  <2>1. row' = row /\ ~changed
    BY <1>3, <1>5
  <2>2. row.cohort = cohort /\ Retain!Apart(row.score, score) <= Retain!Epsilon
    <3>1. Retain!Apart(row.score, score) \in Int
      <4>1. Retain!Apart(row.score, score) = IF row.score >= score THEN row.score - score
                                             ELSE score - row.score
        BY <1>2 DEF Retain!Apart, Retain!Max
      <4> QED
        BY <1>2, <4>1
    <3>2. CASE row.cohort = cohort /\ Retain!Apart(row.score, score) = Retain!Epsilon
      BY <3>1, <3>2
    <3>3. CASE ~(row.cohort = cohort /\ Retain!Apart(row.score, score) = Retain!Epsilon)
      <4>1. changed \in {row.cohort # cohort \/ Retain!Apart(row.score, score) > Retain!Epsilon}
        BY <1>3, <3>3 DEF Retain!Changed
      <4>2. ~(row.cohort # cohort \/ Retain!Apart(row.score, score) > Retain!Epsilon)
        BY <2>1, <4>1
      <4> QED
        BY <3>1, <4>2 DEF Retain!Epsilon
    <3> QED
      BY <3>2, <3>3
  <2> QED
    BY <1>1, <2>1, <2>2 DEF cohort, score
<1> QED
  BY <1>4, <1>5

LEMMA SaveRowKeeps ==
    ASSUME RetentionInv, Retain!SaveRow
    PROVE  RetentionInv'
<1>1. job.op = "save" /\ job' = Retain!Idle /\ missed' = missed /\ unseen' = ~Retain!AsRead
  BY DEF Retain!SaveRow
<1>2. row \in CustomerRow /\ row.age \in Days /\ row.last \in Days \union {Never}
  BY DEF RetentionInv, RetentionTyped
<1>3. row' \in CustomerRow /\ row'.visits = row.visits /\ row'.last = row.last /\ row'.age = row.age
  <2>1. PICK read \in CustomerRow : read = job.read
    BY <1>1 DEF RetentionInv, RetentionTyped, Retain!Idle
  <2> DEFINE cohort == Retain!ComputeCohort(read)
             score  == Retain!ComputeChurnScore(read)
  <2>2. \/ row' = [row EXCEPT !.cohort = cohort, !.score = score]
        \/ row' = row
    BY <2>1 DEF Retain!SaveRow
  <2>3. cohort \in Range(Retain!Cohorts) /\ score \in Int
    BY ComputedTypes
  <2> HIDE DEF cohort, score
  <2> QED
    BY <1>2, <2>2, <2>3 DEF CustomerRow
<1>4. RetentionTyped'
  <2>1. unseen' \in BOOLEAN
    BY <1>1 DEF Retain!AsRead
  <2> QED
    BY <1>1, <1>2, <1>3, <2>1 DEF RetentionInv, RetentionTyped
<1>5. ReadIsRow'
  BY <1>1 DEF ReadIsRow, Retain!Idle
<1>6. NotAhead'
  <2>1. CASE ~Retain!AsRead
    BY <1>1, <2>1 DEF NotAhead
  <2>2. CASE Retain!AsRead
    <3>1. /\ row'.cohort = Retain!ComputeCohort(row)
          /\ Retain!Apart(row'.score, Retain!ComputeChurnScore(row)) <= Retain!Epsilon
      BY <2>2, SaveRowLeaves
    <3>2. /\ Retain!ComputeCohort(row)' = Retain!ComputeCohort(row)
          /\ Retain!ComputeChurnScore(row)' = Retain!ComputeChurnScore(row)
      BY <1>3 DEF Retain!ComputeCohort, Retain!ComputeChurnScore
    <3>3. /\ Retain!ComputeCohort(row) \in Range(Retain!Cohorts)
          /\ Retain!ComputeChurnScore(row) \in Int /\ row'.score \in Int
      BY <1>2, <1>3, ComputedTypes DEF CustomerRow
    <3>4. row'.score <= Retain!ComputeChurnScore(row) + Retain!Epsilon
      BY <3>1, <3>3 DEF Retain!Apart, Retain!Epsilon, Retain!Max
    <3>5. Retain!Rank(row'.cohort) <= Retain!Rank(Retain!ComputeCohort(row))
      BY <3>1, <3>3, Ranks
    <3> QED
      BY <3>2, <3>4, <3>5 DEF NotAhead
  <2> QED
    BY <2>1, <2>2
<1> QED
  BY <1>4, <1>5, <1>6 DEF RetentionInv

LEMMA RetentionStep ==
    ASSUME RetentionInv, [Retain!Next]_(Retain!vars), Retain!RetentionAssumption
    PROVE  RetentionInv'
<1>1. CASE UNCHANGED Retain!vars
  <2>1. row' = row /\ job' = job /\ missed' = missed /\ unseen' = unseen
    BY <1>1 DEF Retain!vars
  <2>2. RetentionTyped'
    BY <2>1 DEF RetentionInv, RetentionTyped
  <2>3. ReadIsRow'
    BY <2>1 DEF RetentionInv, ReadIsRow
  <2>4. NotAhead'
    <3>1. /\ Retain!ComputeCohort(row)' = Retain!ComputeCohort(row)
          /\ Retain!ComputeChurnScore(row)' = Retain!ComputeChurnScore(row)
      BY <2>1 DEF Retain!ComputeCohort, Retain!ComputeChurnScore
    <3> QED
      BY <2>1, <3>1 DEF RetentionInv, NotAhead
  <2> QED
    BY <2>2, <2>3, <2>4 DEF RetentionInv
<1>2. CASE Retain!ReadRow
  BY <1>2, ReadRowKeeps
<1>3. CASE Retain!SaveRow
  BY <1>3, SaveRowKeeps
<1>4. CASE \E d \in Starts : Retain!VisitCounted(d)
  BY <1>4, VisitCountedKeeps
<1>6. CASE Retain!VisitTakenBack
  BY <1>6, VisitTakenBackKeeps
<1>5. CASE Retain!DayPasses
  BY <1>5, DayPassesKeeps
<1> QED
  BY <1>1, <1>2, <1>3, <1>4, <1>5, <1>6 DEF Retain!Next

\* What a run of the nightly job leaves: the label of the day, a score within epsilon of
\* the day's, and neither below the ones before unless a booking came between.
LEMMA ConcernStep ==
    ASSUME RetentionInv, [Retain!Next]_(Retain!vars), job.op = "save", job' = Retain!Idle,
           missed' = missed, Retain!AsRead
    PROVE  /\ row'.cohort = Retain!ComputeCohort(row)
           /\ Retain!Apart(row'.score, Retain!ComputeChurnScore(row)) <= Retain!Epsilon
           /\ ~unseen => /\ Retain!Rank(row.cohort) <= Retain!Rank(row'.cohort)
                         /\ row.score <= row'.score + Retain!Epsilon
<1>1. Retain!SaveRow
  <2>1. job # Retain!Idle /\ missed \in Nat
    BY DEF RetentionInv, RetentionTyped, Retain!Idle
  <2>2. missed + 1 # missed
    BY <2>1
  <2> QED
    BY <2>1, <2>2
    DEF Retain!Next, Retain!vars, Retain!ReadRow, Retain!VisitCounted, Retain!VisitTakenBack,
        Retain!DayPasses
<1>2. /\ row'.cohort = Retain!ComputeCohort(row)
      /\ Retain!Apart(row'.score, Retain!ComputeChurnScore(row)) <= Retain!Epsilon
      /\ row'.score = row.score \/ row'.score = Retain!ComputeChurnScore(row)
  BY <1>1, SaveRowLeaves
<1>3. row.score \in Int
  BY DEF RetentionInv, RetentionTyped, CustomerRow
<1>4. ~unseen => row.score <= row'.score + Retain!Epsilon
  BY <1>2, <1>3 DEF RetentionInv, NotAhead, Retain!Epsilon
<1> QED
  BY <1>2, <1>4 DEF RetentionInv, NotAhead

\* recompute_retention: whatever nights are missed and however bookings are made, cancelled
\* or deleted between its read and its save, a run that saves the row it read leaves the
\* day's label and score, which go one way until the next such booking.
THEOREM ConcernGrowsHolds == Retain!Spec => ConcernGrows
<1>1. Retain!RetentionAssumption
  BY PartsAssumption
<1>2. Retain!Init => RetentionInv
  BY <1>1, RetentionStarts
<1>3. RetentionInv /\ [Retain!Next]_(Retain!vars) => RetentionInv'
  BY <1>1, RetentionStep
<1> DEFINE Grows ==
       job.op = "save" /\ job' = Retain!Idle /\ missed' = missed /\ Retain!AsRead =>
         /\ row'.cohort = Retain!ComputeCohort(row)
         /\ Retain!Apart(row'.score, Retain!ComputeChurnScore(row)) <= Retain!Epsilon
         /\ ~unseen => /\ Retain!Rank(row.cohort) <= Retain!Rank(row'.cohort)
                       /\ row.score <= row'.score + Retain!Epsilon
<1>4. RetentionInv /\ [Retain!Next]_(Retain!vars) => [Grows]_(Retain!vars)
  BY ConcernStep
<1>5. Retain!Spec => [][Grows]_(Retain!vars)
  <2> HIDE DEF Grows
  <2> QED
    BY <1>2, <1>3, <1>4, PTL DEF Retain!Spec
<1> QED
  BY <1>5 DEF ConcernGrows, Retain!ConcernGrows

---------------------------------------------------------------------------
(* The keys behind the door.                                               *)

KeyRow == [age : Nat, life : Nat, superseded : Int, seenBy : SUBSET Keys!Minters]

KeysInv ==
    /\ keys \in Seq(KeyRow) /\ rotation \in Rotations /\ sinceCron \in Nat
    /\ minting \in [Keys!Minters -> Nat]

LEMMA RowChanges ==
    ASSUME NEW k \in KeyRow
    PROVE  /\ \A m \in Keys!Minters : [k EXCEPT !.seenBy = @ \union {m}] \in KeyRow
           /\ \A m \in Keys!Minters : [k EXCEPT !.seenBy = @ \ {m}] \in KeyRow
           /\ \A m \in Keys!Minters : Keys!Supersede(k, m) \in KeyRow
           /\ Keys!Older(k) \in KeyRow
<1>1. k.age \in Nat /\ k.superseded \in Int /\ k.seenBy \in SUBSET Keys!Minters
  BY DEF KeyRow
<1>2. ASSUME NEW c \in SUBSET Keys!Minters PROVE [k EXCEPT !.seenBy = c] \in KeyRow
  BY DEF KeyRow
<1>3. ASSUME NEW v \in Int, NEW c \in SUBSET Keys!Minters
      PROVE  [k EXCEPT !.superseded = v, !.seenBy = c] \in KeyRow
  BY DEF KeyRow
<1>4. ASSUME NEW a \in Nat, NEW v \in Int PROVE [k EXCEPT !.age = a, !.superseded = v] \in KeyRow
  BY DEF KeyRow
<1>5. ASSUME NEW m \in Keys!Minters PROVE Keys!Supersede(k, m) \in KeyRow
  <2>1. PICK v \in Int : v = IF m \in k.seenBy /\ k.superseded = Keys!NotYet THEN 0 ELSE k.superseded
    BY <1>1
  <2>2. Keys!Supersede(k, m) = [k EXCEPT !.superseded = v, !.seenBy = k.seenBy \ {m}]
    BY <2>1 DEF Keys!Supersede
  <2> QED
    BY <1>1, <1>3, <2>2
<1>6. Keys!Older(k) \in KeyRow
  <2>1. PICK v \in Int : v = IF k.superseded = Keys!NotYet THEN k.superseded ELSE k.superseded + 1
    BY <1>1
  <2>2. k.age + 1 \in Nat
    BY <1>1
  <2>3. [k EXCEPT !.age = k.age + 1, !.superseded = v] \in KeyRow
    BY <1>4, <2>2
  <2> QED
    BY <2>1, <2>3 DEF Keys!Older
<1> QED
  BY <1>1, <1>2, <1>5, <1>6

LEMMA BeginMintKeeps ==
    ASSUME KeysInv, Keys!KeysAssumption, NEW m \in Keys!Minters, Keys!BeginMint(m)
    PROVE  KeysInv' /\ sinceCron' = sinceCron
<1>1. ASSUME NEW k \in DOMAIN keys PROVE [keys[k] EXCEPT !.seenBy = @ \union {m}] \in KeyRow
  <2>1. PICK held \in KeyRow : held = keys[k]
    BY DEF KeysInv
  <2> QED
    BY <2>1, RowChanges
<1>2. keys' \in Seq(KeyRow)
  <2>1. keys' = [k \in DOMAIN keys |->
          IF keys[k].superseded = Keys!NotYet THEN [keys[k] EXCEPT !.seenBy = @ \union {m}] ELSE keys[k]]
    BY DEF Keys!BeginMint
  <2>2. \A k \in DOMAIN keys : keys'[k] \in KeyRow
    BY <1>1, <2>1 DEF KeysInv
  <2>3. keys' \in [1..Len(keys) -> KeyRow] /\ Len(keys) \in Nat
    BY <2>1, <2>2 DEF KeysInv
  <2> QED
    BY <2>3
<1>3. rotation' = rotation /\ sinceCron' = sinceCron /\ minting' \in [Keys!Minters -> Nat]
  BY DEF Keys!BeginMint, KeysInv, Keys!KeysAssumption
<1> QED
  BY <1>2, <1>3 DEF KeysInv

LEMMA CommitMintKeeps ==
    ASSUME KeysInv, NEW m \in Keys!Minters, Keys!CommitMint(m)
    PROVE  /\ KeysInv'
           /\ keys' # <<>> /\ keys'[Len(keys')].superseded = Keys!NotYet
           /\ keys'[Len(keys')].age = 0 /\ keys'[Len(keys')].life = minting[m]
<1> DEFINE new == [age |-> 0, life |-> minting[m], superseded |-> Keys!NotYet, seenBy |-> {}]
           old == [k \in DOMAIN keys |-> Keys!Supersede(keys[k], m)]
<1>1. new \in KeyRow
  BY DEF KeysInv, KeyRow, Keys!NotYet
<1>2. old \in Seq(KeyRow)
  <2>1. ASSUME NEW k \in DOMAIN keys PROVE Keys!Supersede(keys[k], m) \in KeyRow
    <3>1. PICK held \in KeyRow : held = keys[k]
      BY DEF KeysInv
    <3>2. Keys!Supersede(held, m) \in KeyRow
      BY RowChanges
    <3> QED
      BY <3>1, <3>2
  <2>2. old \in [1..Len(keys) -> KeyRow] /\ Len(keys) \in Nat
    BY <2>1 DEF KeysInv
  <2> QED
    BY <2>2
<1>3. keys' = Append(old, new) /\ rotation' = rotation
      /\ minting' = [minting EXCEPT ![m] = 0] /\ (sinceCron' = 0 \/ sinceCron' = sinceCron)
  BY DEF Keys!CommitMint
<1> HIDE DEF new, old
<1>4. keys' \in Seq(KeyRow) /\ keys' # <<>> /\ keys'[Len(keys')] = new
  BY <1>1, <1>2, <1>3
<1> QED
  BY <1>3, <1>4 DEF KeysInv, new

LEMMA KeysRollBackKeeps ==
    ASSUME KeysInv, NEW m \in Keys!Minters, Keys!RollBack(m)
    PROVE  KeysInv' /\ sinceCron' = sinceCron
<1>1. keys' = [k \in DOMAIN keys |-> [keys[k] EXCEPT !.seenBy = @ \ {m}]]
  BY DEF Keys!RollBack
<1>2. ASSUME NEW k \in DOMAIN keys PROVE keys'[k] \in KeyRow
  <2>1. PICK held \in KeyRow : held = keys[k]
    BY DEF KeysInv
  <2>2. [held EXCEPT !.seenBy = @ \ {m}] \in KeyRow
    BY RowChanges
  <2> QED
    BY <1>1, <2>1, <2>2
<1>3. keys' \in [1..Len(keys) -> KeyRow] /\ Len(keys) \in Nat
  BY <1>1, <1>2 DEF KeysInv
<1>4. keys' \in Seq(KeyRow)
  BY <1>3
<1> QED
  BY <1>4 DEF KeysInv, Keys!RollBack

LEMMA KeysTickKeeps ==
    ASSUME KeysInv, Keys!Tick
    PROVE  KeysInv' /\ sinceCron' # 0
<1>1. PICK S \in SUBSET DOMAIN keys : \E left \in Keys!Surjection(1..Cardinality(S), S) :
        keys' = [k \in DOMAIN left |-> Keys!Older(keys[left[k]])]
  <2> DEFINE lasting == {k \in DOMAIN keys : Keys!Lasts(Keys!Older(keys[k]))}
  <2>1. Keys!Cardinality(lasting) = Cardinality(lasting)
    BY DEF Keys!Cardinality, Cardinality
  <2>2. \E left \in Keys!Surjection(1..Keys!Cardinality(lasting), lasting) :
          /\ \A i, j \in DOMAIN left : i < j => left[i] < left[j]
          /\ keys' = [k \in DOMAIN left |-> Keys!Older(keys[left[k]])]
    BY DEF Keys!Tick
  <2>3. lasting \in SUBSET DOMAIN keys
    OBVIOUS
  <2> HIDE DEF lasting
  <2> QED
    BY <2>1, <2>2, <2>3
<1>2. PICK left \in Keys!Surjection(1..Cardinality(S), S) :
        keys' = [k \in DOMAIN left |-> Keys!Older(keys[left[k]])]
  BY <1>1
<1>3. Cardinality(S) \in Nat
  <2>1. DOMAIN keys = 1..Len(keys) /\ Len(keys) \in Nat
    BY DEF KeysInv
  <2>2. IsFiniteSet(1..Len(keys))
    BY <2>1, FS_Interval
  <2> QED
    BY <2>1, <2>2, FS_Subset, FS_CardinalityType
<1>4. ASSUME NEW k \in DOMAIN keys PROVE Keys!Older(keys[k]) \in KeyRow
  <2>1. PICK held \in KeyRow : held = keys[k]
    BY DEF KeysInv
  <2>2. Keys!Older(held) \in KeyRow
    BY RowChanges
  <2> QED
    BY <2>1, <2>2
<1>5. left \in [1..Cardinality(S) -> S]
  BY <1>2, <1>3 DEF Keys!Surjection
<1>6. keys' \in [1..Cardinality(S) -> KeyRow]
  BY <1>2, <1>4, <1>5
<1>7. keys' \in Seq(KeyRow)
  BY <1>3, <1>6
<1>8. sinceCron' = sinceCron + 1 /\ rotation' = rotation /\ minting' = minting
  BY DEF Keys!Tick
<1> QED
  BY <1>7, <1>8 DEF KeysInv

LEMMA KeysStep ==
    ASSUME KeysInv, Keys!KeysAssumption, [Keys!Next]_(Keys!vars)
    PROVE  KeysInv'
<1>1. CASE UNCHANGED Keys!vars
  BY <1>1 DEF KeysInv, Keys!vars
<1>2. CASE Keys!RunCron
  <2>1. CASE Keys!BeginMint(Cron)
    BY <2>1, BeginMintKeeps DEF Keys!Minters
  <2>2. CASE sinceCron' = 0 /\ UNCHANGED <<keys, rotation, minting>>
    BY <2>2 DEF KeysInv
  <2> QED
    BY <1>2, <2>1, <2>2 DEF Keys!RunCron
<1>3. ASSUME NEW m \in Staff, Keys!RotateNow(m) \/ Keys!ShowActiveKey(m) PROVE KeysInv'
  BY <1>3, BeginMintKeeps DEF Keys!Minters, Keys!RotateNow, Keys!ShowActiveKey
<1>4. ASSUME NEW m \in Staff, Keys!SetRotation(m) PROVE KeysInv'
  BY <1>4 DEF Keys!SetRotation, KeysInv, Keys!KeysAssumption
<1>5. ASSUME NEW m \in Keys!Minters, Keys!CommitMint(m) PROVE KeysInv'
  BY <1>5, CommitMintKeeps
<1>6. ASSUME NEW m \in Keys!Minters, Keys!RollBack(m) PROVE KeysInv'
  BY <1>6, KeysRollBackKeeps
<1>7. CASE Keys!Tick
  BY <1>7, KeysTickKeeps
<1> QED
  BY <1>1, <1>2, <1>3, <1>4, <1>5, <1>6, <1>7 DEF Keys!Next

\* Cron has just done its work: it minted a key, or kept one with its slop.
LEMMA CronLeavesAKey ==
    ASSUME KeysInv, Keys!KeysAssumption, [Keys!Next]_(Keys!vars)
    PROVE  Keys!KeepsDoorOpen
<1> SUFFICES ASSUME sinceCron # 0, sinceCron' = 0, rotation > Minute PROVE Keys!KeepsDoorOpen
  BY DEF Keys!KeepsDoorOpen
<1>1. CASE Keys!CommitMint(Cron)
  <2>1. KeysInv' /\ keys' # <<>> /\ keys'[Len(keys')].superseded = Keys!NotYet
        /\ keys'[Len(keys')].age = 0
    BY <1>1, CommitMintKeeps DEF Keys!Minters
  <2>2. Len(keys') \in DOMAIN keys' /\ \A j \in DOMAIN keys' : j <= Len(keys')
    BY <2>1 DEF KeysInv
  <2>3. keys'[Len(keys')] \in Keys!ActiveKey'
    BY <2>1, <2>2 DEF Keys!ActiveKey
  <2>4. Minute \in Int /\ rotation \in Int
    BY DEF KeysInv, Keys!KeysAssumption
  <2>5. keys'[Len(keys')].life \in Nat
    <3>1. keys'[Len(keys')] \in KeyRow
      BY <2>1, <2>2 DEF KeysInv
    <3> QED
      BY <3>1 DEF KeyRow
  <2> QED
    BY <2>1, <2>3, <2>4, <2>5 DEF Keys!KeepsDoorOpen
<1>2. CASE UNCHANGED <<keys, rotation, minting>> /\ \E k \in Keys!ActiveKey : ~Keys!KeyIsOld(k)
  <2>1. PICK k \in Keys!ActiveKey : ~Keys!KeyIsOld(k)
    BY <1>2
  <2>2. k \in Keys!ActiveKey'
    BY <1>2, <2>1 DEF Keys!ActiveKey, Keys!InGrace
  <2>3. k \in KeyRow
    BY <2>1 DEF Keys!ActiveKey, KeysInv
  <2>4. Minute \in Nat \ {0} /\ rotation \in Nat /\ rotation >= 2 * Minute
    BY DEF KeysInv, Keys!KeysAssumption
  <2>5. Keys!Max({Minute, rotation - Minute}) = rotation - Minute
    BY <2>4 DEF Keys!Max
  <2>6. k.age <= rotation - Minute /\ k.age \in Nat /\ k.life \in Nat
    BY <2>1, <2>3, <2>4, <2>5 DEF Keys!KeyIsOld, KeyRow
  <2> QED
    BY <2>2, <2>4, <2>6 DEF Keys!KeepsDoorOpen
<1>3. ~Keys!Tick
  BY KeysTickKeeps
<1>4. ASSUME NEW m \in Keys!Minters, Keys!BeginMint(m) \/ Keys!RollBack(m) PROVE FALSE
  BY <1>4, BeginMintKeeps, KeysRollBackKeeps
<1>5. ASSUME NEW m \in Staff, Keys!SetRotation(m) PROVE FALSE
  BY <1>5 DEF Keys!SetRotation
<1>6. ASSUME NEW m \in Keys!Minters, Keys!CommitMint(m), m # Cron PROVE FALSE
  BY <1>6 DEF Keys!CommitMint
<1>7. \/ UNCHANGED Keys!vars \/ Keys!Tick
      \/ UNCHANGED <<keys, rotation, minting>> /\ \E k \in Keys!ActiveKey : ~Keys!KeyIsOld(k)
      \/ \E m \in Keys!Minters :
           Keys!BeginMint(m) \/ Keys!RollBack(m) \/ Keys!CommitMint(m)
      \/ \E m \in Staff : Keys!SetRotation(m)
  BY DEF Keys!Next, Keys!RunCron, Keys!RotateNow, Keys!ShowActiveKey, Keys!Minters
<1>8. ~ UNCHANGED Keys!vars
  BY DEF Keys!vars
<1> QED
  BY <1>1, <1>2, <1>3, <1>4, <1>5, <1>6, <1>7, <1>8

\* rotate_checkin_keys: after each run of the command the door has a key that lasts until
\* the next, however staff, transactions that overlap and rollbacks come between.
THEOREM DoorStaysOpenHolds == Keys!Spec => DoorStaysOpen
<1>1. Keys!KeysAssumption
  BY PartsAssumption
<1>2. Keys!Init => KeysInv
  BY <1>1 DEF Keys!Init, KeysInv, Keys!KeysAssumption
<1>3. KeysInv /\ [Keys!Next]_(Keys!vars) => KeysInv'
  BY <1>1, KeysStep
<1>4. KeysInv /\ [Keys!Next]_(Keys!vars) => Keys!KeepsDoorOpen
  BY <1>1, CronLeavesAKey
<1> QED
  BY <1>2, <1>3, <1>4, PTL DEF Keys!Spec, DoorStaysOpen, Keys!DoorStaysOpen

---------------------------------------------------------------------------
(* The chips of the landing page.                                          *)

Enumerates(s, T) ==
    /\ s \in [1..Cardinality(T) -> T] /\ Cardinality(T) \in Nat
    /\ \A t \in T : \E i \in 1..Cardinality(T) : s[i] = t

Ascends(s, f) == \A i, j \in DOMAIN s : i < j => f[s[i]] < f[s[j]]

\* Places of distinct rows: the unique constraint.
Placed(f) ==
    /\ f = [c \in DOMAIN f |-> f[c]] /\ IsFiniteSet(DOMAIN f)
    /\ \A c \in DOMAIN f : f[c] \in Nat
    /\ \A c, d \in DOMAIN f : f[c] = f[d] => c = d

\* What a request of the staff has in hand.
ChipHeld(q) ==
    /\ q.op = "create" => q.at \in Nat
    /\ q.op = "save" => q.read \in Nat /\ q.to \in Nat
    /\ q.op \in {"lock", "rewrite"} => q.to \in Nat /\ (q.moves = <<>> \/ \E c : q.moves = <<c>>)
    /\ q.op = "rewrite" => Placed(q.seen)

ChipsInv ==
    /\ Placed(position)
    /\ chipRequest = [r \in Pair |-> chipRequest[r]] /\ \A r \in Pair : ChipHeld(chipRequest[r])

\* Finitely many rows with distinct places can be put in order.
LEMMA SomeRanking ==
    ASSUME NEW f, NEW S, IsFiniteSet(S), \A x \in S : f[x] \in Nat,
           \A x, y \in S : f[x] = f[y] => x = y
    PROVE  \E s : Enumerates(s, S) /\ Ascends(s, f)
<1> DEFINE Good(n) == \A T \in SUBSET S : Cardinality(T) = n => \E s : Enumerates(s, T) /\ Ascends(s, f)
           Bad == {n \in Nat : ~Good(n)}
<1>1. \A T \in SUBSET S : IsFiniteSet(T) /\ Cardinality(T) \in Nat
  BY FS_Subset, FS_CardinalityType
<1>2. Bad = {}
  <2> SUFFICES ASSUME Bad # {} PROVE FALSE
    OBVIOUS
  <2>1. PICK n \in Bad : \A k \in Bad : n <= k
    <3>1. Bad \subseteq Nat
      OBVIOUS
    <3> HIDE DEF Bad
    <3> QED
      BY <3>1, LeastOfSome
  <2>2. n \in Nat /\ ~Good(n)
    OBVIOUS
  <2>3. PICK T \in SUBSET S : Cardinality(T) = n /\ ~ \E s : Enumerates(s, T) /\ Ascends(s, f)
    BY <2>2
  <2>4. n # 0
    <3> SUFFICES ASSUME n = 0 PROVE FALSE
      OBVIOUS
    <3>1. T = {}
      BY <1>1, <2>3, FS_EmptySet
    <3>2. Enumerates([i \in 1..0 |-> 0], T) /\ Ascends([i \in 1..0 |-> 0], f)
      BY <2>3, <3>1 DEF Enumerates, Ascends
    <3> QED
      BY <2>3, <3>2
  <2>5. PICK m \in T : \A t \in T : f[m] <= f[t]
    <3> DEFINE Taken == {f[t] : t \in T}
    <3>1. T # {}
      BY <2>3, <2>4, FS_EmptySet
    <3>2. Taken \subseteq Nat /\ Taken # {}
      BY <3>1
    <3>3. PICK v \in Taken : \A w \in Taken : v <= w
      <4> HIDE DEF Taken
      <4> QED
        BY <3>2, LeastOfSome
    <3> QED
      BY <3>3
  <2>6. T \ {m} \in SUBSET S /\ Cardinality(T \ {m}) = n - 1
    BY <1>1, <2>3, <2>5, FS_RemoveElement
  <2>7. Good(n - 1)
    BY <2>1, <2>2, <2>4
  <2>8. PICK e : Enumerates(e, T \ {m}) /\ Ascends(e, f)
    BY <2>6, <2>7
  <2>9. /\ e \in [1..(n - 1) -> T \ {m}] /\ \A t \in T \ {m} : \E i \in 1..(n - 1) : e[i] = t
    BY <2>6, <2>8 DEF Enumerates
  <2> DEFINE h == [i \in 1..n |-> IF i = 1 THEN m ELSE e[i - 1]]
  <2>10. /\ \A i \in 1..n : i # 1 => i - 1 \in 1..(n - 1) /\ h[i] = e[i - 1]
         /\ 1 \in 1..n /\ h[1] = m /\ DOMAIN h = 1..n
         /\ \A i \in 1..(n - 1) : i + 1 \in 1..n /\ i + 1 # 1 /\ (i + 1) - 1 = i
    BY <2>2, <2>4
  <2> HIDE DEF h, Good, Bad
  <2>11. h \in [1..n -> T]
    BY <2>9, <2>10 DEF h
  <2>12. \A t \in T : \E i \in 1..n : h[i] = t
    BY <2>9, <2>10
  <2>13. Ascends(h, f)
    <3> SUFFICES ASSUME NEW i \in 1..n, NEW j \in 1..n, i < j PROVE f[h[i]] < f[h[j]]
      BY <2>10 DEF Ascends
    <3>1. j # 1
      BY <2>2
    <3>2. h[j] \in T \ {m} /\ h[j] = e[j - 1] /\ j - 1 \in 1..(n - 1)
      BY <2>9, <2>10, <3>1
    <3>3. CASE i = 1
      <4>1. f[m] <= f[h[j]] /\ f[m] # f[h[j]] /\ f[m] \in Nat /\ f[h[j]] \in Nat
        BY <2>3, <2>5, <3>2
      <4> QED
        BY <2>10, <3>3, <4>1
    <3>4. CASE i # 1
      <4>1. h[i] = e[i - 1] /\ i - 1 \in 1..(n - 1) /\ i - 1 < j - 1
        BY <2>10, <3>4
      <4> QED
        BY <2>8, <2>9, <3>2, <4>1 DEF Ascends
    <3> QED
      BY <3>3, <3>4
  <2> QED
    BY <2>2, <2>3, <2>11, <2>12, <2>13 DEF Enumerates
<1>3. S \in SUBSET S /\ Cardinality(S) \in Nat
  BY <1>1
<1>4. Good(Cardinality(S))
  BY <1>2, <1>3
<1> QED
  BY <1>3, <1>4

LEMMA SortedRanks ==
    ASSUME NEW T, NEW f, Placed(f), T \subseteq DOMAIN f, NEW s, s = Chips!Sorted(T, f)
    PROVE  Enumerates(s, T) /\ Ascends(s, f)
<1>1. PICK e : Enumerates(e, T) /\ Ascends(e, f)
  <2>1. IsFiniteSet(T) /\ (\A x \in T : f[x] \in Nat) /\ \A x, y \in T : f[x] = f[y] => x = y
    BY FS_Subset DEF Placed
  <2> QED
    BY <2>1, SomeRanking
<1>2. Chips!Cardinality(T) = Cardinality(T)
  BY DEF Chips!Cardinality, Cardinality
<1>3. Chips!Surjection(1..Chips!Cardinality(T), T)
        = {g \in [1..Cardinality(T) -> T] : \A t \in T : \E i \in 1..Cardinality(T) : g[i] = t}
  BY <1>2 DEF Chips!Surjection
<1>4. e \in Chips!Surjection(1..Chips!Cardinality(T), T)
  BY <1>1, <1>3 DEF Enumerates
<1>5. s \in Chips!Surjection(1..Chips!Cardinality(T), T) /\ Ascends(s, f)
  BY <1>1, <1>4 DEF Chips!Sorted, Ascends
<1> QED
  BY <1>1, <1>3, <1>5 DEF Enumerates

LEMMA RankingsDiffer ==
    ASSUME NEW T, NEW f, Placed(f), T \subseteq DOMAIN f, NEW e, Enumerates(e, T), Ascends(e, f)
    PROVE  \A i, j \in 1..Cardinality(T) : e[i] = e[j] => i = j
<1> SUFFICES ASSUME NEW i \in 1..Cardinality(T), NEW j \in 1..Cardinality(T), e[i] = e[j], i < j
             PROVE FALSE
  BY DEF Enumerates
<1>1. f[e[i]] < f[e[j]] /\ f[e[i]] \in Nat
  BY DEF Enumerates, Ascends, Placed
<1> QED
  BY <1>1

LEMMA LesserOfTwo ==
    ASSUME NEW a \in Int, NEW b \in Int
    PROVE  Chips!Min({a, b}) = IF a <= b THEN a ELSE b
<1>1. PICK x \in {a, b} : \A y \in {a, b} : x <= y
  OBVIOUS
<1>2. Chips!Min({a, b}) \in {a, b} /\ \A y \in {a, b} : Chips!Min({a, b}) <= y
  BY <1>1 DEF Chips!Min
<1> QED
  BY <1>2

LEMMA Piece ==
    ASSUME NEW S, NEW e, NEW n \in Nat, \A i \in 1..n : e[i] \in S, NEW at \in 0..n, NEW k \in at..n,
           NEW cut, cut = SubSeq(e, at + 1, k)
    PROVE  /\ cut \in Seq(S) /\ Len(cut) = k - at
           /\ \A i \in 1..(k - at) : cut[i] = e[at + i]
<1>1. /\ \A i \in (at + 1)..k : e[i] \in S
      /\ at + 1 \in Int /\ k \in Int /\ k - (at + 1) + 1 = k - at
      /\ (IF at + 1 <= k THEN k - (at + 1) + 1 ELSE 0) = k - at
  OBVIOUS
<1>2. /\ cut \in Seq(S)
      /\ Len(cut) = IF at + 1 <= k THEN k - (at + 1) + 1 ELSE 0
      /\ \A i \in 1..(k - (at + 1) + 1) : cut[i] = e[(at + 1) + i - 1]
  BY <1>1, SubSeqProperties
<1>3. ASSUME NEW i \in 1..(k - at) PROVE cut[i] = e[at + i]
  <2>1. i \in 1..(k - (at + 1) + 1) /\ (at + 1) + i - 1 = at + i
    BY <1>1
  <2> QED
    BY <1>2, <2>1
<1> QED
  BY <1>1, <1>2, <1>3

\* _compact_positions: no row to put in.
LEMMA PutInNone ==
    ASSUME NEW T, NEW e, Enumerates(e, T), NEW q, q.moves = <<>>, q.to \in Nat,
           NEW rows, rows = Chips!PutIn(e, q)
    PROVE  rows = e /\ rows \in Seq(T) /\ Len(rows) = Cardinality(T)
<1>1. e \in Seq(T) /\ Len(e) = Cardinality(T) /\ Cardinality(T) \in Nat
  BY DEF Enumerates
<1>2. PICK at \in 0..Len(e) : at = Chips!Min({q.to, Len(e)})
  BY <1>1, LesserOfTwo
<1>3. SubSeq(e, 1, at) \in Seq(T)
  <2>1. 0 \in 0..Len(e) /\ at \in 0..Len(e) /\ 0 + 1 = 1 /\ \A i \in 1..Len(e) : e[i] \in T
    BY <1>1, <1>2
  <2> QED
    BY <1>1, <2>1, Piece
<1>4. rows = SubSeq(e, 1, at) \o <<>> \o SubSeq(e, at + 1, Len(e))
  BY <1>2 DEF Chips!PutIn
<1>5. rows = SubSeq(e, 1, at) \o SubSeq(e, at + 1, Len(e))
  BY <1>3, <1>4, ConcatEmptySeq
<1>6. /\ 1 \in 1..(Len(e) + 1) /\ at \in (1 - 1)..Len(e) /\ Len(e) \in at..Len(e)
  BY <1>1, <1>2
<1>7. rows = SubSeq(e, 1, Len(e))
  BY <1>1, <1>5, <1>6, ConcatAdjacentSubSeq
<1>8. rows = e
  BY <1>1, <1>7, SubSeqFull
<1> QED
  BY <1>1, <1>8

\* The rows of e with c put in after the first `at` of them.
HasPutIn(rows, e, n, c, at) ==
    \A i \in 1..(n + 1) : rows[i] = IF i <= at THEN e[i] ELSE IF i = at + 1 THEN c ELSE e[i - 1]

\* _reorder_actions: the moved row is put in at its place, or at the end.
LEMMA PutInOne ==
    ASSUME NEW T, NEW e, Enumerates(e, T), NEW q, NEW c, q.moves = <<c>>, q.to \in Nat,
           NEW rows, rows = Chips!PutIn(e, q),
           NEW at, at = IF q.to <= Cardinality(T) THEN q.to ELSE Cardinality(T)
    PROVE  /\ rows \in Seq(T \union {c}) /\ Len(rows) = Cardinality(T) + 1
           /\ at \in 0..Cardinality(T)
           /\ HasPutIn(rows, e, Cardinality(T), c, at)
<1> DEFINE n == Cardinality(T)
<1>1. e \in Seq(T) /\ Len(e) = n /\ n \in Nat
  BY DEF Enumerates
<1>2. Chips!Min({q.to, Len(e)}) = at /\ at \in 0..n
  BY <1>1, LesserOfTwo
<1>3. rows = SubSeq(e, 1, at) \o <<c>> \o SubSeq(e, at + 1, n)
  BY <1>1, <1>2 DEF Chips!PutIn
<1> HIDE DEF n
<1> DEFINE low  == SubSeq(e, 1, at)
           high == SubSeq(e, at + 1, n)
           S    == T \union {c}
<1>4. n \in Nat /\ at \in Int /\ at + 1 \in Int /\ \A i \in 1..n : e[i] \in S
  BY <1>1, <1>2
<1>5. low \in Seq(S) /\ Len(low) = at /\ \A i \in 1..at : low[i] = e[i]
  <2> HIDE DEF S
  <2>1. 0 \in 0..n /\ at \in 0..n /\ 0 + 1 = 1 /\ at - 0 = at /\ \A i \in 1..at : 0 + i = i
    BY <1>2, <1>4
  <2>2. low \in Seq(S) /\ Len(low) = at - 0 /\ \A i \in 1..(at - 0) : low[i] = e[0 + i]
    BY <1>4, <2>1, Piece
  <2> QED
    BY <2>1, <2>2
<1>6. high \in Seq(S) /\ Len(high) = n - at /\ \A i \in 1..(n - at) : high[i] = e[at + i]
  <2>1. /\ \A i \in (at + 1)..n : e[i] \in S
        /\ (IF at + 1 <= n THEN n - (at + 1) + 1 ELSE 0) = n - at /\ n - (at + 1) + 1 = n - at
    BY <1>2, <1>4
  <2>2. /\ high \in Seq(S) /\ Len(high) = IF at + 1 <= n THEN n - (at + 1) + 1 ELSE 0
        /\ \A i \in 1..(n - (at + 1) + 1) : high[i] = e[(at + 1) + i - 1]
    <3> HIDE DEF S
    <3> QED
      BY <1>4, <2>1, SubSeqProperties
  <2> HIDE DEF high, S
  <2>3. ASSUME NEW i \in 1..(n - at) PROVE high[i] = e[at + i]
    <3>1. i \in 1..(n - (at + 1) + 1) /\ (at + 1) + i - 1 = at + i
      BY <1>4, <2>1
    <3> QED
      BY <2>2, <3>1
  <2> QED
    BY <2>1, <2>2, <2>3
<1>7. rows = (low \o <<c>>) \o high
  BY <1>3
<1>8. <<c>> \in Seq(S) /\ Len(<<c>>) = 1 /\ <<c>>[1] = c
  OBVIOUS
<1> DEFINE front == low \o <<c>>
<1> HIDE DEF low, high, S
<1>9. /\ front \in Seq(S) /\ Len(front) = at + 1
      /\ \A i \in 1..(at + 1) : front[i] = IF i <= at THEN low[i] ELSE <<c>>[i - at]
  BY <1>5, <1>8, ConcatProperties
<1> HIDE DEF front
<1>10. /\ rows \in Seq(S) /\ Len(rows) = n + 1
       /\ \A i \in 1..(n + 1) : rows[i] = IF i <= at + 1 THEN front[i] ELSE high[i - (at + 1)]
  <2>1. Len(front) + Len(high) = n + 1
    BY <1>2, <1>4, <1>6, <1>9
  <2>2. rows = front \o high
    BY <1>7 DEF front
  <2>3. front \in Seq(S) /\ high \in Seq(S)
    BY <1>6, <1>9
  <2>4. /\ rows \in Seq(S) /\ Len(rows) = Len(front) + Len(high)
        /\ \A i \in 1..(Len(front) + Len(high)) :
             rows[i] = IF i <= Len(front) THEN front[i] ELSE high[i - Len(front)]
    BY <2>2, <2>3, ConcatProperties
  <2> QED
    BY <1>9, <2>1, <2>4
<1>11. ASSUME NEW i \in 1..(n + 1)
       PROVE  rows[i] = IF i <= at THEN e[i] ELSE IF i = at + 1 THEN c ELSE e[i - 1]
  <2>1. CASE i <= at
    <3>1. i \in 1..at /\ i \in 1..(at + 1) /\ i <= at + 1
      BY <1>4, <2>1
    <3> QED
      BY <1>5, <1>9, <1>10, <2>1, <3>1
  <2>2. CASE i = at + 1
    <3>1. i \in 1..(at + 1) /\ ~(i <= at) /\ i - at = 1 /\ i <= at + 1
      BY <1>4, <2>2
    <3> QED
      BY <1>8, <1>9, <1>10, <2>2, <3>1
  <2>3. CASE i > at + 1
    <3>1. i - (at + 1) \in 1..(n - at) /\ at + (i - (at + 1)) = i - 1 /\ ~(i <= at + 1)
          /\ ~(i <= at) /\ i # at + 1
      BY <1>4, <2>3
    <3>2. high[i - (at + 1)] = e[i - 1]
      BY <1>6, <3>1
    <3> QED
      BY <1>10, <3>1, <3>2
  <2> QED
    BY <1>4, <2>1, <2>2, <2>3
<1> QED
  BY <1>2, <1>10, <1>11 DEF n, S, HasPutIn

LEMMA WithPlaced ==
    ASSUME Placed(position), NEW c, NEW p \in Nat,
           \A d \in DOMAIN position \ {c} : position[d] # p,
           NEW next, next = Chips!With(c, p)
    PROVE  Placed(next)
<1>1. /\ DOMAIN next = DOMAIN position \union {c} /\ next[c] = p
      /\ \A d \in DOMAIN position \ {c} : next[d] = position[d]
      /\ next = [d \in DOMAIN next |-> next[d]]
  BY DEF Chips!With
<1>2. IsFiniteSet(DOMAIN next)
  BY <1>1, FS_AddElement DEF Placed
<1>3. \A d \in DOMAIN next : next[d] \in Nat
  BY <1>1 DEF Placed
<1>4. ASSUME NEW d \in DOMAIN next, NEW e \in DOMAIN next, next[d] = next[e] PROVE d = e
  BY <1>1, <1>4 DEF Placed
<1> QED
  BY <1>1, <1>2, <1>3, <1>4 DEF Placed

LEMMA WithoutPlaced ==
    ASSUME Placed(position), NEW c, NEW next, next = Chips!Without(c)
    PROVE  Placed(next)
<1>1. /\ DOMAIN next = DOMAIN position \ {c}
      /\ \A d \in DOMAIN next : next[d] = position[d]
      /\ next = [d \in DOMAIN next |-> next[d]]
  BY DEF Chips!Without
<1>2. IsFiniteSet(DOMAIN next)
  BY <1>1, FS_RemoveElement DEF Placed
<1> QED
  BY <1>1, <1>2 DEF Placed

\* What the two passes write, unless a row added since is in the way, ...
Written(next, rows) ==
    /\ \A c \in DOMAIN position \ Chips!Range(rows) : position[c] \notin 0..(Len(rows) - 1)
    /\ next = [c \in DOMAIN position |->
         IF c \in Chips!Range(rows) THEN CHOOSE i \in 0..(Len(rows) - 1) : rows[i + 1] = c
         ELSE position[c]]

\* ... which is where each row is in the list.
Follows(next, rows) ==
    \A c \in DOMAIN position : c \in Chips!Range(rows) =>
        next[c] \in 0..(Len(rows) - 1) /\ rows[next[c] + 1] = c

LEMMA Rewritten ==
    ASSUME Placed(position), NEW X, NEW rows \in Seq(X), NEW next, Written(next, rows)
    PROVE  Placed(next) /\ Follows(next, rows)
<1> DEFINE places == 0..(Len(rows) - 1)
<1> USE DEF Written
<1>1. Len(rows) \in Nat /\ DOMAIN rows = 1..Len(rows)
  OBVIOUS
<1>2. ASSUME NEW c \in Chips!Range(rows) PROVE \E i \in places : rows[i + 1] = c
  <2>1. PICK j \in 1..Len(rows) : rows[j] = c
    BY <1>1 DEF Chips!Range
  <2>2. j - 1 \in places /\ (j - 1) + 1 = j
    BY <1>1
  <2> QED
    BY <2>1, <2>2
<1>3. DOMAIN next = DOMAIN position /\ next = [c \in DOMAIN next |-> next[c]]
  OBVIOUS
<1>4. ASSUME NEW c \in DOMAIN position, c \in Chips!Range(rows)
      PROVE  next[c] \in places /\ rows[next[c] + 1] = c
  <2>1. next[c] = CHOOSE i \in places : rows[i + 1] = c
    BY <1>4
  <2> QED
    BY <1>2, <1>4, <2>1
<1>5. ASSUME NEW c \in DOMAIN position, c \notin Chips!Range(rows)
      PROVE  next[c] = position[c] /\ next[c] \notin places
  BY <1>5
<1>6. places \subseteq Nat
  BY <1>1
<1>7. \A c \in DOMAIN position : next[c] \in Nat
  BY <1>4, <1>5, <1>6 DEF Placed
<1>8. \A c, d \in DOMAIN position : next[c] = next[d] => c = d
  <2> SUFFICES ASSUME NEW c \in DOMAIN position, NEW d \in DOMAIN position, next[c] = next[d]
               PROVE  c = d
    OBVIOUS
  <2>1. CASE c \in Chips!Range(rows) /\ d \in Chips!Range(rows)
    <3>1. rows[next[c] + 1] = c /\ rows[next[d] + 1] = d
      BY <1>4, <2>1
    <3> QED
      BY <3>1
  <2>2. CASE c \notin Chips!Range(rows) /\ d \notin Chips!Range(rows)
    <3>1. position[c] = position[d]
      BY <1>5, <2>2
    <3> QED
      BY <3>1 DEF Placed
  <2>3. CASE (c \in Chips!Range(rows)) # (d \in Chips!Range(rows))
    BY <1>4, <1>5, <2>3
  <2> QED
    BY <2>1, <2>2, <2>3
<1> QED
  BY <1>3, <1>4, <1>7, <1>8 DEF Placed, Follows

\* The rows that a request in hand has put in order.
LEMMA SomeRows ==
    ASSUME NEW q, Placed(q.seen), q.to \in Nat, q.moves = <<>> \/ \E c : q.moves = <<c>>,
           NEW rows, rows = Chips!Renumbered(q)
    PROVE  \E X : rows \in Seq(X)
<1> DEFINE T == Chips!Locked(q.seen) \ Chips!Range(q.moves)
           e == Chips!Sorted(T, q.seen)
<1>1. T \subseteq DOMAIN q.seen
  BY DEF Chips!Locked
<1>2. rows = Chips!PutIn(e, q)
  BY DEF Chips!Renumbered
<1> HIDE DEF T
<1>3. Enumerates(e, T)
  BY <1>1, SortedRanks
<1> HIDE DEF e
<1>4. CASE q.moves = <<>>
  BY <1>2, <1>3, <1>4, PutInNone
<1>5. ASSUME NEW c, q.moves = <<c>> PROVE \E X : rows \in Seq(X)
  <2>1. PICK at : at = IF q.to <= Cardinality(T) THEN q.to ELSE Cardinality(T)
    OBVIOUS
  <2>2. rows \in Seq(T \union {c})
    BY <1>2, <1>3, <1>5, <2>1, PutInOne
  <2> QED
    BY <2>2
<1> QED
  BY <1>4, <1>5

LEMMA NextPlaceIsNat == ASSUME Placed(position) PROVE Chips!NextPlace \in Nat
<1>1. CASE position = <<>>
  BY <1>1 DEF Chips!NextPlace
<1>2. CASE position # <<>>
  <2>1. DOMAIN position # {}
    BY <1>2 DEF Placed
  <2>2. PICK e : Enumerates(e, DOMAIN position) /\ Ascends(e, position)
    BY SomeRanking DEF Placed
  <2> DEFINE n == Cardinality(DOMAIN position)
  <2>3. n \in Nat /\ n # 0
    BY <2>1, <2>2, FS_EmptySet DEF Enumerates, Placed
  <2> HIDE DEF n
  <2>4. e \in [1..n -> DOMAIN position] /\ \A c \in DOMAIN position : \E i \in 1..n : e[i] = c
    BY <2>2 DEF Enumerates, n
  <2>5. e[n] \in DOMAIN position /\ position[e[n]] \in Nat
    BY <2>3, <2>4 DEF Placed
  <2>6. ASSUME NEW c \in DOMAIN position PROVE position[c] <= position[e[n]]
    <3>1. PICK i \in 1..n : e[i] = c
      BY <2>4
    <3>2. CASE i = n
      BY <2>5, <3>1, <3>2
    <3>3. CASE i # n
      <4>1. i < n /\ i \in DOMAIN e /\ n \in DOMAIN e
        BY <2>3, <2>4, <3>3
      <4>2. position[c] < position[e[n]] /\ position[c] \in Nat
        BY <2>2, <3>1, <4>1 DEF Ascends, Placed
      <4> QED
        BY <2>5, <4>2
    <3> QED
      BY <3>2, <3>3
  <2>7. /\ position[e[n]] \in Chips!Range(position)
        /\ \A p \in Chips!Range(position) : position[e[n]] >= p /\ p \in Nat
    BY <2>5, <2>6 DEF Chips!Range, Placed
  <2>8. Chips!Max(Chips!Range(position)) \in Chips!Range(position)
    BY <2>7 DEF Chips!Max
  <2>9. Chips!Max(Chips!Range(position)) \in Nat
    BY <2>7, <2>8
  <2> QED
    BY <1>2, <2>9 DEF Chips!NextPlace
<1> QED
  BY <1>1, <1>2

LEMMA DoKeeps ==
    ASSUME ChipsInv, NEW r \in Pair, NEW what, ChipHeld(what), Chips!Do(r, what)
    PROVE  chipRequest' = [s \in Pair |-> chipRequest'[s]] /\ \A s \in Pair : ChipHeld(chipRequest'[s])
<1>1. chipRequest' = [chipRequest EXCEPT ![r] = what]
  BY DEF Chips!Do
<1>2. \A s \in Pair : chipRequest'[s] = IF s = r THEN what ELSE chipRequest[s]
  BY <1>1 DEF ChipsInv
<1>3. chipRequest' = [s \in Pair |-> chipRequest'[s]]
  BY <1>1 DEF ChipsInv
<1> QED
  BY <1>2, <1>3 DEF ChipsInv

LEMMA AnswerKeeps ==
    ASSUME ChipsInv, NEW r \in Pair, Chips!Do(r, Chips!Idle), Placed(position)'
    PROVE  ChipsInv'
<1>1. ChipHeld(Chips!Idle)
  BY DEF ChipHeld, Chips!Idle
<1> QED
  BY <1>1, DoKeeps DEF ChipsInv, ChipHeld, Placed

LEMMA ChipsStarts == Chips!Init => ChipsInv
<1> SUFFICES ASSUME Chips!Init PROVE ChipsInv
  OBVIOUS
<1>1. Placed(position)
  <2>1. position = <<>> /\ DOMAIN position = {}
    BY DEF Chips!Init
  <2> QED
    BY <2>1, FS_EmptySet DEF Placed
<1>2. chipRequest = [r \in Pair |-> Chips!Idle]
  BY DEF Chips!Init
<1>3. \A r \in Pair : ChipHeld(chipRequest[r])
  BY <1>2 DEF ChipHeld, Chips!Idle
<1> QED
  BY <1>1, <1>2, <1>3 DEF ChipsInv

LEMMA ChipsStep ==
    ASSUME ChipsInv, [Chips!Next]_(Chips!vars)
    PROVE  ChipsInv'
<1> USE DEF ChipsInv
<1>1. CASE UNCHANGED Chips!vars
  BY <1>1 DEF Chips!vars, Placed, ChipHeld
<1>2. ASSUME NEW r \in Pair, Chips!StartCreate(r) PROVE ChipsInv'
  <2>1. PICK p \in 0..MaxPosition \union {Chips!NextPlace} : Chips!Do(r, [op |-> "create", at |-> p])
    BY <1>2 DEF Chips!StartCreate
  <2>2. p \in Nat
    BY NextPlaceIsNat
  <2>3. ChipHeld([op |-> "create", at |-> p])
    BY <2>2 DEF ChipHeld
  <2>4. position' = position
    BY <1>2 DEF Chips!StartCreate
  <2> QED
    BY <2>1, <2>3, <2>4, DoKeeps DEF ChipHeld, Placed
<1>3. ASSUME NEW r \in Pair, Chips!Create(r) PROVE ChipsInv'
  <2>1. ChipHeld(chipRequest[r]) /\ chipRequest[r].op = "create"
    BY <1>3 DEF Chips!Create
  <2>2. CASE Chips!IsFree(chipRequest[r].at)
    <3>1. PICK c : position' = Chips!With(c, chipRequest[r].at)
      BY <1>3, <2>2 DEF Chips!Create
    <3>2. Chips!Do(r, Chips!Idle)
      BY <1>3, <2>2 DEF Chips!Create
    <3>3. chipRequest[r].at \in Nat /\ \A d \in DOMAIN position : position[d] # chipRequest[r].at
      BY <2>1, <2>2 DEF ChipHeld, Chips!IsFree, Chips!Range
    <3>4. Placed(position')
      BY <3>1, <3>3, WithPlaced
    <3> QED
      BY <3>2, <3>4, AnswerKeeps DEF Placed
  <2>3. CASE Chips!Answer(r)
    BY <2>3, AnswerKeeps DEF Chips!Answer, Placed
  <2> QED
    BY <1>3, <2>2, <2>3 DEF Chips!Create
<1>4. ASSUME NEW r \in Pair, Chips!StartPatch(r) PROVE ChipsInv'
  <2>1. PICK c \in DOMAIN position, p \in 0..MaxPosition :
          Chips!Do(r, [op |-> "save", chip |-> c, read |-> position[c], to |-> p])
    BY <1>4 DEF Chips!StartPatch
  <2>2. position[c] \in Nat /\ p \in Nat
    BY DEF Placed
  <2>3. ChipHeld([op |-> "save", chip |-> c, read |-> position[c], to |-> p])
    BY <2>2 DEF ChipHeld
  <2>4. position' = position
    BY <1>4 DEF Chips!StartPatch
  <2> QED
    BY <2>1, <2>3, <2>4, DoKeeps, ZenonT(40) DEF ChipHeld, Placed
<1>5. ASSUME NEW r \in Pair, Chips!Save(r) PROVE ChipsInv'
  <2> DEFINE q == chipRequest[r]
             next == IF q.to = q.read THEN Chips!Idle
                     ELSE [op |-> "lock", moves |-> <<q.chip>>, to |-> q.to]
  <2>1. ChipHeld(q) /\ q.op = "save"
    BY <1>5 DEF Chips!Save
  <2>2. CASE Chips!Answer(r)
    BY <2>2, AnswerKeeps DEF Chips!Answer, Placed
  <2>3. CASE /\ q.read \notin Chips!Range(Chips!Without(q.chip))
             /\ position' = Chips!With(q.chip, q.read)
             /\ Chips!Do(r, next)
    <3>1. q.read \in Nat /\ q.to \in Nat
      BY <2>1 DEF ChipHeld
    <3>2. \A d \in DOMAIN position \ {q.chip} : position[d] # q.read
      BY <2>3 DEF Chips!Range, Chips!Without
    <3>3. Placed(position')
      BY <2>3, <3>1, <3>2, WithPlaced
    <3>4. ChipHeld(next)
      BY <3>1 DEF ChipHeld, Chips!Idle
    <3>5. Chips!Do(r, next)
      BY <2>3
    <3> HIDE DEF q, next
    <3> QED
      BY <3>3, <3>4, <3>5, DoKeeps DEF Placed, ChipHeld
  <2> QED
    BY <1>5, <2>2, <2>3 DEF Chips!Save
<1>6. ASSUME NEW r \in Pair, Chips!Delete(r) PROVE ChipsInv'
  <2>1. PICK c : position' = Chips!Without(c)
    BY <1>6 DEF Chips!Delete
  <2>2. Placed(position')
    BY <2>1, WithoutPlaced
  <2>3. ChipHeld([op |-> "lock", moves |-> <<>>, to |-> 0])
    BY DEF ChipHeld
  <2>4. Chips!Do(r, [op |-> "lock", moves |-> <<>>, to |-> 0])
    BY <1>6 DEF Chips!Delete
  <2> QED
    BY <2>2, <2>3, <2>4, DoKeeps DEF Placed, ChipHeld
<1>7. ASSUME NEW r \in Pair, Chips!Lock(r) PROVE ChipsInv'
  <2> DEFINE next == [op |-> "rewrite", moves |-> chipRequest[r].moves,
                      to |-> chipRequest[r].to, seen |-> position]
  <2>1. ChipHeld(chipRequest[r]) /\ chipRequest[r].op = "lock" /\ Placed(position)
    BY <1>7 DEF Chips!Lock
  <2>2. ChipHeld(next)
    <3>1. /\ next.op = "rewrite" /\ next.to = chipRequest[r].to
          /\ next.moves = chipRequest[r].moves /\ next.seen = position
      OBVIOUS
    <3> HIDE DEF next
    <3> QED
      BY <2>1, <3>1 DEF ChipHeld
  <2>3. Chips!Do(r, next) /\ position' = position
    BY <1>7 DEF Chips!Lock
  <2> HIDE DEF next
  <2> QED
    BY <2>2, <2>3, DoKeeps DEF Placed, ChipHeld
<1>8. ASSUME NEW r \in Pair, Chips!Rewrite(r) PROVE ChipsInv'
  <2> DEFINE rows == Chips!Renumbered(chipRequest[r])
  <2>1. ChipHeld(chipRequest[r]) /\ chipRequest[r].op = "rewrite"
    BY <1>8 DEF Chips!Rewrite
  <2>2. PICK X : rows \in Seq(X)
    BY <2>1, SomeRows DEF ChipHeld
  <2>3. Written(position', rows) /\ Chips!Do(r, Chips!Idle)
    BY <1>8 DEF Chips!Rewrite, Written
  <2> HIDE DEF rows
  <2>4. Placed(position')
    BY <2>2, <2>3, Rewritten
  <2> QED
    BY <2>3, <2>4, AnswerKeeps DEF Placed
<1>9. ASSUME NEW r \in Pair, Chips!RollBack(r) PROVE ChipsInv'
  BY <1>9, AnswerKeeps DEF Chips!RollBack, Chips!Answer, Placed
<1> QED
  BY <1>1, <1>2, <1>3, <1>4, <1>5, <1>6, <1>7, <1>8, <1>9 DEF Chips!Next

\* All the rows, each once, those not moved in the order of their places.
LaidOut(rows, m, moved) ==
    /\ m \in Nat /\ rows \in [1..m -> DOMAIN position]
    /\ \A c \in DOMAIN position : \E i \in 1..m : rows[i] = c
    /\ \A i, j \in 1..m : rows[i] = rows[j] => i = j
    /\ \A i, j \in 1..m : i < j /\ rows[i] \notin moved /\ rows[j] \notin moved
          => position[rows[i]] < position[rows[j]]

KeepsOrder(next, moved) ==
    \A c, d \in DOMAIN position \ moved : position[c] < position[d] => next[c] < next[d]

\* Rows laid out in order, each at its index: what the promise asks of a rewrite.
LEMMA RowsInOrderLand ==
    ASSUME Placed(position), NEW m, NEW rows, NEW moved, LaidOut(rows, m, moved), Len(rows) = m,
           NEW next, DOMAIN next = DOMAIN position, Follows(next, rows)
    PROVE  /\ Chips!Range(next) = 0..(m - 1)
           /\ \A i \in 1..m : next[rows[i]] = i - 1
           /\ KeepsOrder(next, moved)
<1>1. /\ m \in Nat /\ rows \in [1..m -> DOMAIN position]
      /\ \A i, j \in 1..m : rows[i] = rows[j] => i = j
      /\ \A i, j \in 1..m : i < j /\ rows[i] \notin moved /\ rows[j] \notin moved
            => position[rows[i]] < position[rows[j]]
      /\ \A c \in DOMAIN position : next[c] \in 0..(m - 1) /\ rows[next[c] + 1] = c
  <2>1. \A c \in DOMAIN position : c \in Chips!Range(rows)
    BY DEF LaidOut, Chips!Range
  <2> QED
    BY <2>1 DEF LaidOut, Follows
<1>2. ASSUME NEW i \in 1..m PROVE next[rows[i]] = i - 1
  <2>1. rows[i] \in DOMAIN position /\ next[rows[i]] \in 0..(m - 1)
        /\ rows[next[rows[i]] + 1] = rows[i]
    BY <1>1
  <2>2. next[rows[i]] + 1 \in 1..m
    BY <1>1, <2>1
  <2>3. next[rows[i]] + 1 = i
    BY <1>1, <2>1, <2>2
  <2> QED
    BY <2>1, <2>3
<1>3. Chips!Range(next) \subseteq 0..(m - 1)
  BY <1>1 DEF Chips!Range
<1>4. ASSUME NEW p \in 0..(m - 1) PROVE p \in Chips!Range(next)
  <2>1. p + 1 \in 1..m /\ (p + 1) - 1 = p
    BY <1>1
  <2>2. rows[p + 1] \in DOMAIN next /\ next[rows[p + 1]] = p
    BY <1>1, <1>2, <2>1
  <2> QED
    BY <2>2 DEF Chips!Range
<1>5. ASSUME NEW c \in DOMAIN position \ moved, NEW d \in DOMAIN position \ moved,
             position[c] < position[d]
      PROVE  next[c] < next[d]
  <2>1. /\ next[c] \in 0..(m - 1) /\ next[d] \in 0..(m - 1)
        /\ rows[next[c] + 1] = c /\ rows[next[d] + 1] = d
    BY <1>1
  <2>2. next[c] + 1 \in 1..m /\ next[d] + 1 \in 1..m
    BY <1>1, <2>1
  <2>3. position[c] \in Nat /\ position[d] \in Nat
    BY DEF Placed
  <2>4. ~(next[d] + 1 < next[c] + 1)
    BY <1>1, <1>5, <2>1, <2>2, <2>3
  <2>5. next[c] # next[d]
    BY <1>5, <2>1, <2>3
  <2> QED
    BY <2>1, <2>4, <2>5
<1> QED
  BY <1>2, <1>3, <1>4, <1>5 DEF KeepsOrder

LEMMA RewriteLands ==
    ASSUME ChipsInv, NEW r \in Pair, Chips!Rewrite(r), chipRequest[r].seen = position,
           NEW moved, moved = Chips!Range(chipRequest[r].moves),
           NEW last, last = Chips!Cardinality(DOMAIN position) - 1
    PROVE  /\ Chips!Range(position') = 0..last
           /\ \A c \in moved : position'[c] = Chips!Min({chipRequest[r].to, last})
           /\ KeepsOrder(position', moved)
<1> DEFINE D == DOMAIN position
           T == Chips!Locked(chipRequest[r].seen) \ Chips!Range(chipRequest[r].moves)
<1>1. PICK q : q = chipRequest[r]
  OBVIOUS
<1>2. PICK e : e = Chips!Sorted(T, q.seen)
  OBVIOUS
<1>3. PICK rows : rows = Chips!PutIn(e, q)
  OBVIOUS
<1>4. Written(position', rows) /\ DOMAIN position' = DOMAIN position /\ moved \subseteq D
  <2>1. rows = Chips!Renumbered(chipRequest[r])
    BY <1>1, <1>2, <1>3 DEF Chips!Renumbered
  <2>2. Written(position', Chips!Renumbered(chipRequest[r])) /\ moved \subseteq D
    BY DEF Chips!Rewrite, Written
  <2>3. DOMAIN position' = DOMAIN position
    BY <2>2 DEF Written
  <2> QED
    BY <2>1, <2>2, <2>3
<1>6. /\ Placed(position) /\ q.to \in Nat /\ q.seen = position
      /\ q.moves = <<>> \/ \E c : q.moves = <<c>>
  BY <1>1 DEF ChipsInv, ChipHeld, Chips!Rewrite
<1>7. T = D \ moved
  BY DEF Chips!Locked
<1>8. last \in Int /\ last + 1 = Cardinality(D) /\ Cardinality(D) \in Nat /\ IsFiniteSet(D)
  <2>1. Chips!Cardinality(D) = Cardinality(D)
    BY DEF Chips!Cardinality, Cardinality
  <2>2. IsFiniteSet(D) /\ Cardinality(D) \in Nat
    BY <1>6, FS_CardinalityType DEF Placed
  <2> QED
    BY <2>1, <2>2
<1> HIDE DEF D, T
<1>9. Enumerates(e, T) /\ Ascends(e, position)
  BY <1>2, <1>6, <1>7, SortedRanks DEF D
<1>10. \A i, j \in 1..Cardinality(T) : e[i] = e[j] => i = j
  BY <1>6, <1>7, <1>9, RankingsDiffer DEF D
<1>11. /\ e \in [1..Cardinality(T) -> T] /\ Cardinality(T) \in Nat
       /\ \A t \in T : \E i \in 1..Cardinality(T) : e[i] = t
       /\ \A i, j \in 1..Cardinality(T) : i < j => position[e[i]] < position[e[j]]
  BY <1>9 DEF Enumerates, Ascends
<1>12. CASE q.moves = <<>>
  <2>1. moved = {}
    BY <1>1, <1>12 DEF Chips!Range
  <2>2. T = D
    BY <1>7, <2>1
  <2>3. rows = e /\ rows \in Seq(T) /\ Len(rows) = Cardinality(T)
    BY <1>3, <1>6, <1>9, <1>12, PutInNone
  <2>4. Follows(position', rows)
    BY <1>4, <1>6, <2>3, Rewritten
  <2>5. Len(rows) = last + 1 /\ last = Len(rows) - 1
    BY <1>8, <2>2, <2>3
  <2>6. LaidOut(rows, Len(rows), moved)
    BY <1>10, <1>11, <2>2, <2>3 DEF D, LaidOut
  <2>7. Chips!Range(position') = 0..(Len(rows) - 1) /\ KeepsOrder(position', moved)
    BY <1>4, <1>6, <2>4, <2>6, RowsInOrderLand
  <2> QED
    BY <2>1, <2>5, <2>7
<1>13. ASSUME NEW c, q.moves = <<c>>
       PROVE  /\ Chips!Range(position') = 0..last
              /\ \A x \in moved : position'[x] = Chips!Min({q.to, last})
              /\ KeepsOrder(position', moved)
  <2>1. moved = {c}
    BY <1>1, <1>13 DEF Chips!Range
  <2>2. c \in D /\ c \notin T /\ T = D \ {c} /\ D = T \union {c}
    BY <1>4, <1>7, <2>1
  <2>3. Cardinality(T) = last /\ last \in Nat /\ Cardinality(D) = last + 1
    <3>1. Cardinality(T) = Cardinality(D) - 1
      BY <1>8, <2>2, FS_RemoveElement
    <3> QED
      BY <1>8, <1>11, <3>1
  <2>4. PICK at : at = IF q.to <= Cardinality(T) THEN q.to ELSE Cardinality(T)
    OBVIOUS
  <2>5. /\ rows \in Seq(T \union {c}) /\ Len(rows) = Cardinality(T) + 1
        /\ at \in 0..Cardinality(T) /\ HasPutIn(rows, e, Cardinality(T), c, at)
    <3>1. Enumerates(e, T) /\ q.moves = <<c>> /\ q.to \in Nat
      BY <1>6, <1>9, <1>13
    <3> QED
      BY <1>3, <2>4, <3>1, PutInOne
  <2>6. /\ rows \in Seq(D) /\ Len(rows) = last + 1 /\ at \in 0..last
        /\ rows[at + 1] = c /\ at + 1 \in 1..(last + 1)
        /\ \A i \in 1..last : i <= at => rows[i] = e[i]
        /\ \A i \in 1..last : i > at => rows[i + 1] = e[i]
    <3>1. rows \in Seq(D) /\ Len(rows) = last + 1 /\ at \in 0..last /\ at + 1 \in 1..(last + 1)
      BY <2>2, <2>3, <2>5
    <3>2. rows[at + 1] = c
      BY <2>3, <2>5, <3>1 DEF HasPutIn
    <3>3. ASSUME NEW i \in 1..last, i <= at PROVE rows[i] = e[i]
      BY <2>3, <2>5, <3>1, <3>3 DEF HasPutIn
    <3>4. ASSUME NEW i \in 1..last, i > at PROVE rows[i + 1] = e[i]
      <4>1. i + 1 \in 1..(last + 1) /\ ~(i + 1 <= at) /\ i + 1 # at + 1 /\ (i + 1) - 1 = i
        BY <2>3, <3>1, <3>4
      <4> QED
        BY <2>3, <2>5, <4>1 DEF HasPutIn
    <3> QED
      BY <3>1, <3>2, <3>3, <3>4
  <2>7. ASSUME NEW i \in 1..(last + 1), rows[i] # c
        PROVE  \E k \in 1..last : rows[i] = e[k] /\ (IF i <= at THEN k = i ELSE k = i - 1 /\ i > at + 1)
    <3>1. CASE i <= at
      <4>1. i \in 1..last
        BY <2>3, <2>6, <3>1
      <4> QED
        BY <2>6, <3>1, <4>1
    <3>2. CASE i > at
      <4>1. i > at + 1
        BY <2>3, <2>6, <2>7, <3>2
      <4>2. i - 1 \in 1..last /\ i - 1 > at /\ (i - 1) + 1 = i
        BY <2>3, <2>6, <4>1
      <4>3. rows[i] = e[i - 1] /\ ~(i <= at)
        BY <2>3, <2>6, <3>2, <4>2
      <4> QED
        BY <4>1, <4>2, <4>3
    <3> QED
      BY <2>3, <2>6, <3>1, <3>2
  <2>8. ASSUME NEW i \in 1..last PROVE e[i] # c /\ e[i] \in T
    BY <1>11, <2>2, <2>3
  <2>9. ASSUME NEW i \in 1..(last + 1), rows[i] = c PROVE i = at + 1
    <3>1. CASE i <= at
      <4>1. i \in 1..last /\ rows[i] = e[i]
        BY <2>3, <2>6, <3>1
      <4> QED
        BY <2>8, <2>9, <4>1
    <3>2. CASE i > at + 1
      <4>1. i - 1 \in 1..last /\ i - 1 > at /\ (i - 1) + 1 = i
        BY <2>3, <2>6, <3>2
      <4>2. rows[i] = e[i - 1]
        BY <2>6, <4>1
      <4> QED
        BY <2>8, <2>9, <4>1, <4>2
    <3> QED
      BY <2>3, <2>6, <3>1, <3>2
  <2>10. \A i, j \in 1..(last + 1) : rows[i] = rows[j] => i = j
    <3> SUFFICES ASSUME NEW i \in 1..(last + 1), NEW j \in 1..(last + 1), rows[i] = rows[j]
                 PROVE  i = j
      OBVIOUS
    <3>1. CASE rows[i] = c
      BY <2>9, <3>1
    <3>2. CASE rows[i] # c
      <4>1. PICK k \in 1..last : rows[i] = e[k] /\ (IF i <= at THEN k = i ELSE k = i - 1 /\ i > at + 1)
        BY <2>7, <3>2
      <4>2. PICK l \in 1..last : rows[j] = e[l] /\ (IF j <= at THEN l = j ELSE l = j - 1 /\ j > at + 1)
        BY <2>7, <3>2
      <4>3. k = l
        BY <1>10, <2>3, <4>1, <4>2
      <4> QED
        BY <2>3, <2>6, <4>1, <4>2, <4>3
    <3> QED
      BY <3>1, <3>2
  <2>11. \A i, j \in 1..(last + 1) : i < j /\ rows[i] \notin moved /\ rows[j] \notin moved
            => position[rows[i]] < position[rows[j]]
    <3> SUFFICES ASSUME NEW i \in 1..(last + 1), NEW j \in 1..(last + 1), i < j,
                        rows[i] # c, rows[j] # c
                 PROVE  position[rows[i]] < position[rows[j]]
      BY <2>1
    <3>1. PICK k \in 1..last : rows[i] = e[k] /\ (IF i <= at THEN k = i ELSE k = i - 1 /\ i > at + 1)
      BY <2>7
    <3>2. PICK l \in 1..last : rows[j] = e[l] /\ (IF j <= at THEN l = j ELSE l = j - 1 /\ j > at + 1)
      BY <2>7
    <3>3. k < l
      BY <2>3, <2>6, <3>1, <3>2
    <3> QED
      BY <1>11, <2>3, <3>1, <3>2, <3>3
  <2>12. \A x \in D : \E i \in 1..(last + 1) : rows[i] = x
    <3> SUFFICES ASSUME NEW x \in D PROVE \E i \in 1..(last + 1) : rows[i] = x
      OBVIOUS
    <3>1. CASE x = c
      BY <2>6, <3>1
    <3>2. CASE x # c
      <4>1. PICK k \in 1..last : e[k] = x
        BY <1>11, <2>2, <2>3, <3>2
      <4>2. k \in 1..(last + 1) /\ k + 1 \in 1..(last + 1)
        BY <2>3
      <4> QED
        BY <2>3, <2>6, <4>1, <4>2
    <3> QED
      BY <3>1, <3>2
  <2>13. DOMAIN rows = 1..(last + 1) /\ rows \in [1..(last + 1) -> D]
    BY <2>6
  <2>14. Follows(position', rows)
    BY <1>4, <1>6, <2>6, Rewritten
  <2>15. LaidOut(rows, last + 1, moved)
    <3>1. last + 1 \in Nat
      BY <2>3
    <3> QED
      BY <2>10, <2>11, <2>12, <2>13, <3>1 DEF D, LaidOut
  <2>16. /\ Chips!Range(position') = 0..((last + 1) - 1)
         /\ \A i \in 1..(last + 1) : position'[rows[i]] = i - 1
         /\ KeepsOrder(position', moved)
    BY <1>4, <1>6, <2>6, <2>14, <2>15, RowsInOrderLand
  <2>17. position'[c] = at /\ (last + 1) - 1 = last
    <3>1. position'[rows[at + 1]] = (at + 1) - 1
      BY <2>6, <2>16
    <3> QED
      BY <2>3, <2>6, <3>1
  <2>18. at = Chips!Min({q.to, last})
    BY <1>6, <2>3, <2>4, LesserOfTwo
  <2> QED
    BY <2>1, <2>16, <2>17, <2>18
<1> QED
  BY <1>1, <1>6, <1>12, <1>13

LEMMA RowsLandAtEachStep ==
    ASSUME ChipsInv, [Chips!Next]_(Chips!vars)
    PROVE  Chips!RowsLand
<1> SUFFICES ASSUME NEW r \in Pair, Chips!Rewrites(r), chipRequest[r].seen = position
             PROVE  LET moved == Chips!Range(chipRequest[r].moves)
                        last  == Chips!Cardinality(DOMAIN position) - 1
                    IN  /\ Chips!Range(position') = 0..last
                        /\ \A c \in moved : position'[c] = Chips!Min({chipRequest[r].to, last})
                        /\ \A c, d \in DOMAIN position \ moved :
                             position[c] < position[d] => position'[c] < position'[d]
  BY DEF Chips!RowsLand
<1>1. chipRequest[r].op = "rewrite" /\ chipRequest'[r] = Chips!Idle /\ position' # position
      /\ Chips!Idle.op = "idle"
  BY DEF Chips!Rewrites, Chips!Idle
<1>2. PICK s \in Pair :
        \/ Chips!StartCreate(s) \/ Chips!Create(s) \/ Chips!StartPatch(s) \/ Chips!Save(s)
        \/ Chips!Delete(s) \/ Chips!Lock(s) \/ Chips!Rewrite(s) \/ Chips!RollBack(s)
  BY <1>1 DEF Chips!Next, Chips!vars
<1>3. ASSUME NEW what, Chips!Do(s, what) PROVE s = r
  <2>1. chipRequest' = [chipRequest EXCEPT ![s] = what]
    BY <1>3 DEF Chips!Do
  <2>2. CASE s # r
    <3>1. chipRequest'[r] = chipRequest[r]
      BY <2>1, <2>2 DEF ChipsInv
    <3> QED
      BY <1>1, <3>1
  <2> QED
    BY <2>2
<1>4. s = r
  <2>1. \E what : Chips!Do(s, what)
    BY <1>2 DEF Chips!StartCreate, Chips!Create, Chips!StartPatch, Chips!Save, Chips!Delete,
       Chips!Lock, Chips!Rewrite, Chips!RollBack, Chips!Answer
  <2> QED
    BY <1>3, <2>1
<1>5. Chips!Rewrite(r)
  BY <1>1, <1>2, <1>4 DEF Chips!StartCreate, Chips!Create, Chips!StartPatch, Chips!Save,
     Chips!Delete, Chips!Lock, Chips!RollBack, Chips!Answer, Chips!Idle
<1> QED
  BY <1>5, RewriteLands DEF KeepsOrder

\* QRActionDetailView: a move or a delete that no other request disturbs leaves the chips
\* on the places from 0 without a gap, the moved one where it was asked to be.
THEOREM MoveLandsHolds == Chips!Spec => MoveLands
<1>1. ChipsInv /\ [Chips!Next]_(Chips!vars) => Chips!RowsLand
  BY RowsLandAtEachStep
<1>2. ChipsInv /\ [Chips!Next]_(Chips!vars) => ChipsInv'
  BY ChipsStep
<1> QED
  BY <1>1, <1>2, ChipsStarts, PTL DEF Chips!Spec, MoveLands, Chips!MoveLands

---------------------------------------------------------------------------
(* What is proved of a part by itself holds while the parts take turns.    *)

LEMMA PartsInitEach ==
    PartsInit => /\ Init /\ Stripe!Init /\ Policy!Init /\ Retain!Init /\ Browser!Init
                 /\ Keys!Init /\ Chips!Init
BY DEF PartsInit

LEMMA PartsStepEach ==
    ASSUME [PartsNext]_allVars
    PROVE  /\ [Next]_vars /\ [Stripe!Next]_(Stripe!vars)
           /\ [Policy!Next]_(Policy!vars) /\ [Retain!Next]_(Retain!vars)
           /\ [Browser!Next]_(Browser!vars) /\ [Keys!Next]_(Keys!vars)
           /\ [Chips!Next]_(Chips!vars)
<1>1. CASE UNCHANGED allVars
  BY <1>1 DEF allVars, vars, Stripe!vars, Policy!vars, Retain!vars, Browser!vars,
     Keys!vars, Chips!vars
<1>2. CASE PartsNext
  <2>1. CASE part = "campaign" /\ Next /\ Others
    BY <2>1 DEF Others, vars, Stripe!vars, Policy!vars, Retain!vars, Browser!vars,
       Keys!vars, Chips!vars
  <2>2. CASE part = "stripe" /\ Stripe!Next /\ Others
    BY <2>2 DEF Others, vars, Stripe!vars, Policy!vars, Retain!vars, Browser!vars,
       Keys!vars, Chips!vars
  <2>3. CASE part = "policy" /\ Policy!Next /\ Others
    BY <2>3 DEF Others, vars, Stripe!vars, Policy!vars, Retain!vars, Browser!vars,
       Keys!vars, Chips!vars
  <2>4. CASE part = "browser" /\ Browser!Next /\ Others
    BY <2>4 DEF Others, vars, Stripe!vars, Policy!vars, Retain!vars, Browser!vars,
       Keys!vars, Chips!vars
  <2>5. CASE part = "retention" /\ Retain!Next /\ Others
    BY <2>5 DEF Others, vars, Stripe!vars, Policy!vars, Retain!vars, Browser!vars,
       Keys!vars, Chips!vars
  <2>6. CASE part = "keys" /\ Keys!Next /\ Others
    BY <2>6 DEF Others, vars, Stripe!vars, Policy!vars, Retain!vars, Browser!vars,
       Keys!vars, Chips!vars
  <2>7. CASE part = "chips" /\ Chips!Next /\ Others
    BY <2>7 DEF Others, vars, Stripe!vars, Policy!vars, Retain!vars, Browser!vars,
       Keys!vars, Chips!vars
  <2> QED
    BY <1>2, <2>1, <2>2, <2>3, <2>4, <2>5, <2>6, <2>7 DEF PartsNext
<1> QED
  BY <1>1, <1>2

\* Whichever part of the back office moves, its own promises are kept.
THEOREM PartsKeepPromises ==
  PartsSpec => /\ []SentOnce /\ []OptOutSkipped /\ []FlagIsOfTheAccount
               /\ []DepositsAreCovered /\ ConcernGrows /\ ServedAtHome
               /\ DoorStaysOpen /\ MoveLands
<1>1. PartsSpec => Spec /\ Stripe!Spec /\ Policy!Spec /\ Retain!Spec /\ Browser!Spec
                  /\ Keys!Spec /\ Chips!Spec
  BY PartsInitEach, PartsStepEach, PTL
     DEF PartsSpec, Spec, Stripe!Spec, Policy!Spec, Retain!Spec, Browser!Spec, Keys!Spec,
         Chips!Spec
<1> QED
  BY <1>1, SentOnceHolds, OptOutSkippedHolds, FlagIsOfTheAccountHolds, DepositsAreCoveredHolds,
     ConcernGrowsHolds, ServedAtHomeHolds, DoorStaysOpenHolds, MoveLandsHolds, PTL
===============================================================================
