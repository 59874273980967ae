-------------------------------- MODULE Campaigns --------------------------------
(***************************************************************************)
(* One campaign: edited, launched, cancelled and deleted by the staff, and *)
(* sent by the requests that launch it.  A launch takes a snapshot of the  *)
(* segment under the lock of the campaign, with a row ("run") for each     *)
(* customer; the send itself holds no lock, and each run is handed over    *)
(* and then saved.  An edit tests and saves without a lock, and saves all  *)
(* the columns.                                                            *)
(***************************************************************************)
EXTENDS Naturals, FiniteSets

CONSTANTS
    Customers, NoCustomer, Requests,
    Tags, TagsInclude,   \* the customers' tags; those the segment asks for
    RecipientCap,
    Impl,                \* the implementation that sends: "outbound", or one a test forces
    MaxRetags,           \* bound: of the changes of tags
    MayDie               \* whether requests may die

ASSUME CampaignAssumption ==
    /\ NoCustomer \notin Customers
    /\ IsFiniteSet(Requests)
    /\ RecipientCap \in Nat /\ MaxRetags \in Nat
    /\ "sms_opt_out" \in Tags /\ TagsInclude \subseteq Tags
    /\ Impl \in {"outbound", "forced"}
    /\ MayDie \in BOOLEAN

CampaignStatus == {"draft", "scheduled", "sending", "sent", "cancelled", "deleted"}
CampaignRunStatus == {"none", "queued", "sent", "failed", "skipped_optout"}

Request == [pc : {"idle", "patch", "patchSave", "read", "send", "save", "done"},
            copy : CampaignStatus,
            todo : SUBSET Customers,             \* runs that it will send
            current : Customers \cup {NoCustomer},
            result : {"none", "sent", "failed"}, \* what it will save of the current one
            orphan : BOOLEAN]                    \* its runs were deleted

VARIABLES
    status,     \* of the Campaign row
    run,        \* the CampaignRun row of each customer
    tags,
    request,
    handed,     \* how often each customer's message was handed over
    reopened,   \* history: edits that wrote an older status back
    retags

vars == <<status, run, tags, request, handed, reopened, retags>>

Init ==
    /\ status \in {"draft", "scheduled"}
    /\ run = [c \in Customers |-> "none"]
    /\ tags \in [Customers -> {TagsInclude, {}}]
    /\ request = [r \in Requests |->
         [pc |-> "idle", copy |-> "draft", todo |-> {}, current |-> NoCustomer,
          result |-> "none", orphan |-> FALSE]]
    /\ handed = [c \in Customers |-> 0]
    /\ reopened = 0
    /\ retags = 0

Goto(r, pc) == request' = [request EXCEPT ![r] = [@ EXCEPT !.pc = pc]]

\* The staff, a visit or a text of the customer changes their tags.
Retag(c, new) ==
    /\ retags < MaxRetags
    /\ tags' = [tags EXCEPT ![c] = new]
    /\ retags' = retags + 1
    /\ UNCHANGED <<status, run, request, handed, reopened>>

---------------------------------------------------------------------------
(* PATCH: the status is tested on one read of the row, the columns are     *)
(* taken from a second one, and all are saved.                             *)

PatchTest(r) ==
    /\ request[r].pc = "idle"
    /\ status = "draft"
    /\ Goto(r, "patch")
    /\ UNCHANGED <<status, run, tags, handed, reopened, retags>>

PatchLoad(r) ==
    /\ request[r].pc = "patch"
    /\ status # "deleted"
    /\ request' = [request EXCEPT ![r] = [@ EXCEPT !.pc = "patchSave", !.copy = status]]
    /\ UNCHANGED <<status, run, tags, handed, reopened, retags>>

\* A row that was deleted meanwhile is inserted again.
PatchSave(r) ==
    /\ request[r].pc = "patchSave"
    /\ status' = request[r].copy
    /\ reopened' = IF status = request[r].copy THEN reopened ELSE reopened + 1
    /\ Goto(r, "done")
    /\ UNCHANGED <<run, tags, handed, retags>>

---------------------------------------------------------------------------
\* Fault: a campaign that was cancelled can be launched.
LaunchableUnlessSent == status \in {"draft", "scheduled", "cancelled", "sending"}

Launchable == status \in {"draft", "scheduled"}

Recipients == {c \in Customers : TagsInclude \subseteq tags[c]}

\* Phase 1 of send_campaign, one transaction: a recipient who has a run
\* already violates campaignrun_unique_campaign_customer.
Launch(r) ==
    /\ request[r].pc = "idle"
    /\ Launchable
    /\ Cardinality(Recipients) <= RecipientCap
    /\ \A c \in Recipients : run[c] = "none"
    /\ run' = [c \in Customers |->
         IF c \notin Recipients THEN run[c]
         ELSE IF "sms_opt_out" \in tags[c] THEN "skipped_optout" ELSE "queued"]
    /\ status' = "sending"
    /\ Goto(r, "read")
    /\ UNCHANGED <<tags, handed, reopened, retags>>

\* Fault: the loop does not ask for the status of the runs.
EveryRun == {c \in Customers : run[c] # "none"}

QueuedRuns == {c \in Customers : run[c] = "queued"}

\* Phase 2: the queued runs are read once.
ReadQueued(r) ==
    /\ request[r].pc = "read"
    /\ request' = [request EXCEPT ![r] = [@ EXCEPT !.pc = "send", !.todo = QueuedRuns]]
    /\ UNCHANGED <<status, run, tags, handed, reopened, retags>>

\* enqueue_message renders a template unless it is given a body; "campaign"
\* is not among the templates, and _real passes the body in the context.
TEMPLATES == {"booking_confirmation", "reminder_24h", "no_show_followup", "booking_thank_you"}
EnqueueResult(template, hasBody) == IF hasBody \/ template \in TEMPLATES THEN "ok" ELSE "raises"

\* A message that does not render raises as well.
SendResult == IF Impl = "outbound" THEN {EnqueueResult("campaign", FALSE)}
              ELSE {"ok", "refused", "raises"}

\* The message is handed over ...
SendOne(r, c) ==
    /\ request[r].pc = "send" /\ c \in request[r].todo
    /\ \E result \in SendResult \ {"raises"} :
         /\ handed' = [handed EXCEPT ![c] = IF result = "ok" THEN @ + 1 ELSE @]
         /\ request' = [request EXCEPT ![r] =
              [@ EXCEPT !.pc = "save", !.todo = request[r].todo \ {c}, !.current = c,
                        !.result = IF result = "ok" THEN "sent" ELSE "failed"]]
    /\ UNCHANGED <<status, run, tags, reopened, retags>>

\* ... and its run saved, if it is still there: a save of named columns fails
\* otherwise, and ends the request.
SaveRun(r) ==
    LET q == request[r] IN
    /\ q.pc = "save"
    /\ IF q.orphan
       THEN Goto(r, "done") /\ UNCHANGED run
       ELSE /\ run' = [run EXCEPT ![q.current] = q.result]
            /\ request' = [request EXCEPT ![r] =
                 [@ EXCEPT !.pc = "send", !.current = NoCustomer, !.result = "none"]]
    /\ UNCHANGED <<status, tags, handed, reopened, retags>>

Finish(r) ==
    /\ request[r].pc = "send" /\ request[r].todo = {}
    /\ status' = IF status = "deleted" THEN status ELSE "sent"
    /\ Goto(r, "done")
    /\ UNCHANGED <<run, tags, handed, reopened, retags>>

\* Nothing catches what the send raises.
Raise(r) ==
    /\ request[r].pc = "send" /\ request[r].todo # {}
    /\ "raises" \in SendResult
    /\ Goto(r, "done")
    /\ UNCHANGED <<status, run, tags, handed, reopened, retags>>

Cancel(r) ==
    /\ request[r].pc = "idle"
    /\ status \in {"draft", "scheduled"}
    /\ status' = "cancelled"
    /\ Goto(r, "done")
    /\ UNCHANGED <<run, tags, handed, reopened, retags>>

\* DELETE, whatever the status; the runs go with the campaign.
Delete(r) ==
    /\ request[r].pc = "idle"
    /\ status # "deleted"
    /\ status' = "deleted"
    /\ run' = [c \in Customers |-> "none"]
    /\ request' = [q \in Requests |->
         IF q = r THEN [request[q] EXCEPT !.pc = "done"]
         ELSE [request[q] EXCEPT !.orphan = @ \/ request[q].pc \in {"send", "save"}]]
    /\ UNCHANGED <<tags, handed, reopened, retags>>

Die(r) ==
    /\ MayDie
    /\ request[r].pc \notin {"idle", "done"}
    /\ Goto(r, "done")
    /\ UNCHANGED <<status, run, tags, handed, reopened, retags>>

Serve(r) ==
    \/ PatchTest(r) \/ PatchLoad(r) \/ PatchSave(r)
    \/ Launch(r) \/ ReadQueued(r) \/ \E c \in Customers : SendOne(r, c)
    \/ SaveRun(r) \/ Finish(r) \/ Raise(r)
    \/ Cancel(r) \/ Delete(r)

Next ==
    \/ \E c \in Customers, new \in SUBSET Tags : Retag(c, new)
    \/ \E r \in Requests : Serve(r) \/ Die(r)

Spec == Init /\ [][Next]_vars

---------------------------------------------------------------------------
\* Every variable keeps its type; a request that saves a run has one.
TypeOK ==
    /\ status \in CampaignStatus
    /\ run \in [Customers -> CampaignRunStatus]
    /\ tags \in [Customers -> SUBSET Tags]
    /\ request \in [Requests -> Request]
    /\ \A r \in Requests : request[r].pc = "save" => request[r].current # NoCustomer
    /\ handed \in [Customers -> Nat]
    /\ reopened \in Nat
    /\ retags \in 0..MaxRetags

\* However many launches race, a customer gets the message once; each edit
\* that wrote an older status back lets it be sent once more.
SentOnce == \A c \in Customers : handed[c] <= 1 + reopened

\* Nobody is handed a message whose run says that they had opted out.
OptOutSkipped ==
    reopened = 0 => \A c \in Customers : run[c] = "skipped_optout" => handed[c] = 0

\* What the code says of sending a campaign: the body is handed over as it
\* is.  No request dies, so a campaign that is being sent has a request at it.
SendingHasARequest ==
    status = "sending" => \E r \in Requests : request[r].pc \in {"read", "send", "save"}
================================================================================
