------------------------------ MODULE OutboundQueue ------------------------------
(***************************************************************************)
(* The queue of messages to one customer.  The signals of Booking put      *)
(* messages in when a booking is made, completed or missed, and cancel     *)
(* the queued ones when it is cancelled; several runs of send_outbound     *)
(* hand the due ones to the provider, put them off for quiet hours, or     *)
(* cancel them when the customer has opted out.                            *)
(*                                                                         *)
(* A signal runs after the save of the booking is committed, and looks for *)
(* the message it wants before it inserts it, without a lock; a worker     *)
(* holds the lock of one row from its look at it to its commit.            *)
(***************************************************************************)
EXTENDS QuietHours, FiniteSets, Sequences

CONSTANTS
    Bookings, Requests, Workers,
    MaxMessages,         \* bound: of the rows
    Channels,
    QuietStarts, QuietEnds,
    ReminderTimes,       \* the times 24 h before bookings start
    Edits,               \* the statuses that saves give a booking
    BatchSize,
    MaxSaves,            \* bound: of the saves of bookings
    LastSave, End,       \* bounds: of the time they begin, of the clock
    MaxCrashes           \* bound: of the workers that die

Messages == 1..MaxMessages
NoMessage == 0

BookingStatus == {"none", "confirmed", "cancelled", "completed", "no_show"}
Template == {"booking_confirmation", "reminder_24h", "no_show_followup", "booking_thank_you"}
Urgent == {"booking_confirmation"}
OutboundStatus == {"none", "queued", "sent", "failed", "cancelled"}

ASSUME QueueAssumption ==
    /\ Bookings # {} /\ Channels # {}
    /\ BatchSize \in Nat \ {0}
    /\ {MaxMessages, MaxSaves, LastSave, End, MaxCrashes} \subseteq Nat
    /\ ReminderTimes \subseteq 0..End
    /\ QuietStarts \cup QuietEnds \subseteq 0..DayLength-1
    /\ Edits \subseteq BookingStatus \ {"none"}

\* A message that enqueue_message is asked for.
Wanted == [template : Template, due : 0..End]

\* "at" is scheduled_for, "due" its first value.
Message == [status : OutboundStatus, booking : Bookings, template : Template,
            channel : Channels, due : 0..End, at : Nat]

Request == [pc : {"idle", "save", "signal", "insert", "cascade"},
            booking : Bookings, prior : BookingStatus, new : BookingStatus,
            wanted : Seq(Wanted)]

Worker == [pc : {"idle", "next", "taken", "calling"},
           batch : SUBSET Messages, locked : Messages \cup {NoMessage}]

VARIABLES
    now,
    booking,      \* the status of each booking
    request,      \* views and commands that save bookings
    saves,        \* how many have begun
    message,      \* the OutboundMessage rows
    quiet,        \* the window of the store
    configured,   \* channels that have credentials in the environment
    worker,
    tags,         \* of the customer
    tagger,       \* the webhook and the QR view: the tags each has read
    delivered,    \* the provider: how often it accepted each message
    crashes,
    optOut,       \* history: whether STOP was saved, and what became of it
    late,         \* history: messages taken for a hand-over though STOP stood
    twice         \* history: messages whose worker died after the hand-over

queueVars == <<message, worker, delivered, crashes, late, twice>>
bookingVars == <<booking, request, saves>>
tagVars == <<tags, tagger, optOut>>
vars == <<now, quiet, configured, queueVars, bookingVars, tagVars>>

AnyBooking == CHOOSE b \in Bookings : TRUE
At(pc) == [pc |-> pc, booking |-> AnyBooking, prior |-> "none", new |-> "none", wanted |-> <<>>]
AnyChannel == CHOOSE c \in Channels : TRUE

Init ==
    /\ now = 0
    /\ booking = [b \in Bookings |-> "none"]
    /\ request = [r \in Requests |-> At("idle")]
    /\ saves = 0
    /\ message = [m \in Messages |->
         [status |-> "none", booking |-> AnyBooking, template |-> "booking_confirmation",
          channel |-> AnyChannel, due |-> 0, at |-> 0]]
    /\ quiet \in [start : QuietStarts, end : QuietEnds]
    /\ configured = {}
    /\ worker = [w \in Workers |-> [pc |-> "idle", batch |-> {}, locked |-> NoMessage]]
    /\ tags = {}
    /\ tagger = [stop |-> [pc |-> "idle", copy |-> {}], click |-> [pc |-> "idle", copy |-> {}]]
    /\ delivered = [m \in Messages |-> 0]
    /\ crashes = 0
    /\ optOut = "none"
    /\ late = {}
    /\ twice = {}

\* A bound: saves begin while the clock is early, and the clock waits for them.
MaySave(r) ==
    /\ request[r].pc = "idle"
    /\ now <= LastSave /\ saves < MaxSaves
    /\ saves' = saves + 1

Saving == \E r \in Requests : request[r].pc # "idle"

Tick ==
    /\ now < End
    /\ now < LastSave \/ ~Saving
    /\ now' = now + 1
    /\ UNCHANGED <<quiet, configured, queueVars, bookingVars, tagVars>>

\* The operator wires the credentials of a channel.
Configure(c) ==
    /\ configured' = configured \cup {c}
    /\ UNCHANGED <<now, quiet, queueVars, bookingVars, tagVars>>

---------------------------------------------------------------------------
(* Saves of bookings, and the signal that follows each.                    *)

Want(template, due) == <<[template |-> template, due |-> due]>>

\* A new booking: its confirmation, and a reminder that is not yet past.
Book(r, b, reminderAt) ==
    /\ MaySave(r)
    /\ booking[b] = "none"
    /\ booking' = [booking EXCEPT ![b] = "confirmed"]
    /\ request' = [request EXCEPT ![r] =
         [@ EXCEPT !.pc = "signal", !.booking = b,
                   !.wanted = Want("booking_confirmation", now) \o
                       IF reminderAt > now THEN Want("reminder_24h", reminderAt) ELSE <<>>]]
    /\ UNCHANGED <<now, quiet, configured, queueVars, tagVars>>

\* pre_save reads the status that the save will replace ...
ReadPrior(r, b, new) ==
    /\ MaySave(r)
    /\ booking[b] # "none"
    /\ request' = [request EXCEPT ![r] =
         [@ EXCEPT !.pc = "save", !.booking = b, !.prior = booking[b], !.new = new]]
    /\ UNCHANGED <<now, quiet, configured, booking, queueVars, tagVars>>

Followup(q) ==
    IF q.prior = q.new THEN <<>>
    ELSE CASE q.new = "no_show"    -> Want("no_show_followup", now)
           [] q.new = "completed"  -> Want("booking_thank_you", now)
           [] OTHER                -> <<>>

\* ... and post_save compares it with the one saved.
Save(r) ==
    LET q == request[r] IN
    /\ q.pc = "save"
    /\ booking' = [booking EXCEPT ![q.booking] = q.new]
    /\ request' = [request EXCEPT ![r] =
         [@ EXCEPT !.pc = IF q.new = "cancelled" /\ q.prior # "cancelled"
                          THEN "cascade" ELSE "signal",
                   !.prior = "none", !.new = "none", !.wanted = Followup(q)]]
    /\ UNCHANGED <<now, quiet, configured, saves, queueVars, tagVars>>

Existing(b, template) == {m \in Messages :
    /\ message[m].status \in {"queued", "sent"}
    /\ message[m].booking = b /\ message[m].template = template}

\* enqueue_message: an existing message is returned as it is.
Enqueue(r) ==
    LET q == request[r] IN
    /\ q.pc = "signal"
    /\ request' = [request EXCEPT ![r] =
         IF q.wanted = <<>> THEN At("idle")
         ELSE IF Existing(q.booking, Head(q.wanted).template) # {}
         THEN [q EXCEPT !.wanted = Tail(@)]
         ELSE [q EXCEPT !.pc = "insert"]]
    /\ UNCHANGED <<now, quiet, configured, booking, saves, queueVars, tagVars>>

\* pick_channel_for: that of the customer's last conversation.
Insert(r, m, channel) ==
    LET q == request[r] IN
    /\ q.pc = "insert"
    /\ message[m].status = "none" /\ \A n \in 1..m-1 : message[n].status # "none"
    /\ message' = [message EXCEPT ![m] =
         [status |-> "queued", booking |-> q.booking, template |-> Head(q.wanted).template,
          channel |-> channel, due |-> Head(q.wanted).due, at |-> Head(q.wanted).due]]
    /\ request' = [request EXCEPT ![r] = [q EXCEPT !.pc = "signal", !.wanted = Tail(@)]]
    /\ UNCHANGED <<now, quiet, configured, booking, saves, worker, delivered, crashes, late, twice,
                   tagVars>>

Locked(m) == \E w \in Workers : worker[w].locked = m

\* One UPDATE of the queued rows, which waits for rows that are locked.
Cascade(r) ==
    LET mine == {m \in Messages : message[m].status = "queued" /\
                                  message[m].booking = request[r].booking} IN
    /\ request[r].pc = "cascade"
    /\ \A m \in mine : ~Locked(m)
    /\ message' = [m \in Messages |->
         IF m \in mine THEN [message[m] EXCEPT !.status = "cancelled"] ELSE message[m]]
    /\ request' = [request EXCEPT ![r] = At("idle")]
    /\ UNCHANGED <<now, quiet, configured, booking, saves, worker, delivered, crashes, late, twice,
                   tagVars>>

RequestDies(r) ==
    /\ request[r].pc # "idle"
    /\ request' = [request EXCEPT ![r] = At("idle")]
    /\ UNCHANGED <<now, quiet, configured, booking, saves, queueVars, tagVars>>

Serve(r) == Save(r) \/ Enqueue(r) \/ Cascade(r)
              \/ \E m \in Messages, c \in Channels : Insert(r, m, c)

RequestNext(r) ==
    \/ \E b \in Bookings :
         \/ \E t \in ReminderTimes : Book(r, b, t)
         \/ \E new \in Edits : ReadPrior(r, b, new)
    \/ Serve(r) \/ RequestDies(r)

---------------------------------------------------------------------------
(* send_outbound.                                                          *)

\* Fault: the time is compared for equality, and a message can be missed.
DueNow == {m \in Messages : message[m].status = "queued" /\ message[m].at = now}

Due == {m \in Messages : message[m].status = "queued" /\ message[m].at <= now}

\* The oldest messages that are due, BatchSize at most.
Select(w, batch) ==
    /\ worker[w].pc = "idle"
    /\ batch # {} /\ batch \subseteq Due
    /\ Cardinality(batch) <= BatchSize
    /\ Cardinality(batch) = BatchSize \/ batch = Due
    /\ \A m \in batch, n \in Due \ batch : message[m].at <= message[n].at
    /\ worker' = [worker EXCEPT ![w] = [@ EXCEPT !.pc = "next", !.batch = batch]]
    /\ UNCHANGED <<now, quiet, configured, message, delivered, crashes, late, twice,
                   bookingVars, tagVars>>

\* Worker w is done with message m, and lets its lock go.
Finish(w, m) == worker' = [worker EXCEPT ![w] =
    [pc |-> IF @.batch = {m} THEN "idle" ELSE "next", batch |-> @.batch \ {m},
     locked |-> NoMessage]]

Update(m, row) == message' = [message EXCEPT ![m] = row]

Turn(w, m) == worker[w].pc = "next" /\ m \in worker[w].batch

\* Fault: the row is taken as the batch query returned it.
CanTakeAnyway(w, m) == Turn(w, m) /\ ~Locked(m)

\* SELECT ... FOR UPDATE SKIP LOCKED, with the status asked for again.
CanTake(w, m) == Turn(w, m) /\ ~Locked(m) /\ message[m].status = "queued"

Skip(w, m) ==
    /\ Turn(w, m) /\ ~CanTake(w, m)
    /\ Finish(w, m)
    /\ UNCHANGED <<now, quiet, configured, message, delivered, crashes, late, twice,
                   bookingVars, tagVars>>

\* Fault: only the opt-out of urgent messages is looked at.
OptedOutOfUrgent(m) == "sms_opt_out" \in tags /\ message[m].template \in Urgent

OptedOut(m) == "sms_opt_out" \in tags

CancelOptedOut(w, m) ==
    /\ CanTake(w, m) /\ OptedOut(m)
    /\ Update(m, [message[m] EXCEPT !.status = "cancelled"])
    /\ Finish(w, m)
    /\ UNCHANGED <<now, quiet, configured, delivered, crashes, late, twice,
                   bookingVars, tagVars>>

AllowedAt(m) == NextSendTime(message[m].at, quiet, message[m].template \in Urgent)

PutOff(w, m) ==
    /\ CanTake(w, m) /\ ~OptedOut(m) /\ AllowedAt(m) > message[m].at
    /\ Update(m, [message[m] EXCEPT !.at = AllowedAt(m)])
    /\ Finish(w, m)
    /\ UNCHANGED <<now, quiet, configured, delivered, crashes, late, twice,
                   bookingVars, tagVars>>

MayCall(w, m) == CanTake(w, m) /\ ~OptedOut(m) /\ AllowedAt(m) <= message[m].at

\* The row stays locked, and the customer is as the query found them, until the
\* adapter is called: the provider accepts ...
Take(w, m) ==
    /\ MayCall(w, m) /\ message[m].channel \in configured
    /\ worker' = [worker EXCEPT ![w] = [@ EXCEPT !.pc = "taken", !.locked = m]]
    /\ late' = IF optOut = "recorded" THEN late \cup {m} ELSE late
    /\ UNCHANGED <<now, quiet, configured, message, delivered, crashes, twice,
                   bookingVars, tagVars>>

Dispatch(w) ==
    /\ worker[w].pc = "taken"
    /\ worker' = [worker EXCEPT ![w] = [@ EXCEPT !.pc = "calling"]]
    /\ delivered' = [delivered EXCEPT ![worker[w].locked] = @ + 1]
    /\ UNCHANGED <<now, quiet, configured, message, crashes, late, twice, bookingVars, tagVars>>

\* ... or refuses, or the channel has no adapter ...
Fail(w, m) ==
    /\ MayCall(w, m)
    /\ Update(m, [message[m] EXCEPT !.status = "failed"])
    /\ Finish(w, m)
    /\ UNCHANGED <<now, quiet, configured, delivered, crashes, late, twice,
                   bookingVars, tagVars>>

\* ... or the message stays queued until the channel is configured.
NotConfigured(w, m) ==
    /\ MayCall(w, m) /\ message[m].channel \notin configured
    /\ Finish(w, m)
    /\ UNCHANGED <<now, quiet, configured, message, delivered, crashes, late, twice,
                   bookingVars, tagVars>>

MarkSent(w) ==
    LET m == worker[w].locked IN
    /\ worker[w].pc = "calling"
    /\ Update(m, [message[m] EXCEPT !.status = "sent"])
    /\ Finish(w, m)
    /\ UNCHANGED <<now, quiet, configured, delivered, crashes, late, twice,
                   bookingVars, tagVars>>

\* A crash, or an exception the adapter does not catch: the transaction of
\* the row is rolled back, and the rest of the batch is left.
WorkerDies(w) ==
    /\ worker[w].pc # "idle" /\ crashes < MaxCrashes
    /\ crashes' = crashes + 1
    /\ twice' = IF worker[w].pc = "calling" THEN twice \cup {worker[w].locked} ELSE twice
    /\ worker' = [worker EXCEPT ![w] = [pc |-> "idle", batch |-> {}, locked |-> NoMessage]]
    /\ UNCHANGED <<now, quiet, configured, message, delivered, late, bookingVars, tagVars>>

Send(w) ==
    \/ \E batch \in SUBSET Messages : Select(w, batch)
    \/ \E m \in Messages : \/ Skip(w, m) \/ CancelOptedOut(w, m) \/ PutOff(w, m)
                           \/ Take(w, m) \/ Fail(w, m) \/ NotConfigured(w, m)
    \/ Dispatch(w) \/ MarkSent(w)

---------------------------------------------------------------------------
(* Two writers of the customer's tags, each of the whole list: a text that *)
(* says STOP, and a click on a QR action of the landing page.              *)

Adds == [stop |-> "sms_opt_out", click |-> "qr"]

ReadTags(p) ==
    /\ tagger[p].pc = "idle"
    /\ tagger' = [tagger EXCEPT ![p] = [pc |-> "save", copy |-> tags]]
    /\ UNCHANGED <<now, quiet, configured, queueVars, bookingVars, tags, optOut>>

WriteTags(p) ==
    /\ tagger[p].pc = "save"
    /\ tags' = tagger[p].copy \cup {Adds[p]}
    /\ tagger' = [tagger EXCEPT ![p] = [pc |-> "done", copy |-> {}]]
    /\ optOut' = IF p = "stop" THEN "recorded"
                 ELSE IF "sms_opt_out" \in tags \ tagger[p].copy THEN "overwritten"
                 ELSE optOut
    /\ UNCHANGED <<now, quiet, configured, queueVars, bookingVars>>

Next ==
    \/ Tick
    \/ \E c \in Channels : Configure(c)
    \/ \E r \in Requests : RequestNext(r)
    \/ \E w \in Workers : Send(w) \/ WorkerDies(w)
    \/ \E p \in {"stop", "click"} : ReadTags(p) \/ WriteTags(p)

Spec == Init /\ [][Next]_vars

\* Requests go on or die, cron runs send_outbound, the operator wires the
\* credentials, and time passes.
FairSpec ==
    /\ Spec /\ WF_vars(Tick)
    /\ \A c \in Channels : WF_vars(Configure(c))
    /\ \A r \in Requests : WF_vars(Serve(r) \/ RequestDies(r))
    /\ \A w \in Workers : WF_vars(Send(w))

---------------------------------------------------------------------------
\* Every variable keeps its type; a worker has a lock while it works on a row.
TypeOK ==
    /\ now \in 0..End
    /\ booking \in [Bookings -> BookingStatus]
    /\ request \in [Requests -> Request]
    /\ saves \in 0..MaxSaves
    /\ message \in [Messages -> Message]
    /\ quiet \in Window
    /\ configured \in SUBSET Channels
    /\ worker \in [Workers -> Worker]
    /\ \A w \in Workers : worker[w].locked # NoMessage <=> worker[w].pc \in {"taken", "calling"}
    /\ tags \subseteq {"sms_opt_out", "qr"}
    /\ tagger \in [{"stop", "click"} -> [pc : {"idle", "save", "done"},
                                         copy : SUBSET {"sms_opt_out", "qr"}]]
    /\ delivered \in [Messages -> 0..MaxCrashes+1]
    /\ crashes \in 0..MaxCrashes
    /\ optOut \in {"none", "recorded", "overwritten"}
    /\ late \subseteq Messages
    /\ twice \subseteq Messages

\* A message reaches the provider once, however the runs of send_outbound
\* overlap, unless a worker died between the hand-over and its commit; and
\* never when it was cancelled.
DeliveredOnce == \A m \in Messages \ twice :
    /\ delivered[m] <= 1
    /\ message[m].status \in {"cancelled", "failed"} => delivered[m] = 0

\* A message taken after STOP was saved is not handed over, unless a click that
\* had read the tags before wrote the opt-out away.
OptOutRespected == late = {}

\* A message that is handed over, at its scheduled time, waited for the end
\* of the quiet window and no longer.
FirstAllowedTime == \A m \in Messages :
    message[m].status = "sent" \/ Locked(m) =>
      LET Quiet(t) == message[m].template \notin Urgent /\ InQuietWindow(t % DayLength, quiet)
      IN  /\ ~Quiet(message[m].at)
          /\ \A t \in 0..message[m].at : message[m].due <= t /\ t < message[m].at => Quiet(t)

\* Every queued message is settled, through crashes, postponements and the
\* time before the channel was configured.
MessagesSettle == \A m \in Messages :
    message[m].status = "queued" ~> message[m].status # "queued"
================================================================================
