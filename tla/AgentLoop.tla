----------------------------- MODULE AgentLoop -----------------------------
\* The conversational agent: one turn per inbound message, from the web chat
\* (agent/views.py, answered by a stream of events) or from SMS or WhatsApp
\* (api/webhooks_twilio.py, answered by one reply).  A turn saves the customer's
\* message, loads the conversation's rows, and then asks the model and runs the
\* tools it calls until the model answers in plain text or the iteration cap is
\* reached (agent/loop.py).  Turns run in threads of their own: two of the same
\* conversation interleave, and a worker can die at any step.
EXTENDS Naturals, FiniteSets, SequencesExt
CONSTANTS
  Turns,          \* inbound messages
  Texts,          \* those of one customer that arrive through Twilio
  Slots,          \* what create_booking can ask for
  Plans,          \* the sequences of tool calls a response may carry
  MaxIterations,  \* AGENT_MAX_ITERATIONS
  MaxFaults       \* bound on crashes and database errors

\* What a call may name: a tool that only reads, create_booking, or a name that is not
\* registered.  modify_booking and cancel_booking make no booking, and a turn takes their
\* results as it takes that of an unknown name.
Tool == {"look", "book", "unknown"}

ASSUME AgentAssumption ==
  /\ Texts \subseteq Turns
  /\ MaxIterations \in Nat \ {0} /\ MaxFaults \in Nat
  /\ Plans \subseteq Seq(Tool) \ {<<>>}

VARIABLES
  threads,     \* the Conversation rows
  messages,    \* what the Message rows of each conversation amount to
  bookings,    \* bookings the create_booking tool made; `told`: its result says so
  turns,       \* the state of each turn
  overlapped,  \* conversations where two turns were in progress at once (history)
  faults       \* crashes and database errors so far (bound, history)

vars == <<threads, messages, bookings, turns, overlapped, faults>>

\* The web conversation was created by create_conversation; a Twilio webhook looks
\* the customer's up, and creates it when there is none.
Conversations == {"web", "sms", "sms again"}
Idle == [pc |-> "idle", attempt |-> 1, conv |-> "web", iteration |-> 0, readable |-> FALSE,
         todo |-> {}, results |-> {}, booking |-> {}, stream |-> <<>>]

\* The rows in the order they were saved, as far as the model's API tells them apart:
\* it takes a history in which the results of a response's calls are the next rows.
\* `awaited` are the calls of the last row whose results are still to come; once
\* another row comes first the history is `torn`, whatever is appended to it later.
NoRows == [awaited |-> {}, torn |-> FALSE]
Appended(rows, role, calls) ==
  LET expected == IF role = "tool" THEN calls \subseteq rows.awaited ELSE rows.awaited = {}
  IN  IF rows.torn \/ ~expected THEN [awaited |-> {}, torn |-> TRUE]
      ELSE [rows EXCEPT !.awaited = IF role = "tool" THEN rows.awaited \ calls ELSE calls]
Readable(rows) == rows = NoRows

Init ==
  /\ threads = {"web"}
  /\ messages = [c \in Conversations |-> NoRows]
  /\ bookings = {}
  /\ turns = [t \in Turns |-> Idle]
  /\ overlapped = {}
  /\ faults = 0

At(t, pc) == turns[t].pc = pc
Running(t) == turns[t].pc \in {"load", "ask", "tools", "record"}
Become(t, state) == turns' = [turns EXCEPT ![t] = state]
Save(t, role, calls) ==
  LET c == turns[t].conv
  IN  messages' = [messages EXCEPT ![c] = Appended(messages[c], role, calls)]

\* Events reach the web client, in the order of its queue; Twilio's loop has none.
Emitted(t, events) == turns[t].stream \o (IF t \in Texts THEN <<>> ELSE events)

------------------------------------------------------------------------------
\* The request: a web message names its conversation; a webhook's get_or_create is
\* a read and then an insert that no constraint guards, and two rows for the
\* customer make every later read raise.
FindThread(t) ==
  /\ At(t, "idle")
  /\ IF t \in Texts
       THEN LET found == threads \ {"web"} IN
            \/ found = {} /\ Become(t, [turns[t] EXCEPT !.pc = "create"])
            \/ Cardinality(found) = 1 /\ Become(t, [turns[t] EXCEPT !.pc = "found", !.conv = "sms"])
            \/ Cardinality(found) = 2 /\ Become(t, [turns[t] EXCEPT !.pc = "refused"])
       ELSE Become(t, [turns[t] EXCEPT !.pc = "found"])
  /\ UNCHANGED <<threads, messages, bookings, overlapped, faults>>

CreateThread(t) ==
  /\ At(t, "create")
  /\ LET c == IF "sms" \in threads THEN "sms again" ELSE "sms"
     IN  /\ threads' = threads \union {c}
         /\ Become(t, [turns[t] EXCEPT !.pc = "found", !.conv = c])
  /\ UNCHANGED <<messages, bookings, overlapped, faults>>

\* _persist_user_message
Begin(t) ==
  /\ At(t, "found")
  /\ Save(t, "user", {})
  /\ overlapped' = IF \E u \in Turns : Running(u) /\ turns[u].conv = turns[t].conv
                     THEN overlapped \union {turns[t].conv} ELSE overlapped
  /\ Become(t, [turns[t] EXCEPT !.pc = "load"])
  /\ UNCHANGED <<threads, bookings, faults>>

Load(t) ==
  /\ At(t, "load")
  /\ Become(t, [turns[t] EXCEPT !.pc = "ask", !.readable = Readable(messages[turns[t].conv])])
  /\ UNCHANGED <<threads, messages, bookings, overlapped, faults>>

------------------------------------------------------------------------------
\* Fault: the driver of the stream closes it only when the loop returns.
CannotAskOrClose(t) ==
  /\ At(t, "ask") /\ turns[t].iteration < MaxIterations
  /\ Become(t, [turns[t] EXCEPT !.pc = "failed", !.iteration = @ + 1,
                                !.stream = Emitted(t, <<"error", "error">>)])
  /\ UNCHANGED <<threads, messages, bookings, overlapped, faults>>

\* complete() raises after its retries: the loop emits the error, the driver of the
\* stream emits it again and closes; a webhook answers with an apology.
CannotAsk(t) ==
  /\ At(t, "ask") /\ turns[t].iteration < MaxIterations
  /\ Become(t, [turns[t] EXCEPT !.pc = "failed", !.iteration = @ + 1,
                                !.stream = Emitted(t, <<"error", "error", "closed">>)])
  /\ UNCHANGED <<threads, messages, bookings, overlapped, faults>>

\* A plain-text response: its tokens, its row, `done` with the booking made on the way.
Answer(t) ==
  /\ At(t, "ask") /\ turns[t].iteration < MaxIterations /\ turns[t].readable
  /\ Save(t, "assistant", {})
  /\ Become(t, [turns[t] EXCEPT !.pc = "answered", !.iteration = @ + 1,
                                !.stream = Emitted(t, <<"token", "done", "closed">>)])
  /\ UNCHANGED <<threads, bookings, overlapped, faults>>

\* The cap: a message that hands over to staff is sent, and saved, in its place.
HandOver(t) ==
  /\ At(t, "ask") /\ turns[t].iteration = MaxIterations
  /\ Save(t, "assistant", {})
  /\ Become(t, [turns[t] EXCEPT !.pc = "answered",
                                !.stream = Emitted(t, <<"token", "error", "done", "closed">>)])
  /\ UNCHANGED <<threads, bookings, overlapped, faults>>

\* A response with tool calls: saved with its calls, each announced.  The tools that
\* only read run first, in a pool; they change nothing, and their results are here at
\* once.  The others follow, one by one.
Calls(t, plan) ==
  {[turn |-> t, iteration |-> turns[t].iteration + 1, place |-> k, tool |-> plan[k]] : k \in DOMAIN plan}
Result(call, made) == [call |-> call, made |-> made]
Before(c, d) ==
  \/ c.tool = "look" /\ d.tool # "look"
  \/ (c.tool = "look" <=> d.tool = "look") /\ c.place <= d.place

CallTools(t) ==
  /\ At(t, "ask") /\ turns[t].iteration < MaxIterations /\ turns[t].readable
  /\ \E plan \in Plans :
       LET calls == Calls(t, plan)
           reads == {c \in calls : c.tool = "look"}
       IN  /\ Save(t, "assistant", calls)
           /\ Become(t, [turns[t] EXCEPT !.iteration = @ + 1, !.todo = calls \ reads,
                !.results = {Result(c, {}) : c \in reads},
                !.pc = IF calls = reads THEN "record" ELSE "tools",
                !.stream = Emitted(t, [k \in DOMAIN plan |-> "start"])])
  /\ UNCHANGED <<threads, bookings, overlapped, faults>>

\* Fault: a tool that raises ends the turn, its calls unanswered.
RunToolBare(t) ==
  /\ At(t, "tools")
  /\ Become(t, [turns[t] EXCEPT !.pc = "broken", !.stream = Emitted(t, <<"closed">>)])
  /\ UNCHANGED <<threads, messages, bookings, overlapped, faults>>

\* create_booking commits its row, if the slot is free, before the receivers of post_save
\* run: one that raises turns the result into an error, and the row stays.
CreateBooking(t, s, told) ==
  /\ s \notin {b.slot : b \in bookings}
  /\ bookings' = bookings \union
       {[slot |-> s, by |-> t, attempt |-> turns[t].attempt, told |-> told]}

\* _execute_tool, of the next call: never raises; an unknown tool and a taken slot are
\* results too.
RunTool(t) ==
  /\ At(t, "tools")
  /\ \E call \in turns[t].todo :
       LET left == turns[t].todo \ {call}
           Returns(made) ==
             Become(t, [turns[t] EXCEPT !.todo = left, !.results = @ \union {Result(call, made)},
                                        !.pc = IF left = {} THEN "record" ELSE "tools"])
       IN  /\ \A other \in left : Before(call, other)
           /\ \/ UNCHANGED bookings /\ Returns({})
              \/ /\ call.tool = "book"
                 /\ \E s \in Slots, told \in BOOLEAN :
                      CreateBooking(t, s, told) /\ Returns(IF told THEN {s} ELSE {})
  /\ UNCHANGED <<threads, messages, overlapped, faults>>

\* The results, in that order: announced, saved one row each.
Recorded(t, r, booking) ==
  LET left == turns[t].results \ {r}
  IN  /\ At(t, "record")
      /\ \A other \in left : Before(r.call, other.call)
      /\ Save(t, "tool", {r.call})
      /\ Become(t, [turns[t] EXCEPT !.results = left, !.stream = Emitted(t, <<"end">>),
                      !.booking = booking, !.pc = IF left = {} THEN "ask" ELSE "record"])
      /\ UNCHANGED <<threads, bookings, overlapped, faults>>

\* Fault: the booking for `done` is that of the last result, if it made one.
RecordLast(t) == \E r \in turns[t].results : Recorded(t, r, r.made)

\* A booking that a result made is kept for `done`.
Record(t) == \E r \in turns[t].results :
  Recorded(t, r, IF r.made = {} THEN turns[t].booking ELSE r.made)

------------------------------------------------------------------------------
\* Any other exception (the database) ends the turn: the stream closes without a
\* word, a webhook apologises.  A process that dies does neither.
Break(t) ==
  /\ Running(t) /\ faults < MaxFaults
  /\ faults' = faults + 1
  /\ \/ Become(t, [turns[t] EXCEPT !.pc = "broken", !.stream = Emitted(t, <<"closed">>)])
     \/ Become(t, [turns[t] EXCEPT !.pc = "dead"])
  /\ UNCHANGED <<threads, messages, bookings, overlapped>>

\* Twilio delivers a message again whose webhook gave no answer; nothing tells the
\* second delivery from the first.
Redeliver(t) ==
  /\ t \in Texts /\ At(t, "dead")
  /\ Become(t, [Idle EXCEPT !.attempt = turns[t].attempt + 1])
  /\ UNCHANGED <<threads, messages, bookings, overlapped, faults>>

Advance(t) ==
  \/ FindThread(t) \/ CreateThread(t) \/ Begin(t) \/ Load(t)
  \/ CannotAsk(t) \/ Answer(t) \/ HandOver(t) \/ CallTools(t) \/ RunTool(t) \/ Record(t)
Ended(t) == turns[t].pc \in {"answered", "failed", "broken", "dead", "refused"}
AllEnded == (\A t \in Turns : Ended(t)) /\ UNCHANGED vars
Next == (\E t \in Turns : Advance(t) \/ Break(t) \/ Redeliver(t)) \/ AllEnded
Spec == Init /\ [][Next]_vars

\* A turn runs in a thread of its own and complete() gives up after three tries, so
\* a turn that can take a step takes one.
FairSpec == Spec /\ \A t \in Turns : WF_vars(Advance(t))

------------------------------------------------------------------------------
\* A conversation can always be sent to the model again: when no turn of it is
\* between a response and its results, every call in its rows is followed by its
\* result -- as long as no turn broke off and no two turns of it overlapped.
ThreadIsReadable ==
  \A c \in Conversations \ overlapped :
    (faults = 0 /\ \A t \in Turns : turns[t].conv = c => turns[t].pc \notin {"tools", "record"})
      => Readable(messages[c])

\* The summary a turn ends with names a booking exactly when the result of one of its
\* calls told of one, and one that it made, even at the iteration cap: the only bookings
\* that no summary names are those whose own result was an error.
AnswerNamesBooking ==
  \A t \in Turns : At(t, "answered") =>
    LET told == {b.slot : b \in {b \in bookings :
                   b.by = t /\ b.attempt = turns[t].attempt /\ b.told}}
    IN  turns[t].booking \subseteq told /\ (turns[t].booking = {} <=> told = {})

\* In the end every message is dealt with for good: its stream is closed or its webhook
\* answered, unless the process died and nobody sent the message again.
TurnsEnd == <>[](\A t \in Turns :
  Ended(t) /\ (t \notin Texts /\ ~At(t, "dead") => "closed" \in ToSet(turns[t].stream)))
=============================================================================
