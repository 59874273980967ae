--------------------------- MODULE CustomerCodes ---------------------------
\* One customer's one-time codes at one store, and what is done with them: signing in
\* to the portal (core/customer_auth.py, api/views_customer_auth.py) and checking in
\* at the door with a scanned key (checkin/views.py).  A request whose key resolve_key
\* (RotatingKeys) does not take stops with 410 and changes nothing.  The rate limits
\* and the "phone verified" flag live in the cache of the web process, which a restart
\* empties; the codes are rows.  Requests run in threads and interleave.
EXTENDS Naturals, SequencesExt
CONSTANTS
  Requests,     \* threads serving the customer
  Bookings,     \* confirmed bookings inside the check-in window
  CodeIds,      \* identities of code rows, reused once nothing refers to a row
  CodeLife, VerifiedLife, MinuteLife, HourLife,  \* lifetimes, in ticks
  MaxPerHour, MaxAttempts

FlowAssumption ==
  /\ {CodeLife, VerifiedLife, MinuteLife, HourLife, MaxPerHour, MaxAttempts} \subseteq Nat \ {0}
  /\ MinuteLife <= HourLife

VARIABLES
  codes,      \* CustomerOTP rows not used yet, oldest first
  minute,     \* ticks the cache key of the last minute has left
  hour,       \* the cache entry of the last hour: requests counted, ticks left
  verified,   \* ticks the phone's "verified" flag has left
  checkedIn,  \* bookings checked in
  requests    \* what each thread is doing
vars == <<codes, minute, hour, verified, checkedIn, requests>>

Idle == [pc |-> "idle", door |-> FALSE, row |-> 0, right |-> FALSE, left |-> 0,
         attempts |-> 0, count |-> 0]
Init ==
  /\ codes = <<>> /\ minute = 0 /\ hour = [count |-> 0, left |-> 0] /\ verified = 0
  /\ checkedIn = {}
  /\ requests = [r \in Requests |-> Idle]

At(r, pc) == requests[r].pc = pc
Become(r, state) == requests' = [requests EXCEPT ![r] = state]
GoTo(r, pc) == Become(r, [requests[r] EXCEPT !.pc = pc])
Finish(r) == Become(r, Idle)

Used(id) ==
  LET rows == {k \in DOMAIN codes : codes[k].id = id}
  IN  IF rows = {} THEN codes ELSE RemoveAt(codes, Min(rows))

------------------------------------------------------------------------------
\* Fault: the minute's key does not stop a second request.
AskWithoutMinute(r) ==
  /\ At(r, "idle")
  /\ minute' = MinuteLife
  /\ Become(r, [requests[r] EXCEPT !.pc = "count", !.count = hour.count])
  /\ UNCHANGED <<codes, hour, verified, checkedIn>>

\* do_request_code: the minute's key is added if it is absent; the hour's count is
\* read, and written with a new timeout.
AskForCode(r) ==
  /\ At(r, "idle")
  /\ minute = 0
  /\ minute' = MinuteLife
  /\ Become(r, [requests[r] EXCEPT !.pc = "count", !.count = hour.count])
  /\ UNCHANGED <<codes, hour, verified, checkedIn>>

\* Fault: a refusal starts the hour again.
CountHourAnyway(r) ==
  /\ At(r, "count")
  /\ hour' = [count |-> Min({requests[r].count + 1, MaxPerHour}), left |-> HourLife]
  /\ IF requests[r].count >= MaxPerHour THEN Finish(r) ELSE GoTo(r, "invalidate")
  /\ UNCHANGED <<codes, minute, verified, checkedIn>>

CountHour(r) ==
  /\ At(r, "count")
  /\ IF requests[r].count >= MaxPerHour
       THEN Finish(r) /\ UNCHANGED hour
       ELSE /\ hour' = [count |-> requests[r].count + 1, left |-> HourLife]
            /\ GoTo(r, "invalidate")
  /\ UNCHANGED <<codes, minute, verified, checkedIn>>

InvalidateCodes(r) ==
  /\ At(r, "invalidate")
  /\ codes' = <<>>
  /\ GoTo(r, "create")
  /\ UNCHANGED <<minute, hour, verified, checkedIn>>

\* The row, and the text message with it, which may fail without a word.
CreateCode(r) ==
  /\ At(r, "create")
  /\ \E id \in CodeIds \ ({c.id : c \in ToSet(codes)} \union {requests[q].row : q \in Requests}),
        sent \in BOOLEAN :
       codes' = Append(codes, [id |-> id, attempts |-> 0, left |-> CodeLife, sent |-> sent])
  /\ Finish(r)
  /\ UNCHANGED <<minute, hour, verified, checkedIn>>

------------------------------------------------------------------------------
\* do_verify_code: reads the newest unused row, counts the attempt on that copy, and
\* saves it; what the customer typed is a code received by text or a slip.
ReadCode(r) ==
  /\ At(r, "idle") /\ codes # <<>>
  /\ \E door \in BOOLEAN, typed \in {0} \union {c.id : c \in {c \in ToSet(codes) : c.sent}} :
       LET newest == Last(codes) IN
       Become(r, [requests[r] EXCEPT !.pc = "verify", !.door = door, !.row = newest.id,
             !.right = (typed = newest.id), !.left = newest.left,
             !.attempts = newest.attempts + 1])
  /\ UNCHANGED <<codes, minute, hour, verified, checkedIn>>

Verify(r) ==
  LET q == requests[r]
      saved == [k \in DOMAIN codes |->
                  IF codes[k].id = q.row THEN [codes[k] EXCEPT !.attempts = q.attempts] ELSE codes[k]]
  IN  /\ At(r, "verify")
      /\ IF q.attempts > MaxAttempts THEN codes' = Used(q.row) /\ Finish(r)
         ELSE /\ codes' = saved
              /\ IF q.right /\ q.left > 0 THEN GoTo(r, IF q.door THEN "flag" ELSE "sign in") ELSE Finish(r)
      /\ UNCHANGED <<minute, hour, verified, checkedIn>>

\* The portal looks the customer up, marks the code used and sets the session cookie;
\* a phone without a customer is refused, its code unused.
SignIn(r) ==
  /\ At(r, "sign in")
  /\ codes' \in {codes, Used(requests[r].row)}
  /\ Finish(r)
  /\ UNCHANGED <<minute, hour, verified, checkedIn>>

\* The door sets the flag and leaves the code to the check-in.
FlagPhone(r) ==
  /\ At(r, "flag")
  /\ verified' = VerifiedLife
  /\ Finish(r)
  /\ UNCHANGED <<codes, minute, hour, checkedIn>>

------------------------------------------------------------------------------
\* CheckInView: the flag, then the booking; a booking checked in already is answered
\* at once, and otherwise the flag is deleted and the newest unused code marked used.
ArriveAtDoor(r) ==
  /\ At(r, "idle") /\ verified > 0
  /\ \E b \in Bookings \ checkedIn : checkedIn' = checkedIn \union {b}
  /\ GoTo(r, "unflag")
  /\ UNCHANGED <<codes, minute, hour, verified>>

Unflag(r) ==
  /\ At(r, "unflag")
  /\ verified' = 0
  /\ GoTo(r, "burn")
  /\ UNCHANGED <<codes, minute, hour, checkedIn>>

BurnCode(r) ==
  /\ At(r, "burn")
  /\ codes' = IF codes = <<>> THEN codes ELSE Front(codes)
  /\ Finish(r)
  /\ UNCHANGED <<minute, hour, verified, checkedIn>>

------------------------------------------------------------------------------
\* Time.  Bound: a code is issued within a tick.
Issuing(r) == requests[r].pc \in {"count", "invalidate", "create"}
Down(n) == IF n = 0 THEN 0 ELSE n - 1
Tick ==
  /\ \A r \in Requests : ~Issuing(r)
  /\ codes' = [k \in DOMAIN codes |-> [codes[k] EXCEPT !.left = Down(@)]]
  /\ minute' = Down(minute) /\ verified' = Down(verified)
  /\ hour' = [count |-> IF hour.left <= 1 THEN 0 ELSE hour.count, left |-> Down(hour.left)]
  /\ requests' = [r \in Requests |-> [requests[r] EXCEPT !.left = Down(@)]]
  /\ UNCHANGED checkedIn

\* The web process restarts: its cache is empty and its requests are gone.
Restart ==
  /\ minute' = 0 /\ hour' = [count |-> 0, left |-> 0] /\ verified' = 0
  /\ requests' = [r \in Requests |-> Idle]
  /\ UNCHANGED <<codes, checkedIn>>

Serve(r) ==
  \/ CountHour(r) \/ InvalidateCodes(r) \/ CreateCode(r) \/ Verify(r) \/ SignIn(r)
  \/ FlagPhone(r) \/ Unflag(r) \/ BurnCode(r)
Ask == \E r \in Requests : AskForCode(r)
Next ==
  \/ Ask
  \/ \E r \in Requests : ReadCode(r) \/ ArriveAtDoor(r) \/ Serve(r)
  \/ Tick \/ Restart
Spec == Init /\ [][Next]_vars

\* Requests are served and time passes; the customer keeps asking.
FairSpec ==
  /\ Spec
  /\ WF_vars(Tick) /\ SF_vars(Ask)
  /\ \A r \in Requests : WF_vars(Serve(r))

------------------------------------------------------------------------------
\* Only the freshest code is ever valid (models.py:724-731): no older code is left
\* unused behind it, which marking the newest one used would bring back.
OneLiveCode == Len(codes) <= 1

\* A customer who keeps asking gets a code again and again: the two rate limits, each
\* with a timeout of its own, never shut the phone out for good (unless the process
\* restarts for ever).
CodesKeepComing == []<><<Restart>>_vars \/ []<>(\E r \in Requests : At(r, "create"))
=============================================================================
