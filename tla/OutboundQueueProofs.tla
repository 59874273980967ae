--------------------------- MODULE OutboundQueueProofs ---------------------------
(***************************************************************************)
(* Proofs about the message queue, for any number of workers, saves of     *)
(* bookings, messages and crashes, any length of the day and any window.   *)
(***************************************************************************)
EXTENDS OutboundQueue, TLAPS

\* A request that is about to insert has a message to insert.
InsertsWanted == \A r \in Requests : request[r].pc = "insert" => request[r].wanted # <<>>

Typed == TypeOK /\ InsertsWanted

\* The lock: no row has two holders, and a row that is held stays queued.
OneHolder == \A v, w \in Workers :
    worker[v].locked = worker[w].locked => v = w \/ worker[v].locked = NoMessage
HeldIsQueued == \A w \in Workers :
    worker[w].locked # NoMessage => message[worker[w].locked].status = "queued"

\* The provider has message m, and its worker is yet to commit that.
Uncommitted(m) == \E w \in Workers : worker[w].pc = "calling" /\ worker[w].locked = m

\* What the provider has of a message, by what its row and its worker say.
Accepted(m) == IF message[m].status = "sent" \/ Uncommitted(m) THEN 1 ELSE 0
Account == \A m \in Messages :
    /\ delivered[m] <= crashes + Accepted(m)
    /\ m \notin twice => delivered[m] = Accepted(m)

SendInv == Typed /\ OneHolder /\ HeldIsQueued /\ Account

\* A recorded opt-out is in the tags.
OptOutKept == optOut = "recorded" => "sms_opt_out" \in tags

\* The times a message was moved past are quiet ones; the time of a message
\* that a worker hands over is not.
QuietFor(row, t) == row.template \notin Urgent /\ InQuietWindow(t % DayLength, quiet)
Waited(row) == \A t \in Nat : row.due <= t /\ t < row.at => QuietFor(row, t)
AllWaited == \A m \in Messages : message[m].status # "none" => Waited(message[m])
AwakeWhenHeld == \A m \in Messages :
    message[m].status = "sent" \/ Locked(m) => ~QuietFor(message[m], message[m].at)

WaitInv == SendInv /\ AllWaited /\ AwakeWhenHeld

---------------------------------------------------------------------------
(* The quiet window.                                                       *)

LEMMA Division ==
    ASSUME NEW d \in Nat \ {0}, NEW t \in Nat
    PROVE  /\ t % d \in 0..d-1
           /\ t \div d \in Nat
           /\ t = (t \div d) * d + (t % d)
<1>1. t % d \in 0..d-1
  OBVIOUS
<1>2. t \div d \in Nat
  OBVIOUS
<1>3. t = (t \div d) * d + (t % d)
  BY Z3
<1> QED
  BY <1>1, <1>2, <1>3

LEMMA Remainder ==
    ASSUME NEW d \in Nat \ {0}, NEW k \in Nat, NEW n \in 0..d-1
    PROVE  (k * d + n) % d = n
OBVIOUS

\* The clock n ticks into the day of a time, and n ticks into the day after.
LEMMA TimeOfDay ==
    ASSUME NEW d \in Nat \ {0}, NEW t \in Nat, NEW n \in 0..d-1
    PROVE  /\ t - (t % d) \in Nat
           /\ (t - (t % d) + n) % d = n
           /\ (t - (t % d) + d + n) % d = n
<1> DEFINE k == t \div d
<1>1. k \in Nat /\ t % d \in 0..d-1 /\ t = k * d + (t % d)
  BY Division
<1>2. k * d \in Nat /\ (k + 1) * d = k * d + d
  BY <1>1
<1>3. t - (t % d) = k * d
  BY <1>1, <1>2
<1>4. (k * d + n) % d = n
  BY <1>1, Remainder
<1>5. ((k + 1) * d + n) % d = n
  <2>1. k + 1 \in Nat
    BY <1>1
  <2> HIDE DEF k
  <2> QED
    BY <2>1, Remainder
<1> QED
  BY <1>2, <1>3, <1>4, <1>5

LEMMA QuietUntilEnd ==
    ASSUME NEW at \in Nat, NEW q \in Window, InQuietWindow(at % DayLength, q)
    PROVE  /\ NextEnd(at, q) \in Nat
           /\ NextEnd(at, q) > at
           /\ \A t \in Nat : at <= t /\ t < NextEnd(at, q) =>
                InQuietWindow(t % DayLength, q)
           /\ ~ InQuietWindow(NextEnd(at, q) % DayLength, q)
<1> DEFINE d == DayLength
           now0 == at % d
           base == at - now0
<1>1. /\ d \in Nat \ {0} /\ q.start \in 0..d-1 /\ q.end \in 0..d-1
      /\ now0 \in 0..d-1 /\ base \in Nat /\ at = base + now0
  <2>1. d \in Nat \ {0} /\ q.start \in 0..d-1 /\ q.end \in 0..d-1
    BY DayAssumption DEF Window
  <2>2. now0 \in 0..d-1
    BY <2>1
  <2>3. base \in Nat
    BY <2>1, <2>2, TimeOfDay
  <2> QED
    BY <2>1, <2>2, <2>3
<1>2. NextEnd(at, q) = IF base + q.end > at THEN base + q.end ELSE base + q.end + d
  BY DEF NextEnd
<1>3. NextEnd(at, q) % d = q.end
  <2>1. (base + q.end) % d = q.end /\ (base + d + q.end) % d = q.end
    BY <1>1, TimeOfDay
  <2>2. base + d + q.end = base + q.end + d
    BY <1>1
  <2> HIDE DEF base, d
  <2> QED
    BY <1>2, <2>1, <2>2
<1>4. ASSUME NEW t \in Nat, at <= t, t < NextEnd(at, q)
      PROVE  InQuietWindow(t % d, q)
  <2>1. CASE t < base + d
    <3>1. t - base \in 0..d-1 /\ t = base + (t - base)
      BY <1>1, <1>4, <2>1
    <3>2. (base + (t - base)) % d = t - base
      BY <1>1, <3>1, TimeOfDay
    <3>3. t % d = t - base
      BY <3>1, <3>2
    <3> HIDE DEF base, d, now0
    <3>4. InQuietWindow(now0, q)
      BY DEF now0, d
    <3> QED
      BY <1>1, <1>2, <1>4, <2>1, <3>3, <3>4 DEF InQuietWindow
  <2>2. CASE t >= base + d
    <3>1. t - base - d \in 0..d-1 /\ t = base + d + (t - base - d)
      BY <1>1, <1>2, <1>4, <2>2
    <3>2. (base + d + (t - base - d)) % d = t - base - d
      BY <1>1, <3>1, TimeOfDay
    <3>3. t % d = t - base - d
      BY <3>1, <3>2
    <3> HIDE DEF base, d, now0
    <3>4. InQuietWindow(now0, q)
      BY DEF now0, d
    <3> QED
      BY <1>1, <1>2, <1>4, <2>2, <3>3, <3>4 DEF InQuietWindow
  <2> QED
    BY <1>1, <1>4, <2>1, <2>2
<1>5. ~ InQuietWindow(NextEnd(at, q) % d, q)
  BY <1>1, <1>3 DEF InQuietWindow
<1>6. NextEnd(at, q) \in Nat /\ NextEnd(at, q) > at
  BY <1>1, <1>2
<1> QED
  BY <1>4, <1>5, <1>6

---------------------------------------------------------------------------
(* Types.  The provider's count stays bounded because a message is handed  *)
(* over again only after a crash, so the types need the account as well.   *)

\* What the steps of a worker leave alone, and what those of a save do.
OthersTyped ==
    /\ now' \in 0..End /\ quiet' \in Window /\ configured' \in SUBSET Channels
    /\ tags' \subseteq {"sms_opt_out", "qr"}
    /\ tagger' \in [{"stop", "click"} -> [pc : {"idle", "save", "done"},
                                          copy : SUBSET {"sms_opt_out", "qr"}]]
    /\ optOut' \in {"none", "recorded", "overwritten"}
SavesTyped ==
    /\ booking' \in [Bookings -> BookingStatus]
    /\ request' \in [Requests -> Request]
    /\ saves' \in 0..MaxSaves
    /\ InsertsWanted'
QueueTyped ==
    /\ message' \in [Messages -> Message]
    /\ worker' \in [Workers -> Worker]
    /\ \A w \in Workers :
         (worker[w].locked # NoMessage <=> worker[w].pc \in {"taken", "calling"})'
    /\ delivered' \in [Messages -> 0..MaxCrashes+1]
    /\ crashes' \in 0..MaxCrashes
    /\ late' \subseteq Messages /\ twice' \subseteq Messages

LEMMA TypedBy == OthersTyped /\ SavesTyped /\ QueueTyped => Typed'
BY DEF OthersTyped, SavesTyped, QueueTyped, Typed, TypeOK

LEMMA SavesStay == Typed /\ UNCHANGED bookingVars => SavesTyped
BY DEF Typed, TypeOK, InsertsWanted, SavesTyped, bookingVars

LEMMA QueueStays == Typed /\ UNCHANGED queueVars => QueueTyped
BY DEF Typed, TypeOK, QueueTyped, queueVars

LEMMA OthersStay ==
    Typed /\ UNCHANGED <<now, quiet, configured, tagVars>> => OthersTyped
BY DEF Typed, TypeOK, OthersTyped, tagVars

LEMMA TypedInit == Init => Typed
<1> SUFFICES ASSUME Init PROVE Typed
  OBVIOUS
<1>1. AnyBooking \in Bookings /\ AnyChannel \in Channels
  BY QueueAssumption DEF AnyBooking, AnyChannel
<1>2. At("idle") \in Request
  BY <1>1 DEF At, Request, BookingStatus
<1>3. message \in [Messages -> Message]
  BY <1>1, QueueAssumption DEF Init, Message, OutboundStatus, Template
<1>4. quiet \in Window
  BY QueueAssumption DEF Init, Window
<1>5. worker \in [Workers -> Worker]
  BY DEF Init, Worker
<1>6. InsertsWanted
  BY DEF Init, InsertsWanted, At
<1>7. /\ booking \in [Bookings -> BookingStatus]
      /\ delivered \in [Messages -> 0..MaxCrashes+1]
      /\ now \in 0..End /\ saves \in 0..MaxSaves /\ crashes \in 0..MaxCrashes
  BY QueueAssumption DEF Init, BookingStatus
<1> QED
  BY <1>2, <1>3, <1>4, <1>5, <1>6, <1>7 DEF Typed, TypeOK, Init, NoMessage

---------------------------------------------------------------------------
\* A want is a sequence of messages that enqueue_message can be asked for.
LEMMA Wants ==
    ASSUME NEW template \in Template, NEW due \in 0..End
    PROVE  Want(template, due) \in Seq(Wanted)
BY DEF Want, Wanted

\* A step of save r to state q.
LEMMA SaveTyped ==
    ASSUME Typed, NEW r \in Requests, NEW q \in Request, q.pc = "insert" => q.wanted # <<>>,
           request' = [request EXCEPT ![r] = q],
           booking' \in [Bookings -> BookingStatus], saves' \in 0..MaxSaves
    PROVE  SavesTyped
BY DEF Typed, TypeOK, InsertsWanted, SavesTyped

LEMMA BookTyped ==
    ASSUME Typed, NEW r \in Requests, NEW b \in Bookings, NEW t \in ReminderTimes, Book(r, b, t)
    PROVE  SavesTyped
<1> DEFINE want == Want("booking_confirmation", now) \o
                     IF t > now THEN Want("reminder_24h", t) ELSE <<>>
           q == [request[r] EXCEPT !.pc = "signal", !.booking = b, !.wanted = want]
<1>1. want \in Seq(Wanted)
  <2>1. t \in 0..End /\ now \in 0..End
    BY QueueAssumption DEF Typed, TypeOK
  <2>2. Want("booking_confirmation", now) \in Seq(Wanted) /\ Want("reminder_24h", t) \in Seq(Wanted)
    BY <2>1, Wants DEF Template
  <2> QED
    BY <2>2
<1>2. q \in Request /\ q.pc = "signal"
  BY <1>1, ZenonT(40) DEF Typed, TypeOK, Request
<1>3. request' = [request EXCEPT ![r] = q]
  BY DEF Book
<1>4. booking' \in [Bookings -> BookingStatus] /\ saves' \in 0..MaxSaves
  BY QueueAssumption DEF Book, MaySave, Typed, TypeOK, BookingStatus
<1> HIDE DEF q
<1> QED
  BY <1>2, <1>3, <1>4, SaveTyped

LEMMA ReadPriorTyped ==
    ASSUME Typed, NEW r \in Requests, NEW b \in Bookings, NEW new \in Edits, ReadPrior(r, b, new)
    PROVE  SavesTyped
<1> DEFINE q == [request[r] EXCEPT !.pc = "save", !.booking = b, !.prior = booking[b], !.new = new]
<1>1. q \in Request /\ q.pc = "save"
  <2>1. request[r] \in Request /\ booking[b] \in BookingStatus /\ new \in BookingStatus
    BY QueueAssumption DEF Typed, TypeOK
  <2> QED
    BY <2>1 DEF Request
<1>2. request' = [request EXCEPT ![r] = q]
  BY DEF ReadPrior
<1>3. booking' \in [Bookings -> BookingStatus] /\ saves' \in 0..MaxSaves
  BY QueueAssumption DEF ReadPrior, MaySave, Typed, TypeOK
<1> HIDE DEF q
<1> QED
  BY <1>1, <1>2, <1>3, SaveTyped

LEMMA SaveStepTyped ==
    ASSUME Typed, NEW r \in Requests, Save(r)
    PROVE  SavesTyped
<1> DEFINE p == request[r]
           q == [p EXCEPT !.pc = IF p.new = "cancelled" /\ p.prior # "cancelled"
                                 THEN "cascade" ELSE "signal",
                          !.prior = "none", !.new = "none", !.wanted = Followup(p)]
<1>1. Followup(p) \in Seq(Wanted)
  <2>1. /\ Want("no_show_followup", now) \in Seq(Wanted)
        /\ Want("booking_thank_you", now) \in Seq(Wanted)
        /\ <<>> \in Seq(Wanted)
    BY Wants DEF Typed, TypeOK, Template
  <2> QED
    BY <2>1 DEF Followup
<1>2. q \in Request /\ q.pc # "insert"
  <2>1. p \in Request /\ "none" \in BookingStatus
    BY DEF Typed, TypeOK, BookingStatus
  <2> QED
    BY <1>1, <2>1 DEF Request
<1>3. request' = [request EXCEPT ![r] = q]
  BY DEF Save
<1>4. booking' \in [Bookings -> BookingStatus] /\ saves' \in 0..MaxSaves
  BY DEF Save, Typed, TypeOK, Request
<1> HIDE DEF q
<1> QED
  BY <1>2, <1>3, <1>4, SaveTyped

LEMMA EnqueueTyped ==
    ASSUME Typed, NEW r \in Requests, Enqueue(r)
    PROVE  SavesTyped
<1> DEFINE p == request[r]
           q == IF p.wanted = <<>> THEN At("idle")
                ELSE IF Existing(p.booking, Head(p.wanted).template) # {}
                THEN [p EXCEPT !.wanted = Tail(@)]
                ELSE [p EXCEPT !.pc = "insert"]
<1>1. p \in Request /\ p.pc = "signal"
  BY DEF Typed, TypeOK, Enqueue
<1>2. At("idle") \in Request /\ At("idle").pc = "idle"
  BY QueueAssumption DEF At, Request, BookingStatus, AnyBooking
<1>3. p.wanted # <<>> => Tail(p.wanted) \in Seq(Wanted)
  BY <1>1 DEF Request
<1>4. q \in Request /\ (q.pc = "insert" => q.wanted # <<>>)
  BY <1>1, <1>2, <1>3 DEF Request
<1>5. request' = [request EXCEPT ![r] = q]
  BY DEF Enqueue
<1>6. booking' \in [Bookings -> BookingStatus] /\ saves' \in 0..MaxSaves
  BY DEF Enqueue, Typed, TypeOK
<1> HIDE DEF q
<1> QED
  BY <1>4, <1>5, <1>6, SaveTyped

LEMMA InsertTyped ==
    ASSUME Typed, NEW r \in Requests, NEW m \in Messages, NEW c \in Channels, Insert(r, m, c)
    PROVE  /\ SavesTyped
           /\ message' \in [Messages -> Message]
<1> DEFINE p == request[r]
           q == [p EXCEPT !.pc = "signal", !.wanted = Tail(@)]
           row == [status |-> "queued", booking |-> p.booking, template |-> Head(p.wanted).template,
                   channel |-> c, due |-> Head(p.wanted).due, at |-> Head(p.wanted).due]
<1>1. p \in Request /\ p.wanted # <<>>
  BY DEF Typed, TypeOK, InsertsWanted, Insert
<1>2. Head(p.wanted) \in Wanted /\ Tail(p.wanted) \in Seq(Wanted)
  BY <1>1 DEF Request
<1>3. q \in Request /\ q.pc = "signal"
  BY <1>1, <1>2 DEF Request
<1>4. row \in Message
  <2>1. \A t \in 0..End : t \in Nat
    OBVIOUS
  <2> QED
    BY <1>1, <1>2, <2>1 DEF Request, Wanted, Message, OutboundStatus
<1>5. message' = [message EXCEPT ![m] = row]
  BY Zenon DEF Insert
<1>8. request' = [request EXCEPT ![r] = q]
  BY DEF Insert
<1>6. message' \in [Messages -> Message]
  BY <1>4, <1>5 DEF Typed, TypeOK
<1>7. booking' \in [Bookings -> BookingStatus] /\ saves' \in 0..MaxSaves
  BY DEF Insert, Typed, TypeOK
<1> HIDE DEF q
<1> QED
  BY <1>3, <1>6, <1>7, <1>8, SaveTyped

\* A save that ends.
LEMMA RestTyped ==
    ASSUME Typed, NEW r \in Requests, request' = [request EXCEPT ![r] = At("idle")],
           UNCHANGED <<booking, saves>>
    PROVE  SavesTyped
<1>1. At("idle") \in Request /\ At("idle").pc = "idle"
  BY QueueAssumption DEF At, Request, BookingStatus, AnyBooking
<1>2. booking' \in [Bookings -> BookingStatus] /\ saves' \in 0..MaxSaves
  BY DEF Typed, TypeOK
<1> QED
  BY <1>1, <1>2, SaveTyped

LEMMA CascadeTyped ==
    ASSUME Typed, NEW r \in Requests, Cascade(r)
    PROVE  SavesTyped /\ message' \in [Messages -> Message]
<1>1. SavesTyped
  BY RestTyped DEF Cascade
<1>2. \A m \in Messages : [message[m] EXCEPT !.status = "cancelled"] \in Message
  BY DEF Typed, TypeOK, Message, OutboundStatus
<1>3. \A m \in Messages : message[m] \in Message
  BY DEF Typed, TypeOK
<1> QED
  BY <1>1, <1>2, <1>3 DEF Cascade

---------------------------------------------------------------------------
(* The lock and the provider's account.                                    *)

\* No worker takes a lock, lets one go, calls or commits; rows that are
\* neither held nor sent may change, and are not sent.
LocksStay ==
    /\ \A w \in Workers : /\ worker'[w].locked = worker[w].locked
                          /\ worker'[w].pc = "calling" <=> worker[w].pc = "calling"
    /\ UNCHANGED <<delivered, crashes, twice>>
    /\ \A m \in Messages :
         \/ message'[m] = message[m]
         \/ ~Locked(m) /\ message[m].status # "sent" /\ message'[m].status # "sent"

LEMMA LocksStayed ==
    ASSUME SendInv, LocksStay
    PROVE  OneHolder' /\ HeldIsQueued' /\ Account'
<1>1. OneHolder'
  BY DEF SendInv, OneHolder, LocksStay
<1>2. HeldIsQueued'
  <2> SUFFICES ASSUME NEW w \in Workers, worker[w].locked # NoMessage
               PROVE  message'[worker[w].locked].status = "queued"
    BY DEF HeldIsQueued, LocksStay
  <2>1. worker[w].locked \in Messages /\ Locked(worker[w].locked)
    BY DEF SendInv, Typed, TypeOK, Worker, Locked
  <2> QED
    BY <2>1 DEF SendInv, HeldIsQueued, LocksStay
<1>3. \A m \in Messages : Accepted(m)' = Accepted(m)
  <2> SUFFICES ASSUME NEW m \in Messages PROVE Accepted(m)' = Accepted(m)
    OBVIOUS
  <2>1. Uncommitted(m)' <=> Uncommitted(m)
    BY DEF Uncommitted, LocksStay
  <2>2. message'[m].status = "sent" <=> message[m].status = "sent"
    BY DEF LocksStay
  <2> QED
    BY <2>1, <2>2 DEF Accepted
<1>4. Account'
  BY <1>3 DEF SendInv, Account, LocksStay
<1> QED
  BY <1>1, <1>2, <1>4

LEMMA StillQueue ==
    ASSUME SendInv, UNCHANGED queueVars
    PROVE  OneHolder' /\ HeldIsQueued' /\ Account'
<1>1. LocksStay
  BY DEF LocksStay, queueVars
<1> QED
  BY <1>1, LocksStayed

LEMMA InsertKeepsLocks ==
    ASSUME SendInv, NEW r \in Requests, NEW m \in Messages, NEW c \in Channels, Insert(r, m, c)
    PROVE  LocksStay
<1>1. ~Locked(m)
  BY DEF Insert, Locked, SendInv, HeldIsQueued, NoMessage, Messages
<1> QED
  BY <1>1 DEF Insert, LocksStay, SendInv, Typed, TypeOK

LEMMA CascadeKeepsLocks ==
    ASSUME SendInv, NEW r \in Requests, Cascade(r)
    PROVE  LocksStay
<1>1. \A m \in Messages : message[m] \in Message
  BY DEF SendInv, Typed, TypeOK
<1> QED
  BY <1>1 DEF Cascade, LocksStay, Message

---------------------------------------------------------------------------
(* The steps of a worker.                                                  *)

WorkersTyped ==
    /\ worker' \in [Workers -> Worker]
    /\ \A w \in Workers :
         (worker[w].locked # NoMessage <=> worker[w].pc \in {"taken", "calling"})'

\* Worker w goes on to q, with or without a lock.
LEMMA WorkerTyped ==
    ASSUME Typed, NEW w \in Workers, NEW q \in Worker,
           q.locked # NoMessage <=> q.pc \in {"taken", "calling"},
           worker' = [worker EXCEPT ![w] = q]
    PROVE  WorkersTyped
BY DEF Typed, TypeOK, WorkersTyped

LEMMA SelectStep ==
    ASSUME SendInv, NEW w \in Workers, NEW batch \in SUBSET Messages, Select(w, batch)
    PROVE  QueueTyped /\ LocksStay
<1> DEFINE q == [worker[w] EXCEPT !.pc = "next", !.batch = batch]
<1>1. Typed /\ worker[w] \in Worker /\ worker[w].pc = "idle" /\ worker[w].locked = NoMessage
  BY DEF SendInv, Typed, TypeOK, Select
<1>2. q \in Worker /\ q.pc = "next" /\ q.locked = NoMessage
  BY <1>1 DEF Worker
<1>3. worker' = [worker EXCEPT ![w] = q]
  BY DEF Select
<1>4. LocksStay
  <2>1. worker \in [Workers -> Worker]
    BY <1>1 DEF Typed, TypeOK
  <2> HIDE DEF q
  <2> QED
    BY <1>1, <1>2, <1>3, <2>1 DEF LocksStay, Select
<1>5. WorkersTyped
  <2> HIDE DEF q
  <2> QED
    BY <1>1, <1>2, <1>3, WorkerTyped
<1> QED
  BY <1>1, <1>4, <1>5 DEF QueueTyped, WorkersTyped, Select, Typed, TypeOK

\* The end of a worker's turn.
LEMMA Finished ==
    ASSUME Typed, NEW w \in Workers, NEW m \in Messages, Finish(w, m)
    PROVE  /\ WorkersTyped
           /\ worker'[w].locked = NoMessage /\ worker'[w].pc \in {"idle", "next"}
           /\ \A v \in Workers : v # w => worker'[v] = worker[v]
<1> DEFINE q == [pc |-> IF worker[w].batch = {m} THEN "idle" ELSE "next",
                 batch |-> worker[w].batch \ {m}, locked |-> NoMessage]
<1>1. worker[w] \in Worker /\ worker \in [Workers -> Worker]
  BY DEF Typed, TypeOK
<1>2. q \in Worker /\ q.pc \in {"idle", "next"} /\ q.locked = NoMessage
  BY <1>1 DEF Worker
<1>3. worker' = [worker EXCEPT ![w] = q]
  BY DEF Finish
<1> HIDE DEF q
<1> QED
  BY <1>1, <1>2, <1>3, WorkerTyped

\* A turn in which the message may change, but is not handed over.
LEMMA SettleStep ==
    ASSUME SendInv, NEW w \in Workers, NEW m \in Messages, NEW row \in Message,
           Turn(w, m), Finish(w, m), row.status # "sent",
           \/ UNCHANGED message
           \/ CanTake(w, m) /\ Update(m, row),
           UNCHANGED <<delivered, crashes, late, twice>>
    PROVE  QueueTyped /\ LocksStay
<1>1. Typed /\ message \in [Messages -> Message]
  BY DEF SendInv, Typed, TypeOK
<1>2. /\ WorkersTyped
      /\ worker'[w].locked = NoMessage /\ worker'[w].pc \in {"idle", "next"}
      /\ \A v \in Workers : v # w => worker'[v] = worker[v]
  BY <1>1, Finished
<1>3. worker[w].locked = NoMessage /\ worker[w].pc = "next"
  BY DEF Turn, SendInv, Typed, TypeOK
<1>4. message' \in [Messages -> Message]
  BY <1>1 DEF Update
<1>5. QueueTyped
  BY <1>1, <1>2, <1>4 DEF QueueTyped, WorkersTyped, Typed, TypeOK
<1>6. \A n \in Messages :
        \/ message'[n] = message[n]
        \/ ~Locked(n) /\ message[n].status # "sent" /\ message'[n].status # "sent"
  BY <1>1 DEF Update, CanTake
<1> QED
  BY <1>2, <1>3, <1>5, <1>6 DEF LocksStay

LEMMA AllowedIsTime ==
    ASSUME Typed, NEW m \in Messages
    PROVE  AllowedAt(m) \in Nat
<1>1. message[m].at \in Nat /\ quiet \in Window
  BY DEF Typed, TypeOK, Message
<1>2. message[m].at % DayLength \in Nat
  BY <1>1, DayAssumption
<1> QED
  BY <1>1, QuietUntilEnd DEF AllowedAt, NextSendTime

LEMMA TurnStep ==
    ASSUME SendInv, NEW w \in Workers, NEW m \in Messages,
           \/ Skip(w, m) \/ CancelOptedOut(w, m) \/ PutOff(w, m)
           \/ Fail(w, m) \/ NotConfigured(w, m)
    PROVE  QueueTyped /\ LocksStay
<1>1. message[m] \in Message /\ Typed
  BY DEF SendInv, Typed, TypeOK
<1>2. CASE Skip(w, m)
  <2>1. [message[m] EXCEPT !.status = "failed"] \in Message
    BY <1>1 DEF Message, OutboundStatus
  <2>2. [message[m] EXCEPT !.status = "failed"].status = "failed"
    BY <1>1 DEF Message
  <2> QED
    BY <1>2, <2>1, <2>2, SettleStep DEF Skip
<1>3. CASE CancelOptedOut(w, m)
  <2> DEFINE row == [message[m] EXCEPT !.status = "cancelled"]
  <2>1. row \in Message /\ row.status # "sent"
    BY <1>1 DEF Message, OutboundStatus
  <2>2. Update(m, row) /\ CanTake(w, m) /\ Turn(w, m) /\ Finish(w, m)
        /\ UNCHANGED <<delivered, crashes, late, twice>>
    BY <1>3 DEF CancelOptedOut, CanTake
  <2> HIDE DEF row
  <2> QED
    BY <2>1, <2>2, SettleStep
<1>4. CASE PutOff(w, m)
  <2> DEFINE row == [message[m] EXCEPT !.at = AllowedAt(m)]
  <2>1. AllowedAt(m) \in Nat
    BY <1>1, AllowedIsTime
  <2>2. Update(m, row) /\ CanTake(w, m) /\ Turn(w, m) /\ Finish(w, m)
        /\ UNCHANGED <<delivered, crashes, late, twice>>
    BY <1>4 DEF PutOff, CanTake
  <2>3. row \in Message /\ row.status # "sent"
    BY <1>1, <2>1, <2>2 DEF Message, CanTake
  <2> HIDE DEF row
  <2> QED
    BY <2>2, <2>3, SettleStep
<1>5. CASE Fail(w, m)
  <2> DEFINE row == [message[m] EXCEPT !.status = "failed"]
  <2>1. row \in Message /\ row.status # "sent"
    BY <1>1 DEF Message, OutboundStatus
  <2>2. Update(m, row) /\ CanTake(w, m) /\ Turn(w, m) /\ Finish(w, m)
        /\ UNCHANGED <<delivered, crashes, late, twice>>
    BY <1>5 DEF Fail, MayCall, CanTake
  <2> HIDE DEF row
  <2> QED
    BY <2>1, <2>2, SettleStep
<1>6. CASE NotConfigured(w, m)
  <2>1. message[m].status # "sent" /\ Turn(w, m)
    BY <1>6 DEF NotConfigured, MayCall, CanTake
  <2> QED
    BY <1>1, <1>6, <2>1, SettleStep DEF NotConfigured
<1> QED
  BY <1>2, <1>3, <1>4, <1>5, <1>6

\* The lock is taken: no other worker has it, and the row was queued.
LEMMA TakeStep ==
    ASSUME SendInv, NEW w \in Workers, NEW m \in Messages, Take(w, m)
    PROVE  QueueTyped /\ OneHolder' /\ HeldIsQueued' /\ Account'
<1> DEFINE q == [worker[w] EXCEPT !.pc = "taken", !.locked = m]
<1>1. Typed /\ worker[w] \in Worker /\ worker \in [Workers -> Worker]
  BY DEF SendInv, Typed, TypeOK
<1>2. /\ worker[w].pc = "next" /\ worker[w].locked = NoMessage
      /\ message[m].status = "queued" /\ ~Locked(m)
  BY DEF Take, MayCall, CanTake, Turn, SendInv, Typed, TypeOK
<1>3. q \in Worker /\ q.pc = "taken" /\ q.locked = m /\ m # NoMessage
  <2>1. m # NoMessage
    BY DEF Messages, NoMessage
  <2> QED
    BY <1>1, <2>1 DEF Worker
<1>4. worker' = [worker EXCEPT ![w] = q]
  BY DEF Take
<1> HIDE DEF q
<1>5. WorkersTyped
  BY <1>1, <1>3, <1>4, WorkerTyped
<1>6. QueueTyped
  BY <1>1, <1>5 DEF QueueTyped, WorkersTyped, Take, Typed, TypeOK
<1>7. worker'[w] = q /\ \A v \in Workers : v # w => worker'[v] = worker[v]
  BY <1>1, <1>4
<1>8. OneHolder'
  BY <1>2, <1>3, <1>7 DEF OneHolder, Locked, SendInv
<1>9. HeldIsQueued'
  BY <1>2, <1>3, <1>7 DEF HeldIsQueued, SendInv, Take
<1>10. \A n \in Messages : Uncommitted(n)' <=> Uncommitted(n)
  BY <1>2, <1>3, <1>7 DEF Uncommitted
<1>11. Account'
  BY <1>10 DEF Account, Accepted, SendInv, Take
<1> QED
  BY <1>6, <1>8, <1>9, <1>11

\* The provider accepts the message of the one worker that holds it.
LEMMA DispatchStep ==
    ASSUME SendInv, NEW w \in Workers, Dispatch(w)
    PROVE  QueueTyped /\ OneHolder' /\ HeldIsQueued' /\ Account'
<1> DEFINE q == [worker[w] EXCEPT !.pc = "calling"]
<1>1. /\ Typed /\ worker[w] \in Worker /\ worker \in [Workers -> Worker]
      /\ delivered \in [Messages -> 0..MaxCrashes+1] /\ crashes \in 0..MaxCrashes
      /\ MaxCrashes \in Nat
  BY QueueAssumption DEF SendInv, Typed, TypeOK
<1>2. PICK m \in Messages :
        /\ worker[w].locked = m /\ m # NoMessage
        /\ worker[w].pc = "taken" /\ message[m].status = "queued"
  BY <1>1 DEF Dispatch, SendInv, Typed, TypeOK, HeldIsQueued, Worker
<1>3. q \in Worker /\ q.pc = "calling" /\ q.locked = m
  BY <1>1, <1>2 DEF Worker
<1>4. worker' = [worker EXCEPT ![w] = q]
  BY DEF Dispatch
<1>5. delivered' = [delivered EXCEPT ![m] = @ + 1]
  BY <1>2 DEF Dispatch
<1> HIDE DEF q
<1>6. worker'[w] = q /\ \A v \in Workers : v # w => worker'[v] = worker[v]
  BY <1>1, <1>4
<1>7. \A v \in Workers : worker[v].locked = m => v = w
  BY <1>2 DEF SendInv, OneHolder
<1>8. ~Uncommitted(m) /\ Accepted(m) = 0
  BY <1>2, <1>7 DEF Uncommitted, Accepted
<1>9. Uncommitted(m)' /\ Accepted(m)' = 1
  BY <1>3, <1>6 DEF Uncommitted, Accepted
<1>10. ASSUME NEW n \in Messages, n # m
       PROVE  Accepted(n)' = Accepted(n)
  <2>1. Uncommitted(n)' <=> Uncommitted(n)
    BY <1>2, <1>3, <1>6, <1>10 DEF Uncommitted
  <2> QED
    BY <2>1 DEF Accepted, Dispatch
<1>11. delivered[m] <= crashes /\ (m \notin twice => delivered[m] = 0)
  BY <1>1, <1>2, <1>8 DEF SendInv, Account
<1>12. delivered'[m] = delivered[m] + 1 /\ \A n \in Messages : n # m => delivered'[n] = delivered[n]
  BY <1>1, <1>2, <1>5
<1>13. Account'
  <2>1. SUFFICES ASSUME NEW n \in Messages
                 PROVE  /\ delivered'[n] <= crashes + Accepted(n)'
                        /\ n \notin twice => delivered'[n] = Accepted(n)'
    BY DEF Account, Dispatch
  <2>2. CASE n = m
    BY <1>1, <1>2, <1>9, <1>11, <1>12, <2>2
  <2>3. CASE n # m
    BY <1>10, <1>12, <2>3 DEF SendInv, Account
  <2> QED
    BY <2>2, <2>3
<1>14. delivered' \in [Messages -> 0..MaxCrashes+1]
  BY <1>1, <1>2, <1>5, <1>11
<1>15. WorkersTyped
  BY <1>1, <1>2, <1>3, <1>4, WorkerTyped
<1>16. QueueTyped
  BY <1>1, <1>14, <1>15 DEF QueueTyped, WorkersTyped, Dispatch, Typed, TypeOK
<1>17. OneHolder' /\ HeldIsQueued'
  <2>1. \A v \in Workers : worker'[v].locked = worker[v].locked
    BY <1>2, <1>3, <1>6
  <2> QED
    BY <2>1 DEF SendInv, OneHolder, HeldIsQueued, Dispatch
<1> QED
  BY <1>13, <1>16, <1>17

\* The commit: what was uncommitted is sent.
LEMMA MarkSentStep ==
    ASSUME SendInv, NEW w \in Workers, MarkSent(w)
    PROVE  QueueTyped /\ OneHolder' /\ HeldIsQueued' /\ Account'
<1> DEFINE m == worker[w].locked
           row == [message[m] EXCEPT !.status = "sent"]
<1>1. /\ Typed /\ worker[w] \in Worker /\ worker \in [Workers -> Worker]
      /\ message \in [Messages -> Message]
  BY DEF SendInv, Typed, TypeOK
<1>2. worker[w].pc = "calling" /\ m # NoMessage /\ m \in Messages /\ message[m].status = "queued"
  BY <1>1 DEF MarkSent, SendInv, Typed, TypeOK, HeldIsQueued, Worker
<1>3. row \in Message /\ row.status = "sent"
  BY <1>1, <1>2 DEF Message, OutboundStatus
<1>4. message' = [message EXCEPT ![m] = row] /\ Finish(w, m)
  BY DEF MarkSent, Update
<1> HIDE DEF row, m
<1>5. /\ WorkersTyped
      /\ worker'[w].locked = NoMessage /\ worker'[w].pc \in {"idle", "next"}
      /\ \A v \in Workers : v # w => worker'[v] = worker[v]
  BY <1>1, <1>2, <1>4, Finished
<1>6. message' \in [Messages -> Message]
  BY <1>1, <1>3, <1>4
<1>7. QueueTyped
  BY <1>1, <1>5, <1>6 DEF QueueTyped, WorkersTyped, MarkSent, Typed, TypeOK
<1>8. \A v \in Workers : worker[v].locked = m => v = w
  BY <1>2 DEF SendInv, OneHolder, m
<1>9. OneHolder'
  BY <1>5 DEF SendInv, OneHolder
<1>10. HeldIsQueued'
  BY <1>1, <1>2, <1>4, <1>5, <1>8 DEF SendInv, HeldIsQueued, Typed, TypeOK, Worker
<1>11. ASSUME NEW n \in Messages
       PROVE  Accepted(n)' = Accepted(n)
  <2>1. CASE n = m
    <3>1. Uncommitted(m)
      BY <1>2 DEF Uncommitted, m
    <3>2. message'[m].status = "sent"
      BY <1>1, <1>2, <1>3, <1>4
    <3> QED
      BY <2>1, <3>1, <3>2 DEF Accepted
  <2>2. CASE n # m
    <3>1. Uncommitted(n)' <=> Uncommitted(n)
      BY <1>2, <1>5, <2>2 DEF Uncommitted, m
    <3>2. message'[n] = message[n]
      BY <1>1, <1>4, <2>2
    <3> QED
      BY <3>1, <3>2 DEF Accepted
  <2> QED
    BY <2>1, <2>2
<1>12. Account'
  BY <1>11 DEF SendInv, Account, MarkSent
<1> QED
  BY <1>7, <1>9, <1>10, <1>12

\* A death between the call and the commit is counted, and remembered.
LEMMA WorkerDiesStep ==
    ASSUME SendInv, NEW w \in Workers, WorkerDies(w)
    PROVE  QueueTyped /\ OneHolder' /\ HeldIsQueued' /\ Account'
<1> DEFINE m == worker[w].locked
           q == [pc |-> "idle", batch |-> {}, locked |-> NoMessage]
<1>1. /\ Typed /\ worker[w] \in Worker /\ worker \in [Workers -> Worker]
      /\ delivered \in [Messages -> 0..MaxCrashes+1] /\ crashes \in 0..MaxCrashes
      /\ MaxCrashes \in Nat
  BY QueueAssumption DEF SendInv, Typed, TypeOK
<1>2. q \in Worker /\ q.pc = "idle" /\ q.locked = NoMessage
  BY DEF Worker
<1>3. worker' = [worker EXCEPT ![w] = q]
  BY DEF WorkerDies
<1>4. crashes' = crashes + 1 /\ crashes' \in 0..MaxCrashes
  BY <1>1 DEF WorkerDies
<1>5. worker[w].pc = "calling" => m \in Messages /\ m # NoMessage
  BY <1>1 DEF SendInv, Typed, TypeOK, Worker
<1> HIDE DEF q, m
<1>6. WorkersTyped
  BY <1>1, <1>2, <1>3, WorkerTyped
<1>7. twice' \subseteq Messages
  BY <1>1, <1>5 DEF WorkerDies, m, Typed, TypeOK
<1>8. QueueTyped
  BY <1>1, <1>4, <1>6, <1>7 DEF QueueTyped, WorkersTyped, WorkerDies, Typed, TypeOK
<1>9. worker'[w] = q /\ \A v \in Workers : v # w => worker'[v] = worker[v]
  BY <1>1, <1>3
<1>10. OneHolder' /\ HeldIsQueued'
  BY <1>2, <1>9 DEF SendInv, OneHolder, HeldIsQueued, WorkerDies
<1>11. ASSUME NEW n \in Messages
       PROVE  /\ delivered'[n] <= crashes' + Accepted(n)'
              /\ n \notin twice' => delivered'[n] = Accepted(n)'
  <2>1. delivered'[n] = delivered[n] /\ delivered[n] \in Nat /\ crashes \in Nat
    BY <1>1 DEF WorkerDies
  <2>2. /\ delivered[n] <= crashes + Accepted(n)
        /\ n \notin twice => delivered[n] = Accepted(n)
    BY DEF SendInv, Account
  <2>3. Accepted(n) \in 0..1 /\ Accepted(n)' \in 0..1
    BY DEF Accepted
  <2>4. CASE worker[w].pc = "calling" /\ n = m
    BY <1>4, <2>1, <2>2, <2>3, <2>4 DEF WorkerDies, m
  <2>5. CASE ~(worker[w].pc = "calling" /\ n = m)
    <3>1. Uncommitted(n)' <=> Uncommitted(n)
      BY <1>2, <1>9, <2>5 DEF Uncommitted, m
    <3>2. Accepted(n)' = Accepted(n)
      BY <3>1 DEF Accepted, WorkerDies
    <3>3. n \notin twice' => n \notin twice
      BY DEF WorkerDies
    <3> QED
      BY <1>4, <2>1, <2>2, <2>3, <3>2, <3>3
  <2> QED
    BY <2>4, <2>5
<1>12. Account'
  BY <1>11 DEF Account
<1> QED
  BY <1>8, <1>10, <1>12

---------------------------------------------------------------------------
(* Every step keeps the types, the locks and the account.                  *)

LEMMA SaveStep ==
    ASSUME SendInv, NEW r \in Requests, RequestNext(r)
    PROVE  SendInv'
<1>1. Typed
  BY DEF SendInv
<1>2. OthersTyped
  BY <1>1, OthersStay DEF RequestNext, Book, ReadPrior, Serve, Save, Enqueue, Cascade, Insert,
                          RequestDies
<1>3. CASE \E b \in Bookings : \/ \E t \in ReminderTimes : Book(r, b, t)
                               \/ \E new \in Edits : ReadPrior(r, b, new)
  <2>1. UNCHANGED queueVars
    BY <1>3 DEF Book, ReadPrior
  <2>2. SavesTyped
    BY <1>1, <1>3, BookTyped, ReadPriorTyped
  <2> QED
    BY <1>1, <1>2, <2>1, <2>2, QueueStays, StillQueue, TypedBy DEF SendInv
<1>4. CASE Save(r) \/ Enqueue(r) \/ RequestDies(r)
  <2>1. UNCHANGED queueVars
    BY <1>4 DEF Save, Enqueue, RequestDies
  <2>2. SavesTyped
    BY <1>1, <1>4, SaveStepTyped, EnqueueTyped, RestTyped DEF RequestDies
  <2> QED
    BY <1>1, <1>2, <2>1, <2>2, QueueStays, StillQueue, TypedBy DEF SendInv
<1>5. CASE Cascade(r) \/ \E m \in Messages, c \in Channels : Insert(r, m, c)
  <2>1. SavesTyped /\ message' \in [Messages -> Message]
    BY <1>1, <1>5, CascadeTyped, InsertTyped
  <2>2. LocksStay
    BY <1>5, CascadeKeepsLocks, InsertKeepsLocks
  <2>3. UNCHANGED <<worker, delivered, crashes, late, twice>>
    BY <1>5 DEF Cascade, Insert
  <2>4. QueueTyped
    BY <1>1, <2>1, <2>3 DEF QueueTyped, Typed, TypeOK
  <2> QED
    BY <1>2, <2>1, <2>2, <2>4, LocksStayed, TypedBy DEF SendInv
<1> QED
  BY <1>3, <1>4, <1>5 DEF RequestNext, Serve

LEMMA WorkerStep ==
    ASSUME SendInv, NEW w \in Workers, Send(w) \/ WorkerDies(w)
    PROVE  SendInv'
<1>1. Typed
  BY DEF SendInv
<1>2. UNCHANGED <<now, quiet, configured, bookingVars, tagVars>>
  BY DEF Send, Select, Skip, CancelOptedOut, PutOff, Take, Fail, NotConfigured, Dispatch,
         MarkSent, WorkerDies
<1>3. OthersTyped /\ SavesTyped
  BY <1>1, <1>2, OthersStay, SavesStay
<1>4. QueueTyped /\ OneHolder' /\ HeldIsQueued' /\ Account'
  <2>1. CASE \E batch \in SUBSET Messages : Select(w, batch)
    BY <2>1, SelectStep, LocksStayed
  <2>2. CASE \E m \in Messages : \/ Skip(w, m) \/ CancelOptedOut(w, m) \/ PutOff(w, m)
                                 \/ Fail(w, m) \/ NotConfigured(w, m)
    BY <2>2, TurnStep, LocksStayed
  <2>3. CASE \E m \in Messages : Take(w, m)
    BY <2>3, TakeStep
  <2>4. CASE Dispatch(w)
    BY <2>4, DispatchStep
  <2>5. CASE MarkSent(w)
    BY <2>5, MarkSentStep
  <2>6. CASE WorkerDies(w)
    BY <2>6, WorkerDiesStep
  <2> QED
    BY <2>1, <2>2, <2>3, <2>4, <2>5, <2>6 DEF Send
<1> QED
  BY <1>3, <1>4, TypedBy DEF SendInv

\* The steps that touch neither the queue nor a save.
LEMMA OtherStep ==
    ASSUME SendInv,
           \/ Tick
           \/ \E c \in Channels : Configure(c)
           \/ \E p \in {"stop", "click"} : ReadTags(p) \/ WriteTags(p)
           \/ UNCHANGED vars
    PROVE  SendInv'
<1>1. Typed
  BY DEF SendInv
<1>2. UNCHANGED <<queueVars, bookingVars>>
  BY DEF Tick, Configure, ReadTags, WriteTags, vars
<1>3. SavesTyped /\ QueueTyped
  BY <1>1, <1>2, SavesStay, QueueStays
<1>4. OthersTyped
  <2>1. CASE Tick
    <3>1. now' \in 0..End
      BY <1>1, <2>1, QueueAssumption DEF Typed, TypeOK, Tick
    <3> QED
      BY <1>1, <2>1, <3>1 DEF Typed, TypeOK, OthersTyped, Tick, tagVars
  <2>5. CASE UNCHANGED vars
    BY <1>1, <2>5, OthersStay DEF vars
  <2>2. CASE \E c \in Channels : Configure(c)
    BY <1>1, <2>2 DEF Typed, TypeOK, OthersTyped, Configure, tagVars
  <2>3. ASSUME NEW p \in {"stop", "click"}, ReadTags(p)
        PROVE  OthersTyped
    BY <1>1, <2>3 DEF Typed, TypeOK, OthersTyped, ReadTags
  <2>4. ASSUME NEW p \in {"stop", "click"}, WriteTags(p)
        PROVE  OthersTyped
    <3>1. tagger[p].copy \subseteq {"sms_opt_out", "qr"} /\ Adds[p] \in {"sms_opt_out", "qr"}
      BY <1>1 DEF Typed, TypeOK, Adds
    <3> QED
      BY <1>1, <2>4, <3>1 DEF Typed, TypeOK, OthersTyped, WriteTags
  <2> QED
    BY <2>1, <2>2, <2>3, <2>4, <2>5
<1> QED
  BY <1>2, <1>3, <1>4, TypedBy, StillQueue DEF SendInv

LEMMA SendInvInit == Init => SendInv
<1> SUFFICES ASSUME Init PROVE SendInv
  OBVIOUS
<1>1. Typed
  BY TypedInit
<1>2. OneHolder /\ HeldIsQueued
  BY DEF Init, OneHolder, HeldIsQueued
<1>3. Account
  BY DEF Init, Account, Accepted, Uncommitted
<1> QED
  BY <1>1, <1>2, <1>3 DEF SendInv

LEMMA SendInvStep == SendInv /\ [Next]_vars => SendInv'
<1> SUFFICES ASSUME SendInv, [Next]_vars PROVE SendInv'
  OBVIOUS
<1>1. CASE \E r \in Requests : RequestNext(r)
  BY <1>1, SaveStep
<1>2. CASE \E w \in Workers : Send(w) \/ WorkerDies(w)
  BY <1>2, WorkerStep
<1>3. CASE \/ Tick
           \/ \E c \in Channels : Configure(c)
           \/ \E p \in {"stop", "click"} : ReadTags(p) \/ WriteTags(p)
           \/ UNCHANGED vars
  BY <1>3, OtherStep
<1> QED
  BY <1>1, <1>2, <1>3 DEF Next

LEMMA SpecSends == Spec => []SendInv
BY SendInvInit, SendInvStep, PTL DEF Spec

\* Every variable of the queue keeps its type, the provider's count and the
\* lock of each worker among them: send_outbound holds a row's lock from its
\* look at the row to its commit, and only then.
THEOREM QueueTypes == Spec => []TypeOK
<1>1. SendInv => TypeOK
  BY DEF SendInv, Typed
<1> QED
  BY <1>1, SpecSends, PTL

\* However many runs of send_outbound overlap, and wherever they die, the
\* provider is handed a message once, and a cancelled or failed one never; the
\* messages whose worker died between the hand-over and the commit excepted.
THEOREM HandedOverOnce == Spec => []DeliveredOnce
<1>1. SendInv => DeliveredOnce
  <2> SUFFICES ASSUME SendInv, NEW m \in Messages \ twice
               PROVE  /\ delivered[m] <= 1
                      /\ message[m].status \in {"cancelled", "failed"} => delivered[m] = 0
    BY DEF DeliveredOnce
  <2>1. delivered[m] = Accepted(m)
    BY DEF SendInv, Account
  <2>2. Uncommitted(m) => message[m].status = "queued"
    BY DEF SendInv, Typed, TypeOK, HeldIsQueued, Uncommitted, Messages, NoMessage
  <2> QED
    BY <2>1, <2>2 DEF Accepted
<1> QED
  BY <1>1, SpecSends, PTL

---------------------------------------------------------------------------
(* The opt-out.                                                            *)

LEMMA OptOutStep == OptOutKept /\ OptOutRespected /\ [Next]_vars => OptOutKept' /\ OptOutRespected'
<1> SUFFICES ASSUME OptOutKept, OptOutRespected, [Next]_vars
             PROVE  OptOutKept' /\ OptOutRespected'
  OBVIOUS
<1>1. CASE \E w \in Workers, m \in Messages : Take(w, m)
  <2>1. "sms_opt_out" \notin tags
    BY <1>1 DEF Take, MayCall, OptedOut
  <2>2. late' = late /\ UNCHANGED <<tags, optOut>>
    BY <1>1, <2>1 DEF Take, OptOutKept, tagVars
  <2> QED
    BY <2>2 DEF OptOutKept, OptOutRespected
<1>2. CASE \E p \in {"stop", "click"} : WriteTags(p)
  <2>1. PICK p \in {"stop", "click"} : WriteTags(p)
    BY <1>2
  <2>2. late' = late
    BY <2>1 DEF WriteTags, queueVars
  <2>3. CASE p = "stop"
    BY <2>1, <2>2, <2>3 DEF WriteTags, Adds, OptOutKept, OptOutRespected
  <2>4. CASE p = "click"
    BY <2>1, <2>2, <2>4 DEF WriteTags, OptOutKept, OptOutRespected
  <2> QED
    BY <2>3, <2>4
<1>3. CASE UNCHANGED <<late, tags, optOut>>
  BY <1>3 DEF OptOutKept, OptOutRespected
<1>4. \/ \E w \in Workers, m \in Messages : Take(w, m)
      \/ \E p \in {"stop", "click"} : WriteTags(p)
      \/ UNCHANGED <<late, tags, optOut>>
  <2>1. ASSUME NEW r \in Requests, RequestNext(r)
        PROVE  UNCHANGED <<late, tags, optOut>>
    BY <2>1 DEF RequestNext, Book, ReadPrior, Serve, Save, Enqueue, Cascade, Insert, RequestDies,
                queueVars, tagVars
  <2>2. ASSUME NEW w \in Workers, Send(w) \/ WorkerDies(w)
        PROVE  (\E m \in Messages : Take(w, m)) \/ UNCHANGED <<late, tags, optOut>>
    BY <2>2 DEF Send, Select, Skip, CancelOptedOut, PutOff, Fail, NotConfigured, Dispatch, MarkSent,
                WorkerDies, tagVars
  <2>3. ASSUME \/ Tick \/ UNCHANGED vars
               \/ \E c \in Channels : Configure(c)
               \/ \E p \in {"stop", "click"} : ReadTags(p)
        PROVE  UNCHANGED <<late, tags, optOut>>
    BY <2>3 DEF Tick, vars, Configure, ReadTags, queueVars, tagVars
  <2> QED
    BY <2>1, <2>2, <2>3 DEF Next
<1> QED
  BY <1>1, <1>2, <1>3, <1>4

\* No message is taken for a hand-over once STOP is saved, unless a click on a
\* QR action that read the tags before STOP writes the opt-out away: of the two
\* writers of the tags, only that order of their reads and writes loses it.
THEOREM OptOutIsRespected == Spec => []OptOutRespected
<1>1. Init => OptOutKept /\ OptOutRespected
  BY DEF Init, OptOutKept, OptOutRespected
<1> QED
  BY <1>1, OptOutStep, PTL DEF Spec

---------------------------------------------------------------------------
(* The quiet hours.                                                        *)

\* Rows change only their status or are as good as new, and no row comes to
\* be held or sent but by keeping its time.
WaitsOn ==
    /\ UNCHANGED quiet
    /\ \A m \in Messages :
         /\ message'[m].status # "none" =>
              \/ /\ message[m].status # "none"
                 /\ message'[m].template = message[m].template
                 /\ message'[m].due = message[m].due /\ message'[m].at = message[m].at
              \/ Waited(message'[m])
         /\ message'[m].status = "sent" \/ Locked(m)' =>
              /\ message'[m].template = message[m].template /\ message'[m].at = message[m].at
              /\ \/ message[m].status = "sent" \/ Locked(m)
                 \/ ~QuietFor(message[m], message[m].at)

LEMMA WaitedOn ==
    ASSUME WaitInv, WaitsOn
    PROVE  AllWaited' /\ AwakeWhenHeld'
<1>1. AllWaited'
  BY DEF WaitInv, WaitsOn, AllWaited, Waited, QuietFor
<1>2. AwakeWhenHeld'
  BY DEF WaitInv, WaitsOn, AwakeWhenHeld, QuietFor
<1> QED
  BY <1>1, <1>2

LEMMA PutOffWaits ==
    ASSUME WaitInv, NEW w \in Workers, NEW m \in Messages, PutOff(w, m)
    PROVE  Waited(message'[m])
<1>1. message[m] \in Message /\ message \in [Messages -> Message] /\ quiet \in Window
  BY DEF WaitInv, SendInv, Typed, TypeOK
<1> DEFINE row == message[m]
<1>2. row.at \in Nat /\ row.due \in Nat
  BY <1>1 DEF Message
<1>3. Waited(row)
  BY DEF WaitInv, AllWaited, PutOff, CanTake
<1>4. row.template \notin Urgent /\ InQuietWindow(row.at % DayLength, quiet)
      /\ AllowedAt(m) = NextEnd(row.at, quiet)
  BY <1>2 DEF PutOff, AllowedAt, NextSendTime
<1>5. \A t \in Nat : row.at <= t /\ t < AllowedAt(m) => QuietFor(row, t)
  BY <1>1, <1>2, <1>4, QuietUntilEnd DEF QuietFor
<1>6. message'[m].due = row.due /\ message'[m].template = row.template
      /\ message'[m].at = AllowedAt(m)
  BY <1>1 DEF PutOff, Update, Message
<1> HIDE DEF row
<1> QED
  BY <1>2, <1>3, <1>5, <1>6 DEF Waited, QuietFor

LEMMA TakenIsAwake ==
    ASSUME WaitInv, NEW w \in Workers, NEW m \in Messages, Take(w, m)
    PROVE  ~QuietFor(message[m], message[m].at)
<1>1. message[m].at \in Nat /\ quiet \in Window
  BY DEF WaitInv, SendInv, Typed, TypeOK, Message
<1>2. AllowedAt(m) <= message[m].at
  BY DEF Take, MayCall
<1>3. SUFFICES ASSUME QuietFor(message[m], message[m].at) PROVE FALSE
  OBVIOUS
<1>4. AllowedAt(m) = NextEnd(message[m].at, quiet) /\ AllowedAt(m) > message[m].at
      /\ AllowedAt(m) \in Nat
  BY <1>1, <1>3, QuietUntilEnd DEF QuietFor, AllowedAt, NextSendTime
<1> QED
  BY <1>1, <1>2, <1>4

\* The rows, their locks and the window as they are.
LEMMA StillWaits ==
    ASSUME WaitInv, UNCHANGED <<message, quiet>>,
           \A m \in Messages : Locked(m)' => Locked(m)
    PROVE  WaitsOn
BY DEF WaitInv, AwakeWhenHeld, WaitsOn

LEMMA InsertWaits ==
    ASSUME WaitInv, SendInv', NEW r \in Requests, NEW m \in Messages, NEW c \in Channels,
           Insert(r, m, c)
    PROVE  WaitsOn
<1>1. message \in [Messages -> Message] /\ request[r].wanted # <<>> /\ request[r] \in Request
  BY DEF WaitInv, SendInv, Typed, TypeOK, InsertsWanted, Insert
<1>2. message'[m] \in Message
  BY DEF SendInv, Typed, TypeOK
<1>3. message'[m].at = message'[m].due /\ message'[m].status = "queued"
  BY <1>1 DEF Insert
<1>4. Waited(message'[m])
  <2>1. message'[m].at \in Nat
    BY <1>2 DEF Message
  <2> QED
    BY <1>3, <2>1 DEF Waited
<1>5. ~Locked(m)' /\ \A n \in Messages : Locked(n)' <=> Locked(n)
  BY DEF Insert, Locked, WaitInv, SendInv, HeldIsQueued, NoMessage, Messages
<1>6. \A n \in Messages : n # m => message'[n] = message[n]
  BY <1>1 DEF Insert
<1>7. UNCHANGED quiet
  BY DEF Insert
<1> QED
  BY <1>3, <1>4, <1>5, <1>6, <1>7 DEF WaitsOn

LEMMA CascadeWaits ==
    ASSUME WaitInv, NEW r \in Requests, Cascade(r)
    PROVE  WaitsOn
<1>1. \A m \in Messages : message[m] \in Message
  BY DEF WaitInv, SendInv, Typed, TypeOK
<1>2. \A m \in Messages : Locked(m)' <=> Locked(m)
  BY DEF Cascade, Locked
<1>3. \A m \in Messages :
        /\ message'[m].template = message[m].template
        /\ message'[m].due = message[m].due /\ message'[m].at = message[m].at
        /\ message'[m].status = "sent" => message[m].status = "sent"
        /\ message[m].status = "none" => message'[m].status = "none"
  BY <1>1 DEF Cascade, Message
<1> QED
  BY <1>2, <1>3 DEF WaitsOn, Cascade

LEMMA SaveWaits ==
    ASSUME WaitInv, SendInv', NEW r \in Requests, RequestNext(r)
    PROVE  WaitsOn
<1>1. CASE \E m \in Messages, c \in Channels : Insert(r, m, c)
  BY <1>1, InsertWaits
<1>2. CASE Cascade(r)
  BY <1>2, CascadeWaits
<1>3. CASE UNCHANGED <<quiet, message, worker>>
  BY <1>3, StillWaits DEF Locked
<1>4. \/ \E m \in Messages, c \in Channels : Insert(r, m, c)
      \/ Cascade(r)
      \/ UNCHANGED <<quiet, message, worker>>
  BY DEF RequestNext, Serve, Book, ReadPrior, Save, Enqueue, RequestDies, queueVars
<1> QED
  BY <1>1, <1>2, <1>3, <1>4

\* A worker that does not take, dispatch or commit has no lock after its step
\* that it did not have before.
LEMMA TurnWaits ==
    ASSUME WaitInv, NEW w \in Workers, NEW m \in Messages,
           \/ Skip(w, m) \/ CancelOptedOut(w, m) \/ PutOff(w, m)
           \/ Fail(w, m) \/ NotConfigured(w, m)
    PROVE  WaitsOn
<1>1. message \in [Messages -> Message]
  BY DEF WaitInv, SendInv, Typed, TypeOK
<1>2. \A n \in Messages : Locked(n)' => Locked(n)
  <2>1. Finish(w, m) /\ Typed
    BY DEF Skip, CancelOptedOut, PutOff, Fail, NotConfigured, WaitInv, SendInv
  <2> QED
    BY <2>1, Finished DEF Locked, NoMessage, Messages
<1>3. UNCHANGED quiet
  BY DEF Skip, CancelOptedOut, PutOff, Fail, NotConfigured
<1>4. CASE Skip(w, m) \/ NotConfigured(w, m)
  <2>1. UNCHANGED message
    BY <1>4 DEF Skip, NotConfigured
  <2> QED
    BY <1>2, <1>3, <2>1, StillWaits
<1>5. ASSUME NEW row \in Message, Update(m, row), row.status # "sent", ~Locked(m),
             message[m].status = "queued",
             \/ Waited(row)
             \/ row.template = message[m].template /\ row.due = message[m].due
                  /\ row.at = message[m].at
      PROVE  WaitsOn
  <2>1. message'[m] = row /\ \A n \in Messages : n # m => message'[n] = message[n]
    BY <1>1, <1>5 DEF Update
  <2> QED
    BY <1>2, <1>3, <1>5, <2>1 DEF WaitsOn
<1>6. message[m] \in Message
  BY <1>1
<1>7. CASE CancelOptedOut(w, m)
  <2> DEFINE row == [message[m] EXCEPT !.status = "cancelled"]
  <2>1. row \in Message /\ row.status # "sent" /\ row.template = message[m].template
        /\ row.due = message[m].due /\ row.at = message[m].at
    BY <1>6 DEF Message, OutboundStatus
  <2>2. Update(m, row) /\ CanTake(w, m)
    BY <1>7 DEF CancelOptedOut
  <2> HIDE DEF row
  <2> QED
    BY <1>5, <2>1, <2>2 DEF CanTake
<1>8. CASE Fail(w, m)
  <2> DEFINE row == [message[m] EXCEPT !.status = "failed"]
  <2>1. row \in Message /\ row.status # "sent" /\ row.template = message[m].template
        /\ row.due = message[m].due /\ row.at = message[m].at
    BY <1>6 DEF Message, OutboundStatus
  <2>2. Update(m, row) /\ CanTake(w, m)
    BY <1>8 DEF Fail, MayCall
  <2> HIDE DEF row
  <2> QED
    BY <1>5, <2>1, <2>2 DEF CanTake
<1>9. CASE PutOff(w, m)
  <2> DEFINE row == [message[m] EXCEPT !.at = AllowedAt(m)]
  <2>1. row \in Message
    BY <1>6, AllowedIsTime DEF Message, WaitInv, SendInv
  <2>2. Update(m, row) /\ CanTake(w, m)
    BY <1>9 DEF PutOff
  <2>3. row.status # "sent"
    BY <1>6, <2>2 DEF CanTake, Message
  <2>4. message'[m] = row
    BY <1>1, <2>2 DEF Update
  <2>5. Waited(row)
    BY <1>9, <2>4, PutOffWaits
  <2> HIDE DEF row
  <2> QED
    BY <1>5, <2>1, <2>2, <2>3, <2>5 DEF CanTake
<1> QED
  BY <1>4, <1>7, <1>8, <1>9

LEMMA WorkerWaits ==
    ASSUME WaitInv, NEW w \in Workers, Send(w) \/ WorkerDies(w)
    PROVE  WaitsOn
<1>1. /\ message \in [Messages -> Message] /\ worker \in [Workers -> Worker]
      /\ worker[w] \in Worker /\ Typed
  BY DEF WaitInv, SendInv, Typed, TypeOK
<1>2. CASE \E batch \in SUBSET Messages : Select(w, batch)
  <2>1. \A v \in Workers : worker'[v].locked = worker[v].locked
    BY <1>1, <1>2 DEF Select, Worker
  <2> QED
    BY <1>2, <2>1, StillWaits DEF Select, Locked
<1>3. CASE \E m \in Messages : \/ Skip(w, m) \/ CancelOptedOut(w, m) \/ PutOff(w, m)
                               \/ Fail(w, m) \/ NotConfigured(w, m)
  BY <1>3, TurnWaits
<1>4. ASSUME NEW m \in Messages, Take(w, m)
      PROVE  WaitsOn
  <2>1. ~QuietFor(message[m], message[m].at)
    BY <1>4, TakenIsAwake
  <2>2. worker'[w].locked = m /\ \A v \in Workers : v # w => worker'[v] = worker[v]
    BY <1>1, <1>4 DEF Take, Worker
  <2>3. \A n \in Messages : n # m => (Locked(n)' => Locked(n))
    BY <2>2 DEF Locked
  <2>4. UNCHANGED <<message, quiet>>
    BY <1>4 DEF Take
  <2> QED
    BY <2>1, <2>3, <2>4 DEF WaitsOn
<1>5. CASE Dispatch(w)
  <2>1. \A v \in Workers : worker'[v].locked = worker[v].locked
    BY <1>1, <1>5 DEF Dispatch, Worker
  <2> QED
    BY <1>5, <2>1, StillWaits DEF Dispatch, Locked
<1>6. CASE MarkSent(w)
  <2>1. PICK m \in Messages : worker[w].locked = m /\ message[m].status = "queued"
    BY <1>1, <1>6 DEF MarkSent, WaitInv, SendInv, Typed, TypeOK, HeldIsQueued, Worker
  <2>2. Locked(m)
    BY <2>1 DEF Locked
  <2>3. /\ message'[m].template = message[m].template
        /\ message'[m].due = message[m].due /\ message'[m].at = message[m].at
        /\ \A n \in Messages : n # m => message'[n] = message[n]
    BY <1>1, <1>6, <2>1 DEF MarkSent, Update, Message
  <2>4. \A n \in Messages : Locked(n)' => Locked(n)
    BY <1>1, <1>6, <2>1, Finished DEF MarkSent, Locked, NoMessage, Messages
  <2>5. UNCHANGED quiet
    BY <1>6 DEF MarkSent
  <2> QED
    BY <2>1, <2>2, <2>3, <2>4, <2>5 DEF WaitsOn
<1>7. CASE WorkerDies(w)
  <2>1. \A v \in Workers : worker'[v].locked \in {worker[v].locked, NoMessage}
    BY <1>1, <1>7 DEF WorkerDies
  <2> QED
    BY <1>7, <2>1, StillWaits DEF WorkerDies, Locked, NoMessage, Messages
<1> QED
  BY <1>2, <1>3, <1>4, <1>5, <1>6, <1>7 DEF Send

LEMMA WaitInvStep == WaitInv /\ [Next]_vars => WaitInv'
<1> SUFFICES ASSUME WaitInv, [Next]_vars PROVE WaitInv'
  OBVIOUS
<1>1. SendInv'
  BY SendInvStep DEF WaitInv
<1>2. WaitsOn
  <2>1. CASE \E r \in Requests : RequestNext(r)
    BY <1>1, <2>1, SaveWaits
  <2>2. CASE \E w \in Workers : Send(w) \/ WorkerDies(w)
    BY <2>2, WorkerWaits
  <2>3. CASE \/ Tick \/ UNCHANGED vars
             \/ \E c \in Channels : Configure(c)
             \/ \E p \in {"stop", "click"} : ReadTags(p) \/ WriteTags(p)
    <3>1. UNCHANGED <<message, quiet, worker>>
      BY <2>3 DEF Tick, Configure, ReadTags, WriteTags, vars, queueVars
    <3> QED
      BY <3>1, StillWaits DEF Locked
  <2> QED
    BY <2>1, <2>2, <2>3 DEF Next
<1> QED
  BY <1>1, <1>2, WaitedOn DEF WaitInv

LEMMA WaitInvInit == Init => WaitInv
<1> SUFFICES ASSUME Init PROVE WaitInv
  OBVIOUS
<1>1. AllWaited /\ AwakeWhenHeld
  BY DEF Init, AllWaited, AwakeWhenHeld, Locked, Messages, NoMessage
<1> QED
  BY <1>1, SendInvInit DEF WaitInv

LEMMA SpecWaits == Spec => []WaitInv
BY WaitInvInit, WaitInvStep, PTL DEF Spec

\* A message that is handed over was put off to the end of the quiet window of
\* its store and no further, and not into another: for every length of the day,
\* windows over midnight among them, and through every retry and crash.
THEOREM SentAtFirstAllowedTime == Spec => []FirstAllowedTime
<1>1. WaitInv => FirstAllowedTime
  <2> SUFFICES ASSUME WaitInv, NEW m \in Messages, message[m].status = "sent" \/ Locked(m)
               PROVE  /\ ~QuietFor(message[m], message[m].at)
                      /\ \A t \in 0..message[m].at :
                           message[m].due <= t /\ t < message[m].at => QuietFor(message[m], t)
    BY DEF FirstAllowedTime, QuietFor
  <2>1. message[m].status # "none"
    BY DEF WaitInv, SendInv, HeldIsQueued, Locked, NoMessage, Messages
  <2>2. message[m].at \in Nat
    BY DEF WaitInv, SendInv, Typed, TypeOK, Message
  <2> QED
    BY <2>1, <2>2 DEF WaitInv, AllWaited, AwakeWhenHeld, Waited
<1> QED
  BY <1>1, SpecWaits, PTL

\* One postponement is enough: the time a message is put off to, the next end of
\* the window of its store, is never inside that window, so send_outbound never
\* puts it off twice.
PutOffLands == \A w \in Workers, m \in Messages :
    PutOff(w, m) => ~QuietFor(message'[m], message'[m].at)

THEOREM PutOffOnce == Spec => [][PutOffLands]_vars
<1>1. WaitInv /\ [Next]_vars => [PutOffLands]_vars
  <2> SUFFICES ASSUME WaitInv, NEW w \in Workers, NEW m \in Messages, PutOff(w, m)
               PROVE  ~InQuietWindow(message'[m].at % DayLength, quiet)
    BY DEF PutOffLands, QuietFor
  <2>1. message[m] \in Message /\ message \in [Messages -> Message] /\ quiet \in Window
    BY DEF WaitInv, SendInv, Typed, TypeOK
  <2>2. message[m].at \in Nat
    BY <2>1 DEF Message
  <2>3. /\ InQuietWindow(message[m].at % DayLength, quiet)
        /\ AllowedAt(m) = NextEnd(message[m].at, quiet)
    BY <2>2 DEF PutOff, AllowedAt, NextSendTime
  <2>4. message'[m].at = AllowedAt(m)
    BY <2>1 DEF PutOff, Update, Message
  <2> QED
    BY <2>1, <2>2, <2>3, <2>4, QuietUntilEnd
<1> QED
  BY <1>1, SpecWaits, PTL DEF Spec
================================================================================
