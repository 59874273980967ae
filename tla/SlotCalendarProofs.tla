--------------------------- MODULE SlotCalendarProofs ---------------------------
(***************************************************************************)
(* Proofs about the slots of a resource, for any bookings, requests,       *)
(* horizon, lengths and edits.  Every write of a row either leaves its     *)
(* slot alone, or passes the constraint in the same statement, or takes    *)
(* the row away: that is the whole argument, since nothing the requests    *)
(* read before is relied on.  The price needs more: what each request      *)
(* carries in its copy is a slot together with its own price, except for   *)
(* bookings that the staff or the agent set out to move.  What the two     *)
(* channels offer is an argument about a loop: the sweep over the sorted   *)
(* bookings keeps SweptTo, and after the last of them the free stretches   *)
(* hold exactly the slots that no booking overlaps.                        *)
(***************************************************************************)
EXTENDS MCSlotCalendar, FiniteSetTheorems, WellFoundedInduction, TLAPS

\* A row that is in the table.
Live(new) == new \in Row /\ new.status \in BookingStatus /\ new.slot \in Slot

\* What a request in flight has in hand.
InHand(q) ==
    /\ q.pc \in {"checkout", "save"} => q.booking \in Bookings
    /\ q.pc = "save" => q.verb \in {"modify", "reschedule", "patch", "cancel", "delete"} /\ Live(q.copy)

\* A save leaves slot and price together, but for bookings moved by hand.
Intact(q, hand) == q.pc = "save" /\ q.booking \notin hand =>
    /\ q.verb # "modify"
    /\ q.verb \in {"reschedule", "patch"} => q.copy.quoted \in {q.copy.slot, NoSlot}

Carried == \A r \in Requests : InHand(request[r]) /\ Intact(request[r], byHand)

\* What the exclusion constraint gives every step to build on.
NoOverlap == \A b, c \in Bookings :
    b # c /\ Exists(b) /\ Exists(c) => ~Overlap(row[b].slot, row[c].slot)

IndInv == TypeOK /\ NoOverlap /\ QuotedForItsSlot /\ Carried

---------------------------------------------------------------------------
LEMMA NoSlotIsNone == NoSlot \notin Slot
BY DEF NoSlot, Slot

LEMMA OverlapIsSymmetric ==
    ASSUME NEW s \in Slot, NEW t \in Slot
    PROVE  Overlap(s, t) <=> Overlap(t, s)
BY HorizonAssumption DEF Overlap, Slot

LEMMA MissingIsRow ==
    ASSUME NEW status \in NoRow
    PROVE  /\ Missing(status) \in Row /\ Missing(status).slot = NoSlot
           /\ Missing(status).status \notin BookingStatus /\ Missing(status).quoted = NoSlot
BY DEF Missing, Row, NoRow, BookingStatus

LEMMA NewRowsAreLive ==
    ASSUME NEW s \in NewSlot
    PROVE  /\ Live(Online(s)) /\ Online(s).slot = s /\ Online(s).quoted = s
           /\ Live(Hold(s)) /\ Hold(s).slot = s /\ Hold(s).quoted = NoSlot
BY DEF NewSlot, Online, Hold, Live, Row, BookingStatus

LEMMA InitialInvariant == Init => IndInv
<1> SUFFICES ASSUME Init PROVE IndInv
  OBVIOUS
<1>1. Missing("unborn") \in Row /\ Missing("unborn").slot = NoSlot
      /\ Missing("unborn").status \notin BookingStatus
  BY MissingIsRow DEF NoRow
<1>2. \A b \in Bookings : \/ row[b] = Missing("unborn")
                          \/ Live(row[b]) /\ row[b].quoted = row[b].slot
  BY NewRowsAreLive DEF Init
<1>3. row \in [Bookings -> Row] /\ \A b \in Bookings : Exists(b) <=> row[b].slot \in Slot
  BY <1>1, <1>2, NoSlotIsNone DEF Init, Live, Exists
<1>4. request \in [Requests -> Request]
  BY <1>1 DEF Init, Request
<1>5. TypeOK
  BY <1>3, <1>4 DEF Init, TypeOK
<1>6. \A b \in Bookings : Exists(b) => row[b].status # "unborn"
  BY DEF Exists, BookingStatus
<1>7. NoOverlap
  BY <1>6 DEF Init, NoOverlap
<1>8. QuotedForItsSlot
  BY <1>1, <1>2 DEF QuotedForItsSlot, Exists
<1>9. Carried
  BY DEF Init, Carried, InHand, Intact
<1> QED
  BY <1>5, <1>7, <1>8, <1>9 DEF IndInv

---------------------------------------------------------------------------
(* The rows.  A write that the constraint lets pass, and a removal.        *)

LEMMA WriteKeepsSlots ==
    ASSUME IndInv, NEW b \in Bookings, NEW new, Live(new), Fits(b, new.slot),
           row' = [row EXCEPT ![b] = new]
    PROVE  /\ row' \in [Bookings -> Row] /\ row'[b] = new
           /\ \A c \in Bookings \ {b} : row'[c] = row[c]
           /\ \A c \in Bookings : Exists(c)' <=> row'[c].slot \in Slot
           /\ NoOverlap'
<1>1. /\ row' \in [Bookings -> Row] /\ row'[b] = new
      /\ \A c \in Bookings \ {b} : row'[c] = row[c]
  BY DEF IndInv, TypeOK, Live
<1>2. \A c \in Bookings : Exists(c)' <=> row'[c].slot \in Slot
  BY <1>1 DEF IndInv, TypeOK, Live, Exists
<1>3. ASSUME NEW c \in Bookings, NEW d \in Bookings, c # d, Exists(c)', Exists(d)'
      PROVE  ~Overlap(row'[c].slot, row'[d].slot)
  <2>1. CASE c = b
    BY <1>1, <1>3, <2>1 DEF Fits, Exists
  <2>2. CASE d = b
    <3>1. Exists(c) /\ row'[c] = row[c] /\ row[c].slot \in Slot
      BY <1>1, <1>3, <2>2 DEF Exists, IndInv, TypeOK
    <3>2. ~Overlap(new.slot, row[c].slot)
      BY <1>3, <2>2, <3>1 DEF Fits
    <3> QED
      BY <1>1, <2>2, <3>1, <3>2, OverlapIsSymmetric DEF Live
  <2>3. CASE c # b /\ d # b
    BY <1>1, <1>3, <2>3 DEF IndInv, NoOverlap, Exists
  <2> QED
    BY <2>1, <2>2, <2>3
<1>4. NoOverlap'
  BY <1>3 DEF NoOverlap
<1> QED
  BY <1>1, <1>2, <1>4

LEMMA RemovalKeepsSlots ==
    ASSUME IndInv, NEW gone \in SUBSET Bookings,
           row' = [b \in Bookings |-> IF b \in gone THEN Missing("deleted") ELSE row[b]]
    PROVE  /\ row' \in [Bookings -> Row] /\ NoOverlap'
           /\ \A c \in Bookings : Exists(c)' <=> row'[c].slot \in Slot
           /\ \A c \in Bookings : Exists(c)' => row'[c] = row[c]
<1>1. /\ Missing("deleted") \in Row /\ Missing("deleted").slot = NoSlot
      /\ Missing("deleted").status \notin BookingStatus
  BY MissingIsRow DEF NoRow
<1>2. row' \in [Bookings -> Row]
  BY <1>1 DEF IndInv, TypeOK
<1>3. \A c \in Bookings : Exists(c)' => row'[c] = row[c] /\ Exists(c)
  BY <1>1 DEF Exists
<1>4. \A c \in Bookings : Exists(c)' <=> row'[c].slot \in Slot
  BY <1>1, NoSlotIsNone DEF IndInv, TypeOK, Exists
<1>5. NoOverlap'
  BY <1>3 DEF IndInv, NoOverlap
<1> QED
  BY <1>2, <1>3, <1>4, <1>5

---------------------------------------------------------------------------
(* The requests.                                                           *)

LEMMA OneRequestMoves ==
    ASSUME IndInv, NEW r \in Requests, NEW q, q \in Request, InHand(q), Intact(q, byHand'),
           request' = [request EXCEPT ![r] = q], byHand \subseteq byHand'
    PROVE  request' \in [Requests -> Request] /\ Carried'
<1>1. request' \in [Requests -> Request]
  BY DEF IndInv, TypeOK
<1>2. request'[r] = q /\ \A p \in Requests \ {r} : request'[p] = request[p]
  BY DEF IndInv, TypeOK
<1>3. \A p \in Requests : InHand(request[p]) /\ Intact(request[p], byHand')
  BY DEF IndInv, Carried, Intact
<1> QED
  BY <1>1, <1>2, <1>3 DEF Carried

LEMMA DoneMoves ==
    ASSUME IndInv, NEW r \in Requests, Done(r), UNCHANGED byHand
    PROVE  request' \in [Requests -> Request] /\ Carried'
<1> DEFINE q == [request[r] EXCEPT !.pc = "done"]
<1>1. request[r] \in Request
  BY DEF IndInv, TypeOK
<1>2. q \in Request /\ q.pc = "done"
  BY <1>1 DEF Request
<1>3. request' = [request EXCEPT ![r] = q]
  BY DEF Done
<1> HIDE DEF q
<1>4. InHand(q) /\ Intact(q, byHand')
  BY <1>2 DEF InHand, Intact
<1> QED
  BY <1>2, <1>3, <1>4, OneRequestMoves

\* The copy that a request has loaded and changed.
LEMMA LoadKeepsInvariant ==
    ASSUME IndInv, NEW r \in Requests, NEW b \in Bookings,
           NEW verb \in {"modify", "reschedule", "patch", "cancel", "delete"}, NEW copy, Live(copy),
           verb = "patch" /\ copy.slot = row[b].slot => copy.quoted = row[b].quoted,
           verb = "reschedule" => copy.quoted = copy.slot,
           Load(r, b, verb, copy)
    PROVE  IndInv'
<1> DEFINE q == [request[r] EXCEPT !.pc = "save", !.verb = verb, !.booking = b, !.copy = copy]
<1>1. request[r] \in Request
  BY DEF IndInv, TypeOK
<1>2. /\ q \in Request /\ q.pc = "save" /\ q.verb = verb /\ q.booking = b /\ q.copy = copy
  BY <1>1 DEF Request, Live
<1>3. /\ request' = [request EXCEPT ![r] = q] /\ Exists(b)
      /\ UNCHANGED <<row, session, reaper>>
  BY DEF Load
<1>4. /\ byHand \subseteq byHand' /\ byHand' \subseteq Bookings
      /\ b \notin byHand' => verb # "modify" /\ (verb = "patch" => copy.slot = row[b].slot)
  BY DEF Load, IndInv, TypeOK
<1> HIDE DEF q
<1>5. InHand(q)
  BY <1>2 DEF InHand
<1>6. b \notin byHand' => row[b].quoted \in {row[b].slot, NoSlot}
  BY <1>3, <1>4 DEF IndInv, QuotedForItsSlot
<1>7. Intact(q, byHand')
  BY <1>2, <1>4, <1>6 DEF Intact
<1>8. request' \in [Requests -> Request] /\ Carried'
  BY <1>2, <1>3, <1>4, <1>5, <1>7, OneRequestMoves
<1>9. TypeOK'
  BY <1>3, <1>4, <1>8 DEF IndInv, TypeOK, Exists
<1>10. NoOverlap' /\ QuotedForItsSlot'
  BY <1>3, <1>4 DEF IndInv, NoOverlap, QuotedForItsSlot, Exists
<1> QED
  BY <1>8, <1>9, <1>10 DEF IndInv

\* A row in the table, with other values in some columns.
LEMMA ChangedRows ==
    ASSUME NEW old, Live(old), NEW s \in Slot, NEW status \in BookingStatus
    PROVE  /\ Live([old EXCEPT !.slot = s])
           /\ Live([old EXCEPT !.slot = s, !.quoted = s])
           /\ [old EXCEPT !.slot = s, !.quoted = s].quoted = [old EXCEPT !.slot = s, !.quoted = s].slot
           /\ Live([old EXCEPT !.slot = s, !.status = status])
           /\ [old EXCEPT !.slot = s, !.status = status].quoted = old.quoted
           /\ Live([old EXCEPT !.status = status])
BY DEF Live, Row

LEMMA ChangesKeepInvariant ==
    ASSUME IndInv, NEW r \in Requests, NEW b \in Bookings,
           \/ \E s \in Slot : Modify(r, b, s) \/ Reschedule(r, b, s)
           \/ Patch(r, b) \/ Cancel(r, b) \/ CancelByAgent(r, b) \/ Delete(r, b)
    PROVE  IndInv'
<1>1. ASSUME NEW verb, NEW copy, Load(r, b, verb, copy)
      PROVE  Live(row[b])
  BY <1>1 DEF Load, Exists, IndInv, TypeOK, Live
<1>2. ASSUME NEW s \in Slot, Modify(r, b, s) PROVE IndInv'
  <2>1. Load(r, b, "modify", [row[b] EXCEPT !.slot = s])
    BY <1>2 DEF Modify
  <2>2. Live([row[b] EXCEPT !.slot = s])
    BY <1>1, <2>1, ChangedRows DEF Live
  <2> QED
    BY <2>1, <2>2, LoadKeepsInvariant
<1>3. ASSUME NEW s \in Slot, Reschedule(r, b, s) PROVE IndInv'
  <2> DEFINE copy == [row[b] EXCEPT !.slot = s, !.quoted = s]
  <2>1. Load(r, b, "reschedule", copy)
    BY <1>3 DEF Reschedule
  <2>2. Live(copy) /\ copy.quoted = copy.slot
    BY <1>1, <2>1, ChangedRows DEF Live
  <2> HIDE DEF copy
  <2> QED
    BY <2>1, <2>2, LoadKeepsInvariant
<1>4. CASE Patch(r, b)
  <2>1. PICK s \in Slot, status \in Edits \cup {row[b].status} :
          Load(r, b, "patch", [row[b] EXCEPT !.slot = s, !.status = status])
    BY <1>4 DEF Patch
  <2> DEFINE copy == [row[b] EXCEPT !.slot = s, !.status = status]
  <2>2. status \in BookingStatus
    BY <1>1, <2>1, CalendarAssumption DEF Live
  <2>3. Live(row[b])
    BY <1>1, <2>1
  <2>4. Live(copy) /\ copy.quoted = row[b].quoted
    BY <2>2, <2>3 DEF Live, Row
  <2>5. Load(r, b, "patch", copy)
    BY <2>1
  <2> HIDE DEF copy
  <2> QED
    BY <2>4, <2>5, LoadKeepsInvariant
<1>5. CASE Cancel(r, b) \/ CancelByAgent(r, b)
  <2>1. Load(r, b, "cancel", [row[b] EXCEPT !.status = "cancelled"])
    BY <1>5 DEF Cancel, CancelByAgent
  <2>2. Live([row[b] EXCEPT !.status = "cancelled"])
    BY <1>1, <2>1 DEF Live, Row, BookingStatus
  <2> QED
    BY <2>1, <2>2, LoadKeepsInvariant
<1>6. CASE Delete(r, b)
  <2>1. Load(r, b, "delete", row[b])
    BY <1>6 DEF Delete
  <2> QED
    BY <1>1, <2>1, LoadKeepsInvariant
<1> QED
  BY <1>2, <1>3, <1>4, <1>5, <1>6

\* What a save makes of the row keeps slot and price together.
LEMMA SavedRow ==
    ASSUME IndInv, NEW r \in Requests, RequestAt(r, "save"), request[r].verb # "delete",
           Exists(request[r].booking)
    PROVE  /\ Live(Saved(request[r], row[request[r].booking]))
           /\ request[r].booking \notin byHand =>
                Saved(request[r], row[request[r].booking]).quoted
                  \in {Saved(request[r], row[request[r].booking]).slot, NoSlot}
<1> DEFINE q == request[r]
           b == q.booking
           old == row[b]
<1>1. /\ b \in Bookings /\ Live(q.copy) /\ Intact(q, byHand) /\ q.pc = "save"
      /\ q.verb \in {"modify", "reschedule", "patch", "cancel"}
  BY DEF IndInv, Carried, InHand, RequestAt
<1>2. Live(old) /\ (b \notin byHand => old.quoted \in {old.slot, NoSlot})
  BY <1>1 DEF IndInv, TypeOK, QuotedForItsSlot, Exists, Live
<1> HIDE DEF q, old
<1>3. CASE q.verb = "modify"
  <2>1. Saved(q, old) = [old EXCEPT !.slot = q.copy.slot] /\ b \in byHand
    BY <1>1, <1>3 DEF Saved, Intact, q
  <2>2. Live([old EXCEPT !.slot = q.copy.slot])
    BY <1>1, <1>2 DEF Live, Row
  <2> QED
    BY <2>1, <2>2 DEF q, old
<1>4. CASE q.verb = "reschedule"
  <2> DEFINE new == [old EXCEPT !.slot = q.copy.slot, !.quoted = q.copy.quoted]
  <2>1. Saved(q, old) = new
    BY <1>4 DEF Saved
  <2>2. Live(new) /\ new.slot = q.copy.slot /\ new.quoted = q.copy.quoted
    BY <1>1, <1>2 DEF Live, Row
  <2>3. b \notin byHand => q.copy.quoted \in {q.copy.slot, NoSlot}
    BY <1>1, <1>4 DEF Intact, q
  <2> HIDE DEF new
  <2> QED
    BY <2>1, <2>2, <2>3 DEF q, old
<1>5. CASE q.verb = "patch"
  <2> DEFINE new == [q.copy EXCEPT !.old = old.old]
  <2>1. Saved(q, old) = new
    BY <1>5 DEF Saved
  <2>2. Live(new) /\ new.slot = q.copy.slot /\ new.quoted = q.copy.quoted
    BY <1>1, <1>2 DEF Live, Row
  <2>3. b \notin byHand => q.copy.quoted \in {q.copy.slot, NoSlot}
    BY <1>1, <1>5 DEF Intact, q
  <2> HIDE DEF new
  <2> QED
    BY <2>1, <2>2, <2>3 DEF q, old
<1>6. CASE q.verb = "cancel"
  <2> DEFINE new == [old EXCEPT !.status = q.copy.status]
  <2>1. Saved(q, old) = new
    BY <1>6 DEF Saved
  <2>2. Live(new) /\ new.slot = old.slot /\ new.quoted = old.quoted
    BY <1>1, <1>2 DEF Live, Row
  <2> HIDE DEF new
  <2> QED
    BY <1>2, <2>1, <2>2 DEF q, old
<1> QED
  BY <1>1, <1>3, <1>4, <1>5, <1>6

\* A write of one row whose slot and price agree, with the request moved on.
LEMMA WriteKeepsInvariant ==
    ASSUME IndInv, NEW b \in Bookings, NEW new, Live(new), Fits(b, new.slot),
           b \notin byHand => new.quoted \in {new.slot, NoSlot},
           row' = [row EXCEPT ![b] = new], UNCHANGED <<session, reaper, byHand>>,
           request' \in [Requests -> Request], Carried'
    PROVE  IndInv'
<1>1. /\ row' \in [Bookings -> Row] /\ row'[b] = new
      /\ \A c \in Bookings \ {b} : row'[c] = row[c]
      /\ \A c \in Bookings : Exists(c)' <=> row'[c].slot \in Slot
      /\ NoOverlap'
  BY WriteKeepsSlots
<1>2. TypeOK'
  BY <1>1 DEF IndInv, TypeOK
<1>3. QuotedForItsSlot'
  BY <1>1 DEF IndInv, QuotedForItsSlot, Exists
<1> QED
  BY <1>1, <1>2, <1>3 DEF IndInv

\* A step that leaves the rows and the bookings moved by hand alone.
LEMMA QuietKeepsInvariant ==
    ASSUME IndInv, UNCHANGED <<row, byHand>>,
           request' \in [Requests -> Request], Carried',
           session' \in [Bookings -> {"none", "open", "paid"}], reaper' \subseteq Bookings
    PROVE  IndInv'
<1>1. TypeOK'
  BY DEF IndInv, TypeOK, Exists
<1>2. NoOverlap' /\ QuotedForItsSlot'
  BY DEF IndInv, NoOverlap, QuotedForItsSlot, Exists
<1> QED
  BY <1>1, <1>2 DEF IndInv

\* The requests as they are, while no booking stops being moved by hand.
LEMMA RequestsStay ==
    ASSUME IndInv, UNCHANGED <<request, byHand>>
    PROVE  request' \in [Requests -> Request] /\ Carried'
BY DEF IndInv, TypeOK, Carried, InHand, Intact

LEMMA BookingsKeepInvariant ==
    ASSUME IndInv, NEW r \in Requests, NEW b \in Bookings, NEW s \in NewSlot,
           BookOnline(r, b, s) \/ BookByAgent(r, b, s)
    PROVE  IndInv'
<1>1. CASE BookOnline(r, b, s)
  <2>1. /\ Live(Online(s)) /\ Online(s).quoted = Online(s).slot
        /\ Fits(b, Online(s).slot) /\ row' = [row EXCEPT ![b] = Online(s)]
    BY <1>1, NewRowsAreLive DEF BookOnline, Insert
  <2>2. UNCHANGED <<session, reaper, byHand>> /\ Done(r)
    BY <1>1 DEF BookOnline
  <2>3. request' \in [Requests -> Request] /\ Carried'
    BY <2>2, DoneMoves
  <2> QED
    BY <2>1, <2>2, <2>3, WriteKeepsInvariant
<1>2. CASE BookByAgent(r, b, s)
  <2> DEFINE q == [request[r] EXCEPT !.pc = "checkout", !.verb = "hold", !.booking = b]
  <2>1. /\ Live(Hold(s)) /\ Hold(s).quoted = NoSlot
        /\ Fits(b, Hold(s).slot) /\ row' = [row EXCEPT ![b] = Hold(s)]
    BY <1>2, NewRowsAreLive DEF BookByAgent, Insert
  <2>2. request[r] \in Request
    BY DEF IndInv, TypeOK
  <2>3. q \in Request /\ q.pc = "checkout" /\ q.booking = b
    BY <2>2 DEF Request
  <2>4. request' = [request EXCEPT ![r] = q] /\ UNCHANGED <<session, reaper, byHand>>
    BY <1>2 DEF BookByAgent
  <2> HIDE DEF q
  <2>5. InHand(q) /\ Intact(q, byHand')
    BY <2>3 DEF InHand, Intact
  <2>6. request' \in [Requests -> Request] /\ Carried'
    BY <2>3, <2>4, <2>5, OneRequestMoves
  <2> QED
    BY <2>1, <2>4, <2>6, WriteKeepsInvariant
<1> QED
  BY <1>1, <1>2

LEMMA CheckoutKeepsInvariant ==
    ASSUME IndInv, NEW r \in Requests, OpenCheckout(r) \/ NoCheckout(r)
    PROVE  IndInv'
<1>1. Done(r) /\ UNCHANGED <<row, reaper, byHand>>
  BY DEF OpenCheckout, NoCheckout
<1>2. request' \in [Requests -> Request] /\ Carried'
  BY <1>1, DoneMoves
<1>3. session' \in [Bookings -> {"none", "open", "paid"}]
  BY DEF OpenCheckout, NoCheckout, IndInv, TypeOK
<1> QED
  BY <1>1, <1>2, <1>3, QuietKeepsInvariant DEF IndInv, TypeOK

LEMMA SaveKeepsInvariant ==
    ASSUME IndInv, NEW r \in Requests, Save(r)
    PROVE  IndInv'
<1> DEFINE q == request[r]
           b == q.booking
           again == [q.copy EXCEPT !.old = FALSE]
<1>1. RequestAt(r, "save") /\ q.verb # "delete" /\ Done(r) /\ UNCHANGED <<session, reaper, byHand>>
  BY DEF Save, SaveColumns, SaveWhole
<1>2. /\ b \in Bookings /\ Live(q.copy) /\ Intact(q, byHand) /\ q.pc = "save"
  BY <1>1 DEF IndInv, Carried, InHand, RequestAt
<1>3. request' \in [Requests -> Request] /\ Carried'
  BY <1>1, DoneMoves
<1>4. ASSUME UNCHANGED row PROVE IndInv'
  BY <1>1, <1>3, <1>4, QuietKeepsInvariant DEF IndInv, TypeOK
<1>5. CASE Exists(b)
  <2> DEFINE new == Saved(q, row[b])
  <2>1. Live(new) /\ (b \notin byHand => new.quoted \in {new.slot, NoSlot})
    BY <1>1, <1>5, SavedRow
  <2>2. UNCHANGED row \/ (Fits(b, new.slot) /\ row' = [row EXCEPT ![b] = new])
    BY <1>5 DEF Save, SaveColumns, SaveWhole
  <2> HIDE DEF new, q
  <2> QED
    BY <1>1, <1>2, <1>3, <1>4, <2>1, <2>2, WriteKeepsInvariant
<1>6. CASE ~Exists(b)
  <2>1. Live(again) /\ again.slot = q.copy.slot /\ again.quoted = q.copy.quoted
    BY <1>2 DEF Live, Row
  <2>2. \/ UNCHANGED row
        \/ q.verb = "patch" /\ Fits(b, again.slot) /\ row' = [row EXCEPT ![b] = again]
    BY <1>6 DEF Save, SaveColumns, SaveWhole
  <2>3. q.verb = "patch" /\ b \notin byHand => again.quoted \in {again.slot, NoSlot}
    BY <1>2, <2>1 DEF Intact
  <2> HIDE DEF again, q
  <2> QED
    BY <1>1, <1>2, <1>3, <1>4, <2>1, <2>2, <2>3, WriteKeepsInvariant
<1> QED
  BY <1>5, <1>6

\* Rows are deleted, by the staff or by the reaper.
LEMMA DeletionKeepsInvariant ==
    ASSUME IndInv, NEW gone \in SUBSET Bookings,
           row' = [b \in Bookings |-> IF b \in gone THEN Missing("deleted") ELSE row[b]],
           UNCHANGED <<session, byHand>>, reaper' \subseteq Bookings,
           request' \in [Requests -> Request], Carried'
    PROVE  IndInv'
<1>1. /\ row' \in [Bookings -> Row] /\ NoOverlap'
      /\ \A c \in Bookings : Exists(c)' <=> row'[c].slot \in Slot
      /\ \A c \in Bookings : Exists(c)' => row'[c] = row[c]
  BY RemovalKeepsSlots
<1>2. TypeOK'
  BY <1>1 DEF IndInv, TypeOK
<1>3. QuotedForItsSlot'
  BY <1>1 DEF IndInv, QuotedForItsSlot, Exists
<1> QED
  BY <1>1, <1>2, <1>3 DEF IndInv

LEMMA RemovalsKeepInvariant ==
    ASSUME IndInv, ReaperDelete \/ \E r \in Requests : DeleteRow(r)
    PROVE  IndInv'
<1>1. CASE ReaperDelete
  <2>1. reaper \in SUBSET Bookings /\ reaper' \subseteq Bookings
    BY <1>1 DEF ReaperDelete, IndInv, TypeOK
  <2>2. request' \in [Requests -> Request] /\ Carried'
    BY <1>1, RequestsStay DEF ReaperDelete
  <2> QED
    BY <1>1, <2>1, <2>2, DeletionKeepsInvariant DEF ReaperDelete
<1>2. ASSUME NEW r \in Requests, DeleteRow(r) PROVE IndInv'
  <2> DEFINE b == request[r].booking
  <2>1. b \in Bookings
    BY <1>2 DEF DeleteRow, RequestAt, IndInv, Carried, InHand
  <2>2. row' = [c \in Bookings |-> IF c \in {b} THEN Missing("deleted") ELSE row[c]]
    BY <1>2 DEF DeleteRow, IndInv, TypeOK
  <2>3. request' \in [Requests -> Request] /\ Carried'
    BY <1>2, DoneMoves DEF DeleteRow
  <2>4. UNCHANGED <<session, byHand>> /\ reaper' \subseteq Bookings
    BY <1>2 DEF DeleteRow, IndInv, TypeOK
  <2> QED
    BY <2>1, <2>2, <2>3, <2>4, DeletionKeepsInvariant
<1> QED
  BY <1>1, <1>2

\* A row that stays in the table with its slot passes the constraint.
LEMMA SameSlotFits ==
    ASSUME IndInv, NEW b \in Bookings, Exists(b)
    PROVE  Fits(b, row[b].slot)
BY DEF IndInv, NoOverlap, Fits

LEMMA HoldStepsKeepInvariant ==
    ASSUME IndInv, NEW b \in Bookings, Pay(b) \/ ConfirmPaid(b) \/ HoldAges(b)
    PROVE  IndInv'
<1>1. request' \in [Requests -> Request] /\ Carried'
  BY RequestsStay DEF Pay, ConfirmPaid, HoldAges
<1>2. CASE Pay(b)
  <2>1. session' \in [Bookings -> {"none", "open", "paid"}]
    BY <1>2 DEF Pay, IndInv, TypeOK
  <2> QED
    BY <1>1, <1>2, <2>1, QuietKeepsInvariant DEF Pay, IndInv, TypeOK
<1>3. ASSUME row[b].status = "pending_payment"
      PROVE  Live(row[b]) /\ Fits(b, row[b].slot) /\ (b \notin byHand => row[b].quoted \in {row[b].slot, NoSlot})
  <2>1. Exists(b)
    BY <1>3 DEF Exists, BookingStatus
  <2> QED
    BY <2>1, SameSlotFits DEF IndInv, TypeOK, Exists, Live, QuotedForItsSlot
<1>4. CASE ConfirmPaid(b)
  <2> DEFINE new == [row[b] EXCEPT !.status = "confirmed"]
  <2>1. Live(row[b])
    BY <1>3, <1>4 DEF ConfirmPaid
  <2>2. Live(new) /\ new.slot = row[b].slot /\ new.quoted = row[b].quoted
    BY <2>1 DEF Live, Row, BookingStatus
  <2>3. row' = [row EXCEPT ![b] = new] /\ UNCHANGED <<session, reaper, byHand>>
    BY <1>4 DEF ConfirmPaid
  <2> HIDE DEF new
  <2> QED
    BY <1>1, <1>3, <1>4, <2>2, <2>3, WriteKeepsInvariant DEF ConfirmPaid
<1>5. CASE HoldAges(b)
  <2> DEFINE new == [row[b] EXCEPT !.old = TRUE]
  <2>1. Live(row[b])
    BY <1>3, <1>5 DEF HoldAges
  <2>2. Live(new) /\ new.slot = row[b].slot /\ new.quoted = row[b].quoted
    BY <2>1 DEF Live, Row
  <2>3. row' = [row EXCEPT ![b] = new] /\ UNCHANGED <<session, reaper, byHand>>
    BY <1>5 DEF HoldAges
  <2> HIDE DEF new
  <2> QED
    BY <1>1, <1>3, <1>5, <2>2, <2>3, WriteKeepsInvariant DEF HoldAges
<1> QED
  BY <1>2, <1>4, <1>5

\* Every step keeps the invariant.
LEMMA InvariantIsInductive ==
    ASSUME IndInv, [Next]_vars
    PROVE  IndInv'
<1>1. ASSUME NEW r \in Requests, Serve(r) PROVE IndInv'
  <2>1. ASSUME NEW b \in Bookings, NEW s \in NewSlot, BookOnline(r, b, s) \/ BookByAgent(r, b, s)
        PROVE  IndInv'
    BY <2>1, BookingsKeepInvariant
  <2>2. ASSUME NEW b \in Bookings,
               \/ \E s \in Slot : Modify(r, b, s) \/ Reschedule(r, b, s)
               \/ Patch(r, b) \/ Cancel(r, b) \/ CancelByAgent(r, b) \/ Delete(r, b)
        PROVE  IndInv'
    BY <2>2, ChangesKeepInvariant
  <2>3. CASE OpenCheckout(r) \/ NoCheckout(r)
    BY <2>3, CheckoutKeepsInvariant
  <2>4. CASE Save(r)
    BY <2>4, SaveKeepsInvariant
  <2>5. CASE DeleteRow(r)
    BY <2>5, RemovalsKeepInvariant
  <2> QED
    BY <1>1, <2>1, <2>2, <2>3, <2>4, <2>5 DEF Serve
<1>2. ASSUME NEW b \in Bookings, Pay(b) \/ ConfirmPaid(b) \/ HoldAges(b) PROVE IndInv'
  BY <1>2, HoldStepsKeepInvariant
<1>3. CASE ReaperSelect
  <2>1. request' \in [Requests -> Request] /\ Carried'
    BY <1>3, RequestsStay DEF ReaperSelect
  <2>2. reaper' \subseteq Bookings
    BY <1>3 DEF ReaperSelect, StaleHolds
  <2> QED
    BY <1>3, <2>1, <2>2, QuietKeepsInvariant DEF ReaperSelect, IndInv, TypeOK
<1>4. CASE ReaperDelete
  BY <1>4, RemovalsKeepInvariant
<1>5. CASE UNCHANGED vars
  <2>1. request' \in [Requests -> Request] /\ Carried'
    BY <1>5, RequestsStay DEF vars
  <2> QED
    BY <1>5, <2>1, QuietKeepsInvariant DEF vars, IndInv, TypeOK
<1> QED
  BY <1>1, <1>2, <1>3, <1>4, <1>5 DEF Next

LEMMA InvariantHolds == Spec => []IndInv
<1>1. IndInv /\ [Next]_vars => IndInv'
  BY InvariantIsInductive
<1> QED
  BY <1>1, InitialInvariant, PTL DEF Spec

\* Every variable keeps its type, and a row has a slot exactly while it is
\* in the table, through inserts, saves, re-inserts and deletions.
THEOREM TypeCorrect == Spec => []TypeOK
<1>1. IndInv => TypeOK
  BY DEF IndInv
<1> QED
  BY <1>1, InvariantHolds, PTL

\* A booking that neither the staff nor the agent set out to move has the
\* total of the slot it is in, though PATCH saves a copy of the whole row
\* over a reschedule that was saved in the meantime.
THEOREM QuotedForItsSlotHolds == Spec => []QuotedForItsSlot
<1>1. IndInv => QuotedForItsSlot
  BY DEF IndInv
<1> QED
  BY <1>1, InvariantHolds, PTL

---------------------------------------------------------------------------
(* The calendar.  There are three kinds of step.                           *)

Writes(b, new) == Live(new) /\ Fits(b, new.slot) /\ row' = [row EXCEPT ![b] = new]
Removes(gone) == row' = [b \in Bookings |-> IF b \in gone THEN Missing("deleted") ELSE row[b]]

LEMMA ServeWritesOrRemoves ==
    ASSUME IndInv, NEW r \in Requests, Serve(r)
    PROVE  \/ UNCHANGED row
           \/ \E b \in Bookings : \E new : Writes(b, new)
           \/ \E gone \in SUBSET Bookings : Removes(gone)
<1>1. ASSUME NEW b \in Bookings, NEW s \in NewSlot, BookOnline(r, b, s)
      PROVE  Writes(b, Online(s))
  BY <1>1, NewRowsAreLive DEF BookOnline, Insert, Writes
<1>2. ASSUME NEW b \in Bookings, NEW s \in NewSlot, BookByAgent(r, b, s)
      PROVE  Writes(b, Hold(s))
  BY <1>2, NewRowsAreLive DEF BookByAgent, Insert, Writes
<1>3. ASSUME NEW b \in Bookings,
             \/ \E s \in Slot : Modify(r, b, s) \/ Reschedule(r, b, s)
             \/ Patch(r, b) \/ Cancel(r, b) \/ CancelByAgent(r, b) \/ Delete(r, b)
      PROVE  UNCHANGED row
  BY <1>3 DEF Modify, Reschedule, Patch, Cancel, CancelByAgent, Delete, Load
<1>4. ASSUME OpenCheckout(r) \/ NoCheckout(r) PROVE UNCHANGED row
  BY <1>4 DEF OpenCheckout, NoCheckout
<1>5. ASSUME Save(r) PROVE UNCHANGED row \/ \E b \in Bookings : \E new : Writes(b, new)
  <2> DEFINE q == request[r]
             b == q.booking
             again == [q.copy EXCEPT !.old = FALSE]
  <2>1. RequestAt(r, "save") /\ q.verb # "delete"
    BY <1>5 DEF Save, SaveColumns, SaveWhole
  <2>2. b \in Bookings /\ Live(q.copy)
    BY <2>1 DEF IndInv, Carried, InHand, RequestAt
  <2>3. CASE Exists(b)
    <3> DEFINE new == Saved(q, row[b])
    <3>1. Live(new)
      BY <2>1, <2>3, SavedRow
    <3>2. UNCHANGED row \/ (Fits(b, new.slot) /\ row' = [row EXCEPT ![b] = new])
      BY <1>5, <2>3 DEF Save, SaveColumns, SaveWhole
    <3> HIDE DEF new, q
    <3> QED
      BY <2>2, <3>1, <3>2 DEF Writes
  <2>4. CASE ~Exists(b)
    <3>1. Live(again)
      BY <2>2 DEF Live, Row
    <3>2. UNCHANGED row \/ (Fits(b, again.slot) /\ row' = [row EXCEPT ![b] = again])
      BY <1>5, <2>4 DEF Save, SaveColumns, SaveWhole
    <3> HIDE DEF again, q
    <3> QED
      BY <2>2, <3>1, <3>2 DEF Writes
  <2> QED
    BY <2>3, <2>4
<1>6. ASSUME DeleteRow(r) PROVE \E gone \in SUBSET Bookings : Removes(gone)
  <2> DEFINE b == request[r].booking
  <2>1. b \in Bookings
    BY <1>6 DEF DeleteRow, RequestAt, IndInv, Carried, InHand
  <2>2. Removes({b})
    BY <1>6 DEF DeleteRow, IndInv, TypeOK, Removes
  <2> QED
    BY <2>1, <2>2
<1> QED
  BY <1>1, <1>2, <1>3, <1>4, <1>5, <1>6 DEF Serve

LEMMA StepsWriteOrRemove ==
    ASSUME IndInv, [Next]_vars
    PROVE  \/ UNCHANGED row
           \/ \E b \in Bookings : \E new : Writes(b, new)
           \/ \E gone \in SUBSET Bookings : Removes(gone)
<1>1. ASSUME NEW b \in Bookings, NEW new, NEW old, Exists(b), old = row[b],
             new \in Row, new.status \in BookingStatus, new.slot = old.slot,
             row' = [row EXCEPT ![b] = new]
      PROVE  Writes(b, new)
  BY <1>1, SameSlotFits DEF Writes, Live, IndInv, TypeOK
<1>2. ASSUME NEW b \in Bookings, ConfirmPaid(b) \/ HoldAges(b)
      PROVE  \E new : Writes(b, new)
  <2> DEFINE confirmed == [row[b] EXCEPT !.status = "confirmed"]
             aged == [row[b] EXCEPT !.old = TRUE]
  <2>1. Exists(b)
    BY <1>2 DEF ConfirmPaid, HoldAges, Exists, BookingStatus
  <2>2. row[b] \in Row /\ row[b].status \in BookingStatus
    BY <2>1 DEF IndInv, TypeOK, Exists
  <2>3. confirmed \in Row /\ confirmed.status \in BookingStatus /\ confirmed.slot = row[b].slot
    BY <2>2 DEF Row, BookingStatus
  <2>4. aged \in Row /\ aged.status \in BookingStatus /\ aged.slot = row[b].slot
    BY <2>2 DEF Row
  <2>5. row' = [row EXCEPT ![b] = confirmed] \/ row' = [row EXCEPT ![b] = aged]
    BY <1>2 DEF ConfirmPaid, HoldAges
  <2> HIDE DEF confirmed, aged
  <2> QED
    BY <1>1, <2>1, <2>3, <2>4, <2>5
<1>3. ASSUME ReaperDelete PROVE \E gone \in SUBSET Bookings : Removes(gone)
  BY <1>3 DEF ReaperDelete, Removes, IndInv, TypeOK
<1>4. ASSUME ReaperSelect \/ UNCHANGED vars \/ \E b \in Bookings : Pay(b)
      PROVE  UNCHANGED row
  BY <1>4 DEF ReaperSelect, vars, Pay
<1> QED
  BY <1>2, <1>3, <1>4, ServeWritesOrRemoves DEF Next

Held == [b \in Bookings |-> row[b].slot]

LEMMA StepsImplementCalendar ==
    ASSUME IndInv, [Next]_vars
    PROVE  SlotsHeld!Next \/ UNCHANGED Held
<1>1. ASSUME UNCHANGED row PROVE UNCHANGED Held
  BY <1>1 DEF Held
<1>2. ASSUME NEW b \in Bookings, NEW new, Writes(b, new) PROVE SlotsHeld!Next
  <2>1. new.slot \in Slot /\ Fits(b, new.slot) /\ row' = [row EXCEPT ![b] = new]
    BY <1>2 DEF Writes, Live
  <2>2. \A c \in Bookings : row[c].slot # NoSlot => Exists(c)
    <3>1. \A c \in Bookings : row[c].slot \in Slot \cup {NoSlot}
      BY DEF IndInv, TypeOK, Row
    <3> QED
      BY <3>1 DEF IndInv, TypeOK
  <2>3. SlotsHeld!Free(b, new.slot)
    BY <2>1, <2>2 DEF Fits, SlotsHeld!Free, SlotsHeld!NoSlot, NoSlot, SlotsHeld!Overlap, Overlap
  <2>4. Held' = [Held EXCEPT ![b] = new.slot]
    BY <2>1 DEF Held, IndInv, TypeOK
  <2>5. SlotsHeld!Take(b, new.slot)
    BY <2>3, <2>4 DEF SlotsHeld!Take, Held
  <2> QED
    BY <2>1, <2>5 DEF SlotsHeld!Next, SlotsHeld!Slot, Slot
<1>3. ASSUME NEW gone \in SUBSET Bookings, Removes(gone) PROVE SlotsHeld!Next
  <2>1. Missing("deleted").slot = NoSlot
    BY MissingIsRow DEF NoRow
  <2>2. Held' = [b \in Bookings |-> IF b \in gone THEN NoSlot ELSE Held[b]]
    BY <1>3, <2>1 DEF Held, Removes
  <2>3. SlotsHeld!Release(gone)
    BY <2>2 DEF SlotsHeld!Release, SlotsHeld!NoSlot, NoSlot, Held
  <2> QED
    BY <2>3 DEF SlotsHeld!Next
<1> QED
  BY <1>1, <1>2, <1>3, StepsWriteOrRemove

\* The bookings implement the abstract calendar: every request, event and
\* job takes one free slot at one instant, or gives slots up, or changes no
\* slot.
THEOREM CalendarImplemented == Spec => ImplementsCalendar
<1>1. Init => SlotsHeld!Init
  <2> SUFFICES ASSUME Init PROVE SlotsHeld!Init
    OBVIOUS
  <2>1. IndInv
    BY InitialInvariant
  <2>2. \A b \in Bookings : row[b].slot \in Slot \cup {NoSlot}
    BY <2>1 DEF IndInv, TypeOK, Row
  <2>3. \A b \in Bookings : row[b].slot # NoSlot => Exists(b)
    BY <2>1, <2>2 DEF IndInv, TypeOK
  <2>4. \A b, c \in Bookings : b # c /\ row[b].slot # NoSlot /\ row[c].slot # NoSlot =>
          ~Overlap(row[b].slot, row[c].slot)
    BY <2>1, <2>3 DEF IndInv, NoOverlap
  <2> QED
    BY <2>2, <2>4 DEF SlotsHeld!Init, SlotsHeld!Free, SlotsHeld!NoSlot, NoSlot,
       SlotsHeld!Slot, Slot, SlotsHeld!Overlap, Overlap
<1>2. IndInv /\ [Next]_vars => [SlotsHeld!Next]_Held
  BY StepsImplementCalendar
<1> QED
  BY <1>1, <1>2, InvariantHolds, PTL DEF Spec, ImplementsCalendar, SlotsHeld!Spec, Held

---------------------------------------------------------------------------
(* The sweep over a day's bookings, for any bookings and hours.            *)

LEMMA LeastOfSome ==
    ASSUME NEW T, T \subseteq Nat, T # {}
    PROVE  \E n \in T : \A m \in T : n <= m
<1>1. PICK n \in T : \A m \in T : ~ (<<m, n>> \in OpToRel(<, Nat))
  BY NatLessThanWellFounded, WFMin
<1>2. OpToRel(<, Nat) = {p \in Nat \X Nat : p[1] < p[2]}
  BY DEF OpToRel
<1>3. ASSUME NEW m \in T PROVE n <= m
  <2>1. ~ (<<m, n>> \in {p \in Nat \X Nat : p[1] < p[2]})
    BY <1>1, <1>2
  <2>2. ~ (m < n)
    BY <2>1
  <2> QED
    BY <2>2
<1> QED
  BY <1>3

LEMMA GreaterOfTwo ==
    ASSUME NEW a \in Int, NEW b \in Int
    PROVE  Max({a, b}) = IF a >= b THEN a ELSE b
<1>1. PICK x \in {a, b} : \A y \in {a, b} : x >= y
  OBVIOUS
<1>2. Max({a, b}) \in {a, b} /\ \A y \in {a, b} : Max({a, b}) >= y
  BY <1>1 DEF Max
<1> QED
  BY <1>2

LEMMA LesserOfTwo ==
    ASSUME NEW a \in Int, NEW b \in Int
    PROVE  Min({a, b}) = IF a <= b THEN a ELSE b
<1>1. PICK x \in {a, b} : \A y \in {a, b} : x <= y
  OBVIOUS
<1>2. Min({a, b}) \in {a, b} /\ \A y \in {a, b} : Min({a, b}) <= y
  BY <1>1 DEF Min
<1> QED
  BY <1>2

LEMMA SlotsAreFinite == IsFiniteSet(Slot)
<1> DEFINE Times == 0..Horizon
           Spans == [start : Times, end : Times]
           span == [p \in Times \X Times |-> [start |-> p[1], end |-> p[2]]]
<1>1. IsFiniteSet(Times)
  BY HorizonAssumption, FS_Interval
<1>2. IsFiniteSet(Times \X Times)
  <2> HIDE DEF Times
  <2> QED
    BY <1>1, FS_Product
<1>3. span \in Surjection(Times \X Times, Spans)
  <2>1. span \in [Times \X Times -> Spans]
    OBVIOUS
  <2>2. ASSUME NEW s \in Spans PROVE \E p \in Times \X Times : span[p] = s
    <3>1. s = [start |-> s.start, end |-> s.end] /\ s.start \in Times /\ s.end \in Times
      OBVIOUS
    <3>2. <<s.start, s.end>> \in Times \X Times
      BY <3>1
    <3>3. span[<<s.start, s.end>>] = [start |-> s.start, end |-> s.end]
      BY <3>2
    <3> QED
      BY <3>1, <3>2, <3>3
  <2> HIDE DEF span, Spans
  <2> QED
    BY <2>1, <2>2 DEF Surjection
<1>4. IsFiniteSet(Spans)
  <2> HIDE DEF span, Spans, Times
  <2> QED
    BY <1>2, <1>3, FS_Surjection
<1>5. Slot \subseteq Spans
  BY DEF Slot
<1> QED
  <2> HIDE DEF Spans
  <2> QED
    BY <1>4, <1>5, FS_Subset

Sorted(e) == \A i, j \in DOMAIN e : i < j => e[i].start <= e[j].start

LEMMA LatestOfSome ==
    ASSUME NEW T, T \subseteq Slot, T # {}
    PROVE  \E m \in T : \A t \in T : t.start <= m.start
<1> DEFINE Left == {Horizon - t.start : t \in T}
<1>1. \A t \in T : t.start \in 0..Horizon
  BY DEF Slot
<1>2. Left \subseteq Nat /\ Left # {}
  BY <1>1, HorizonAssumption
<1>3. PICK n \in Left : \A k \in Left : n <= k
  <2> HIDE DEF Left
  <2> QED
    BY <1>2, LeastOfSome
<1>4. PICK m \in T : n = Horizon - m.start
  OBVIOUS
<1>5. ASSUME NEW t \in T PROVE t.start <= m.start
  <2>1. Horizon - t.start \in Left
    OBVIOUS
  <2>2. Horizon - m.start <= Horizon - t.start
    BY <1>3, <1>4, <2>1
  <2>3. t.start \in 0..Horizon /\ m.start \in 0..Horizon
    BY <1>1
  <2> QED
    BY <2>2, <2>3, HorizonAssumption
<1> QED
  BY <1>5

\* Any bookings can be put in the order of their starts, as the query does.
LEMMA SomeOrder ==
    ASSUME NEW S, S \subseteq Slot
    PROVE  /\ Cardinality(S) \in Nat
           /\ \E e \in Surjection(1..Cardinality(S), S) : Sorted(e)
<1> DEFINE Good(n) == \A T \in SUBSET Slot : Cardinality(T) = n =>
                        \E e \in Surjection(1..n, T) : Sorted(e)
           Bad == {n \in Nat : ~Good(n)}
<1>1. \A T \in SUBSET Slot : IsFiniteSet(T) /\ Cardinality(T) \in Nat
  BY SlotsAreFinite, FS_Subset, FS_CardinalityType
<1>2. Bad = {}
  <2> SUFFICES ASSUME Bad # {} PROVE FALSE
    OBVIOUS
  <2>1. PICK n \in Bad : \A k \in Bad : n <= k
    <3>1. Bad \subseteq Nat
      OBVIOUS
    <3> HIDE DEF Bad
    <3> QED
      BY <3>1, LeastOfSome
  <2>2. n \in Nat /\ ~Good(n)
    OBVIOUS
  <2>3. PICK T \in SUBSET Slot : Cardinality(T) = n /\ ~ \E e \in Surjection(1..n, T) : Sorted(e)
    BY <2>2
  <2>4. n # 0
    <3> SUFFICES ASSUME n = 0 PROVE FALSE
      OBVIOUS
    <3>1. T = {}
      BY <1>1, <2>3, FS_EmptySet
    <3>2. [i \in 1..0 |-> 0] \in Surjection(1..0, {}) /\ Sorted([i \in 1..0 |-> 0])
      BY DEF Surjection, Sorted
    <3> QED
      BY <2>3, <3>1, <3>2
  <2>5. PICK m \in T : \A t \in T : t.start <= m.start
    <3>1. T # {}
      BY <2>3, <2>4, FS_EmptySet
    <3> QED
      BY <3>1, LatestOfSome
  <2>6. T \ {m} \in SUBSET Slot /\ Cardinality(T \ {m}) = n - 1
    BY <1>1, <2>3, <2>5, FS_RemoveElement
  <2>7. Good(n - 1)
    BY <2>1, <2>2, <2>4
  <2>8. PICK e \in Surjection(1..(n - 1), T \ {m}) : Sorted(e)
    BY <2>6, <2>7
  <2>9. /\ e \in [1..(n - 1) -> T \ {m}] /\ \A t \in T \ {m} : \E i \in 1..(n - 1) : e[i] = t
    BY <2>8 DEF Surjection
  <2> DEFINE h == [i \in 1..n |-> IF i = n THEN m ELSE e[i]]
  <2>10. /\ \A i \in 1..n : i # n => i \in 1..(n - 1) /\ h[i] = e[i]
         /\ n \in 1..n /\ h[n] = m /\ DOMAIN h = 1..n
         /\ \A i \in 1..(n - 1) : i \in 1..n /\ i # n
    BY <2>2, <2>4
  <2> HIDE DEF h, Good, Bad
  <2>11. h \in [1..n -> T]
    BY <2>9, <2>10 DEF h
  <2>12. \A t \in T : \E i \in 1..n : h[i] = t
    BY <2>9, <2>10
  <2>13. Sorted(h)
    <3> SUFFICES ASSUME NEW i \in 1..n, NEW j \in 1..n, i < j PROVE h[i].start <= h[j].start
      BY <2>10 DEF Sorted
    <3>1. i # n
      BY <2>2
    <3>2. h[i] \in T /\ h[i] = e[i] /\ i \in 1..(n - 1)
      BY <2>10, <2>11, <3>1
    <3>3. CASE j = n
      BY <2>5, <2>10, <3>2, <3>3
    <3>4. CASE j # n
      BY <2>8, <2>9, <2>10, <3>2, <3>4 DEF Sorted
    <3> QED
      BY <3>3, <3>4
  <2> QED
    BY <2>3, <2>11, <2>12, <2>13 DEF Surjection
<1>3. S \in SUBSET Slot /\ Cardinality(S) \in Nat
  BY <1>1
<1>4. Good(Cardinality(S))
  BY <1>2, <1>3
<1> QED
  BY <1>3, <1>4

\* What the sweep knows after some of the bookings.
Gap == [start : Int, end : Int]
Swept == [cursor : Int, free : SUBSET Gap]

LEMMA OneTurn ==
    ASSUME NEW day \in Swept, NEW b \in Slot, NEW hours \in Slot,
           NEW start, start = IF b.start >= hours.start THEN b.start ELSE hours.start,
           NEW end, end = IF b.end <= hours.end THEN b.end ELSE hours.end,
           NEW next, next = MovePast(day, b, hours)
    PROVE  /\ next \in Swept
           /\ next.cursor = IF day.cursor >= end THEN day.cursor ELSE end
           /\ start <= day.cursor => next.free = day.free
           /\ start > day.cursor =>
                next.free = day.free \cup {[start |-> day.cursor, end |-> start]}
<1>1. /\ b.start \in Int /\ b.end \in Int /\ hours.start \in Int /\ hours.end \in Int
      /\ day.cursor \in Int /\ day.free \in SUBSET Gap
  BY DEF Slot, Swept
<1>2. start \in Int
  BY <1>1
<1>3. end \in Int
  BY <1>1
<1>4. Max({b.start, hours.start}) = start /\ Min({b.end, hours.end}) = end
  BY <1>1, <1>2, <1>3, GreaterOfTwo, LesserOfTwo
<1>5. Max({day.cursor, end}) = IF day.cursor >= end THEN day.cursor ELSE end
  BY <1>1, GreaterOfTwo
<1>6. next = [cursor |-> IF day.cursor >= end THEN day.cursor ELSE end,
              free |-> day.free \cup
                IF start > day.cursor THEN {[start |-> day.cursor, end |-> start]} ELSE {}]
  BY <1>4, <1>5 DEF MovePast
<1>7. next.cursor = IF day.cursor >= end THEN day.cursor ELSE end
  BY <1>6
<1>8. next.free = day.free \cup
        IF start > day.cursor THEN {[start |-> day.cursor, end |-> start]} ELSE {}
  BY <1>6
<1>9. next \in Swept
  BY <1>1, <1>6 DEF Swept, Gap
<1>10. start <= day.cursor => ~(start > day.cursor)
  BY <1>1
<1> QED
  BY <1>2, <1>3, <1>7, <1>8, <1>9, <1>10

\* g is the sweep over e, a sequence of n bookings.
Sweeps(g, e, n, hours) ==
    /\ g[0] = [cursor |-> hours.start, free |-> {}]
    /\ \A k \in 1..n : g[k] = MovePast(g[k - 1], e[k], hours)

LEMMA SomethingSweeps ==
    ASSUME NEW N \in Nat, NEW e \in [1..N -> Slot], NEW hours \in Slot
    PROVE  \E g \in [0..N -> Swept] : Sweeps(g, e, N, hours)
<1> DEFINE Good(n) == \E g \in [0..n -> Swept] : Sweeps(g, e, n, hours)
           Bad == {n \in 0..N : ~Good(n)}
<1>1. Bad = {}
  <2> SUFFICES ASSUME Bad # {} PROVE FALSE
    OBVIOUS
  <2>1. PICK n \in Bad : \A m \in Bad : n <= m
    <3>1. Bad \subseteq Nat
      OBVIOUS
    <3> HIDE DEF Bad
    <3> QED
      BY <3>1, LeastOfSome
  <2>2. n \in 0..N /\ ~Good(n)
    OBVIOUS
  <2>3. Good(0)
    <3> DEFINE morning == [cursor |-> hours.start, free |-> {}]
    <3>1. morning \in Swept
      BY DEF Swept, Slot
    <3>2. [i \in 0..0 |-> morning] \in [0..0 -> Swept] /\ [i \in 0..0 |-> morning][0] = morning
      BY <3>1
    <3>3. 1..0 = {}
      OBVIOUS
    <3> QED
      BY <3>2, <3>3 DEF Sweeps
  <2>4. n # 0
    BY <2>2, <2>3
  <2> HIDE DEF Good
  <2>5. n - 1 \in 0..N /\ ~(n <= n - 1) /\ n \in 1..N /\ n \in Nat
    BY <2>2, <2>4
  <2>6. Good(n - 1)
    BY <2>1, <2>5
  <2>7. PICK g \in [0..(n - 1) -> Swept] : Sweeps(g, e, n - 1, hours)
    BY <2>6 DEF Good
  <2>8. PICK last \in Swept : last = MovePast(g[n - 1], e[n], hours)
    <3>1. g[n - 1] \in Swept /\ e[n] \in Slot
      BY <2>5
    <3>2. PICK start : start = IF e[n].start >= hours.start THEN e[n].start ELSE hours.start
      OBVIOUS
    <3>3. PICK end : end = IF e[n].end <= hours.end THEN e[n].end ELSE hours.end
      OBVIOUS
    <3> QED
      BY <3>1, <3>2, <3>3, OneTurn
  <2> DEFINE h == [i \in 0..n |-> IF i = n THEN last ELSE g[i]]
  <2>9. /\ h \in [0..n -> Swept] /\ h[n] = last
        /\ \A i \in 0..(n - 1) : h[i] = g[i]
    BY <2>5
  <2> HIDE DEF h
  <2>10. h[0] = [cursor |-> hours.start, free |-> {}]
    BY <2>5, <2>7, <2>9 DEF Sweeps
  <2>11. ASSUME NEW k \in 1..n PROVE h[k] = MovePast(h[k - 1], e[k], hours)
    <3>1. k - 1 \in 0..(n - 1) /\ (k = n \/ k \in 1..(n - 1)) /\ (k # n => k \in 0..(n - 1))
      BY <2>5
    <3>2. CASE k = n
      BY <2>8, <2>9, <3>1, <3>2
    <3>3. CASE k # n
      BY <2>7, <2>9, <3>1, <3>3 DEF Sweeps
    <3> QED
      BY <3>2, <3>3
  <2>12. Good(n)
    BY <2>9, <2>10, <2>11 DEF Good, Sweeps
  <2> QED
    BY <2>2, <2>12
<1>2. N \in 0..N
  OBVIOUS
<1> HIDE DEF Good
<1>3. Good(N)
  BY <1>1, <1>2
<1> QED
  BY <1>3 DEF Good

LEMMA AvailabilityIsASweep ==
    ASSUME NEW S, S \subseteq Slot, NEW hours \in Slot
    PROVE  \E n \in Nat : \E e \in Surjection(1..n, S) : \E g :
             /\ Sorted(e) /\ Sweeps(g, e, n, hours)
             /\ Availability(S, hours) = g[n].free \cup
                  IF g[n].cursor < hours.end THEN {[start |-> g[n].cursor, end |-> hours.end]} ELSE {}
<1> DEFINE n == Cardinality(S)
           e == InOrder(S)
           Turn(f) == [k \in 0..n |-> IF k = 0 THEN [cursor |-> hours.start, free |-> {}]
                                      ELSE MovePast(f[k - 1], e[k], hours)]
           swept == CHOOSE f : f = Turn(f)
<1>1. n \in Nat /\ e \in Surjection(1..n, S) /\ Sorted(e)
  BY SomeOrder DEF InOrder, Sorted
<1>2. Availability(S, hours) = swept[n].free \cup
        IF swept[n].cursor < hours.end THEN {[start |-> swept[n].cursor, end |-> hours.end]} ELSE {}
  BY DEF Availability
<1> HIDE DEF n, e
<1>3. e \in [1..n -> Slot]
  BY <1>1 DEF Surjection
<1>4. PICK g \in [0..n -> Swept] : Sweeps(g, e, n, hours)
  BY <1>1, <1>3, SomethingSweeps
<1>5. g = Turn(g)
  <2>1. \A k \in 0..n : k # 0 => k \in 1..n
    BY <1>1
  <2> QED
    BY <1>4, <2>1 DEF Sweeps
<1>6. swept = Turn(swept)
  BY <1>5
<1> HIDE DEF swept
<1>7. Sweeps(swept, e, n, hours)
  <2>1. 0 \in 0..n /\ \A k \in 1..n : k \in 0..n /\ k # 0
    BY <1>1
  <2> QED
    BY <1>6, <2>1 DEF Sweeps
<1> QED
  BY <1>1, <1>2, <1>7

Inside(s, t) == t.start <= s.start /\ s.end <= t.end
Clear(s, e) == \A j \in DOMAIN e : ~Overlap(s, e[j])

\* After k bookings: the cursor is past each of them; a slot that is clear of all the
\* bookings lies past the cursor or in a gap; and one in a gap is clear of all.
SweptTo(day, k, e, hours, s) ==
    /\ day \in Swept /\ hours.start <= day.cursor
    /\ \A j \in DOMAIN e : j <= k => e[j].end <= day.cursor \/ hours.end <= day.cursor
    /\ Clear(s, e) => day.cursor <= s.start \/ \E f \in day.free : Inside(s, f)
    /\ (\E f \in day.free : Inside(s, f)) => Clear(s, e)

LEMMA TurnKeepsDone ==
    ASSUME NEW N \in Nat, NEW e \in [1..N -> Slot], Sorted(e), NEW hours \in Slot, NEW s \in Slot,
           Inside(s, hours), NEW k \in 1..N, NEW day, SweptTo(day, k - 1, e, hours, s), NEW next,
           next = MovePast(day, e[k], hours)
    PROVE  SweptTo(next, k, e, hours, s)
<1>1. day \in Swept /\ e[k] \in Slot
  BY DEF SweptTo
<1>2. /\ e[k].start \in Int /\ e[k].end \in Int /\ hours.start \in Int /\ hours.end \in Int
      /\ s.start \in Int /\ s.end \in Int /\ s.start < s.end /\ day.cursor \in Int
      /\ hours.start <= s.start /\ s.end <= hours.end
  BY <1>1 DEF Slot, Swept, Inside
<1>3. PICK start \in Int : start = IF e[k].start >= hours.start THEN e[k].start ELSE hours.start
  BY <1>2
<1>4. PICK end \in Int : end = IF e[k].end <= hours.end THEN e[k].end ELSE hours.end
  BY <1>2
<1>5. /\ next \in Swept
      /\ next.cursor = IF day.cursor >= end THEN day.cursor ELSE end
      /\ start <= day.cursor => next.free = day.free
      /\ start > day.cursor => next.free = day.free \cup {[start |-> day.cursor, end |-> start]}
  BY <1>1, <1>3, <1>4, OneTurn, SMTT(30)
<1>6. next.cursor \in Int /\ next.cursor >= day.cursor /\ next.cursor >= end
  BY <1>2, <1>4, <1>5
<1>7. hours.start <= next.cursor
  BY <1>2, <1>6 DEF SweptTo
<1>8. ASSUME NEW j \in DOMAIN e, j <= k PROVE e[j].end <= next.cursor \/ hours.end <= next.cursor
  <2>1. e[j].end \in Int
    BY DEF Slot
  <2>2. CASE j = k
    BY <1>2, <1>4, <1>6, <2>2
  <2>3. CASE j # k
    <3>1. j <= k - 1
      BY <1>8, <2>3
    <3>2. e[j].end <= day.cursor \/ hours.end <= day.cursor
      BY <3>1 DEF SweptTo
    <3> QED
      BY <1>2, <1>6, <2>1, <3>2
  <2> QED
    BY <2>2, <2>3
<1>9. \A f \in day.free : f \in next.free
  BY <1>2, <1>5
<1>10. ASSUME Clear(s, e) PROVE next.cursor <= s.start \/ \E f \in next.free : Inside(s, f)
  <2>1. CASE \E f \in day.free : Inside(s, f)
    BY <1>9, <2>1
  <2>2. CASE day.cursor <= s.start
    <3>1. e[k].end <= s.start \/ s.end <= e[k].start
      BY <1>2, <1>10 DEF Clear, Overlap
    <3>2. CASE e[k].end <= s.start
      BY <1>2, <1>4, <1>5, <2>2, <3>2
    <3>3. CASE s.end <= e[k].start
      <4>1. start >= s.end /\ start > day.cursor
        BY <1>2, <1>3, <2>2, <3>3
      <4>2. [start |-> day.cursor, end |-> start] \in next.free
        BY <1>5, <4>1
      <4>3. Inside(s, [start |-> day.cursor, end |-> start])
        BY <1>2, <2>2, <4>1 DEF Inside
      <4> QED
        BY <4>2, <4>3
    <3> QED
      BY <3>1, <3>2, <3>3
  <2> QED
    BY <1>10, <2>1, <2>2 DEF SweptTo
<1>11. ASSUME NEW f \in next.free, Inside(s, f) PROVE Clear(s, e)
  <2>1. CASE f \in day.free
    BY <1>11, <2>1 DEF SweptTo
  <2>2. CASE f \notin day.free
    <3>1. start > day.cursor /\ f = [start |-> day.cursor, end |-> start]
      BY <1>2, <1>5, <2>2
    <3>2. day.cursor <= s.start /\ s.end <= start
      BY <1>11, <3>1 DEF Inside
    <3>3. start = e[k].start
      BY <1>2, <1>3, <3>1 DEF SweptTo
    <3> SUFFICES ASSUME NEW j \in DOMAIN e PROVE ~Overlap(s, e[j])
      BY DEF Clear
    <3>4. j \in 1..N /\ e[j].start \in Int /\ e[j].end \in Int
      BY DEF Slot
    <3>5. CASE j <= k - 1
      <4>1. e[j].end <= day.cursor \/ hours.end <= day.cursor
        BY <3>5 DEF SweptTo
      <4>2. e[j].end <= s.start
        BY <1>2, <3>2, <3>4, <4>1
      <4> QED
        BY <1>2, <3>4, <4>2 DEF Overlap
    <3>6. CASE j >= k
      <4>1. e[k].start <= e[j].start
        <5>1. CASE j = k
          BY <1>2, <5>1
        <5>2. CASE k < j
          BY <3>4, <5>2 DEF Sorted
        <5> QED
          BY <3>4, <3>6, <5>1, <5>2
      <4>2. s.end <= e[j].start
        BY <1>2, <3>2, <3>3, <3>4, <4>1
      <4> QED
        BY <1>2, <3>4, <4>2 DEF Overlap
    <3> QED
      BY <3>4, <3>5, <3>6
  <2> QED
    BY <2>1, <2>2
<1> QED
  BY <1>5, <1>7, <1>8, <1>10, <1>11 DEF SweptTo

LEMMA SweepIsDone ==
    ASSUME NEW N \in Nat, NEW e \in [1..N -> Slot], Sorted(e), NEW hours \in Slot, NEW s \in Slot,
           Inside(s, hours), NEW g, Sweeps(g, e, N, hours)
    PROVE  SweptTo(g[N], N, e, hours, s)
<1> DEFINE Bad == {n \in 0..N : ~SweptTo(g[n], n, e, hours, s)}
<1>1. Bad = {}
  <2> SUFFICES ASSUME Bad # {} PROVE FALSE
    OBVIOUS
  <2>1. PICK n \in Bad : \A m \in Bad : n <= m
    <3>1. Bad \subseteq Nat
      OBVIOUS
    <3> HIDE DEF Bad
    <3> QED
      BY <3>1, LeastOfSome
  <2>2. n \in 0..N /\ ~SweptTo(g[n], n, e, hours, s)
    OBVIOUS
  <2>3. SweptTo(g[0], 0, e, hours, s)
    <3>1. g[0] \in Swept /\ g[0].cursor = hours.start /\ g[0].free = {} /\ hours.start \in Int
      BY DEF Sweeps, Swept, Slot
    <3>2. \A j \in DOMAIN e : ~(j <= 0)
      OBVIOUS
    <3> QED
      BY <3>1, <3>2 DEF SweptTo, Inside
  <2>4. n # 0
    BY <2>2, <2>3
  <2>5. n - 1 \in 0..N /\ ~(n <= n - 1) /\ n \in 1..N
    BY <2>2, <2>4
  <2>6. SweptTo(g[n - 1], n - 1, e, hours, s)
    BY <2>1, <2>5
  <2>7. g[n] = MovePast(g[n - 1], e[n], hours)
    BY <2>5 DEF Sweeps
  <2> QED
    BY <2>2, <2>5, <2>6, <2>7, TurnKeepsDone
<1>2. N \in 0..N
  OBVIOUS
<1> QED
  BY <1>1, <1>2

\* A slot within the hours lies in a free stretch exactly when no booking overlaps it.
LEMMA FreeStretches ==
    ASSUME NEW S, S \subseteq Slot, NEW hours \in Slot, NEW s \in Slot, Inside(s, hours)
    PROVE  (\A b \in S : ~Overlap(s, b)) <=> \E f \in Availability(S, hours) : Inside(s, f)
<1>1. PICK n \in Nat : \E e \in Surjection(1..n, S) : \E g :
        /\ Sorted(e) /\ Sweeps(g, e, n, hours)
        /\ Availability(S, hours) = g[n].free \cup
             IF g[n].cursor < hours.end THEN {[start |-> g[n].cursor, end |-> hours.end]} ELSE {}
  BY AvailabilityIsASweep
<1>2. PICK e \in Surjection(1..n, S) : \E g :
        /\ Sorted(e) /\ Sweeps(g, e, n, hours)
        /\ Availability(S, hours) = g[n].free \cup
             IF g[n].cursor < hours.end THEN {[start |-> g[n].cursor, end |-> hours.end]} ELSE {}
  BY <1>1
<1>3. PICK g :
        /\ Sorted(e) /\ Sweeps(g, e, n, hours)
        /\ Availability(S, hours) = g[n].free \cup
             IF g[n].cursor < hours.end THEN {[start |-> g[n].cursor, end |-> hours.end]} ELSE {}
  BY <1>2
<1>4. e \in [1..n -> Slot] /\ ((\A b \in S : ~Overlap(s, b)) <=> Clear(s, e))
  <2>1. e \in [1..n -> S] /\ \A b \in S : \E i \in 1..n : e[i] = b
    BY DEF Surjection
  <2> QED
    BY <2>1 DEF Clear
<1>5. SweptTo(g[n], n, e, hours, s)
  BY <1>3, <1>4, SweepIsDone
<1>6. /\ g[n].cursor \in Int /\ s.start \in Int /\ s.end \in Int /\ s.start < s.end
      /\ hours.end \in Int /\ s.end <= hours.end
  BY <1>5 DEF SweptTo, Swept, Slot, Inside
<1>7. ASSUME Clear(s, e) PROVE \E f \in Availability(S, hours) : Inside(s, f)
  <2>1. CASE \E f \in g[n].free : Inside(s, f)
    BY <1>3, <2>1
  <2>2. CASE g[n].cursor <= s.start
    <3>1. g[n].cursor < hours.end
      BY <1>6, <2>2
    <3>2. [start |-> g[n].cursor, end |-> hours.end] \in Availability(S, hours)
      BY <1>3, <3>1
    <3>3. Inside(s, [start |-> g[n].cursor, end |-> hours.end])
      BY <1>6, <2>2 DEF Inside
    <3> QED
      BY <3>2, <3>3
  <2> QED
    BY <1>5, <1>7, <2>1, <2>2 DEF SweptTo
<1>8. ASSUME NEW f \in Availability(S, hours), Inside(s, f) PROVE Clear(s, e)
  <2>1. CASE f \in g[n].free
    BY <1>5, <1>8, <2>1 DEF SweptTo
  <2>2. CASE f \notin g[n].free
    <3>1. g[n].cursor < hours.end /\ f = [start |-> g[n].cursor, end |-> hours.end]
      BY <1>3, <2>2
    <3>2. g[n].cursor <= s.start
      BY <1>8, <3>1 DEF Inside
    <3> SUFFICES ASSUME NEW j \in DOMAIN e PROVE ~Overlap(s, e[j])
      BY DEF Clear
    <3>3. j \in 1..n /\ j <= n /\ e[j].start \in Int /\ e[j].end \in Int
      BY <1>4 DEF Slot
    <3>4. e[j].end <= g[n].cursor
      BY <1>5, <1>6, <3>1, <3>3 DEF SweptTo
    <3> QED
      BY <1>6, <3>2, <3>3, <3>4 DEF Overlap
  <2> QED
    BY <2>1, <2>2
<1> QED
  BY <1>4, <1>7, <1>8

---------------------------------------------------------------------------
(* What the two channels offer.                                            *)

Standing == {b \in Bookings : Exists(b) /\ row[b].status # "cancelled"}

LEMMA FreeForIsFree ==
    ASSUME TypeOK, NEW hours \in Slot, NEW s \in Slot, Inside(s, hours)
    PROVE  FreeFor(s) <=> \E f \in Availability({row[b].slot : b \in Standing}, hours) : Inside(s, f)
<1> DEFINE S == {row[b].slot : b \in Standing}
<1>1. S \subseteq Slot
  BY DEF Standing, TypeOK
<1>2. FreeFor(s) <=> \A x \in S : ~Overlap(s, x)
  BY DEF FreeFor, Standing
<1> HIDE DEF S
<1>3. FreeFor(s) <=> \E f \in Availability(S, hours) : Inside(s, f)
  BY <1>1, <1>2, FreeStretches
<1> QED
  BY <1>3 DEF S

\* Each window that is looked at is the slot, moved.
LEMMA WindowsAreMoved ==
    ASSUME NEW s, NEW k \in DOMAIN Windows(s, 1, Horizon)
    PROVE  \E d \in Int : Windows(s, 1, Horizon)[k] = [start |-> s.start + d, end |-> s.end + d]
<1> DEFINE offsets == <<-1, 1, -2 * 1, 2 * 1, Horizon>>
<1>1. Windows(s, 1, Horizon) =
        [i \in 1..5 |-> [start |-> s.start + offsets[i], end |-> s.end + offsets[i]]]
  BY DEF Windows
<1>2. offsets[1] \in Int /\ offsets[2] \in Int /\ offsets[3] \in Int
  OBVIOUS
<1>3. offsets[4] \in Int /\ offsets[5] \in Int
  BY HorizonAssumption
<1> HIDE DEF offsets
<1>4. k \in 1..5
  BY <1>1
<1>5. offsets[k] \in Int
  BY <1>2, <1>3, <1>4
<1> QED
  BY <1>1, <1>4, <1>5

\* The web calendar's sweep over the day and the agent's free test offer the same slots,
\* whatever the business hours and the bookings, and what the agent suggests instead of
\* a taken slot is in a free stretch too (_compute_availability, _resources_free_in).
THEOREM ChannelsAgreeHolds == Spec => []ChannelsAgree
<1>1. TypeOK => ChannelsAgree
  <2> SUFFICES ASSUME TypeOK PROVE ChannelsAgree
    OBVIOUS
  <2> DEFINE Near(s) == Windows(s, 1, Horizon)
             Suggested(s) == Suggestions(Near(s), {w \in Range(Near(s)) : ~FreeFor(w)})
             suggested == UNION {Suggested(s) : s \in {t \in Slot : ~FreeFor(t)}}
             Offered(hours) == Availability({row[b].slot : b \in Standing}, hours)
  <2>1. ASSUME NEW w \in suggested
        PROVE  FreeFor(w) /\ \E s \in Slot : \E d \in Int :
                 w = [start |-> s.start + d, end |-> s.end + d]
    <3>1. PICK s \in Slot : w \in Suggested(s)
      OBVIOUS
    <3>2. PICK k \in DOMAIN Near(s) : w = Near(s)[k] /\ w \notin {v \in Range(Near(s)) : ~FreeFor(v)}
      BY <3>1 DEF Suggestions
    <3>3. w \in Range(Near(s))
      BY <3>2 DEF Range
    <3>4. \E d \in Int : w = [start |-> s.start + d, end |-> s.end + d]
      BY <3>2, WindowsAreMoved
    <3> QED
      BY <3>2, <3>3, <3>4
  <2> HIDE DEF suggested, Offered
  <2>2. ASSUME NEW hours \in Slot, NEW w \in suggested, Inside(w, hours)
        PROVE  w \in Slot /\ FreeFor(w)
    <3>1. PICK s \in Slot, d \in Int : w = [start |-> s.start + d, end |-> s.end + d]
      BY <2>1
    <3>2. /\ s.start \in Int /\ s.end \in Int /\ s.start < s.end
          /\ hours.start \in 0..Horizon /\ hours.end \in 0..Horizon
      BY DEF Slot
    <3>3. w.start = s.start + d /\ w.end = s.end + d
      BY <3>1
    <3>4. w.start \in 0..Horizon /\ w.end \in 0..Horizon /\ w.start < w.end
      BY <2>2, <3>2, <3>3, HorizonAssumption DEF Inside
    <3> QED
      BY <2>1, <2>2, <3>1, <3>3, <3>4 DEF Slot
  <2>3. ASSUME NEW hours \in Slot, NEW s \in Slot, Inside(s, hours)
        PROVE  FreeFor(s) <=> \E f \in Offered(hours) : Inside(s, f)
    BY <2>3, FreeForIsFree DEF Offered
  <2>4. ASSUME NEW hours \in Slot, NEW w \in suggested, Inside(w, hours)
        PROVE  \E f \in Offered(hours) : Inside(w, f)
    BY <2>2, <2>3, <2>4
  <2> QED
    BY <2>3, <2>4 DEF ChannelsAgree, Inside, Standing, suggested, Offered
<1> QED
  BY <1>1, TypeCorrect, PTL
================================================================================
