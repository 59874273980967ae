----------------------------- MODULE CustomerProofs -----------------------------
\* What a customer is promised, for every number of requests, turns and bookings: one
\* live code at a time (CustomerCodes), a conversation the model can always read, an
\* answer that names the booking its turn made (AgentLoop), the price that was shown
\* (Quotes) and a total that is what the pricing rules say taken together (Pricing).
EXTENDS AgentLoop, MCCustomer, FiniteSetTheorems, WellFoundedInduction, TLAPS

---------------------------------------------------------------------------
(* One live code.                                                          *)

CodeRow == [id : CodeIds, attempts : Nat, left : Nat, sent : BOOLEAN]
CodeRequest ==
  [pc : {"idle", "count", "invalidate", "create", "verify", "sign in", "flag", "unflag", "burn"},
   door : BOOLEAN, row : CodeIds \union {0}, right : BOOLEAN, left : Nat, attempts : Nat, count : Nat]
CodesTyped ==
  /\ codes \in Seq(CodeRow) /\ minute \in Nat
  /\ hour \in [count : Nat, left : Nat]
  /\ requests \in [Requests -> CodeRequest]

\* The minute's key stands until the code is issued, so nobody else has begun.
OneIssuer ==
  /\ \A r \in Requests : Codes!Issuing(r) => minute > 0
  /\ \A r, q \in Requests : Codes!Issuing(r) /\ Codes!Issuing(q) => r = q

\* A new code comes when the others are used, and none comes in between.
NoneWhenCreating == \A r \in Requests : Codes!At(r, "create") => codes = <<>>

CodesInv == CodesTyped /\ OneIssuer /\ NoneWhenCreating /\ OneLiveCode

LEMMA UsedShortens ==
    ASSUME codes \in Seq(CodeRow), Len(codes) <= 1, NEW id
    PROVE  /\ Codes!Used(id) \in Seq(CodeRow) /\ Len(Codes!Used(id)) <= 1
           /\ codes = <<>> => Codes!Used(id) = <<>>
<1> DEFINE rows == {k \in DOMAIN codes : codes[k].id = id}
<1>1. CASE rows = {}
  BY <1>1 DEF Codes!Used
<1>2. CASE rows # {}
  <2>1. Len(codes) = 1 /\ rows = {1}
    <3>1. rows \subseteq 1..Len(codes) /\ Len(codes) \in {0, 1}
      <4>1. Len(codes) \in Nat /\ DOMAIN codes = 1..Len(codes)
        OBVIOUS
      <4>2. rows \subseteq DOMAIN codes
        OBVIOUS
      <4> QED
        BY <4>1, <4>2
    <3> HIDE DEF rows
    <3>2. PICK k \in rows : TRUE
      BY <1>2
    <3>3. k \in 1..Len(codes)
      BY <3>1
    <3>4. Len(codes) = 1
      BY <3>1, <3>3
    <3>5. \A j \in rows : j = 1
      BY <3>1, <3>4
    <3> QED
      BY <3>2, <3>4, <3>5
  <2>2. Codes!Used(id) = Codes!RemoveAt(codes, Codes!Min(rows))
    BY <1>2 DEF Codes!Used
  <2> HIDE DEF rows
  <2>3. Codes!Min(rows) = 1
    BY <2>1 DEF Codes!Min
  <2>4. Codes!Used(id) = SubSeq(codes, 1, 0) \o SubSeq(codes, 2, Len(codes))
    BY <2>2, <2>3 DEF Codes!RemoveAt
  <2>5. SubSeq(codes, 1, 0) = <<>> /\ SubSeq(codes, 2, 1) = <<>>
    BY <2>1
  <2>6. Codes!Used(id) = <<>>
    BY <2>1, <2>4, <2>5
  <2> QED
    BY <2>6
<1> QED
  BY <1>1, <1>2

\* A step that issues nothing and leaves at most one code.
LEMMA CodesKept ==
    ASSUME CodesInv, CodesTyped', Len(codes') <= 1, codes = <<>> => codes' = <<>>,
           minute' = minute,
           \A r \in Requests : Codes!Issuing(r)' => Codes!Issuing(r),
           \A r \in Requests : Codes!At(r, "create")' => Codes!At(r, "create")
    PROVE  CodesInv'
BY DEF CodesInv, OneIssuer, NoneWhenCreating, OneLiveCode, Codes!OneLiveCode

LEMMA CodesInit ==
    ASSUME Codes!Init
    PROVE  CodesInv
<1>1. codes = <<>> /\ codes \in Seq(CodeRow) /\ Len(codes) = 0
  BY DEF Codes!Init
<1>2. Codes!Idle \in CodeRequest
  BY DEF Codes!Idle, CodeRequest
<1>3. CodesTyped
  BY <1>1, <1>2 DEF CodesTyped, Codes!Init
<1>4. OneIssuer
  BY DEF OneIssuer, Codes!Issuing, Codes!Init, Codes!Idle
<1> QED
  BY <1>1, <1>3, <1>4 DEF CodesInv, NoneWhenCreating, OneLiveCode, Codes!OneLiveCode

\* A request that finishes, or goes on where nothing is issued.
LEMMA RequestMoves ==
    ASSUME CodesInv, NEW r \in Requests, NEW state \in CodeRequest,
           ~(state.pc \in {"count", "invalidate", "create"}),
           Codes!Become(r, state)
    PROVE  /\ requests' \in [Requests -> CodeRequest]
           /\ \A q \in Requests : Codes!Issuing(q)' => Codes!Issuing(q)
           /\ \A q \in Requests : Codes!At(q, "create")' => Codes!At(q, "create")
<1>1. requests' = [requests EXCEPT ![r] = state] /\ requests \in [Requests -> CodeRequest]
  BY DEF Codes!Become, CodesInv, CodesTyped
<1>2. requests' \in [Requests -> CodeRequest]
  BY <1>1
<1>3. \A q \in Requests : requests'[q] = IF q = r THEN state ELSE requests[q]
  BY <1>1
<1> QED
  BY <1>2, <1>3 DEF Codes!Issuing, Codes!At

LEMMA IdleOrGone ==
    ASSUME CodesInv, NEW r \in Requests
    PROVE  /\ Codes!Idle \in CodeRequest /\ Codes!Idle.pc = "idle"
           /\ requests[r] \in CodeRequest
           /\ \A pc \in {"sign in", "flag", "unflag", "burn"} :
                /\ [requests[r] EXCEPT !.pc = pc] \in CodeRequest
                /\ [requests[r] EXCEPT !.pc = pc].pc = pc
BY DEF CodesInv, CodesTyped, CodeRequest, Codes!Idle

LEMMA AskKeepsCodes ==
    ASSUME Codes!FlowAssumption, CodesInv, NEW r \in Requests, Codes!AskForCode(r)
    PROVE  CodesInv'
<1> DEFINE asked == [requests[r] EXCEPT !.pc = "count", !.count = hour.count]
<1>1. /\ minute = 0 /\ minute' = MinuteLife /\ codes' = codes /\ hour' = hour
      /\ requests' = [requests EXCEPT ![r] = asked]
  BY DEF Codes!AskForCode, Codes!Become
<1>2. MinuteLife \in Nat /\ MinuteLife > 0
  BY DEF Codes!FlowAssumption
<1>3. asked \in CodeRequest /\ asked.pc = "count"
  BY DEF CodesInv, CodesTyped, CodeRequest
<1> HIDE DEF asked
<1>4. CodesTyped'
  BY <1>1, <1>2, <1>3 DEF CodesInv, CodesTyped
<1>5. \A q \in Requests : ~Codes!Issuing(q)
  BY <1>1 DEF CodesInv, CodesTyped, OneIssuer
<1>6. \A q \in Requests : requests'[q] = IF q = r THEN asked ELSE requests[q]
  BY <1>1 DEF CodesInv, CodesTyped
<1>7. \A q \in Requests : Codes!Issuing(q)' => q = r
  BY <1>5, <1>6 DEF Codes!Issuing
<1>8. OneIssuer'
  BY <1>1, <1>2, <1>7 DEF OneIssuer
<1>9. NoneWhenCreating'
  BY <1>3, <1>5, <1>6 DEF NoneWhenCreating, Codes!At, Codes!Issuing
<1> QED
  BY <1>1, <1>4, <1>8, <1>9 DEF CodesInv, OneLiveCode, Codes!OneLiveCode

\* The one issuer goes on: the others issue nothing.
LEMMA IssuerMoves ==
    ASSUME CodesInv, NEW r \in Requests, NEW state \in CodeRequest, Codes!Issuing(r),
           Codes!Become(r, state), minute' = minute
    PROVE  /\ requests' \in [Requests -> CodeRequest] /\ OneIssuer'
           /\ \A q \in Requests : Codes!At(q, "create")' => q = r /\ state.pc = "create"
<1>1. requests' = [requests EXCEPT ![r] = state] /\ requests \in [Requests -> CodeRequest]
  BY DEF Codes!Become, CodesInv, CodesTyped
<1>2. requests' \in [Requests -> CodeRequest]
  BY <1>1
<1>3. \A q \in Requests : requests'[q] = IF q = r THEN state ELSE requests[q]
  BY <1>1
<1>4. \A q \in Requests : Codes!Issuing(q) => q = r
  BY DEF CodesInv, OneIssuer
<1>5. \A q \in Requests : Codes!Issuing(q)' => q = r
  BY <1>3, <1>4 DEF Codes!Issuing
<1>6. OneIssuer'
  BY <1>5 DEF CodesInv, OneIssuer
<1>7. \A q \in Requests : Codes!At(q, "create")' => q = r
  BY <1>5 DEF Codes!Issuing, Codes!At
<1> QED
  BY <1>2, <1>3, <1>6, <1>7 DEF Codes!At

LEMMA CountKeepsCodes ==
    ASSUME Codes!FlowAssumption, CodesInv, NEW r \in Requests, Codes!CountHour(r)
    PROVE  CodesInv'
<1>1. Codes!Issuing(r) /\ codes' = codes /\ minute' = minute
  BY DEF Codes!CountHour, Codes!At, Codes!Issuing
<1>2. requests[r] \in CodeRequest
  BY DEF CodesInv, CodesTyped
<1>3. PICK state \in CodeRequest : Codes!Become(r, state) /\ state.pc # "create"
  <2>1. CASE requests[r].count >= MaxPerHour
    BY <2>1, IdleOrGone DEF Codes!CountHour, Codes!Finish
  <2>2. CASE ~(requests[r].count >= MaxPerHour)
    <3>1. Codes!Become(r, [requests[r] EXCEPT !.pc = "invalidate"])
      BY <2>2 DEF Codes!CountHour, Codes!GoTo
    <3>2. [requests[r] EXCEPT !.pc = "invalidate"] \in CodeRequest
      BY <1>2 DEF CodeRequest
    <3> QED
      BY <1>2, <3>1, <3>2 DEF CodeRequest
  <2> QED
    BY <2>1, <2>2
<1>4. hour' \in [count : Nat, left : Nat]
  <2>1. requests[r].count \in Nat /\ HourLife \in Nat /\ hour \in [count : Nat, left : Nat]
    BY <1>2 DEF CodeRequest, Codes!FlowAssumption, CodesInv, CodesTyped
  <2> QED
    BY <2>1 DEF Codes!CountHour
<1>5. requests' \in [Requests -> CodeRequest] /\ OneIssuer' /\ \A q \in Requests : ~Codes!At(q, "create")'
  BY <1>1, <1>3, IssuerMoves
<1>6. CodesTyped'
  BY <1>1, <1>4, <1>5 DEF CodesInv, CodesTyped
<1> QED
  BY <1>1, <1>5, <1>6 DEF CodesInv, NoneWhenCreating, OneLiveCode, Codes!OneLiveCode

LEMMA InvalidateKeepsCodes ==
    ASSUME CodesInv, NEW r \in Requests, Codes!InvalidateCodes(r)
    PROVE  CodesInv'
<1>1. Codes!Issuing(r) /\ codes' = <<>> /\ minute' = minute /\ hour' = hour
  BY DEF Codes!InvalidateCodes, Codes!At, Codes!Issuing
<1>2. PICK state \in CodeRequest : Codes!Become(r, state)
  <2>1. Codes!Become(r, [requests[r] EXCEPT !.pc = "create"])
    BY DEF Codes!InvalidateCodes, Codes!GoTo
  <2> QED
    BY <2>1 DEF CodeRequest, CodesInv, CodesTyped
<1>3. requests' \in [Requests -> CodeRequest] /\ OneIssuer'
  BY <1>1, <1>2, IssuerMoves
<1>4. codes' \in Seq(CodeRow) /\ Len(codes') = 0
  BY <1>1
<1>5. CodesTyped'
  BY <1>1, <1>3, <1>4 DEF CodesInv, CodesTyped
<1> QED
  BY <1>1, <1>3, <1>4, <1>5 DEF CodesInv, NoneWhenCreating, OneLiveCode, Codes!OneLiveCode

LEMMA CreateKeepsCodes ==
    ASSUME Codes!FlowAssumption, CodesInv, NEW r \in Requests, Codes!CreateCode(r)
    PROVE  CodesInv'
<1>1. Codes!Issuing(r) /\ Codes!At(r, "create") /\ minute' = minute /\ hour' = hour
  BY DEF Codes!CreateCode, Codes!At, Codes!Issuing
<1>2. codes = <<>>
  BY <1>1 DEF CodesInv, NoneWhenCreating
<1>3. PICK id \in CodeIds, sent \in BOOLEAN :
        codes' = Append(codes, [id |-> id, attempts |-> 0, left |-> CodeLife, sent |-> sent])
  BY DEF Codes!CreateCode
<1>4. PICK new \in CodeRow : codes' = Append(codes, new)
  BY <1>3 DEF CodeRow, Codes!FlowAssumption
<1>5. codes' \in Seq(CodeRow) /\ Len(codes') = 1
  BY <1>2, <1>4
<1>6. /\ requests' \in [Requests -> CodeRequest] /\ OneIssuer'
      /\ \A q \in Requests : ~Codes!At(q, "create")'
  <2>1. Codes!Become(r, Codes!Idle) /\ Codes!Idle \in CodeRequest /\ Codes!Idle.pc = "idle"
    BY IdleOrGone DEF Codes!CreateCode, Codes!Finish
  <2> QED
    BY <1>1, <2>1, IssuerMoves
<1>7. CodesTyped'
  BY <1>1, <1>5, <1>6 DEF CodesInv, CodesTyped
<1> QED
  BY <1>5, <1>6, <1>7 DEF CodesInv, NoneWhenCreating, OneLiveCode, Codes!OneLiveCode

LEMMA ReadKeepsCodes ==
    ASSUME CodesInv, NEW r \in Requests, Codes!ReadCode(r)
    PROVE  CodesInv'
<1>1. codes # <<>> /\ codes' = codes /\ minute' = minute /\ hour' = hour
  BY DEF Codes!ReadCode
<1>2. Codes!Last(codes) \in CodeRow
  <2>1. codes \in Seq(CodeRow) /\ Len(codes) \in Nat \ {0}
    BY <1>1 DEF CodesInv, CodesTyped
  <2> QED
    BY <2>1 DEF Codes!Last
<1>3. PICK state \in CodeRequest : Codes!Become(r, state) /\ state.pc = "verify"
  <2>1. PICK newest \in CodeRow : newest = Codes!Last(codes)
    BY <1>2
  <2>2. PICK door \in BOOLEAN, right \in BOOLEAN :
          Codes!Become(r, [requests[r] EXCEPT !.pc = "verify", !.door = door, !.row = newest.id,
             !.right = right, !.left = newest.left, !.attempts = newest.attempts + 1])
    BY <2>1 DEF Codes!ReadCode
  <2>3. requests[r] \in CodeRequest
    BY DEF CodesInv, CodesTyped
  <2>4. newest.id \in CodeIds /\ newest.left \in Nat /\ newest.attempts + 1 \in Nat
    BY DEF CodeRow
  <2> DEFINE state == [requests[r] EXCEPT !.pc = "verify", !.door = door, !.row = newest.id,
                        !.right = right, !.left = newest.left, !.attempts = newest.attempts + 1]
  <2>5. state \in CodeRequest /\ state.pc = "verify"
    BY <2>3, <2>4 DEF CodeRequest
  <2> QED
    BY <2>2, <2>5
<1>4. /\ requests' \in [Requests -> CodeRequest]
      /\ \A q \in Requests : Codes!Issuing(q)' => Codes!Issuing(q)
      /\ \A q \in Requests : Codes!At(q, "create")' => Codes!At(q, "create")
  BY <1>3, RequestMoves
<1>5. CodesTyped' /\ Len(codes') <= 1
  BY <1>1, <1>4 DEF CodesInv, CodesTyped, OneLiveCode, Codes!OneLiveCode
<1> QED
  BY <1>1, <1>4, <1>5, CodesKept

\* A step of a request that no longer issues, with the codes it leaves.
LEMMA ServedKeepsCodes ==
    ASSUME CodesInv, NEW r \in Requests, NEW state \in CodeRequest,
           ~(state.pc \in {"count", "invalidate", "create"}), Codes!Become(r, state),
           minute' = minute, hour' = hour,
           codes' \in Seq(CodeRow), Len(codes') <= 1, codes = <<>> => codes' = <<>>
    PROVE  CodesInv'
<1>1. /\ requests' \in [Requests -> CodeRequest]
      /\ \A q \in Requests : Codes!Issuing(q)' => Codes!Issuing(q)
      /\ \A q \in Requests : Codes!At(q, "create")' => Codes!At(q, "create")
  BY RequestMoves
<1>2. CodesTyped'
  BY <1>1 DEF CodesInv, CodesTyped
<1> QED
  BY <1>1, <1>2, CodesKept

LEMMA VerifyKeepsCodes ==
    ASSUME CodesInv, NEW r \in Requests, Codes!Verify(r)
    PROVE  CodesInv'
<1> DEFINE q == requests[r]
           saved == [k \in DOMAIN codes |->
                      IF codes[k].id = q.row THEN [codes[k] EXCEPT !.attempts = q.attempts] ELSE codes[k]]
<1>1. codes \in Seq(CodeRow) /\ Len(codes) <= 1 /\ q \in CodeRequest
  BY DEF CodesInv, CodesTyped, OneLiveCode, Codes!OneLiveCode
<1>2. saved \in Seq(CodeRow) /\ Len(saved) <= 1 /\ (codes = <<>> => saved = <<>>)
  <2>1. q.attempts \in Nat /\ Len(codes) \in Nat /\ DOMAIN codes = 1..Len(codes)
    <3>1. Len(codes) \in Nat /\ DOMAIN codes = 1..Len(codes)
      BY <1>1
    <3>2. q.attempts \in Nat
      BY <1>1 DEF CodeRequest
    <3> QED
      BY <3>1, <3>2
  <2>2. ASSUME NEW k \in 1..Len(codes) PROVE saved[k] \in CodeRow
    <3>1. codes[k] \in CodeRow
      BY <1>1
    <3>2. [codes[k] EXCEPT !.attempts = q.attempts] \in CodeRow
      BY <2>1, <3>1 DEF CodeRow
    <3> QED
      BY <2>1, <3>1, <3>2
  <2>3. saved = [k \in 1..Len(codes) |-> saved[k]]
    BY <2>1
  <2> HIDE DEF saved
  <2>4. saved \in Seq(CodeRow) /\ Len(saved) = Len(codes)
    BY <2>1, <2>2, <2>3
  <2> QED
    BY <1>1, <2>1, <2>4
<1>3. minute' = minute /\ hour' = hour
  BY DEF Codes!Verify
<1>4. CASE q.attempts > MaxAttempts
  <2>1. codes' = Codes!Used(q.row) /\ Codes!Become(r, Codes!Idle)
    BY <1>4 DEF Codes!Verify, Codes!Finish
  <2> QED
    BY <1>1, <1>3, <2>1, UsedShortens, IdleOrGone, ServedKeepsCodes
<1>5. CASE ~(q.attempts > MaxAttempts)
  <2>1. codes' = saved
    BY <1>5 DEF Codes!Verify
  <2>2. PICK state \in CodeRequest :
          Codes!Become(r, state) /\ state.pc \in {"idle", "flag", "sign in"}
    BY <1>1, <1>5, IdleOrGone DEF Codes!Verify, Codes!Finish, Codes!GoTo
  <2> HIDE DEF saved
  <2> QED
    BY <1>2, <1>3, <2>1, <2>2, ServedKeepsCodes
<1> QED
  BY <1>4, <1>5

LEMMA SignInKeepsCodes ==
    ASSUME CodesInv, NEW r \in Requests, Codes!SignIn(r)
    PROVE  CodesInv'
<1>1. minute' = minute /\ hour' = hour /\ Codes!Become(r, Codes!Idle)
  BY DEF Codes!SignIn, Codes!Finish
<1>2. codes' = codes \/ codes' = Codes!Used(requests[r].row)
  BY DEF Codes!SignIn
<1>3. codes \in Seq(CodeRow) /\ Len(codes) <= 1
  BY DEF CodesInv, CodesTyped, OneLiveCode, Codes!OneLiveCode
<1>4. codes' \in Seq(CodeRow) /\ Len(codes') <= 1 /\ (codes = <<>> => codes' = <<>>)
  BY <1>2, <1>3, UsedShortens
<1> QED
  BY <1>1, <1>4, IdleOrGone, ServedKeepsCodes

LEMMA DoorKeepsCodes ==
    ASSUME Codes!FlowAssumption, CodesInv, NEW r \in Requests,
           Codes!FlagPhone(r) \/ Codes!ArriveAtDoor(r) \/ Codes!Unflag(r)
    PROVE  CodesInv'
<1>1. minute' = minute /\ hour' = hour /\ codes' = codes
  BY DEF Codes!FlagPhone, Codes!ArriveAtDoor, Codes!Unflag
<1>2. PICK state \in CodeRequest :
        Codes!Become(r, state) /\ ~(state.pc \in {"count", "invalidate", "create"})
  <2>1. CASE Codes!FlagPhone(r)
    BY <2>1, IdleOrGone DEF Codes!FlagPhone, Codes!Finish
  <2>2. CASE Codes!ArriveAtDoor(r)
    BY <2>2, IdleOrGone DEF Codes!ArriveAtDoor, Codes!GoTo
  <2>3. CASE Codes!Unflag(r)
    BY <2>3, IdleOrGone DEF Codes!Unflag, Codes!GoTo
  <2> QED
    BY <2>1, <2>2, <2>3
<1>3. codes \in Seq(CodeRow) /\ Len(codes) <= 1
  BY DEF CodesInv, CodesTyped, OneLiveCode, Codes!OneLiveCode
<1> QED
  BY <1>1, <1>2, <1>3, ServedKeepsCodes

LEMMA BurnKeepsCodes ==
    ASSUME CodesInv, NEW r \in Requests, Codes!BurnCode(r)
    PROVE  CodesInv'
<1>1. minute' = minute /\ hour' = hour /\ Codes!Become(r, Codes!Idle)
  BY DEF Codes!BurnCode, Codes!Finish
<1>2. codes \in Seq(CodeRow) /\ Len(codes) <= 1 /\ Len(codes) \in Nat
  BY DEF CodesInv, CodesTyped, OneLiveCode, Codes!OneLiveCode
<1>3. CASE codes = <<>>
  <2>1. codes' = codes
    BY <1>3 DEF Codes!BurnCode
  <2> QED
    BY <1>1, <1>2, <1>3, <2>1, IdleOrGone, ServedKeepsCodes
<1>4. CASE codes # <<>>
  <2>1. Len(codes) = 1
    <3>1. Len(codes) # 0
      BY <1>2, <1>4
    <3>2. \A n \in Nat : n <= 1 /\ n # 0 => n = 1
      OBVIOUS
    <3> QED
      BY <1>2, <3>1, <3>2
  <2>2. codes' = SubSeq(codes, 1, Len(codes) - 1)
    BY <1>4 DEF Codes!BurnCode, Codes!Front
  <2>3. codes' = <<>>
    BY <1>2, <2>1, <2>2
  <2>4. codes' \in Seq(CodeRow) /\ Len(codes') <= 1
    BY <2>3
  <2>5. Codes!Idle \in CodeRequest /\ ~(Codes!Idle.pc \in {"count", "invalidate", "create"})
    BY IdleOrGone
  <2> QED
    BY <1>1, <2>3, <2>4, <2>5, ServedKeepsCodes
<1> QED
  BY <1>3, <1>4

LEMMA TickKeepsCodes ==
    ASSUME CodesInv, Codes!Tick
    PROVE  CodesInv'
<1>1. \A n \in Nat : Codes!Down(n) \in Nat
  BY DEF Codes!Down
<1>2. codes \in Seq(CodeRow) /\ Len(codes) <= 1 /\ Len(codes) \in Nat /\ DOMAIN codes = 1..Len(codes)
  BY DEF CodesInv, CodesTyped, OneLiveCode, Codes!OneLiveCode
<1>3. codes' \in Seq(CodeRow) /\ Len(codes') <= 1
  <2>1. codes' = [k \in 1..Len(codes) |-> [codes[k] EXCEPT !.left = Codes!Down(codes[k].left)]]
    BY <1>2 DEF Codes!Tick
  <2>2. ASSUME NEW k \in 1..Len(codes)
        PROVE  [codes[k] EXCEPT !.left = Codes!Down(codes[k].left)] \in CodeRow
    <3>1. codes[k] \in CodeRow
      BY <1>2
    <3>2. Codes!Down(codes[k].left) \in Nat
      BY <1>1, <3>1 DEF CodeRow
    <3> QED
      BY <3>1, <3>2 DEF CodeRow
  <2>3. codes' \in [1..Len(codes) -> CodeRow]
    BY <2>1, <2>2
  <2> QED
    BY <1>2, <2>3
<1>4. minute' \in Nat
  BY <1>1 DEF CodesInv, CodesTyped, Codes!Tick
<1>5. hour' \in [count : Nat, left : Nat]
  <2>1. hour.count \in Nat /\ hour.left \in Nat
    BY DEF CodesInv, CodesTyped
  <2>2. Codes!Down(hour.left) \in Nat
    BY <1>1, <2>1
  <2> QED
    BY <2>1, <2>2 DEF Codes!Tick
<1>6. /\ requests' \in [Requests -> CodeRequest]
      /\ \A r \in Requests : requests'[r].pc = requests[r].pc
  <2>1. requests' = [r \in Requests |-> [requests[r] EXCEPT !.left = Codes!Down(requests[r].left)]]
    BY DEF Codes!Tick
  <2>2. ASSUME NEW r \in Requests
        PROVE  /\ [requests[r] EXCEPT !.left = Codes!Down(requests[r].left)] \in CodeRequest
               /\ [requests[r] EXCEPT !.left = Codes!Down(requests[r].left)].pc = requests[r].pc
    <3>1. requests[r] \in CodeRequest
      BY DEF CodesInv, CodesTyped
    <3>2. Codes!Down(requests[r].left) \in Nat
      BY <1>1, <3>1 DEF CodeRequest
    <3> QED
      BY <3>1, <3>2 DEF CodeRequest
  <2> QED
    BY <2>1, <2>2
<1>7. \A r \in Requests : ~Codes!Issuing(r)
  BY DEF Codes!Tick
<1>8. \A r \in Requests : ~Codes!Issuing(r)' /\ ~Codes!At(r, "create")'
  BY <1>6, <1>7 DEF Codes!Issuing, Codes!At
<1>9. CodesTyped'
  BY <1>3, <1>4, <1>5, <1>6 DEF CodesTyped
<1> QED
  BY <1>3, <1>8, <1>9 DEF CodesInv, OneIssuer, NoneWhenCreating, OneLiveCode, Codes!OneLiveCode

LEMMA RestartKeepsCodes ==
    ASSUME CodesInv, Codes!Restart
    PROVE  CodesInv'
<1>1. /\ minute' = 0 /\ hour' = [count |-> 0, left |-> 0] /\ codes' = codes
      /\ requests' = [r \in Requests |-> Codes!Idle]
  BY DEF Codes!Restart
<1>2. Codes!Idle \in CodeRequest /\ Codes!Idle.pc = "idle"
  BY DEF Codes!Idle, CodeRequest
<1>3. \A r \in Requests : requests'[r].pc = "idle"
  BY <1>1, <1>2
<1>4. \A r \in Requests : ~Codes!Issuing(r)' /\ ~Codes!At(r, "create")'
  BY <1>3 DEF Codes!Issuing, Codes!At
<1>5. CodesTyped'
  BY <1>1, <1>2 DEF CodesInv, CodesTyped
<1> QED
  BY <1>1, <1>4, <1>5 DEF CodesInv, OneIssuer, NoneWhenCreating, OneLiveCode, Codes!OneLiveCode

\* However many requests ask for a code, try one and use one, at most one is unused: the
\* freshest (models.py:724-731, do_request_code, do_verify_code).
THEOREM OneLiveCodeHolds == Codes!Spec => []OneLiveCode
<1>0. Codes!FlowAssumption
  BY CodesAssumption
<1>1. Codes!Init => CodesInv
  BY CodesInit
<1>2. CodesInv /\ [Codes!Next]_(Codes!vars) => CodesInv'
  <2> SUFFICES ASSUME CodesInv, [Codes!Next]_(Codes!vars) PROVE CodesInv'
    OBVIOUS
  <2>1. CASE Codes!Ask
    BY <1>0, <2>1, AskKeepsCodes DEF Codes!Ask
  <2>2. ASSUME NEW r \in Requests, Codes!ReadCode(r) \/ Codes!ArriveAtDoor(r) \/ Codes!Serve(r)
        PROVE  CodesInv'
    BY <1>0, <2>2, CountKeepsCodes, InvalidateKeepsCodes, CreateKeepsCodes, ReadKeepsCodes,
       VerifyKeepsCodes, SignInKeepsCodes, DoorKeepsCodes, BurnKeepsCodes DEF Codes!Serve
  <2>3. CASE Codes!Tick
    BY <2>3, TickKeepsCodes
  <2>4. CASE Codes!Restart
    BY <2>4, RestartKeepsCodes
  <2>5. CASE UNCHANGED Codes!vars
    BY <2>5 DEF Codes!vars, CodesInv, CodesTyped, OneIssuer, NoneWhenCreating,
       OneLiveCode, Codes!OneLiveCode, Codes!Issuing, Codes!At
  <2> QED
    BY <2>1, <2>2, <2>3, <2>4, <2>5 DEF Codes!Next
<1>3. CodesInv => OneLiveCode
  BY DEF CodesInv
<1> QED
  BY <1>1, <1>2, <1>3, PTL DEF Codes!Spec

---------------------------------------------------------------------------
(* The agent's turns.                                                      *)

Call == [turn : Turns, iteration : Nat, place : Nat, tool : Tool]
ToolResult == [call : Call, made : SUBSET Slots]
Event == {"token", "start", "end", "error", "done", "closed"}
Turn ==
  [pc : {"idle", "create", "found", "refused", "load", "ask", "tools", "record",
         "answered", "failed", "broken", "dead"},
   attempt : Nat, conv : Conversations, iteration : Nat, readable : BOOLEAN,
   todo : SUBSET Call, results : SUBSET ToolResult, booking : SUBSET Slots, stream : Seq(Event)]
BookingRow == [slot : Slots, by : Turns, attempt : Nat, told : BOOLEAN]
LoopTyped ==
  /\ turns \in [Turns -> Turn]
  /\ bookings \subseteq BookingRow
  /\ DOMAIN messages = Conversations

\* The slots a turn's present attempt has booked with a result that tells of it, one by one.
Made(t, s) == \E b \in bookings :
  b.slot = s /\ b.by = t /\ b.attempt = turns[t].attempt /\ b.told

\* No booking is of an attempt still to come ...
NoneAhead == \A b \in bookings : b.attempt <= turns[b.by].attempt

\* ... what a turn keeps for its summary, and what its results say, was booked by it ...
KeptWasMade == \A t \in Turns :
  /\ \A s \in turns[t].booking : Made(t, s)
  /\ \A r \in turns[t].results : \A s \in r.made : Made(t, s)

\* ... and of a turn that booked and was told, the summary or a result that is not saved yet knows.
MadeIsKnown == \A t \in Turns, s \in Slots : Made(t, s) =>
  turns[t].booking # {} \/ \E r \in turns[t].results : r.made # {}

\* A turn has calls and results only between a response and its rows.
OnlyInBetween == \A t \in Turns :
  /\ turns[t].todo # {} => turns[t].pc \in {"tools", "broken", "dead"}
  /\ turns[t].results # {} => turns[t].pc \in {"tools", "record", "broken", "dead"}

BookedInv == LoopTyped /\ NoneAhead /\ KeptWasMade /\ MadeIsKnown /\ OnlyInBetween

LEMMA EmittedIsStream ==
    ASSUME NEW t \in Turns, LoopTyped, NEW events \in Seq(Event)
    PROVE  Emitted(t, events) \in Seq(Event)
<1>1. turns[t].stream \in Seq(Event)
  BY DEF LoopTyped, Turn
<1>2. <<>> \in Seq(Event)
  OBVIOUS
<1>3. PICK shown \in Seq(Event) : shown = IF t \in Texts THEN <<>> ELSE events
  BY <1>2
<1>4. turns[t].stream \o shown \in Seq(Event)
  BY <1>1
<1> QED
  BY <1>3, <1>4 DEF Emitted

\* A step that makes no booking, of a turn that takes up no call and no result.
LEMMA BookedKept ==
    ASSUME BookedInv, LoopTyped', bookings' = bookings, NEW t \in Turns, NEW state,
           turns' = [turns EXCEPT ![t] = state],
           state.attempt = turns[t].attempt, state.booking = turns[t].booking,
           state.todo = turns[t].todo, state.results = turns[t].results,
           state.todo # {} => state.pc \in {"tools", "broken", "dead"},
           state.results # {} => state.pc \in {"tools", "record", "broken", "dead"}
    PROVE  BookedInv'
<1>1. \A u \in Turns : turns'[u] = IF u = t THEN state ELSE turns[u]
  BY DEF BookedInv, LoopTyped
<1>2. \A u \in Turns : /\ turns'[u].attempt = turns[u].attempt
                       /\ turns'[u].booking = turns[u].booking
                       /\ turns'[u].results = turns[u].results
  BY <1>1
<1>3. NoneAhead'
  <2>1. \A b \in bookings : b.by \in Turns
    BY DEF BookedInv, LoopTyped, BookingRow
  <2> QED
    BY <1>2, <2>1 DEF BookedInv, NoneAhead
<1>4. \A u \in Turns : \A s : Made(u, s)' <=> Made(u, s)
  BY <1>2 DEF Made
<1>5. KeptWasMade'
  BY <1>2, <1>4 DEF BookedInv, KeptWasMade
<1>6. MadeIsKnown'
  BY <1>2, <1>4 DEF BookedInv, MadeIsKnown
<1>7. OnlyInBetween'
  BY <1>1 DEF BookedInv, OnlyInBetween
<1> QED
  BY <1>3, <1>5, <1>6, <1>7 DEF BookedInv

\* Of a turn at rest: its calls and results are none.
LEMMA AtRest ==
    ASSUME BookedInv, NEW t \in Turns, turns[t].pc \notin {"tools", "record", "broken", "dead"}
    PROVE  turns[t].todo = {} /\ turns[t].results = {}
BY DEF BookedInv, OnlyInBetween

LEMMA BookedInit ==
    ASSUME Init
    PROVE  BookedInv
<1>1. Idle \in Turn
  BY DEF Idle, Turn, Conversations
<1>2. bookings = {} /\ turns = [t \in Turns |-> Idle] /\ DOMAIN messages = Conversations
  BY DEF Init
<1>3. LoopTyped
  BY <1>1, <1>2 DEF LoopTyped
<1>4. \A t \in Turns : turns[t].todo = {} /\ turns[t].results = {} /\ turns[t].booking = {}
  BY <1>2 DEF Idle
<1> QED
  BY <1>2, <1>3, <1>4 DEF BookedInv, NoneAhead, KeptWasMade, MadeIsKnown, OnlyInBetween, Made

\* The steps before the model is asked, when it fails or answers, and when a turn breaks
\* off: the record of the turn changes in the columns that hold no booking.
LEMMA MovesKeepBooked ==
    ASSUME BookedInv, NEW t \in Turns,
           FindThread(t) \/ CreateThread(t) \/ Begin(t) \/ Load(t)
             \/ CannotAsk(t) \/ Answer(t) \/ HandOver(t)
    PROVE  BookedInv'
<1>1. turns[t] \in Turn /\ bookings' = bookings
  BY DEF BookedInv, LoopTyped, FindThread, CreateThread, Begin, Load, CannotAsk, Answer, HandOver
<1>2. turns[t].todo = {} /\ turns[t].results = {}
  BY AtRest DEF FindThread, CreateThread, Begin, Load, CannotAsk, Answer, HandOver, At
<1>3. /\ <<"error", "error", "closed">> \in Seq(Event)
      /\ <<"token", "done", "closed">> \in Seq(Event)
      /\ <<"token", "error", "done", "closed">> \in Seq(Event)
  <2>1. <<"error", "error", "closed">> \in Seq(Event)
    BY DEF Event
  <2>2. <<"token", "done", "closed">> \in Seq(Event)
    BY DEF Event
  <2>3. <<"token", "error", "done", "closed">> \in Seq(Event)
    BY DEF Event
  <2> QED
    BY <2>1, <2>2, <2>3
<1>4. /\ Emitted(t, <<"error", "error", "closed">>) \in Seq(Event)
      /\ Emitted(t, <<"token", "done", "closed">>) \in Seq(Event)
      /\ Emitted(t, <<"token", "error", "done", "closed">>) \in Seq(Event)
  BY <1>3, EmittedIsStream DEF BookedInv
<1>5. PICK state \in Turn :
        /\ turns' = [turns EXCEPT ![t] = state]
        /\ state.attempt = turns[t].attempt /\ state.booking = turns[t].booking
        /\ state.todo = turns[t].todo /\ state.results = turns[t].results
  <2> USE DEF Become
  <2>1. CASE FindThread(t)
    BY <1>1, <2>1, ZenonT(40) DEF FindThread, Turn, Conversations
  <2>2. CASE CreateThread(t)
    <3>1. PICK c \in Conversations : turns' = [turns EXCEPT ![t] = [turns[t] EXCEPT !.pc = "found", !.conv = c]]
      BY <2>2 DEF CreateThread, Conversations
    <3>2. [turns[t] EXCEPT !.pc = "found", !.conv = c] \in Turn
      BY <1>1 DEF Turn
    <3> QED
      BY <1>1, <3>1, <3>2 DEF Turn
  <2>3. CASE Begin(t)
    <3>1. turns' = [turns EXCEPT ![t] = [turns[t] EXCEPT !.pc = "load"]]
      BY <2>3 DEF Begin
    <3>2. [turns[t] EXCEPT !.pc = "load"] \in Turn
      BY <1>1 DEF Turn
    <3> QED
      BY <1>1, <3>1, <3>2 DEF Turn
  <2>4. CASE Load(t)
    <3>1. PICK readable \in BOOLEAN :
            turns' = [turns EXCEPT ![t] = [turns[t] EXCEPT !.pc = "ask", !.readable = readable]]
      BY <2>4 DEF Load, Readable
    <3>2. [turns[t] EXCEPT !.pc = "ask", !.readable = readable] \in Turn
      BY <1>1 DEF Turn
    <3> QED
      BY <1>1, <3>1, <3>2 DEF Turn
  <2>5. ASSUME NEW iteration \in Nat, NEW pc \in {"failed", "answered"}, NEW stream \in Seq(Event),
               turns' = [turns EXCEPT ![t] =
                 [turns[t] EXCEPT !.pc = pc, !.iteration = iteration, !.stream = stream]]
        PROVE  \E state \in Turn :
                 /\ turns' = [turns EXCEPT ![t] = state]
                 /\ state.attempt = turns[t].attempt /\ state.booking = turns[t].booking
                 /\ state.todo = turns[t].todo /\ state.results = turns[t].results
    <3>1. [turns[t] EXCEPT !.pc = pc, !.iteration = iteration, !.stream = stream] \in Turn
      BY <1>1 DEF Turn
    <3> QED
      BY <1>1, <2>5, <3>1 DEF Turn
  <2>6. turns[t].iteration \in Nat /\ turns[t].iteration + 1 \in Nat
    BY <1>1 DEF Turn
  <2>7. CASE CannotAsk(t)
    BY <1>4, <2>5, <2>6, <2>7 DEF CannotAsk
  <2>8. CASE Answer(t)
    BY <1>4, <2>5, <2>6, <2>8 DEF Answer
  <2>9. CASE HandOver(t)
    <3>1. turns' = [turns EXCEPT ![t] = [turns[t] EXCEPT !.pc = "answered",
                    !.stream = Emitted(t, <<"token", "error", "done", "closed">>)]]
      BY <2>9 DEF HandOver
    <3>2. [turns[t] EXCEPT !.pc = "answered",
              !.stream = Emitted(t, <<"token", "error", "done", "closed">>)] \in Turn
      BY <1>1, <1>4 DEF Turn
    <3> QED
      BY <1>1, <3>1, <3>2 DEF Turn
  <2> QED
    BY <2>1, <2>2, <2>3, <2>4, <2>7, <2>8, <2>9
<1>6. DOMAIN messages' = Conversations
  BY DEF BookedInv, LoopTyped, FindThread, CreateThread, Begin, Load, CannotAsk, Answer, HandOver, Save
<1>7. LoopTyped'
  BY <1>1, <1>5, <1>6 DEF BookedInv, LoopTyped
<1> QED
  BY <1>1, <1>2, <1>5, <1>7, BookedKept

LEMMA BreakKeepsBooked ==
    ASSUME BookedInv, NEW t \in Turns, Break(t)
    PROVE  BookedInv'
<1>1. turns[t] \in Turn /\ bookings' = bookings /\ messages' = messages
  BY DEF BookedInv, LoopTyped, Break
<1>2. Emitted(t, <<"closed">>) \in Seq(Event)
  <2>1. <<"closed">> \in Seq(Event)
    BY DEF Event
  <2> QED
    BY <2>1, EmittedIsStream DEF BookedInv
<1>3. /\ [turns[t] EXCEPT !.pc = "broken", !.stream = Emitted(t, <<"closed">>)] \in Turn
      /\ [turns[t] EXCEPT !.pc = "dead"] \in Turn
  BY <1>1, <1>2 DEF Turn
<1>4. PICK state \in Turn :
        /\ turns' = [turns EXCEPT ![t] = state] /\ state.pc \in {"broken", "dead"}
        /\ state.attempt = turns[t].attempt /\ state.booking = turns[t].booking
        /\ state.todo = turns[t].todo /\ state.results = turns[t].results
  BY <1>1, <1>3 DEF Break, Become, Turn
<1>5. LoopTyped'
  BY <1>1, <1>4 DEF BookedInv, LoopTyped
<1> QED
  BY <1>1, <1>4, <1>5, BookedKept

\* An attempt anew: nothing is booked in its name yet.
LEMMA RedeliverKeepsBooked ==
    ASSUME BookedInv, NEW t \in Turns, Redeliver(t)
    PROVE  BookedInv'
<1> DEFINE again == [Idle EXCEPT !.attempt = turns[t].attempt + 1]
<1>1. turns[t].attempt \in Nat /\ bookings' = bookings /\ messages' = messages
  BY DEF BookedInv, LoopTyped, Redeliver, Turn
<1>2. again \in Turn
  <2>1. Idle \in Turn
    BY DEF Idle, Turn, Conversations
  <2>2. turns[t].attempt + 1 \in Nat
    BY <1>1
  <2> QED
    BY <2>1, <2>2 DEF Turn
<1>3. again.todo = {} /\ again.results = {} /\ again.booking = {} /\ again.attempt = turns[t].attempt + 1
  BY DEF Idle
<1>4. turns' = [turns EXCEPT ![t] = again]
  BY DEF Redeliver, Become
<1> HIDE DEF again
<1>5. \A u \in Turns : turns'[u] = IF u = t THEN again ELSE turns[u]
  BY <1>4 DEF BookedInv, LoopTyped
<1>6. LoopTyped'
  BY <1>1, <1>2, <1>4 DEF BookedInv, LoopTyped
<1>7. NoneAhead'
  <2> SUFFICES ASSUME NEW b \in bookings PROVE b.attempt <= turns'[b.by].attempt
    BY <1>1 DEF NoneAhead
  <2>1. b.by \in Turns /\ b.attempt \in Nat /\ b.attempt <= turns[b.by].attempt
    BY DEF BookedInv, LoopTyped, BookingRow, NoneAhead
  <2> QED
    BY <1>1, <1>3, <1>5, <2>1
<1>8. \A s : ~Made(t, s)'
  <2> SUFFICES ASSUME NEW b \in bookings, b.by = t PROVE b.attempt # turns'[t].attempt
    BY <1>1 DEF Made
  <2>1. b.attempt \in Nat /\ b.attempt <= turns[t].attempt
    BY DEF BookedInv, LoopTyped, BookingRow, NoneAhead
  <2>2. turns'[t].attempt = turns[t].attempt + 1
    BY <1>3, <1>5
  <2> QED
    BY <1>1, <2>1, <2>2
<1>9. \A u \in Turns : \A s : u # t => (Made(u, s)' <=> Made(u, s))
  BY <1>1, <1>5 DEF Made
<1>10. KeptWasMade'
  BY <1>3, <1>5, <1>9 DEF BookedInv, KeptWasMade
<1>11. MadeIsKnown'
  BY <1>5, <1>8, <1>9 DEF BookedInv, MadeIsKnown
<1>12. OnlyInBetween'
  BY <1>3, <1>5 DEF BookedInv, OnlyInBetween
<1> QED
  BY <1>6, <1>7, <1>10, <1>11, <1>12 DEF BookedInv

LEMMA CallsAreCalls ==
    ASSUME LoopTyped, NEW t \in Turns, NEW plan \in Plans
    PROVE  Calls(t, plan) \subseteq Call
<1>1. plan \in Seq(Tool) /\ DOMAIN plan \subseteq Nat
  BY AgentAssumption
<1>2. turns[t].iteration + 1 \in Nat
  BY DEF LoopTyped, Turn
<1>3. \A k \in DOMAIN plan : plan[k] \in Tool
  BY <1>1
<1> QED
  BY <1>1, <1>2, <1>3 DEF Calls, Call

LEMMA CallToolsKeepsBooked ==
    ASSUME BookedInv, NEW t \in Turns, CallTools(t)
    PROVE  BookedInv'
<1>1. PICK plan \in Plans :
        LET calls == Calls(t, plan)
            reads == {c \in calls : c.tool = "look"}
        IN  turns' = [turns EXCEPT ![t] = [turns[t] EXCEPT
                !.iteration = @ + 1, !.todo = calls \ reads,
                !.results = {Result(c, {}) : c \in reads},
                !.pc = IF calls = reads THEN "record" ELSE "tools",
                !.stream = Emitted(t, [k \in DOMAIN plan |-> "start"])]]
  BY Zenon DEF CallTools, Become
<1> DEFINE calls == Calls(t, plan)
           reads == {c \in calls : c.tool = "look"}
           next == [turns[t] EXCEPT
                !.iteration = @ + 1, !.todo = calls \ reads,
                !.results = {Result(c, {}) : c \in reads},
                !.pc = IF calls = reads THEN "record" ELSE "tools",
                !.stream = Emitted(t, [k \in DOMAIN plan |-> "start"])]
<1>2. calls \subseteq Call
  BY CallsAreCalls DEF BookedInv
<1>3. {Result(c, {}) : c \in reads} \subseteq ToolResult
  BY <1>2 DEF Result, ToolResult
<1>4. Emitted(t, [k \in DOMAIN plan |-> "start"]) \in Seq(Event)
  <2>1. plan \in Seq(Tool)
    BY AgentAssumption
  <2>2. [k \in DOMAIN plan |-> "start"] \in Seq(Event)
    BY <2>1 DEF Event
  <2> QED
    BY <2>2, EmittedIsStream DEF BookedInv
<1>5. turns[t] \in Turn /\ turns[t].pc = "ask" /\ bookings' = bookings
  BY DEF BookedInv, LoopTyped, CallTools, At
<1>6. /\ next.iteration = turns[t].iteration + 1 /\ next.todo = calls \ reads
      /\ next.results = {Result(c, {}) : c \in reads}
      /\ next.pc = IF calls = reads THEN "record" ELSE "tools"
      /\ next.attempt = turns[t].attempt /\ next.booking = turns[t].booking
  BY <1>5 DEF Turn
<1>7. next \in Turn
  <2>1. turns[t].iteration + 1 \in Nat
    BY <1>5 DEF Turn
  <2>2. PICK todo \in SUBSET Call : todo = calls \ reads
    BY <1>2
  <2>3. PICK results \in SUBSET ToolResult : results = {Result(c, {}) : c \in reads}
    BY <1>3
  <2>4. PICK stream \in Seq(Event) : stream = Emitted(t, [k \in DOMAIN plan |-> "start"])
    BY <1>4
  <2>5. PICK pc \in {"tools", "record"} : pc = IF calls = reads THEN "record" ELSE "tools"
    OBVIOUS
  <2>6. next = [turns[t] EXCEPT !.iteration = turns[t].iteration + 1, !.todo = todo,
                  !.results = results, !.pc = pc, !.stream = stream]
    BY <2>2, <2>3, <2>4, <2>5
  <2> HIDE DEF next
  <2> QED
    BY <1>5, <2>1, <2>6 DEF Turn
<1>8. turns' = [turns EXCEPT ![t] = next]
  BY <1>1
<1> HIDE DEF next
<1>9. \A u \in Turns : turns'[u] = IF u = t THEN next ELSE turns[u]
  BY <1>8 DEF BookedInv, LoopTyped
<1>10. DOMAIN messages' = Conversations
  BY DEF CallTools, Save, BookedInv, LoopTyped
<1>11. LoopTyped'
  BY <1>5, <1>7, <1>8, <1>10 DEF BookedInv, LoopTyped
<1>12. \A u \in Turns : turns'[u].attempt = turns[u].attempt /\ turns'[u].booking = turns[u].booking
  BY <1>6, <1>9
<1>13. NoneAhead'
  <2>1. \A b \in bookings : b.by \in Turns
    BY DEF BookedInv, LoopTyped, BookingRow
  <2> QED
    BY <1>5, <1>12, <2>1 DEF BookedInv, NoneAhead
<1>14. \A u \in Turns : \A s : Made(u, s)' <=> Made(u, s)
  BY <1>5, <1>12 DEF Made
<1>15. turns[t].results = {}
  BY <1>5, AtRest
<1>16. \A r \in next.results : r.made = {}
  BY <1>6 DEF Result
<1>17. KeptWasMade'
  BY <1>9, <1>12, <1>14, <1>16 DEF BookedInv, KeptWasMade
<1>18. MadeIsKnown'
  BY <1>9, <1>12, <1>14, <1>15 DEF BookedInv, MadeIsKnown
<1>19. OnlyInBetween'
  <2>1. next.todo # {} => next.pc = "tools"
    BY <1>6
  <2>2. next.pc \in {"tools", "record"}
    BY <1>6
  <2> QED
    BY <1>9, <2>1, <2>2 DEF BookedInv, OnlyInBetween
<1> QED
  BY <1>11, <1>13, <1>17, <1>18, <1>19 DEF BookedInv

\* The next call returns, with what its result tells of: nothing, though it may have made
\* a booking, or one slot that it booked.
Returned(t, call, made) ==
  turns' = [turns EXCEPT ![t] = [turns[t] EXCEPT
    !.todo = turns[t].todo \ {call}, !.results = turns[t].results \union {Result(call, made)},
    !.pc = IF turns[t].todo \ {call} = {} THEN "record" ELSE "tools"]]
BookingOf(t, s, told) == [slot |-> s, by |-> t, attempt |-> turns[t].attempt, told |-> told]
BookedNow(t, call, made) ==
  \/ made = {} /\ bookings' = bookings
  \/ \E s \in Slots : made = {} /\ bookings' = bookings \union {BookingOf(t, s, FALSE)}
  \/ \E s \in Slots : made = {s} /\ bookings' = bookings \union {BookingOf(t, s, TRUE)}

LEMMA RunToolReturns ==
    ASSUME BookedInv, NEW t \in Turns, RunTool(t)
    PROVE  /\ turns[t].pc = "tools" /\ messages' = messages /\ overlapped' = overlapped /\ faults' = faults
           /\ \E call \in turns[t].todo, made \in SUBSET Slots :
                Returned(t, call, made) /\ BookedNow(t, call, made)
<1>1. turns[t].pc = "tools" /\ messages' = messages /\ overlapped' = overlapped /\ faults' = faults
  BY DEF RunTool, At
<1>2. PICK call \in turns[t].todo :
        \/ bookings' = bookings /\ Returned(t, call, {})
        \/ \E s \in Slots, told \in BOOLEAN :
             /\ bookings' = bookings \union {BookingOf(t, s, told)}
             /\ Returned(t, call, IF told THEN {s} ELSE {})
  BY DEF RunTool, CreateBooking, Become, Returned, BookingOf
<1>3. CASE bookings' = bookings /\ Returned(t, call, {})
  <2>1. BookedNow(t, call, {})
    BY <1>3 DEF BookedNow
  <2> QED
    BY <1>1, <1>3, <2>1
<1>4. ASSUME NEW s \in Slots, NEW told \in BOOLEAN,
             Returned(t, call, IF told THEN {s} ELSE {}),
             bookings' = bookings \union {BookingOf(t, s, told)}
      PROVE  \E made \in SUBSET Slots : Returned(t, call, made) /\ BookedNow(t, call, made)
  <2>1. CASE told
    <3>1. BookedNow(t, call, {s}) /\ {s} \in SUBSET Slots /\ Returned(t, call, {s})
      BY <1>4, <2>1 DEF BookedNow
    <3> QED
      BY <3>1
  <2>2. CASE ~told
    <3>1. BookedNow(t, call, {}) /\ {} \in SUBSET Slots /\ Returned(t, call, {})
      BY <1>4, <2>2 DEF BookedNow
    <3> QED
      BY <3>1
  <2> QED
    BY <2>1, <2>2
<1> QED
  BY <1>1, <1>2, <1>3, <1>4

LEMMA ReturnedTurn ==
    ASSUME LoopTyped, NEW t \in Turns, NEW call \in turns[t].todo, NEW made \in SUBSET Slots,
           Returned(t, call, made)
    PROVE  /\ turns' \in [Turns -> Turn]
           /\ \A u \in Turns : u # t => turns'[u] = turns[u]
           /\ turns'[t].todo = turns[t].todo \ {call}
           /\ turns'[t].results = turns[t].results \union {Result(call, made)}
           /\ turns'[t].pc = IF turns[t].todo \ {call} = {} THEN "record" ELSE "tools"
           /\ turns'[t].attempt = turns[t].attempt /\ turns'[t].booking = turns[t].booking
           /\ turns'[t].conv = turns[t].conv
<1>1. turns[t] \in Turn /\ call \in Call
  BY DEF LoopTyped, Turn
<1>2. PICK todo \in SUBSET Call : todo = turns[t].todo \ {call}
  BY <1>1 DEF Turn
<1>3. PICK results \in SUBSET ToolResult : results = turns[t].results \union {Result(call, made)}
  <2>1. Result(call, made) \in ToolResult
    BY <1>1 DEF Result, ToolResult
  <2>2. turns[t].results \subseteq ToolResult
    BY <1>1 DEF Turn
  <2> QED
    BY <2>1, <2>2
<1>4. PICK pc \in {"tools", "record"} : pc = IF turns[t].todo \ {call} = {} THEN "record" ELSE "tools"
  OBVIOUS
<1> DEFINE next == [turns[t] EXCEPT !.todo = todo, !.results = results, !.pc = pc]
<1>5. turns' = [turns EXCEPT ![t] = next]
  BY <1>2, <1>3, <1>4 DEF Returned
<1>6. next \in Turn /\ next.todo = todo /\ next.results = results /\ next.pc = pc
      /\ next.attempt = turns[t].attempt /\ next.booking = turns[t].booking /\ next.conv = turns[t].conv
  BY <1>1 DEF Turn
<1> HIDE DEF next
<1> QED
  BY <1>2, <1>3, <1>4, <1>5, <1>6 DEF LoopTyped

LEMMA RunToolKeepsBooked ==
    ASSUME BookedInv, NEW t \in Turns, RunTool(t)
    PROVE  BookedInv'
<1>1. turns[t].pc = "tools" /\ messages' = messages
  BY RunToolReturns
<1>2. PICK call \in turns[t].todo, made \in SUBSET Slots :
        Returned(t, call, made) /\ BookedNow(t, call, made)
  BY RunToolReturns
<1>3. /\ turns' \in [Turns -> Turn]
      /\ \A u \in Turns : u # t => turns'[u] = turns[u]
      /\ turns'[t].todo = turns[t].todo \ {call}
      /\ turns'[t].results = turns[t].results \union {Result(call, made)}
      /\ turns'[t].pc = IF turns[t].todo \ {call} = {} THEN "record" ELSE "tools"
      /\ turns'[t].attempt = turns[t].attempt /\ turns'[t].booking = turns[t].booking
  BY <1>2, ReturnedTurn DEF BookedInv
<1>4. \A u \in Turns : turns'[u].attempt = turns[u].attempt /\ turns'[u].booking = turns[u].booking
  BY <1>3
<1>5. turns[t].attempt \in Nat
  BY DEF BookedInv, LoopTyped, Turn
<1>6. LoopTyped'
  <2>1. \A s \in Slots, told \in BOOLEAN : BookingOf(t, s, told) \in BookingRow
    BY <1>5 DEF BookingOf, BookingRow
  <2>2. bookings' \subseteq BookingRow
    <3>1. bookings \subseteq BookingRow
      BY DEF BookedInv, LoopTyped
    <3>2. CASE bookings' = bookings
      BY <3>1, <3>2
    <3>3. ASSUME NEW s \in Slots, NEW told \in BOOLEAN,
                 bookings' = bookings \union {BookingOf(t, s, told)}
          PROVE  bookings' \subseteq BookingRow
      BY <2>1, <3>1, <3>3
    <3>4. \/ bookings' = bookings
          \/ \E s \in Slots, told \in BOOLEAN : bookings' = bookings \union {BookingOf(t, s, told)}
      BY <1>2 DEF BookedNow
    <3> QED
      BY <3>2, <3>3, <3>4
  <2> QED
    BY <1>1, <1>3, <2>2 DEF BookedInv, LoopTyped
<1>7. NoneAhead'
  <2>1. \A b \in bookings : b.by \in Turns /\ b.attempt <= turns[b.by].attempt
    BY DEF BookedInv, LoopTyped, BookingRow, NoneAhead
  <2>2. \A b \in bookings' : b.by \in Turns /\ b.attempt <= turns[b.by].attempt
    BY <1>2, <1>5, <2>1 DEF BookedNow, BookingOf
  <2> QED
    BY <1>4, <2>2 DEF NoneAhead
<1>8. /\ \A u \in Turns : \A s : Made(u, s) => Made(u, s)'
      /\ \A s \in made : Made(t, s)'
      /\ \A u \in Turns : \A s : Made(u, s)' => Made(u, s) \/ (u = t /\ s \in made)
  <2>1. CASE made = {} /\ bookings' = bookings
    <3>1. ASSUME NEW u \in Turns, NEW x PROVE Made(u, x)' <=> Made(u, x)
      <4>1. turns'[u].attempt = turns[u].attempt
        BY <1>4
      <4> QED
        BY <2>1, <4>1 DEF Made
    <3>2. \A u \in Turns : \A x : (Made(u, x) => Made(u, x)') /\ (Made(u, x)' => Made(u, x))
      BY <3>1
    <3>3. \A x \in made : Made(t, x)'
      BY <2>1
    <3> QED
      BY <3>2, <3>3
  <2>2. ASSUME NEW s \in Slots, NEW told \in BOOLEAN, made = IF told THEN {s} ELSE {},
               bookings' = bookings \union {BookingOf(t, s, told)}
        PROVE  /\ \A u \in Turns : \A x : Made(u, x) => Made(u, x)'
               /\ \A x \in made : Made(t, x)'
               /\ \A u \in Turns : \A x : Made(u, x)' => Made(u, x) \/ (u = t /\ x \in made)
    <3> DEFINE new == BookingOf(t, s, told)
    <3>1. new.slot = s /\ new.by = t /\ new.attempt = turns[t].attempt /\ new.told = told
      BY DEF BookingOf
    <3>6. \A x \in made : told /\ x = s
      BY <2>2
    <3>2. bookings' = bookings \union {new}
      BY <2>2
    <3> HIDE DEF new
    <3>3. \A u \in Turns : \A x : Made(u, x) => Made(u, x)'
      BY <1>4, <3>2 DEF Made
    <3>4. \A x \in made : Made(t, x)'
      BY <1>4, <3>6, <3>1, <3>2 DEF Made
    <3>5. \A u \in Turns : \A x : Made(u, x)' => Made(u, x) \/ (u = t /\ x \in made)
      <4> SUFFICES ASSUME NEW u \in Turns, NEW x, Made(u, x)' PROVE Made(u, x) \/ (u = t /\ x \in made)
        OBVIOUS
      <4>1. turns'[u].attempt = turns[u].attempt
        BY <1>4
      <4>2. PICK b \in bookings' : b.slot = x /\ b.by = u /\ b.attempt = turns[u].attempt /\ b.told
        BY <4>1 DEF Made
      <4>3. CASE b \in bookings
        <5>1. \E a \in bookings : a.slot = x /\ a.by = u /\ a.attempt = turns[u].attempt /\ a.told
          BY <4>2, <4>3
        <5> QED
          BY <5>1 DEF Made
      <4>4. CASE b = new
        <5>1. told /\ x = s /\ u = t
          BY <3>1, <4>2, <4>4
        <5> QED
          BY <2>2, <5>1
      <4> QED
        BY <3>2, <4>3, <4>4
    <3> QED
      BY <3>3, <3>4, <3>5
  <2>3. CASE \E s \in Slots : made = {} /\ bookings' = bookings \union {BookingOf(t, s, FALSE)}
    <3>1. PICK s \in Slots : made = {} /\ bookings' = bookings \union {BookingOf(t, s, FALSE)}
      BY <2>3
    <3>2. made = IF FALSE THEN {s} ELSE {}
      BY <3>1
    <3> QED
      BY <2>2, <3>1, <3>2
  <2>4. CASE \E s \in Slots : made = {s} /\ bookings' = bookings \union {BookingOf(t, s, TRUE)}
    <3>1. PICK s \in Slots : made = {s} /\ bookings' = bookings \union {BookingOf(t, s, TRUE)}
      BY <2>4
    <3>2. made = IF TRUE THEN {s} ELSE {}
      BY <3>1
    <3> QED
      BY <2>2, <3>1, <3>2
  <2> QED
    BY <1>2, <2>1, <2>3, <2>4 DEF BookedNow
<1>9. KeptWasMade'
  <2>1. \A u \in Turns : \A s \in turns'[u].booking : Made(u, s)'
    BY <1>4, <1>8 DEF BookedInv, KeptWasMade
  <2>2. \A r \in turns'[t].results : \A s \in r.made : Made(t, s)'
    BY <1>3, <1>8 DEF BookedInv, KeptWasMade, Result
  <2>3. \A u \in Turns \ {t} : \A r \in turns'[u].results : \A s \in r.made : Made(u, s)'
    BY <1>3, <1>8 DEF BookedInv, KeptWasMade
  <2> QED
    BY <2>1, <2>2, <2>3 DEF KeptWasMade
<1>10. MadeIsKnown'
  <2> SUFFICES ASSUME NEW u \in Turns, NEW s \in Slots, Made(u, s)'
               PROVE  turns'[u].booking # {} \/ \E r \in turns'[u].results : r.made # {}
    BY DEF MadeIsKnown
  <2>1. CASE Made(u, s)
    BY <1>3, <1>4, <2>1 DEF BookedInv, MadeIsKnown
  <2>2. CASE u = t /\ s \in made
    <3>1. Result(call, made) \in turns'[t].results /\ Result(call, made).made # {}
      BY <1>3, <2>2 DEF Result
    <3> QED
      BY <2>2, <3>1
  <2> QED
    BY <1>8, <2>1, <2>2
<1>11. OnlyInBetween'
  BY <1>3 DEF BookedInv, OnlyInBetween
<1> QED
  BY <1>6, <1>7, <1>9, <1>10, <1>11 DEF BookedInv

LEMMA RecordedTurn ==
    ASSUME LoopTyped, NEW t \in Turns, NEW r \in turns[t].results, NEW booking \in SUBSET Slots,
           Recorded(t, r, booking)
    PROVE  /\ turns' \in [Turns -> Turn]
           /\ \A u \in Turns : u # t => turns'[u] = turns[u]
           /\ turns'[t].todo = turns[t].todo
           /\ turns'[t].results = turns[t].results \ {r}
           /\ turns'[t].pc = IF turns[t].results \ {r} = {} THEN "ask" ELSE "record"
           /\ turns'[t].attempt = turns[t].attempt /\ turns'[t].booking = booking
           /\ turns'[t].conv = turns[t].conv
<1>1. turns[t] \in Turn
  BY DEF LoopTyped
<1>2. PICK results \in SUBSET ToolResult : results = turns[t].results \ {r}
  BY <1>1 DEF Turn
<1>3. PICK pc \in {"ask", "record"} : pc = IF turns[t].results \ {r} = {} THEN "ask" ELSE "record"
  OBVIOUS
<1>4. PICK stream \in Seq(Event) : stream = Emitted(t, <<"end">>)
  <2>1. <<"end">> \in Seq(Event)
    BY DEF Event
  <2> QED
    BY <2>1, EmittedIsStream
<1> DEFINE next == [turns[t] EXCEPT !.results = results, !.stream = stream, !.booking = booking, !.pc = pc]
<1>5. turns' = [turns EXCEPT ![t] = next]
  BY <1>2, <1>3, <1>4 DEF Recorded, Become
<1>6. next \in Turn /\ next.todo = turns[t].todo /\ next.results = results /\ next.pc = pc
      /\ next.attempt = turns[t].attempt /\ next.booking = booking /\ next.conv = turns[t].conv
  BY <1>1 DEF Turn
<1> HIDE DEF next
<1> QED
  BY <1>2, <1>3, <1>5, <1>6 DEF LoopTyped

LEMMA RecordKeepsBooked ==
    ASSUME BookedInv, NEW t \in Turns, Record(t)
    PROVE  BookedInv'
<1>1. PICK r \in turns[t].results : Recorded(t, r, IF r.made = {} THEN turns[t].booking ELSE r.made)
  BY DEF Record
<1>2. PICK booking \in SUBSET Slots : booking = IF r.made = {} THEN turns[t].booking ELSE r.made
  <2>1. turns[t] \in Turn
    BY DEF BookedInv, LoopTyped
  <2>2. turns[t].booking \in SUBSET Slots /\ r \in ToolResult
    BY <2>1 DEF Turn
  <2> QED
    BY <2>2 DEF ToolResult
<1>3. /\ turns' \in [Turns -> Turn]
      /\ \A u \in Turns : u # t => turns'[u] = turns[u]
      /\ turns'[t].todo = turns[t].todo
      /\ turns'[t].results = turns[t].results \ {r}
      /\ turns'[t].pc = IF turns[t].results \ {r} = {} THEN "ask" ELSE "record"
      /\ turns'[t].attempt = turns[t].attempt /\ turns'[t].booking = booking
  BY <1>1, <1>2, RecordedTurn DEF BookedInv
<1>4. turns[t].pc = "record" /\ bookings' = bookings /\ DOMAIN messages' = DOMAIN messages
  BY <1>1 DEF Recorded, At, Save
<1>5. turns[t].todo = {}
  BY <1>4 DEF BookedInv, OnlyInBetween
<1>6. LoopTyped'
  BY <1>3, <1>4 DEF BookedInv, LoopTyped
<1>7. \A u \in Turns : turns'[u].attempt = turns[u].attempt
  BY <1>3
<1>8. NoneAhead'
  <2>1. \A b \in bookings : b.by \in Turns
    BY DEF BookedInv, LoopTyped, BookingRow
  <2> QED
    BY <1>4, <1>7, <2>1 DEF BookedInv, NoneAhead
<1>9. \A u \in Turns : \A s : Made(u, s)' <=> Made(u, s)
  BY <1>4, <1>7 DEF Made
<1>10. KeptWasMade'
  <2>1. \A s \in booking : Made(t, s)'
    BY <1>2, <1>9 DEF BookedInv, KeptWasMade
  <2> QED
    BY <1>3, <1>9, <2>1 DEF BookedInv, KeptWasMade
<1>11. MadeIsKnown'
  <2> SUFFICES ASSUME NEW u \in Turns, NEW s \in Slots, Made(u, s)'
               PROVE  turns'[u].booking # {} \/ \E q \in turns'[u].results : q.made # {}
    BY DEF MadeIsKnown
  <2>1. turns[u].booking # {} \/ \E q \in turns[u].results : q.made # {}
    BY <1>9 DEF BookedInv, MadeIsKnown
  <2> QED
    BY <1>2, <1>3, <2>1
<1>12. OnlyInBetween'
  BY <1>3, <1>5 DEF BookedInv, OnlyInBetween
<1> QED
  BY <1>6, <1>8, <1>10, <1>11, <1>12 DEF BookedInv

LEMMA BookedStep ==
    ASSUME BookedInv, [Next]_vars
    PROVE  BookedInv'
<1>1. ASSUME NEW t \in Turns, Advance(t) PROVE BookedInv'
  BY <1>1, MovesKeepBooked, CallToolsKeepsBooked, RunToolKeepsBooked, RecordKeepsBooked DEF Advance
<1>2. ASSUME NEW t \in Turns, Break(t) \/ Redeliver(t) PROVE BookedInv'
  BY <1>2, BreakKeepsBooked, RedeliverKeepsBooked
<1>3. CASE UNCHANGED vars
  BY <1>3 DEF vars, BookedInv, LoopTyped, NoneAhead, KeptWasMade, MadeIsKnown, OnlyInBetween, Made
<1> QED
  BY <1>1, <1>2, <1>3 DEF Next, AllEnded

\* Whatever calls a turn makes and in however many iterations, the booking its summary
\* names is one it made, and it names none only when no result of its calls told of one:
\* when it made none, or a receiver failed after each (AgentLoop.run, create_booking).
THEOREM AnswerNamesBookingHolds == Spec => []AnswerNamesBooking
<1>1. Init => BookedInv
  BY BookedInit
<1>2. BookedInv /\ [Next]_vars => BookedInv'
  BY BookedStep
<1>3. BookedInv => AnswerNamesBooking
  <2> SUFFICES ASSUME BookedInv, NEW t \in Turns, turns[t].pc = "answered"
               PROVE  LET told == {b.slot : b \in {b \in bookings :
                                     b.by = t /\ b.attempt = turns[t].attempt /\ b.told}}
                      IN  turns[t].booking \subseteq told /\ (turns[t].booking = {} <=> told = {})
    BY DEF AnswerNamesBooking, At
  <2> DEFINE told == {b.slot : b \in {b \in bookings :
                     b.by = t /\ b.attempt = turns[t].attempt /\ b.told}}
  <2>1. \A s : s \in told <=> Made(t, s)
    BY DEF Made
  <2>2. turns[t].results = {}
    BY AtRest
  <2>3. \A s : Made(t, s) => s \in Slots
    BY DEF Made, BookedInv, LoopTyped, BookingRow
  <2> HIDE DEF told
  <2>4. turns[t].booking \subseteq told
    BY <2>1 DEF BookedInv, KeptWasMade
  <2>5. told # {} => turns[t].booking # {}
    BY <2>1, <2>2, <2>3 DEF BookedInv, MadeIsKnown
  <2> QED
    BY <2>4, <2>5 DEF told
<1> QED
  BY <1>1, <1>2, <1>3, PTL DEF Spec

---------------------------------------------------------------------------
(* The rows of a conversation.                                             *)

\* Between a response and the rows of its results, and the calls those are of.
Between(t) == turns[t].pc \in {"tools", "record"}
Awaited(t) == turns[t].todo \union {r.call : r \in turns[t].results}

OneAtATime == \A t, u \in Turns :
  Running(t) /\ Running(u) /\ turns[t].conv = turns[u].conv /\ turns[t].conv \notin overlapped => t = u

\* A call has one result, and none while it is still to run.
OwnCalls == \A t \in Turns :
  /\ \A r, q \in turns[t].results : r.call = q.call => r = q
  /\ \A r \in turns[t].results : r.call \notin turns[t].todo

\* The rows await just what the one turn at work has still to record.
RowsOf(c) ==
  /\ \A t \in Turns : turns[t].conv = c /\ Between(t) => messages[c] = [awaited |-> Awaited(t), torn |-> FALSE]
  /\ (\A t \in Turns : turns[t].conv = c => ~Between(t)) => messages[c] = NoRows
RowsMatch == faults = 0 => \A c \in Conversations \ overlapped : RowsOf(c)

ReadableInv == BookedInv /\ faults \in Nat /\ OneAtATime /\ OwnCalls /\ RowsMatch

LEMMA ReadableInit ==
    ASSUME Init
    PROVE  ReadableInv
<1>1. \A t \in Turns : turns[t].pc = "idle" /\ turns[t].results = {}
  BY DEF Init, Idle
<1>2. \A c \in Conversations : messages[c] = NoRows
  BY DEF Init
<1> QED
  BY <1>1, <1>2, BookedInit DEF Init, ReadableInv, OneAtATime, OwnCalls, RowsMatch, RowsOf, Between, Running

\* An ordinary row after a readable history, and a result that is awaited.
LEMMA AppendedRows ==
    ASSUME NEW calls, NEW awaited
    PROVE  /\ Appended(NoRows, "user", calls) = [awaited |-> calls, torn |-> FALSE]
           /\ Appended(NoRows, "assistant", calls) = [awaited |-> calls, torn |-> FALSE]
           /\ calls \subseteq awaited =>
                Appended([awaited |-> awaited, torn |-> FALSE], "tool", calls)
                  = [awaited |-> awaited \ calls, torn |-> FALSE]
BY DEF Appended, NoRows

\* The one turn at work in a conversation: nobody else of it is between.
LEMMA Alone ==
    ASSUME ReadableInv, NEW t \in Turns, Running(t), turns[t].conv \notin overlapped
    PROVE  \A u \in Turns : u # t /\ turns[u].conv = turns[t].conv => ~Running(u) /\ ~Between(u)
BY DEF ReadableInv, OneAtATime, Running, Between

\* A step of a turn that is not between before it or after it, and saves at most a row
\* that leaves a readable history readable.
LEMMA QuietMove ==
    ASSUME ReadableInv, BookedInv', NEW t \in Turns,
           \A u \in Turns : u # t => turns'[u] = turns[u],
           ~Between(t), ~Between(t)',
           Running(t)' => Running(t) /\ turns'[t].conv = turns[t].conv,
           turns'[t].results = {}, overlapped' = overlapped, faults' = faults,
           \A c \in Conversations : messages'[c] = messages[c] \/
             /\ Running(t) /\ c = turns[t].conv
             /\ messages[c] = NoRows => messages'[c] = NoRows
    PROVE  ReadableInv'
<1>1. OneAtATime'
  BY DEF ReadableInv, OneAtATime, Running
<1>2. OwnCalls'
  BY DEF ReadableInv, OwnCalls
<1>3. ASSUME NEW c \in Conversations \ overlapped, faults = 0 PROVE RowsOf(c)'
  <2>1. RowsOf(c)
    BY <1>3 DEF ReadableInv, RowsMatch
  <2>2. CASE messages'[c] = messages[c]
    <3>1. \A u \in Turns : turns'[u].conv = c /\ Between(u)' =>
            turns[u].conv = c /\ Between(u) /\ Awaited(u)' = Awaited(u)
      BY DEF Between, Awaited
    <3>2. (\A u \in Turns : turns'[u].conv = c => ~Between(u)')
            => \A u \in Turns : turns[u].conv = c => ~Between(u)
      BY DEF Between
    <3> QED
      BY <2>1, <2>2, <3>1, <3>2 DEF RowsOf
  <2>3. CASE Running(t) /\ c = turns[t].conv /\ (messages[c] = NoRows => messages'[c] = NoRows)
    <3>1. \A u \in Turns : turns[u].conv = c => ~Between(u)
      BY <1>3, <2>3, Alone
    <3>2. \A u \in Turns : turns'[u].conv = c => ~Between(u)'
      BY <3>1 DEF Between
    <3>3. messages'[c] = NoRows
      BY <2>1, <2>3, <3>1 DEF RowsOf
    <3> QED
      BY <3>2, <3>3 DEF RowsOf
  <2> QED
    BY <2>2, <2>3
<1>4. RowsMatch'
  BY <1>3 DEF RowsMatch
<1> QED
  BY <1>1, <1>2, <1>4 DEF ReadableInv

LEMMA MovesKeepReadable ==
    ASSUME ReadableInv, BookedInv', NEW t \in Turns,
           FindThread(t) \/ CreateThread(t) \/ Load(t) \/ CannotAsk(t)
             \/ Answer(t) \/ HandOver(t) \/ Redeliver(t)
    PROVE  ReadableInv'
<1>1. overlapped' = overlapped /\ faults' = faults
  BY DEF FindThread, CreateThread, Load, CannotAsk, Answer, HandOver, Redeliver
<1>2. turns[t] \in Turn /\ DOMAIN messages = Conversations
  BY DEF ReadableInv, BookedInv, LoopTyped
<1>3. /\ \A u \in Turns : u # t => turns'[u] = turns[u]
      /\ turns'[t].pc \in {"create", "found", "refused", "ask", "failed", "answered", "idle"}
      /\ turns'[t].pc = "ask" => turns[t].pc = "load" /\ turns'[t].conv = turns[t].conv
  <2>1. turns \in [Turns -> Turn]
    BY DEF ReadableInv, BookedInv, LoopTyped
  <2>2. CASE FindThread(t)
    <3>1. PICK state : turns' = [turns EXCEPT ![t] = state] /\ state.pc \in {"create", "found", "refused"}
      <4>1. turns[t] \in Turn
        BY <2>1
      <4>2. \A pc \in {"create", "found", "refused"} :
              [turns[t] EXCEPT !.pc = pc].pc = pc /\ [turns[t] EXCEPT !.pc = pc, !.conv = "sms"].pc = pc
        BY <4>1 DEF Turn
      <4>3. \E pc \in {"create", "found", "refused"} :
              \/ turns' = [turns EXCEPT ![t] = [turns[t] EXCEPT !.pc = pc]]
              \/ turns' = [turns EXCEPT ![t] = [turns[t] EXCEPT !.pc = pc, !.conv = "sms"]]
        BY <2>2 DEF FindThread, Become
      <4> QED
        BY <4>2, <4>3
    <3> QED
      BY <2>1, <3>1
  <2>3. CASE CreateThread(t)
    BY <2>1, <2>3 DEF CreateThread, Become, Turn
  <2>4. CASE Load(t)
    BY <2>1, <2>4 DEF Load, Become, At, Turn
  <2>5. CASE CannotAsk(t)
    BY <2>1, <2>5 DEF CannotAsk, Become, Turn
  <2>6. CASE Answer(t)
    BY <2>1, <2>6 DEF Answer, Become, Turn
  <2>7. CASE HandOver(t)
    BY <2>1, <2>7 DEF HandOver, Become, Turn
  <2>8. CASE Redeliver(t)
    BY <2>1, <2>8 DEF Redeliver, Become, Idle
  <2> QED
    BY <2>2, <2>3, <2>4, <2>5, <2>6, <2>7, <2>8
<1>4. ~Between(t)' /\ (Running(t)' => Running(t) /\ turns'[t].conv = turns[t].conv)
  BY <1>3 DEF Between, Running
<1>5. ~Between(t)
  BY DEF FindThread, CreateThread, Load, CannotAsk, Answer, HandOver, Redeliver, At, Between
<1>6. turns'[t].results = {}
  BY <1>3 DEF BookedInv, OnlyInBetween
<1>7. ASSUME NEW c \in Conversations
      PROVE  messages'[c] = messages[c] \/
               /\ Running(t) /\ c = turns[t].conv
               /\ messages[c] = NoRows => messages'[c] = NoRows
  <2>1. CASE FindThread(t) \/ CreateThread(t) \/ Load(t) \/ CannotAsk(t) \/ Redeliver(t)
    BY <2>1 DEF FindThread, CreateThread, Load, CannotAsk, Redeliver
  <2>2. CASE Answer(t) \/ HandOver(t)
    <3>1. Running(t) /\ messages' = [messages EXCEPT ![turns[t].conv] =
                                       Appended(messages[turns[t].conv], "assistant", {})]
      BY <2>2 DEF Answer, HandOver, At, Running, Save
    <3>2. CASE c = turns[t].conv
      <4>1. messages'[c] = Appended(messages[c], "assistant", {})
        BY <1>2, <3>1, <3>2
      <4> QED
        BY <3>1, <3>2, <4>1, AppendedRows DEF NoRows
    <3>3. CASE c # turns[t].conv
      BY <1>2, <3>1, <3>3
    <3> QED
      BY <3>2, <3>3
  <2> QED
    BY <2>1, <2>2
<1> QED
  BY <1>1, <1>3, <1>4, <1>5, <1>6, <1>7, QuietMove

\* A message saved: its conversation is overlapped, or nobody else of it is at work.
LEMMA BeginKeepsReadable ==
    ASSUME ReadableInv, BookedInv', NEW t \in Turns, Begin(t)
    PROVE  ReadableInv'
<1> DEFINE mine == turns[t].conv
<1>1. /\ turns[t].pc = "found" /\ faults' = faults
      /\ messages' = [messages EXCEPT ![mine] = Appended(messages[mine], "user", {})]
      /\ turns' = [turns EXCEPT ![t] = [turns[t] EXCEPT !.pc = "load"]]
      /\ overlapped' = IF \E u \in Turns : Running(u) /\ turns[u].conv = mine
                         THEN overlapped \union {mine} ELSE overlapped
  BY DEF Begin, At, Save, Become
<1>2. turns \in [Turns -> Turn] /\ DOMAIN messages = Conversations /\ mine \in Conversations
  BY DEF ReadableInv, BookedInv, LoopTyped, Turn
<1>3. /\ \A u \in Turns : u # t => turns'[u] = turns[u]
      /\ turns'[t].pc = "load" /\ turns'[t].conv = mine
  BY <1>1, <1>2 DEF Turn
<1> HIDE DEF mine
<1>4. turns'[t].results = {} /\ overlapped \subseteq overlapped'
  BY <1>1, <1>3 DEF BookedInv, OnlyInBetween
<1>5. mine \notin overlapped' => \A u \in Turns : turns[u].conv = mine => ~Running(u)
  BY <1>1
<1>6. OneAtATime'
  BY <1>3, <1>4, <1>5 DEF ReadableInv, OneAtATime, Running
<1>7. OwnCalls'
  BY <1>3, <1>4 DEF ReadableInv, OwnCalls
<1>8. ASSUME NEW c \in Conversations \ overlapped', faults = 0 PROVE RowsOf(c)'
  <2>1. RowsOf(c)
    BY <1>4, <1>8 DEF ReadableInv, RowsMatch
  <2>2. CASE c # mine
    <3>1. messages'[c] = messages[c]
      BY <1>1, <1>2, <2>2
    <3>2. \A u \in Turns : turns'[u].conv = c => u # t /\ turns'[u] = turns[u]
      BY <1>3, <2>2
    <3>3. \A u \in Turns : turns[u].conv = c => u # t /\ turns'[u] = turns[u]
      BY <1>3, <2>2 DEF mine
    <3>4. \A u \in Turns : turns'[u] = turns[u] => (Between(u)' <=> Between(u)) /\ Awaited(u)' = Awaited(u)
      BY DEF Between, Awaited
    <3> QED
      BY <2>1, <3>1, <3>2, <3>3, <3>4 DEF RowsOf
  <2>3. CASE c = mine
    <3>1. \A u \in Turns : turns[u].conv = c => ~Between(u)
      BY <1>5, <1>8, <2>3 DEF Running, Between
    <3>2. messages[c] = NoRows
      BY <2>1, <3>1 DEF RowsOf
    <3>3. messages'[c] = NoRows
      BY <1>1, <1>2, <2>3, <3>2, AppendedRows DEF NoRows
    <3>4. \A u \in Turns : turns'[u].conv = c => ~Between(u)'
      BY <1>3, <3>1 DEF Between
    <3> QED
      BY <3>3, <3>4 DEF RowsOf
  <2> QED
    BY <2>2, <2>3
<1>9. RowsMatch'
  BY <1>1, <1>8 DEF RowsMatch
<1> QED
  BY <1>1, <1>6, <1>7, <1>9 DEF ReadableInv

\* A step of a turn at work, after which its rows await its calls: those of the others
\* of its conversation, if it stands alone, are none.
LEMMA BusyMove ==
    ASSUME ReadableInv, BookedInv', NEW t \in Turns, Running(t), Running(t)',
           \A u \in Turns : u # t => turns'[u] = turns[u],
           turns'[t].conv = turns[t].conv, overlapped' = overlapped, faults' = faults,
           OwnCalls',
           \A c \in Conversations : c # turns[t].conv => messages'[c] = messages[c],
           (faults = 0 /\ turns[t].conv \notin overlapped) =>
             messages'[turns[t].conv] = IF Between(t)' THEN [awaited |-> Awaited(t)', torn |-> FALSE]
                                                      ELSE NoRows
    PROVE  ReadableInv'
<1>1. OneAtATime'
  BY DEF ReadableInv, OneAtATime, Running
<1>2. ASSUME NEW c \in Conversations \ overlapped, faults = 0 PROVE RowsOf(c)'
  <2>1. RowsOf(c)
    BY <1>2 DEF ReadableInv, RowsMatch
  <2>2. CASE c # turns[t].conv
    <3>1. messages'[c] = messages[c]
      BY <2>2
    <3>2. \A u \in Turns : turns'[u].conv = c => u # t /\ turns'[u] = turns[u]
      BY <2>2
    <3>3. \A u \in Turns : turns[u].conv = c => u # t /\ turns'[u] = turns[u]
      BY <2>2
    <3>4. \A u \in Turns : turns'[u] = turns[u] => (Between(u)' <=> Between(u)) /\ Awaited(u)' = Awaited(u)
      BY DEF Between, Awaited
    <3> QED
      BY <2>1, <3>1, <3>2, <3>3, <3>4 DEF RowsOf
  <2>3. CASE c = turns[t].conv
    <3>1. \A u \in Turns : u # t /\ turns[u].conv = c => ~Between(u)
      BY <1>2, <2>3, Alone
    <3>2. \A u \in Turns : u # t /\ turns'[u].conv = c => ~Between(u)'
      BY <3>1 DEF Between
    <3>3. messages'[c] = IF Between(t)' THEN [awaited |-> Awaited(t)', torn |-> FALSE] ELSE NoRows
      BY <1>2, <2>3
    <3> QED
      BY <2>3, <3>2, <3>3 DEF RowsOf
  <2> QED
    BY <2>2, <2>3
<1>3. RowsMatch'
  BY <1>2 DEF RowsMatch
<1> QED
  BY <1>1, <1>3 DEF ReadableInv

LEMMA CallToolsKeepsReadable ==
    ASSUME ReadableInv, BookedInv', NEW t \in Turns, CallTools(t)
    PROVE  ReadableInv'
<1> DEFINE mine == turns[t].conv
<1>1. /\ turns[t].pc = "ask" /\ overlapped' = overlapped /\ faults' = faults
  BY DEF CallTools, At
<1>2. turns \in [Turns -> Turn] /\ DOMAIN messages = Conversations /\ turns[t] \in Turn /\ mine \in Conversations
  BY DEF ReadableInv, BookedInv, LoopTyped, Turn
<1>3. PICK calls, reads, state :
        /\ reads \subseteq calls
        /\ messages' = [messages EXCEPT ![mine] = Appended(messages[mine], "assistant", calls)]
        /\ turns' = [turns EXCEPT ![t] = state]
        /\ state.todo = calls \ reads /\ state.results = {Result(c, {}) : c \in reads}
        /\ state.pc \in {"tools", "record"} /\ state.conv = mine
  <2>1. PICK plan \in Plans :
          LET calls == Calls(t, plan)
              reads == {c \in calls : c.tool = "look"}
          IN  /\ Save(t, "assistant", calls)
              /\ Become(t, [turns[t] EXCEPT !.iteration = @ + 1, !.todo = calls \ reads,
                   !.results = {Result(c, {}) : c \in reads},
                   !.pc = IF calls = reads THEN "record" ELSE "tools",
                   !.stream = Emitted(t, [k \in DOMAIN plan |-> "start"])])
    BY Zenon DEF CallTools
  <2> DEFINE calls == Calls(t, plan)
             reads == {c \in calls : c.tool = "look"}
             state == [turns[t] EXCEPT !.iteration = @ + 1, !.todo = calls \ reads,
                   !.results = {Result(c, {}) : c \in reads},
                   !.pc = IF calls = reads THEN "record" ELSE "tools",
                   !.stream = Emitted(t, [k \in DOMAIN plan |-> "start"])]
  <2>2. messages' = [messages EXCEPT ![mine] = Appended(messages[mine], "assistant", calls)]
    BY <2>1 DEF Save
  <2>3. turns' = [turns EXCEPT ![t] = state]
    BY <2>1 DEF Become
  <2>4. /\ state.todo = calls \ reads /\ state.results = {Result(c, {}) : c \in reads}
        /\ state.pc \in {"tools", "record"} /\ state.conv = turns[t].conv
    BY <1>2 DEF Turn
  <2>5. reads \subseteq calls
    OBVIOUS
  <2> HIDE DEF calls, reads, state
  <2> QED
    BY <2>2, <2>3, <2>4, <2>5
<1>4. /\ \A u \in Turns : u # t => turns'[u] = turns[u]
      /\ turns'[t].conv = mine /\ turns'[t].pc \in {"tools", "record"}
      /\ turns'[t].todo = calls \ reads /\ turns'[t].results = {Result(c, {}) : c \in reads}
  BY <1>2, <1>3
<1>5. \A c : Result(c, {}).call = c
  BY DEF Result
<1>6. OwnCalls'
  <2>1. /\ \A r, q \in turns'[t].results : r.call = q.call => r = q
        /\ \A r \in turns'[t].results : r.call \notin turns'[t].todo
    BY <1>4, <1>5
  <2> QED
    BY <1>4, <2>1 DEF ReadableInv, OwnCalls
<1>7. Awaited(t)' = calls
  <2>1. {r.call : r \in turns'[t].results} = reads
    BY <1>4, <1>5
  <2> QED
    BY <1>3, <1>4, <2>1 DEF Awaited
<1>8. Running(t) /\ Running(t)' /\ ~Between(t) /\ Between(t)'
  BY <1>1, <1>4 DEF Running, Between
<1> HIDE DEF mine
<1>9. \A c \in Conversations : c # mine => messages'[c] = messages[c]
  BY <1>2, <1>3
<1>10. ASSUME faults = 0, mine \notin overlapped
      PROVE  messages'[mine] = [awaited |-> calls, torn |-> FALSE]
  <2>1. \A u \in Turns : turns[u].conv = mine => ~Between(u)
    BY <1>8, <1>10, Alone DEF mine
  <2>2. messages[mine] = NoRows
    BY <1>2, <1>10, <2>1 DEF ReadableInv, RowsMatch, RowsOf
  <2> QED
    BY <1>2, <1>3, <2>2, AppendedRows
<1> QED
  BY <1>1, <1>4, <1>6, <1>7, <1>8, <1>9, <1>10, BusyMove DEF mine

LEMMA RunToolKeepsReadable ==
    ASSUME ReadableInv, BookedInv', NEW t \in Turns, RunTool(t)
    PROVE  ReadableInv'
<1>1. turns[t].pc = "tools" /\ messages' = messages /\ overlapped' = overlapped /\ faults' = faults
  BY RunToolReturns DEF ReadableInv
<1>2. PICK call \in turns[t].todo, made \in SUBSET Slots : Returned(t, call, made)
  BY RunToolReturns DEF ReadableInv
<1>3. /\ \A u \in Turns : u # t => turns'[u] = turns[u]
      /\ turns'[t].todo = turns[t].todo \ {call}
      /\ turns'[t].results = turns[t].results \union {Result(call, made)}
      /\ turns'[t].pc = IF turns[t].todo \ {call} = {} THEN "record" ELSE "tools"
      /\ turns'[t].conv = turns[t].conv
  BY <1>2, ReturnedTurn DEF ReadableInv, BookedInv
<1>4. Result(call, made).call = call
  BY DEF Result
<1>5. OwnCalls'
  <2>1. /\ \A r, q \in turns'[t].results : r.call = q.call => r = q
        /\ \A r \in turns'[t].results : r.call \notin turns'[t].todo
    BY <1>3, <1>4 DEF ReadableInv, OwnCalls
  <2> QED
    BY <1>3, <2>1 DEF ReadableInv, OwnCalls
<1>6. Awaited(t)' = Awaited(t)
  <2>1. {r.call : r \in turns'[t].results} = {r.call : r \in turns[t].results} \union {call}
    BY <1>3, <1>4
  <2> QED
    BY <1>3, <2>1 DEF Awaited
<1>7. Running(t) /\ Running(t)' /\ Between(t) /\ Between(t)'
  BY <1>1, <1>3 DEF Running, Between
<1>8. turns[t].conv \in Conversations
  BY DEF ReadableInv, BookedInv, LoopTyped, Turn
<1>9. faults = 0 /\ turns[t].conv \notin overlapped =>
        messages[turns[t].conv] = [awaited |-> Awaited(t), torn |-> FALSE]
  BY <1>7, <1>8 DEF ReadableInv, RowsMatch, RowsOf
<1> QED
  BY <1>1, <1>3, <1>5, <1>6, <1>7, <1>9, BusyMove

LEMMA RecordKeepsReadable ==
    ASSUME ReadableInv, BookedInv', NEW t \in Turns, Record(t)
    PROVE  ReadableInv'
<1> DEFINE mine == turns[t].conv
<1>1. PICK r \in turns[t].results : Recorded(t, r, IF r.made = {} THEN turns[t].booking ELSE r.made)
  BY DEF Record
<1>2. PICK booking \in SUBSET Slots : booking = IF r.made = {} THEN turns[t].booking ELSE r.made
  <2>1. turns[t] \in Turn
    BY DEF ReadableInv, BookedInv, LoopTyped
  <2>2. turns[t].booking \in SUBSET Slots /\ r \in ToolResult
    BY <2>1 DEF Turn
  <2> QED
    BY <2>2 DEF ToolResult
<1>3. /\ \A u \in Turns : u # t => turns'[u] = turns[u]
      /\ turns'[t].todo = turns[t].todo /\ turns'[t].results = turns[t].results \ {r}
      /\ turns'[t].pc = IF turns[t].results \ {r} = {} THEN "ask" ELSE "record"
      /\ turns'[t].conv = mine
  BY <1>1, <1>2, RecordedTurn DEF ReadableInv, BookedInv
<1>4. /\ turns[t].pc = "record" /\ overlapped' = overlapped /\ faults' = faults
      /\ messages' = [messages EXCEPT ![mine] = Appended(messages[mine], "tool", {r.call})]
  BY <1>1 DEF Recorded, At, Save
<1>5. turns[t].todo = {}
  BY <1>4 DEF ReadableInv, BookedInv, OnlyInBetween
<1>6. OwnCalls'
  BY <1>3 DEF ReadableInv, OwnCalls
<1>7. Running(t) /\ Running(t)' /\ Between(t)
  BY <1>3, <1>4 DEF Running, Between
<1>8. DOMAIN messages = Conversations /\ mine \in Conversations
  BY DEF ReadableInv, BookedInv, LoopTyped, Turn
<1>9. Awaited(t)' = Awaited(t) \ {r.call} /\ r.call \in Awaited(t)
  <2>1. \A q \in turns[t].results : q.call = r.call => q = r
    BY DEF ReadableInv, OwnCalls
  <2>2. {q.call : q \in turns[t].results \ {r}} = {q.call : q \in turns[t].results} \ {r.call}
    BY <2>1
  <2> QED
    BY <1>3, <1>5, <2>2 DEF Awaited
<1>10. ~Between(t)' => Awaited(t)' = {}
  BY <1>3, <1>5 DEF Awaited, Between
<1> HIDE DEF mine
<1>11. \A c \in Conversations : c # mine => messages'[c] = messages[c]
  BY <1>4, <1>8
<1>12. ASSUME faults = 0, mine \notin overlapped
       PROVE  messages'[mine] = IF Between(t)' THEN [awaited |-> Awaited(t)', torn |-> FALSE] ELSE NoRows
  <2>1. messages[mine] = [awaited |-> Awaited(t), torn |-> FALSE]
    BY <1>7, <1>8, <1>12 DEF ReadableInv, RowsMatch, RowsOf, mine
  <2>2. messages'[mine] = Appended(messages[mine], "tool", {r.call})
    BY <1>4, <1>8
  <2>3. messages'[mine] = [awaited |-> Awaited(t) \ {r.call}, torn |-> FALSE]
    BY <1>9, <2>1, <2>2, AppendedRows
  <2> QED
    BY <1>9, <1>10, <2>3 DEF NoRows
<1> QED
  BY <1>3, <1>4, <1>6, <1>7, <1>11, <1>12, BusyMove DEF mine

LEMMA BreakKeepsReadable ==
    ASSUME ReadableInv, BookedInv', NEW t \in Turns, Break(t)
    PROVE  ReadableInv'
<1>1. faults \in Nat /\ faults' = faults + 1 /\ overlapped' = overlapped
  BY DEF Break, ReadableInv
<1>2. turns \in [Turns -> Turn]
  BY DEF ReadableInv, BookedInv, LoopTyped
<1>3. /\ \A u \in Turns : u # t => turns'[u] = turns[u]
      /\ turns'[t].pc \in {"broken", "dead"}
      /\ turns'[t].todo = turns[t].todo /\ turns'[t].results = turns[t].results
  BY <1>2 DEF Break, Become, Turn
<1>4. OneAtATime'
  BY <1>1, <1>3 DEF ReadableInv, OneAtATime, Running
<1>5. OwnCalls'
  BY <1>3 DEF ReadableInv, OwnCalls
<1>6. faults' \in Nat /\ faults' # 0
  BY <1>1
<1> QED
  BY <1>4, <1>5, <1>6 DEF ReadableInv, RowsMatch

\* As long as nothing broke off and no two turns of it overlapped, a conversation with
\* no turn between a response and its results can be sent to the model again
\* (AgentLoop.run, _execute_tool, _history_to_messages).
THEOREM ThreadIsReadableHolds == Spec => []ThreadIsReadable
<1>1. Init => ReadableInv
  BY ReadableInit
<1>2. ReadableInv /\ [Next]_vars => ReadableInv'
  <2> SUFFICES ASSUME ReadableInv, [Next]_vars PROVE ReadableInv'
    OBVIOUS
  <2>1. BookedInv'
    BY BookedStep DEF ReadableInv
  <2>2. ASSUME NEW t \in Turns, Advance(t) PROVE ReadableInv'
    BY <2>1, <2>2, MovesKeepReadable, BeginKeepsReadable, CallToolsKeepsReadable,
       RunToolKeepsReadable, RecordKeepsReadable DEF Advance
  <2>3. ASSUME NEW t \in Turns, Break(t) \/ Redeliver(t) PROVE ReadableInv'
    BY <2>1, <2>3, BreakKeepsReadable, MovesKeepReadable
  <2>4. CASE UNCHANGED vars
    <3>1. turns' = turns /\ messages' = messages /\ overlapped' = overlapped /\ faults' = faults
      BY <2>4 DEF vars
    <3> QED
      BY <2>1, <3>1 DEF ReadableInv, OneAtATime, OwnCalls, RowsMatch, RowsOf, Between, Awaited, Running
  <2> QED
    BY <2>2, <2>3, <2>4 DEF Next, AllEnded
<1>3. ReadableInv => ThreadIsReadable
  BY DEF ReadableInv, RowsMatch, RowsOf, ThreadIsReadable, Readable, Between
<1> QED
  BY <1>1, <1>2, <1>3, PTL DEF Spec

---------------------------------------------------------------------------
(* The price that was shown.  What compute_quote returns does not matter,  *)
(* only that it is a function of rules, slot and tier.                     *)

TierOrNone == Tiers \union {NoTier}
Total(rs, slot, t) == Price!ComputeQuote(rs, slot, t).total
Prices ==
  {Total(rs, slot, t) : rs \in SUBSET Rules, slot \in PriceSlots, t \in TierOrNone} \union {Price!NotGiven}
PriceRequest ==
  [pc : {"idle", "shown", "checkTier", "check", "tier", "create", "done"}, slot : PriceSlots,
   expected : Prices, normal : BOOLEAN, tier : TierOrNone]
PriceTyped ==
  /\ rules \subseteq Rules /\ tier \in TierOrNone
  /\ request \in [Pages -> PriceRequest]
  /\ DOMAIN row = Pages /\ moved \subseteq Pages

Far(total, expected) == total - expected > 1 \/ expected - total > 1

\* What a request has read of the tier is so, and once it has passed the check its price
\* is the one of now.
Agreed(q, price, t) ==
  /\ q.pc \in {"check", "create"} => q.tier = t
  /\ q.pc \in {"tier", "create"} /\ q.expected # Price!NotGiven => ~Far(price, q.expected)
StillAgreed ==
  \A r \in Pages : r \notin moved /\ request[r].normal =>
    Agreed(request[r], Total(rules, request[r].slot, tier), tier)

MadeWhenDone == \A r \in Pages : row[r].made => request[r].pc = "done"

PriceInv == PriceTyped /\ MadeWhenDone /\ StillAgreed /\ AgreedPrice

LEMMA PriceStarts ==
    ASSUME Price!QuotesAssumption, Price!Init
    PROVE  PriceInv
<1>1. /\ tier \in TierOrNone /\ rules \subseteq Rules /\ moved = {} /\ DOMAIN row = Pages
      /\ \A r \in Pages : row[r].made = FALSE
  BY DEF Price!Init, Price!NoRow, TierOrNone
<1>2. (CHOOSE s \in PriceSlots : TRUE) \in PriceSlots
  BY DEF Price!QuotesAssumption
<1>3. request \in [Pages -> PriceRequest] /\ \A r \in Pages : request[r].pc = "idle"
  BY <1>2 DEF Price!Init, PriceRequest, Prices, TierOrNone
<1> QED
  BY <1>1, <1>3 DEF PriceInv, PriceTyped, MadeWhenDone, StillAgreed, Agreed, AgreedPrice, Price!AgreedPrice

\* An edit of rules or tier is noted against every request between submission and row.
LEMMA EditKeeps ==
    ASSUME PriceInv, Price!Edit, rules' \subseteq Rules, tier' \in TierOrNone
    PROVE  PriceInv'
<1>1. /\ request' = request /\ row' = row /\ moved \subseteq moved' /\ moved' \subseteq Pages
      /\ \A r \in Pages : r \notin moved' => request[r].pc \in {"idle", "shown", "done"}
  BY DEF PriceInv, PriceTyped, Price!Edit, Price!InFlight
<1>2. PriceTyped' /\ MadeWhenDone'
  BY <1>1 DEF PriceInv, PriceTyped, MadeWhenDone
<1>3. StillAgreed'
  BY <1>1 DEF StillAgreed, Agreed
<1>4. AgreedPrice'
  BY <1>1 DEF PriceInv, AgreedPrice, Price!AgreedPrice
<1> QED
  BY <1>2, <1>3, <1>4 DEF PriceInv

\* A request that goes on, its row not made.
LEMMA OneRequestGoesOn ==
    ASSUME PriceInv, NEW r \in Pages, NEW q \in PriceRequest,
           request' = [request EXCEPT ![r] = q],
           rules' = rules, tier' = tier, row' = row, moved' \in {moved, moved \ {r}},
           request[r].pc # "done",
           r \notin moved' /\ q.normal => Agreed(q, Total(rules, q.slot, tier), tier)
    PROVE  PriceInv'
<1>1. request'[r] = q /\ \A s \in Pages \ {r} : request'[s] = request[s]
  BY DEF PriceInv, PriceTyped
<1>2. PriceTyped'
  BY DEF PriceInv, PriceTyped
<1>3. ~row[r].made
  BY DEF PriceInv, MadeWhenDone
<1>4. MadeWhenDone'
  BY <1>1, <1>3 DEF PriceInv, MadeWhenDone
<1>5. \A s \in Pages \ {r} : s \notin moved' => s \notin moved
  OBVIOUS
<1>6. StillAgreed'
  <2> SUFFICES ASSUME NEW s \in Pages, s \notin moved', request'[s].normal
               PROVE  Agreed(request'[s], Total(rules', request'[s].slot, tier'), tier')
    BY DEF StillAgreed
  <2>1. CASE s = r
    BY <1>1, <2>1
  <2>2. CASE s # r
    BY <1>1, <1>5, <2>2 DEF PriceInv, StillAgreed
  <2> QED
    BY <2>1, <2>2
<1>7. AgreedPrice'
  BY <1>1, <1>3, <1>5 DEF PriceInv, AgreedPrice, Price!AgreedPrice
<1> QED
  BY <1>2, <1>4, <1>6, <1>7 DEF PriceInv

LEMMA ShowKeeps ==
    ASSUME PriceInv, NEW r \in Pages, NEW slot \in PriceSlots, NEW known \in BOOLEAN,
           Price!Show(r, slot, known)
    PROVE  PriceInv'
<1>1. PICK t \in TierOrNone : t = IF known THEN tier ELSE NoTier
  BY DEF PriceInv, PriceTyped, TierOrNone
<1>2. PICK p \in Prices : p = Total(rules, slot, t)
  BY DEF Prices, PriceInv, PriceTyped
<1> DEFINE q == [request[r] EXCEPT !.pc = "shown", !.slot = slot, !.expected = p]
<1>3. request' = [request EXCEPT ![r] = q]
  BY <1>1, <1>2 DEF Price!Show, Total, PriceInv, PriceTyped, PriceRequest
<1>4. q \in PriceRequest /\ q.pc = "shown"
  BY DEF PriceInv, PriceTyped, PriceRequest
<1> HIDE DEF q
<1> QED
  BY <1>3, <1>4, OneRequestGoesOn DEF Price!Show, Agreed

LEMMA SubmitKeeps ==
    ASSUME PriceInv, NEW r \in Pages, NEW withPrice \in BOOLEAN, NEW normal \in BOOLEAN,
           Price!Submit(r, withPrice, normal)
    PROVE  PriceInv'
<1>1. PICK p \in Prices : p = IF withPrice THEN request[r].expected ELSE Price!NotGiven
  BY DEF Prices, PriceInv, PriceTyped, PriceRequest
<1>2. PICK pc \in {"checkTier", "tier"} : pc = IF withPrice THEN "checkTier" ELSE "tier"
  OBVIOUS
<1> DEFINE q == [request[r] EXCEPT !.pc = pc, !.expected = p, !.normal = normal]
<1>3. request' = [request EXCEPT ![r] = q]
  BY <1>1, <1>2 DEF Price!Submit, PriceInv, PriceTyped, PriceRequest
<1>4. q \in PriceRequest /\ q.pc = pc /\ q.expected = p
  BY <1>2 DEF PriceInv, PriceTyped, PriceRequest
<1> HIDE DEF q
<1>5. Agreed(q, Total(rules, q.slot, tier), tier)
  BY <1>1, <1>2, <1>4 DEF Agreed
<1> QED
  BY <1>3, <1>4, <1>5, OneRequestGoesOn DEF Price!Submit

LEMMA CheckTierKeeps ==
    ASSUME PriceInv, NEW r \in Pages, Price!CheckTier(r)
    PROVE  PriceInv'
<1>1. PICK t \in TierOrNone : t = IF request[r].normal THEN tier ELSE NoTier
  BY DEF PriceInv, PriceTyped, TierOrNone
<1> DEFINE q == [request[r] EXCEPT !.pc = "check", !.tier = t]
<1>2. request' = [request EXCEPT ![r] = q]
  BY <1>1 DEF Price!CheckTier, PriceInv, PriceTyped, PriceRequest
<1>3. q \in PriceRequest /\ q.pc = "check" /\ q.tier = t /\ q.normal = request[r].normal
  BY DEF PriceInv, PriceTyped, PriceRequest
<1> HIDE DEF q
<1>4. q.normal => Agreed(q, Total(rules, q.slot, tier), tier)
  BY <1>1, <1>3 DEF Agreed
<1>5. request[r].pc = "checkTier" /\ rules' = rules /\ tier' = tier /\ row' = row /\ moved' = moved
  BY DEF Price!CheckTier
<1> QED
  BY <1>2, <1>3, <1>4, <1>5, OneRequestGoesOn

\* The check: the total of now is near the price, or becomes the price to agree to.
LEMMA CheckKeeps ==
    ASSUME PriceInv, NEW r \in Pages, Price!Check(r)
    PROVE  PriceInv'
<1>1. request[r] \in PriceRequest /\ rules \subseteq Rules
  BY DEF PriceInv, PriceTyped
<1>2. PICK p \in Prices : p = Total(rules, request[r].slot, request[r].tier)
  BY <1>1 DEF Prices, PriceRequest
<1>3. /\ request[r].pc = "check" /\ rules' = rules /\ tier' = tier /\ row' = row
  BY DEF Price!Check
<1> DEFINE Asks(e) == request' = [request EXCEPT ![r] = [request[r] EXCEPT !.pc = "shown", !.expected = e]]
           Passes  == request' = [request EXCEPT ![r] = [request[r] EXCEPT !.pc = "tier"]]
<1>9. \/ \E e \in {p, request[r].expected} : Asks(e) /\ moved' = moved \ {r}
      \/ ~Far(p, request[r].expected) /\ Passes /\ moved' = moved
  BY <1>1, <1>2 DEF Price!Check, Price!Goto, Price!Differs, Far, Total, PriceInv, PriceTyped, PriceRequest
<1>4. ASSUME NEW e \in {p, request[r].expected}, Asks(e), moved' = moved \ {r}
      PROVE  PriceInv'
  <2> DEFINE q == [request[r] EXCEPT !.pc = "shown", !.expected = e]
  <2>1. request' = [request EXCEPT ![r] = q] /\ moved' = moved \ {r}
    BY <1>4
  <2>2. q \in PriceRequest /\ q.pc = "shown"
    BY <1>1 DEF PriceRequest
  <2> HIDE DEF q
  <2>3. Agreed(q, Total(rules, q.slot, tier), tier)
    BY <2>2 DEF Agreed
  <2> QED
    BY <1>3, <2>1, <2>2, <2>3, OneRequestGoesOn
<1>5. ASSUME ~Far(p, request[r].expected), Passes, moved' = moved
      PROVE  PriceInv'
  <2> DEFINE q == [request[r] EXCEPT !.pc = "tier"]
  <2>1. request' = [request EXCEPT ![r] = q] /\ moved' = moved
    BY <1>5
  <2>2. /\ q \in PriceRequest /\ q.pc = "tier" /\ q.expected = request[r].expected
        /\ q.slot = request[r].slot /\ q.normal = request[r].normal
    BY <1>1 DEF PriceRequest
  <2> HIDE DEF q
  <2>3. r \notin moved /\ q.normal => request[r].tier = tier
    BY <1>3, <2>2 DEF PriceInv, StillAgreed, Agreed
  <2>4. r \notin moved /\ q.normal => Agreed(q, Total(rules, q.slot, tier), tier)
    BY <1>2, <1>5, <2>2, <2>3 DEF Agreed
  <2> QED
    BY <1>3, <2>1, <2>2, <2>4, OneRequestGoesOn
<1> HIDE DEF Asks, Passes
<1> QED
  BY <1>4, <1>5, <1>9

LEMMA ReadTierKeeps ==
    ASSUME PriceInv, NEW r \in Pages, Price!ReadTier(r)
    PROVE  PriceInv'
<1> DEFINE q == [request[r] EXCEPT !.pc = "create", !.tier = tier]
<1>1. request' = [request EXCEPT ![r] = q]
  BY DEF Price!ReadTier, PriceInv, PriceTyped, PriceRequest
<1>2. /\ q \in PriceRequest /\ q.pc = "create" /\ q.tier = tier /\ q.normal = request[r].normal
      /\ q.slot = request[r].slot /\ q.expected = request[r].expected
  BY DEF PriceInv, PriceTyped, PriceRequest
<1> HIDE DEF q
<1>3. r \notin moved /\ q.normal => Agreed(q, Total(rules, q.slot, tier), tier)
  BY <1>2 DEF Price!ReadTier, PriceInv, StillAgreed, Agreed
<1> QED
  BY <1>1, <1>2, <1>3, OneRequestGoesOn DEF Price!ReadTier

LEMMA CreateKeeps ==
    ASSUME PriceInv, NEW r \in Pages, Price!Create(r)
    PROVE  PriceInv'
<1> DEFINE q == [request[r] EXCEPT !.pc = "done"]
<1>1. request' = [request EXCEPT ![r] = q]
  BY DEF Price!Create, Price!Goto, PriceInv, PriceTyped, PriceRequest
<1>2. /\ q \in PriceRequest /\ q.pc = "done" /\ q.normal = request[r].normal
      /\ q.slot = request[r].slot /\ q.expected = request[r].expected
  BY DEF PriceInv, PriceTyped, PriceRequest
<1> HIDE DEF q
<1>3. /\ request[r].pc = "create" /\ rules' = rules /\ tier' = tier
      /\ moved' \in {moved, moved \cup {r}}
      /\ DOMAIN row' = Pages
      /\ r \notin moved' =>
           row'[r].total_amount = Total(rules, request[r].slot, request[r].tier)
      /\ \A s \in Pages \ {r} : row'[s] = row[s]
  BY DEF Price!Create, Price!Frozen, Total, PriceInv, PriceTyped
<1>4. /\ request'[r] = q /\ \A s \in Pages \ {r} : request'[s] = request[s]
      /\ request' \in [Pages -> PriceRequest]
  BY <1>1, <1>2 DEF PriceInv, PriceTyped
<1>5. PriceTyped' /\ MadeWhenDone'
  BY <1>2, <1>3, <1>4 DEF PriceInv, PriceTyped, MadeWhenDone
<1>6. StillAgreed'
  <2>1. Agreed(q, Total(rules', q.slot, tier'), tier')
    BY <1>2 DEF Agreed
  <2> QED
    BY <1>3, <1>4, <2>1 DEF PriceInv, StillAgreed
<1>7. AgreedPrice'
  <2>1. r \notin moved' /\ q.expected # Price!NotGiven /\ q.normal =>
          ~Far(row'[r].total_amount, q.expected)
    BY <1>2, <1>3 DEF PriceInv, StillAgreed, Agreed
  <2> QED
    BY <1>3, <1>4, <2>1 DEF PriceInv, AgreedPrice, Price!AgreedPrice, Far
<1> QED
  BY <1>5, <1>6, <1>7 DEF PriceInv

LEMMA RescheduleKeeps ==
    ASSUME PriceInv, NEW r \in Pages, NEW slot \in PriceSlots, Price!Reschedule(r, slot)
    PROVE  PriceInv'
<1>1. /\ row[r].made /\ request' = request /\ rules' = rules /\ tier' = tier
      /\ moved' = moved \union {r} /\ DOMAIN row' = Pages
      /\ \A s \in Pages \ {r} : row'[s] = row[s]
  BY DEF Price!Reschedule, PriceInv, PriceTyped
<1>2. PriceTyped' /\ MadeWhenDone'
  BY <1>1 DEF PriceInv, PriceTyped, MadeWhenDone
<1>3. StillAgreed' /\ AgreedPrice'
  BY <1>1 DEF PriceInv, StillAgreed, AgreedPrice, Price!AgreedPrice
<1> QED
  BY <1>2, <1>3 DEF PriceInv

LEMMA PriceStep ==
    ASSUME PriceInv, [Price!Next]_(Price!vars)
    PROVE  PriceInv'
<1>1. CASE UNCHANGED Price!vars
  BY <1>1 DEF PriceInv, PriceTyped, MadeWhenDone, StillAgreed, AgreedPrice, Price!AgreedPrice, Price!vars
<1>2. ASSUME NEW rule \in Rules, Price!EditRules(rule) PROVE PriceInv'
  <2>1. rules' \subseteq Rules /\ tier' \in TierOrNone
    BY <1>2 DEF Price!EditRules, PriceInv, PriceTyped
  <2> QED
    BY <1>2, <2>1, EditKeeps DEF Price!EditRules
<1>3. ASSUME NEW new \in TierOrNone, Price!ChangeTier(new) PROVE PriceInv'
  <2>1. rules' \subseteq Rules /\ tier' \in TierOrNone
    BY <1>3 DEF Price!ChangeTier, PriceInv, PriceTyped
  <2> QED
    BY <1>3, <2>1, EditKeeps DEF Price!ChangeTier
<1>4. ASSUME NEW r \in Pages, NEW slot \in PriceSlots, NEW known \in BOOLEAN,
             Price!Show(r, slot, known)
      PROVE  PriceInv'
  BY <1>4, ShowKeeps
<1>5. ASSUME NEW r \in Pages, NEW withPrice \in BOOLEAN, NEW normal \in BOOLEAN,
             Price!Submit(r, withPrice, normal)
      PROVE  PriceInv'
  BY <1>5, SubmitKeeps
<1>6. ASSUME NEW r \in Pages,
             Price!CheckTier(r) \/ Price!Check(r) \/ Price!ReadTier(r) \/ Price!Create(r)
      PROVE  PriceInv'
  BY <1>6, CheckTierKeeps, CheckKeeps, ReadTierKeeps, CreateKeeps
<1>7. ASSUME NEW r \in Pages, NEW slot \in PriceSlots, Price!Reschedule(r, slot)
      PROVE  PriceInv'
  BY <1>7, RescheduleKeeps
<1> QED
  BY <1>1, <1>2, <1>3, <1>4, <1>5, <1>6, <1>7 DEF Price!Next, TierOrNone

\* A booking costs what its page showed, within a cent, for whatever rules and whatever
\* the engine makes of them, unless something moved after the check had read it
\* (views.py, QuoteView and the creation's check of expected_total_amount).
THEOREM AgreedPriceHolds == Price!Spec => []AgreedPrice
<1>0. Price!QuotesAssumption
  BY PriceAssumption
<1>1. Price!Init => PriceInv
  BY <1>0, PriceStarts
<1>2. PriceInv /\ [Price!Next]_(Price!vars) => PriceInv'
  BY <1>0, PriceStep
<1>3. PriceInv => AgreedPrice
  BY DEF PriceInv
<1> QED
  BY <1>1, <1>2, <1>3, PTL DEF Price!Spec

---------------------------------------------------------------------------
(* Induction over 0..N and over the subsets of a finite set, for a set of  *)
(* what has the property.                                                  *)

LEMMA LeastOfSome ==
    ASSUME NEW T, T \subseteq Nat, T # {}
    PROVE  \E n \in T : \A m \in T : n <= m
<1>1. PICK n \in T : \A m \in T : ~ (<<m, n>> \in OpToRel(<, Nat))
  BY NatLessThanWellFounded, WFMin
<1>2. OpToRel(<, Nat) = {p \in Nat \X Nat : p[1] < p[2]}
  BY DEF OpToRel
<1>3. ASSUME NEW m \in T PROVE n <= m
  <2>1. ~ (<<m, n>> \in {p \in Nat \X Nat : p[1] < p[2]})
    BY <1>1, <1>2
  <2>2. ~ (m < n)
    BY <2>1
  <2> QED
    BY <2>2
<1> QED
  BY <1>3

LEMMA UpTo ==
    ASSUME NEW N \in Nat, NEW G, 0 \in G, \A n \in 1..N : n - 1 \in G => n \in G
    PROVE  \A n \in 0..N : n \in G
<1> DEFINE Bad == {n \in 0..N : n \notin G}
<1> SUFFICES ASSUME Bad # {} PROVE FALSE
  OBVIOUS
<1>1. PICK n \in Bad : \A m \in Bad : n <= m
  <2>1. Bad \subseteq Nat
    OBVIOUS
  <2> HIDE DEF Bad
  <2> QED
    BY <2>1, LeastOfSome
<1>2. n \in 1..N /\ n - 1 \in 0..N /\ ~(n <= n - 1)
  OBVIOUS
<1>3. n - 1 \in G
  BY <1>1, <1>2
<1> QED
  BY <1>2, <1>3

\* A function on 0..N, each value from the one before it.
Unfolding(g, N, V, start, step) ==
    g \in [0..N -> V] /\ g[0] = start /\ \A k \in 1..N : g[k] = step[<<k, g[k - 1]>>]

LEMMA Unfolds ==
    ASSUME NEW N \in Nat, NEW V, NEW start \in V, NEW step \in [(1..N) \X V -> V]
    PROVE  \E g : Unfolding(g, N, V, start, step)
<1> DEFINE Has(n) == \E g \in [0..n -> V] : g[0] = start /\ \A k \in 1..n : g[k] = step[<<k, g[k - 1]>>]
           G == {n \in 0..N : Has(n)}
<1>1. 0 \in G
  <2>1. [i \in 0..0 |-> start] \in [0..0 -> V] /\ [i \in 0..0 |-> start][0] = start /\ 1..0 = {}
    OBVIOUS
  <2>2. Has(0)
    BY <2>1
  <2> HIDE DEF Has
  <2> QED
    BY <2>2
<1>2. ASSUME NEW n \in 1..N, n - 1 \in G PROVE n \in G
  <2>1. PICK g \in [0..(n - 1) -> V] :
          g[0] = start /\ \A k \in 1..(n - 1) : g[k] = step[<<k, g[k - 1]>>]
    BY <1>2
  <2>2. PICK v \in V : v = step[<<n, g[n - 1]>>]
    <3>1. <<n, g[n - 1]>> \in (1..N) \X V
      OBVIOUS
    <3> QED
      BY <3>1
  <2> DEFINE h == [i \in 0..n |-> IF i = n THEN v ELSE g[i]]
  <2>0. n \in Nat /\ 0 \in 0..(n - 1)
    OBVIOUS
  <2>3. h \in [0..n -> V] /\ h[n] = v /\ \A i \in 0..(n - 1) : h[i] = g[i]
    OBVIOUS
  <2> HIDE DEF h
  <2>4. h[0] = start
    BY <2>0, <2>1, <2>3
  <2>5. ASSUME NEW k \in 1..n PROVE h[k] = step[<<k, h[k - 1]>>]
    <3>1. CASE k = n
      <4>1. n - 1 \in 0..(n - 1)
        BY <2>0
      <4> QED
        BY <2>2, <2>3, <3>1, <4>1
    <3>2. CASE k # n
      <4>1. k \in 1..(n - 1) /\ k \in 0..(n - 1) /\ k - 1 \in 0..(n - 1)
        BY <3>2
      <4> QED
        BY <2>1, <2>3, <4>1
    <3> QED
      BY <3>1, <3>2
  <2>6. Has(n)
    BY <2>3, <2>4, <2>5
  <2> HIDE DEF Has
  <2> QED
    BY <2>6
<1> HIDE DEF Has
<1>3. \A n \in 0..N : n \in G
  <2> HIDE DEF G
  <2> QED
    BY <1>1, <1>2, UpTo
<1>4. Has(N)
  BY <1>3
<1> QED
  BY <1>4 DEF Has, Unfolding

---------------------------------------------------------------------------
(* The order of the rules.                                                 *)

Facts == Price!PricingAssumption /\ Price!QuotesAssumption
Valid == {rule \in Rules : Price!ValidParams(rule)}

LEMMA RulesAreOrdered ==
    ASSUME Facts
    PROVE  /\ \A p \in Rules : ~Price!Before(p, p)
           /\ \A p, q \in Rules : p # q => Price!Before(p, q) \/ Price!Before(q, p)
           /\ \A p, q \in Rules : Price!Before(p, q) => ~Price!Before(q, p)
           /\ \A p, q, r \in Rules : Price!Before(p, q) /\ Price!Before(q, r) => Price!Before(p, r)
<1>1. \A p \in Rules : p.id \in Nat /\ p.priority \in Int
  BY DEF Facts, Price!QuotesAssumption
<1>2. \A p, q \in Rules : p.id = q.id => p = q
  BY DEF Facts, Price!QuotesAssumption
<1>3. \A p, q \in Rules : p # q => Price!Before(p, q) \/ Price!Before(q, p)
  BY <1>1, <1>2 DEF Price!Before
<1> QED
  BY <1>1, <1>3 DEF Price!Before

LEMMA RuleSets ==
    ASSUME Facts, NEW rs \in SUBSET Rules
    PROVE  IsFiniteSet(rs) /\ Cardinality(rs) \in Nat
<1>1. IsFiniteSet(Rules)
  BY DEF Facts, Price!QuotesAssumption, Price!IsFiniteSet, IsFiniteSet
<1> QED
  BY <1>1, FS_Subset, FS_CardinalityType

LEMMA RanksDiffer ==
    ASSUME Facts, NEW rs \in SUBSET Rules
    PROVE  /\ \A p \in rs : Price!Rank(p, rs) \in 0..(Cardinality(rs) - 1)
           /\ \A p, q \in rs : Price!Before(p, q) => Price!Rank(p, rs) < Price!Rank(q, rs)
<1> DEFINE Under(p) == {other \in rs : Price!Before(other, p)}
<1>0. \A S \in SUBSET rs : IsFiniteSet(S) /\ Cardinality(S) \in Nat
  BY RuleSets
<1>1. \A p \in rs : Price!Rank(p, rs) = Cardinality(Under(p)) /\ Under(p) \in SUBSET rs
  BY DEF Price!Rank, Price!Cardinality, Cardinality
<1>2. ASSUME NEW p \in rs, NEW S \in SUBSET rs, Under(p) \subseteq S, p \in S
      PROVE  Price!Rank(p, rs) < Cardinality(S)
  <2>1. p \notin Under(p)
    BY RulesAreOrdered
  <2>2. Under(p) \in SUBSET S /\ IsFiniteSet(S) /\ Under(p) # S
    BY <1>0, <1>2, <2>1
  <2> HIDE DEF Under
  <2>3. Cardinality(Under(p)) <= Cardinality(S) /\ Cardinality(Under(p)) # Cardinality(S)
    BY <2>2, FS_Subset
  <2> QED
    BY <1>0, <1>1, <1>2, <2>3
<1>3. ASSUME NEW p \in rs PROVE Price!Rank(p, rs) \in 0..(Cardinality(rs) - 1)
  <2>1. rs \in SUBSET rs /\ Under(p) \subseteq rs
    OBVIOUS
  <2>2. Price!Rank(p, rs) < Cardinality(rs)
    BY <1>2, <2>1
  <2>3. Price!Rank(p, rs) \in Nat /\ Cardinality(rs) \in Nat
    BY <1>0, <1>1, <2>1
  <2> QED
    BY <2>2, <2>3
<1>4. ASSUME NEW p \in rs, NEW q \in rs, Price!Before(p, q)
      PROVE  Price!Rank(p, rs) < Price!Rank(q, rs)
  <2>1. Under(p) \subseteq Under(q) /\ p \in Under(q) /\ Under(q) \in SUBSET rs
    BY <1>4, RulesAreOrdered
  <2> HIDE DEF Under
  <2> QED
    BY <1>1, <1>2, <2>1
<1> QED
  BY <1>3, <1>4

InTurn(e, rs) ==
    /\ Cardinality(rs) \in Nat /\ e \in [1..Cardinality(rs) -> rs]
    /\ \A r \in rs : \E n \in 1..Cardinality(rs) : e[n] = r
    /\ \A i, j \in 1..Cardinality(rs) : i < j => Price!Before(e[i], e[j])

LEMMA RulesInTurn ==
    ASSUME Facts, NEW rs \in SUBSET Rules
    PROVE  InTurn(Price!InOrder(rs), rs)
<1> DEFINE N == Cardinality(rs)
           rank == [p \in rs |-> Price!Rank(p, rs)]
           e == Price!InOrder(rs)
<1>1. N \in Nat /\ IsFiniteSet(rs)
  BY RuleSets
<1>2. /\ \A p \in rs : rank[p] \in 0..(N - 1)
      /\ \A p, q \in rs : Price!Before(p, q) => rank[p] < rank[q]
  BY RanksDiffer
<1> HIDE DEF N
<1>3. \A p, q \in rs : rank[p] = rank[q] => p = q
  <2> HIDE DEF rank
  <2> QED
    BY <1>1, <1>2, RulesAreOrdered
<1>4. \A k \in 0..(N - 1) : \E p \in rs : rank[p] = k
  <2>1. rank \in Injection(rs, 0..(N - 1))
    <3>1. rank \in [rs -> 0..(N - 1)]
      BY <1>2
    <3> HIDE DEF rank
    <3> QED
      BY <1>3, <3>1 DEF Injection, IsInjective
  <2>2. IsFiniteSet(0..(N - 1)) /\ Cardinality(0..(N - 1)) = N
    BY <1>1, FS_Interval
  <2> HIDE DEF rank
  <2>3. rank \in Surjection(rs, 0..(N - 1))
    BY <2>1, <2>2, FS_Injection DEF N
  <2> QED
    BY <2>3 DEF Surjection
<1>5. e = [n \in 1..N |-> CHOOSE p \in rs : rank[p] = n - 1]
  BY DEF Price!InOrder, Price!Cardinality, Cardinality, N
<1> HIDE DEF e, rank
<1>6. ASSUME NEW n \in 1..N PROVE e[n] \in rs /\ rank[e[n]] = n - 1
  <2>1. n - 1 \in 0..(N - 1)
    BY <1>1
  <2>2. \E p \in rs : rank[p] = n - 1
    BY <1>4, <2>1
  <2> QED
    BY <1>5, <2>2
<1>7. \A r \in rs : \E n \in 1..N : e[n] = r
  <2> SUFFICES ASSUME NEW r \in rs PROVE \E n \in 1..N : e[n] = r
    OBVIOUS
  <2>1. rank[r] + 1 \in 1..N /\ (rank[r] + 1) - 1 = rank[r]
    BY <1>1, <1>2
  <2>2. e[rank[r] + 1] \in rs /\ rank[e[rank[r] + 1]] = rank[r]
    BY <1>6, <2>1
  <2> QED
    BY <1>3, <2>1, <2>2
<1>8. \A i, j \in 1..N : i < j => Price!Before(e[i], e[j])
  <2> SUFFICES ASSUME NEW i \in 1..N, NEW j \in 1..N, i < j PROVE Price!Before(e[i], e[j])
    OBVIOUS
  <2>1. rank[e[i]] < rank[e[j]] /\ ~(rank[e[j]] < rank[e[i]])
    BY <1>1, <1>6
  <2>2. e[i] \in rs /\ e[j] \in rs /\ e[i] # e[j]
    BY <1>6, <2>1
  <2> QED
    BY <1>2, <2>1, <2>2, RulesAreOrdered
<1>9. e \in [1..N -> rs]
  BY <1>5, <1>6
<1> QED
  BY <1>1, <1>7, <1>8, <1>9 DEF InTurn, N, e

---------------------------------------------------------------------------
(* Amounts.                                                                *)

Amount == [num : Int, den : Nat \ {0}]
Same(a, b) == a.num * b.den = b.num * a.den

LEMMA Percents ==
    ASSUME NEW a \in Amount, NEW x \in Int, NEW y \in Int
    PROVE  /\ Price!Percent(a, x) \in Amount
           /\ Price!Percent(Price!Percent(a, x), y) = Price!Percent(Price!Percent(a, y), x)
<1>1. a.num \in Int /\ a.den \in Nat \ {0}
  BY DEF Amount
<1>2. a.num * x \in Int /\ a.den * 100 \in Nat \ {0}
  BY <1>1
<1>3. (a.num * x) * y = (a.num * y) * x
  BY <1>1
<1> QED
  BY <1>2, <1>3 DEF Price!Percent, Amount

LEMMA Quotient ==
    ASSUME NEW n \in Nat, NEW d \in Nat \ {0}
    PROVE  n \div d \in Nat /\ d * (n \div d) <= n /\ n < d * (n \div d) + d
<1>1. n \div d \in Nat /\ n % d \in 0..d-1
  OBVIOUS
<1>2. n = d * (n \div d) + (n % d)
  BY Z3
<1>3. d * (n \div d) \in Nat
  BY <1>1
<1> QED
  BY <1>1, <1>2, <1>3

\* The quotient is the only number between.
LEMMA QuotientIs ==
    ASSUME NEW n \in Nat, NEW d \in Nat \ {0}, NEW q \in Nat, d * q <= n, n < d * q + d
    PROVE  n \div d = q
<1>1. PICK a \in Nat : a = n \div d /\ d * a <= n /\ n < d * a + d
  BY Quotient
<1>2. d * a \in Nat /\ d * q \in Nat /\ d * (a + 1) = d * a + d /\ d * (q + 1) = d * q + d
  OBVIOUS
<1>3. ASSUME a + 1 <= q PROVE FALSE
  <2>1. d * (a + 1) <= d * q
    BY <1>3
  <2> QED
    BY <1>1, <1>2, <2>1
<1>4. ASSUME q + 1 <= a PROVE FALSE
  <2>1. d * (q + 1) <= d * a
    BY <1>4
  <2> QED
    BY <1>1, <1>2, <2>1
<1> QED
  BY <1>1, <1>3, <1>4

\* A fraction and its multiple have the same quotient, and the same sign.
LEMMA QuotientOfSame ==
    ASSUME NEW n \in Nat, NEW d \in Nat \ {0}, NEW m \in Nat, NEW c \in Nat \ {0}, n * c = m * d
    PROVE  n \div d = m \div c
<1>1. PICK q \in Nat : q = n \div d /\ d * q <= n /\ n < d * q + d
  BY Quotient
<1>2. c * q <= m
  <2> SUFFICES ASSUME m + 1 <= c * q PROVE FALSE
    OBVIOUS
  <2>1. (m + 1) * d <= (c * q) * d /\ (c * q) * d = c * (d * q) /\ (m + 1) * d = m * d + d
    OBVIOUS
  <2>2. c * (d * q) <= c * n /\ c * n = n * c /\ m * d \in Nat
    BY <1>1
  <2>3. c * (d * q) \in Nat /\ c * n \in Nat
    OBVIOUS
  <2> QED
    BY <2>1, <2>2, <2>3
<1>3. m < c * q + c
  <2> SUFFICES ASSUME c * q + c <= m PROVE FALSE
    OBVIOUS
  <2>1. (c * q + c) * d <= m * d /\ (c * q + c) * d = c * (d * q + d)
    OBVIOUS
  <2>2. c * (n + 1) <= c * (d * q + d) /\ c * (n + 1) = n * c + c
    BY <1>1
  <2>3. c * (n + 1) \in Nat /\ n * c \in Nat /\ m * d \in Nat /\ c * (d * q + d) \in Nat
    OBVIOUS
  <2> QED
    BY <2>1, <2>2, <2>3
<1>4. m \div c = q
  BY <1>2, <1>3, QuotientIs
<1> QED
  BY <1>1, <1>4

LEMMA RoundedSame ==
    ASSUME NEW a \in Amount, NEW b \in Amount, Same(a, b)
    PROVE  Price!Rounded(a) = Price!Rounded(b)
<1>1. PICK n \in Int, d \in Nat \ {0} : n = a.num /\ d = a.den
  BY DEF Amount
<1>2. PICK m \in Int, c \in Nat \ {0} : m = b.num /\ c = b.den
  BY DEF Amount
<1>3. n * c = m * d
  BY <1>1, <1>2 DEF Same
<1>4. CASE n < 0
  <2>1. m < 0
    <3> SUFFICES ASSUME m >= 0 PROVE FALSE
      OBVIOUS
    <3>1. m * d >= 0
      OBVIOUS
    <3>2. n * c < 0
      BY <1>4
    <3> QED
      BY <1>3, <3>1, <3>2
  <2> QED
    BY <1>1, <1>2, <1>4, <2>1 DEF Price!Rounded
<1>5. CASE n >= 0
  <2>1. m >= 0
    <3> SUFFICES ASSUME m < 0 PROVE FALSE
      OBVIOUS
    <3>1. m * d < 0
      OBVIOUS
    <3>2. n * c >= 0
      BY <1>5
    <3> QED
      BY <1>3, <3>1, <3>2
  <2>2. /\ 2 * n + d \in Nat /\ 2 * d \in Nat \ {0} /\ 2 * m + c \in Nat /\ 2 * c \in Nat \ {0}
    BY <1>5, <2>1
  <2>3. (2 * n + d) * (2 * c) = (2 * m + c) * (2 * d)
    <3>1. (2 * n + d) * (2 * c) = 4 * (n * c) + 2 * (d * c)
      OBVIOUS
    <3>2. (2 * m + c) * (2 * d) = 4 * (m * d) + 2 * (d * c)
      OBVIOUS
    <3> QED
      BY <1>3, <3>1, <3>2
  <2>4. (2 * n + d) \div (2 * d) = (2 * m + c) \div (2 * c)
    BY <2>2, <2>3, QuotientOfSame
  <2> QED
    BY <1>1, <1>2, <1>5, <2>1, <2>4 DEF Price!Rounded
<1> QED
  BY <1>4, <1>5

---------------------------------------------------------------------------
(* Percentages of percentages: whichever comes first.                      *)

One(T) == CHOOSE r \in T : TRUE
OfRest(g, T) ==
    IF T = {} THEN Price!Whole(1) ELSE Price!Percent(g[T \ {One(T)}], 100 + Price!Change(One(T)))
SharesUpTo(g, S, n) ==
    /\ g \in [{T \in SUBSET S : Cardinality(T) <= n} -> Amount]
    /\ \A T \in SUBSET S : Cardinality(T) <= n => g[T] = OfRest(g, T)

LEMMA LessOne ==
    ASSUME NEW S, IsFiniteSet(S), NEW T \in SUBSET S, T # {}
    PROVE  /\ One(T) \in T /\ T \ {One(T)} \in SUBSET S
           /\ Cardinality(T) \in Nat \ {0}
           /\ \A r \in T : Cardinality(T \ {r}) = Cardinality(T) - 1
<1>1. One(T) \in T
  BY DEF One
<1>2. IsFiniteSet(T) /\ Cardinality(T) \in Nat /\ Cardinality(T) # 0
  BY FS_Subset, FS_CardinalityType, FS_EmptySet
<1> QED
  BY <1>1, <1>2, FS_RemoveElement

LEMMA WholeIsAmount == Price!Whole(1) \in Amount
BY DEF Price!Whole, Amount

LEMMA SomethingShares ==
    ASSUME NEW S, IsFiniteSet(S), \A r \in S : Price!Change(r) \in Int
    PROVE  \E g : SharesUpTo(g, S, Cardinality(S))
<1> DEFINE N == Cardinality(S)
           Layer(n) == {T \in SUBSET S : Cardinality(T) <= n}
           G == {n \in 0..N : \E g : SharesUpTo(g, S, n)}
<1>1. N \in Nat /\ \A T \in SUBSET S : Cardinality(T) \in Nat /\ (Cardinality(T) = 0 <=> T = {})
  BY FS_CardinalityType, FS_Subset, FS_EmptySet
<1> HIDE DEF N
<1>2. 0 \in G
  <2> DEFINE g == [T \in Layer(0) |-> Price!Whole(1)]
  <2>1. \A T \in SUBSET S : Cardinality(T) <= 0 => T = {}
    BY <1>1
  <2>2. SharesUpTo(g, S, 0)
    BY <2>1, WholeIsAmount DEF SharesUpTo, OfRest
  <2> HIDE DEF g
  <2> QED
    BY <1>1, <2>2
<1>3. ASSUME NEW n \in 1..N, n - 1 \in G PROVE n \in G
  <2>1. PICK g : SharesUpTo(g, S, n - 1)
    BY <1>3
  <2>2. n \in Nat \ {0}
    BY <1>1
  <2> DEFINE h == [T \in Layer(n) |-> OfRest(g, T)]
  <2>3. ASSUME NEW T \in SUBSET S, Cardinality(T) <= n, T # {}
        PROVE  T \ {One(T)} \in Layer(n - 1) /\ T \ {One(T)} \in Layer(n) /\ One(T) \in S
    BY <1>1, <2>2, <2>3, LessOne
  <2>4. ASSUME NEW T \in SUBSET S, Cardinality(T) <= n PROVE OfRest(g, T) \in Amount
    <3>1. CASE T = {}
      BY <3>1, WholeIsAmount DEF OfRest
    <3>2. CASE T # {}
      <4>1. g[T \ {One(T)}] \in Amount /\ 100 + Price!Change(One(T)) \in Int
        BY <2>1, <2>3, <2>4, <3>2 DEF SharesUpTo
      <4> QED
        BY <3>2, <4>1, Percents DEF OfRest
    <3> QED
      BY <3>1, <3>2
  <2>5. ASSUME NEW T \in SUBSET S, Cardinality(T) <= n - 1 PROVE T \in Layer(n) /\ h[T] = g[T]
    <3>1. T \in Layer(n)
      BY <1>1, <2>2, <2>5
    <3> QED
      BY <2>1, <2>5, <3>1 DEF SharesUpTo
  <2>6. ASSUME NEW T \in SUBSET S, Cardinality(T) <= n PROVE h[T] = OfRest(h, T)
    <3>1. h[T] = OfRest(g, T)
      BY <2>6
    <3>2. CASE T = {}
      BY <3>1, <3>2 DEF OfRest
    <3>3. CASE T # {}
      <4>1. h[T \ {One(T)}] = g[T \ {One(T)}]
        BY <2>3, <2>5, <2>6, <3>3
      <4> HIDE DEF h
      <4> QED
        BY <3>1, <3>3, <4>1 DEF OfRest
    <3> QED
      BY <3>2, <3>3
  <2>7. h \in [Layer(n) -> Amount]
    BY <2>4
  <2> HIDE DEF h
  <2>8. SharesUpTo(h, S, n)
    BY <2>6, <2>7 DEF SharesUpTo
  <2> QED
    BY <2>8
<1>4. N \in G
  <2> HIDE DEF G
  <2>1. N \in 0..N
    BY <1>1
  <2> QED
    BY <1>1, <1>2, <1>3, <2>1, UpTo
<1> QED
  BY <1>4 DEF N

\* Share is the recursive function it is written as.
LEMMA ShareIsOfRest ==
    ASSUME NEW S, IsFiniteSet(S), \A r \in S : Price!Change(r) \in Int
    PROVE  \A T \in SUBSET S : Price!Share(S)[T] = OfRest(Price!Share(S), T)
<1> DEFINE Unrolled(f) == [T \in SUBSET S |-> OfRest(f, T)]
           of == CHOOSE f : f = Unrolled(f)
<1>1. Price!Share(S) = of
  BY DEF Price!Share, OfRest, One
<1>2. PICK g : SharesUpTo(g, S, Cardinality(S))
  BY SomethingShares
<1>3. {T \in SUBSET S : Cardinality(T) <= Cardinality(S)} = SUBSET S
  BY FS_Subset
<1>4. g = Unrolled(g)
  BY <1>2, <1>3 DEF SharesUpTo
<1>5. of = Unrolled(of)
  <2> HIDE DEF Unrolled
  <2> QED
    BY <1>4
<1> HIDE DEF of
<1> QED
  BY <1>1, <1>5

LEMMA ShareIsAmount ==
    ASSUME NEW S, IsFiniteSet(S), \A r \in S : Price!Change(r) \in Int
    PROVE  \A T \in SUBSET S : Price!Share(S)[T] \in Amount
<1> DEFINE N == Cardinality(S)
           of == Price!Share(S)
           G == {n \in 0..N : \A T \in SUBSET S : Cardinality(T) = n => of[T] \in Amount}
<1>1. N \in Nat /\ \A T \in SUBSET S : Cardinality(T) \in 0..N /\ (Cardinality(T) = 0 <=> T = {})
  BY FS_CardinalityType, FS_Subset, FS_EmptySet
<1>2. \A T \in SUBSET S : of[T] = OfRest(of, T)
  BY ShareIsOfRest
<1> HIDE DEF N, of
<1>3. 0 \in G
  BY <1>1, <1>2, WholeIsAmount DEF OfRest
<1>4. ASSUME NEW n \in 1..N, n - 1 \in G PROVE n \in G
  <2> SUFFICES ASSUME NEW T \in SUBSET S, Cardinality(T) = n PROVE of[T] \in Amount
    OBVIOUS
  <2>1. T # {}
    BY <1>1
  <2>2. of[T \ {One(T)}] \in Amount /\ 100 + Price!Change(One(T)) \in Int
    BY <1>4, <2>1, LessOne
  <2>3. of[T] = Price!Percent(of[T \ {One(T)}], 100 + Price!Change(One(T)))
    BY <1>2, <2>1 DEF OfRest
  <2> QED
    BY <2>2, <2>3, Percents
<1>5. \A n \in 0..N : n \in G
  <2> HIDE DEF G
  <2> QED
    BY <1>1, <1>3, <1>4, UpTo
<1> QED
  BY <1>1, <1>5 DEF of

LEMMA ShareOfAny ==
    ASSUME NEW S, IsFiniteSet(S), \A r \in S : Price!Change(r) \in Int
    PROVE  \A T \in SUBSET S :
             /\ Price!Share(S)[T] \in Amount
             /\ \A y \in T : Price!Share(S)[T] = Price!Percent(Price!Share(S)[T \ {y}], 100 + Price!Change(y))
<1> DEFINE N == Cardinality(S)
           of == Price!Share(S)
           Whichever(T) == /\ of[T] \in Amount
                     /\ \A y \in T : of[T] = Price!Percent(of[T \ {y}], 100 + Price!Change(y))
           G == {n \in 0..N : \A T \in SUBSET S : Cardinality(T) = n => Whichever(T)}
<1>1. N \in Nat /\ \A T \in SUBSET S : Cardinality(T) \in 0..N /\ (Cardinality(T) = 0 <=> T = {})
  BY FS_CardinalityType, FS_Subset, FS_EmptySet
<1>2. \A T \in SUBSET S : of[T] = OfRest(of, T)
  BY ShareIsOfRest
<1>6. \A T \in SUBSET S : of[T] \in Amount
  BY ShareIsAmount
<1> HIDE DEF N, of
<1>3. 0 \in G
  BY <1>1, <1>2, WholeIsAmount DEF OfRest
<1>4. ASSUME NEW n \in 1..N, n - 1 \in G PROVE n \in G
  <2> SUFFICES ASSUME NEW T \in SUBSET S, Cardinality(T) = n PROVE Whichever(T)
    OBVIOUS
  <2>1. T # {} /\ n \in Nat
    BY <1>1
  <2>2. PICK x \in T : x = One(T)
    BY <2>1, LessOne
  <2>3. \A r \in T : T \ {r} \in SUBSET S /\ Whichever(T \ {r})
    BY <1>4, <2>1, LessOne
  <2>4. \A r \in T : 100 + Price!Change(r) \in Int
    OBVIOUS
  <2>5. of[T] = Price!Percent(of[T \ {x}], 100 + Price!Change(x))
    BY <1>2, <2>1, <2>2 DEF OfRest
  <2>6. of[T] \in Amount
    BY <1>6
  <2>7. ASSUME NEW y \in T, y # x
        PROVE  of[T] = Price!Percent(of[T \ {y}], 100 + Price!Change(y))
    <3>1. /\ y \in T \ {x} /\ x \in T \ {y} /\ (T \ {x}) \ {y} = (T \ {y}) \ {x}
          /\ T \ {x} \in SUBSET S /\ (T \ {x}) # {}
      BY <2>7
    <3> DEFINE both == of[(T \ {x}) \ {y}]
    <3>2. /\ of[T \ {x}] = Price!Percent(both, 100 + Price!Change(y))
          /\ of[T \ {y}] = Price!Percent(both, 100 + Price!Change(x))
      BY <2>3, <3>1
    <3>3. both \in Amount
      BY <1>6
    <3> HIDE DEF both
    <3> QED
      BY <2>4, <2>5, <3>1, <3>2, <3>3, Percents
  <2> QED
    BY <2>5, <2>6, <2>7
<1>5. \A T \in SUBSET S : Whichever(T)
  <2>1. \A n \in 0..N : n \in G
    <3> HIDE DEF G
    <3> QED
      BY <1>1, <1>3, <1>4, UpTo
  <2> QED
    BY <1>1, <2>1
<1> QED
  BY <1>5 DEF of

---------------------------------------------------------------------------
(* What one rule does.                                                     *)

Bracket == [max_hours : Nat, rate : Int]
Walked == [left : Int, cap : Int, total : Int]

\* One turn of the walk over the brackets.
Walk(b, was) ==
    LET size == IF b.max_hours = 0 THEN was.left ELSE b.max_hours - was.cap
        take == IF size < was.left THEN size ELSE was.left
    IN  IF was.left <= 0 \/ size <= 0 THEN was
        ELSE [left |-> was.left - take, total |-> was.total + take * b.rate,
              cap |-> IF b.max_hours = 0 THEN was.cap ELSE b.max_hours]

LEMMA WalkGoesOn ==
    ASSUME NEW b \in Bracket, NEW was \in Walked
    PROVE  Walk(b, was) \in Walked
<1>1. was.left \in Int /\ was.cap \in Int /\ was.total \in Int /\ b.max_hours \in Nat /\ b.rate \in Int
  BY DEF Walked, Bracket
<1>2. PICK size \in Int : size = IF b.max_hours = 0 THEN was.left ELSE b.max_hours - was.cap
  BY <1>1
<1>3. PICK take \in Int : take = IF size < was.left THEN size ELSE was.left
  BY <1>1, <1>2
<1>4. PICK cap \in Int : cap = IF b.max_hours = 0 THEN was.cap ELSE b.max_hours
  BY <1>1
<1>5. [left |-> was.left - take, total |-> was.total + take * b.rate, cap |-> cap] \in Walked
  BY <1>1 DEF Walked
<1>6. Walk(b, was) = IF was.left <= 0 \/ size <= 0 THEN was
        ELSE [left |-> was.left - take, total |-> was.total + take * b.rate, cap |-> cap]
  BY <1>2, <1>3, <1>4 DEF Walk
<1> QED
  BY <1>5, <1>6

LEMMA BracketTotalIsInt ==
    ASSUME NEW bs \in Seq(Bracket), NEW hours \in Int
    PROVE  Price!BracketTotal(bs, hours) \in Int
<1> DEFINE N == Len(bs)
           start == [left |-> hours, cap |-> 0, total |-> 0]
           step == [p \in (1..N) \X Walked |-> Walk(bs[p[1]], p[2])]
           Unrolled(f) == [n \in 0..N |-> IF n = 0 THEN start ELSE Walk(bs[n], f[n - 1])]
           after == CHOOSE f : f = Unrolled(f)
           G == {n \in 0..N : after[n] \in Walked}
<1>1. N \in Nat /\ \A n \in 1..N : bs[n] \in Bracket
  OBVIOUS
<1>2. Price!BracketTotal(bs, hours) = after[N].total
  BY DEF Price!BracketTotal, Walk
<1> HIDE DEF N
<1>3. start \in Walked
  BY DEF Walked
<1>4. step \in [(1..N) \X Walked -> Walked]
  <2>1. \A p \in (1..N) \X Walked : Walk(bs[p[1]], p[2]) \in Walked
    BY <1>1, WalkGoesOn
  <2> QED
    BY <2>1
<1>5. PICK g : Unfolding(g, N, Walked, start, step)
  <2> HIDE DEF step, start
  <2> QED
    BY <1>1, <1>3, <1>4, Unfolds
<1>51. g \in [0..N -> Walked] /\ g[0] = start
  BY <1>5 DEF Unfolding
<1>6. \A k \in 1..N : k - 1 \in 0..N /\ k \in 0..N /\ k # 0
  BY <1>1
<1>7. \A n \in 0..N : n = 0 \/ n \in 1..N
  BY <1>1
<1>8. ASSUME NEW k \in 1..N PROVE g[k] = Walk(bs[k], g[k - 1])
  <2>1. <<k, g[k - 1]>> \in (1..N) \X Walked
    BY <1>51, <1>6
  <2>2. g[k] = step[<<k, g[k - 1]>>]
    BY <1>5 DEF Unfolding
  <2> QED
    BY <2>1, <2>2
<1>9. g = Unrolled(g)
  <2> HIDE DEF step, start
  <2> QED
    BY <1>51, <1>7, <1>8
<1>10. after = Unrolled(after)
  <2> HIDE DEF Unrolled
  <2> QED
    BY <1>9
<1> HIDE DEF after, step
<1>11. 0 \in G
  BY <1>1, <1>3, <1>10
<1>12. ASSUME NEW k \in 1..N, k - 1 \in G PROVE k \in G
  BY <1>1, <1>6, <1>10, <1>12, WalkGoesOn
<1>13. N \in G
  <2> HIDE DEF G
  <2>1. N \in 0..N
    BY <1>1
  <2> QED
    BY <1>1, <1>11, <1>12, <2>1, UpTo
<1> QED
  BY <1>2, <1>13 DEF Walked

LEMMA RulesHaveNumbers ==
    ASSUME Facts, NEW rule \in Valid, NEW slot \in PriceSlots
    PROVE  /\ ~Price!Sets(rule) => Price!Change(rule) \in Int
           /\ Price!Sets(rule) => Price!SetTotal(rule, slot) \in Int
           /\ Price!Base(slot) \in Int
<1>1. Price!ValidParams(rule) /\ rule.type \in Price!RuleTypes
  BY DEF Valid, Facts, Price!QuotesAssumption
<1>2. Price!Hours(slot) \in Int
  BY DEF Facts, Price!QuotesAssumption, Price!Hours
<1>3. Price!Base(slot) \in Int
  BY <1>2 DEF Price!Base, Facts, Price!PricingAssumption
<1>4. CASE rule.type = "peak_hours"
  BY <1>1, <1>3, <1>4 DEF Price!ValidParams, Price!PeakValid, Price!Change, Price!Sets
<1>5. CASE rule.type = "day_of_week"
  <2>1. Price!DayValid(rule)
    BY <1>1, <1>5 DEF Price!ValidParams
  <2>2. CASE "flat_rate" \in DOMAIN rule
    <3>1. rule.flat_rate \in Int /\ Price!Sets(rule)
      BY <1>5, <2>1, <2>2 DEF Price!DayValid, Price!Sets
    <3>2. Price!SetTotal(rule, slot) = rule.flat_rate * Price!Hours(slot)
      BY <1>5 DEF Price!SetTotal
    <3> QED
      BY <1>2, <1>3, <3>1, <3>2
  <2>3. CASE "flat_rate" \notin DOMAIN rule
    <3>1. rule.discount_pct \in Int /\ ~Price!Sets(rule)
      BY <1>5, <2>1, <2>3 DEF Price!DayValid, Price!Sets
    <3>2. Price!Change(rule) = -rule.discount_pct
      BY <1>5 DEF Price!Change
    <3> QED
      BY <1>3, <3>1, <3>2
  <2> QED
    BY <2>2, <2>3
<1>6. CASE rule.type \in {"member_tier", "min_duration"}
  <2>1. rule.discount_pct \in 0..100
    BY <1>1, <1>6 DEF Price!ValidParams, Price!TierValid, Price!DurationValid
  <2>2. Price!Change(rule) = -rule.discount_pct /\ ~Price!Sets(rule)
    BY <1>6 DEF Price!Change, Price!Sets
  <2> QED
    BY <1>3, <2>1, <2>2
<1>7. CASE rule.type = "bracket_rate"
  <2>1. rule.brackets \in Seq(Bracket)
    BY <1>1, <1>7 DEF Price!ValidParams, Price!BracketsValid, Bracket
  <2>2. Price!SetTotal(rule, slot) = Price!BracketTotal(rule.brackets, Price!Hours(slot))
    BY <1>7 DEF Price!SetTotal
  <2>3. Price!SetTotal(rule, slot) \in Int
    BY <1>2, <2>1, <2>2, BracketTotalIsInt
  <2> QED
    BY <1>3, <1>7, <2>3 DEF Price!Sets
<1> QED
  BY <1>1, <1>4, <1>5, <1>6, <1>7 DEF Price!RuleTypes

\* The total after a rule: the one it sets, or a percentage of the one before.
LEMMA AdjustedTotal ==
    ASSUME Facts, NEW rule \in Valid, NEW slot \in PriceSlots, NEW total \in Amount,
           NEW new, new = Price!Adjusted(total, Price!Adjustment(rule, slot, total))
    PROVE  /\ new \in Amount
           /\ Price!Sets(rule) =>
                new = [num |-> Price!SetTotal(rule, slot) * total.den, den |-> total.den]
           /\ ~Price!Sets(rule) => new = Price!Percent(total, 100 + Price!Change(rule))
<1>1. PICK n \in Int, d \in Nat \ {0} : n = total.num /\ d = total.den
  BY DEF Amount
<1>2. CASE Price!Sets(rule)
  <2>1. PICK s \in Int : s = Price!SetTotal(rule, slot)
    BY <1>2, RulesHaveNumbers
  <2>2. d \div d = 1
    BY QuotientIs
  <2>3. Price!Adjustment(rule, slot, total) = [num |-> s * d - n, den |-> d]
    BY <1>1, <1>2, <2>1 DEF Price!Adjustment
  <2>4. new = [num |-> n * (d \div d) + (s * d - n), den |-> d]
    BY <1>1, <2>3 DEF Price!Adjusted
  <2>5. n * 1 + (s * d - n) = s * d /\ s * d \in Int
    OBVIOUS
  <2> QED
    BY <1>1, <1>2, <2>1, <2>2, <2>4, <2>5 DEF Amount
<1>3. CASE ~Price!Sets(rule)
  <2>1. PICK p \in Int : p = Price!Change(rule)
    BY <1>3, RulesHaveNumbers
  <2>2. (d * 100) \div d = 100
    <3>1. d * 100 \in Nat /\ d * 100 <= d * 100 /\ d * 100 < d * 100 + d
      OBVIOUS
    <3> QED
      BY <3>1, QuotientIs
  <2>3. Price!Adjustment(rule, slot, total) = [num |-> n * p, den |-> d * 100]
    BY <1>1, <1>3, <2>1 DEF Price!Adjustment, Price!Percent
  <2>4. new = [num |-> n * ((d * 100) \div d) + n * p, den |-> d * 100]
    BY <1>1, <2>3 DEF Price!Adjusted
  <2>5. n * 100 + n * p = n * (100 + p) /\ 100 + p \in Int
    OBVIOUS
  <2>6. new = Price!Percent(total, 100 + p)
    BY <1>1, <2>2, <2>4, <2>5 DEF Price!Percent
  <2> QED
    BY <1>3, <2>1, <2>5, <2>6, Percents
<1> QED
  BY <1>2, <1>3

---------------------------------------------------------------------------
(* The loop of compute_quote.                                              *)

Quoting == [total : Amount, lines : Seq(Nat \X Amount), fired : BOOLEAN]

Opening(slot) ==
    [total |-> Price!Whole(Price!Base(slot)), lines |-> <<<<0, Price!Whole(Price!Base(slot))>>>>,
     fired |-> FALSE]

\* One turn of it.
Quoted(rule, slot, t, was) ==
    LET adj == Price!Adjustment(rule, slot, was.total)
    IN  IF ~rule.here \/ ~Price!Gate(rule, was.fired) \/ ~Price!Applies(rule, slot, t)
        THEN was
        ELSE [total |-> Price!Adjusted(was.total, adj),
              lines |-> Append(was.lines, <<rule.id, adj>>),
              fired |-> was.fired \/ ~rule.stackable]

QuoteLoop(after, rs, slot, t) ==
    /\ \A n \in 0..Cardinality(rs) : after[n] \in Quoting
    /\ after[0] = Opening(slot)
    /\ \A k \in 1..Cardinality(rs) : after[k] = Quoted(Price!InOrder(rs)[k], slot, t, after[k - 1])
    /\ Price!ComputeQuote(rs, slot, t).total = Price!Rounded(after[Cardinality(rs)].total)

LEMMA QuotingGoesOn ==
    ASSUME Facts, NEW rule \in Valid, NEW slot \in PriceSlots, NEW t, NEW was \in Quoting
    PROVE  Quoted(rule, slot, t, was) \in Quoting
<1>1. was.total \in Amount /\ was.lines \in Seq(Nat \X Amount) /\ was.fired \in BOOLEAN
  BY DEF Quoting
<1>2. PICK n \in Int, d \in Nat \ {0} : n = was.total.num /\ d = was.total.den
  BY <1>1 DEF Amount
<1>3. PICK adj : adj = Price!Adjustment(rule, slot, was.total)
  OBVIOUS
<1>4. adj \in Amount
  <2>1. CASE Price!Sets(rule)
    <3>1. PICK s \in Int : s = Price!SetTotal(rule, slot)
      BY <2>1, RulesHaveNumbers
    <3>2. adj = [num |-> s * d - n, den |-> d] /\ s * d - n \in Int
      BY <1>2, <1>3, <2>1, <3>1 DEF Price!Adjustment
    <3> QED
      BY <3>2 DEF Amount
  <2>2. CASE ~Price!Sets(rule)
    <3>1. adj = Price!Percent(was.total, Price!Change(rule)) /\ Price!Change(rule) \in Int
      BY <1>3, <2>2, RulesHaveNumbers DEF Price!Adjustment
    <3> QED
      BY <1>1, <3>1, Percents
  <2> QED
    BY <2>1, <2>2
<1>5. PICK new \in Amount : new = Price!Adjusted(was.total, adj)
  BY <1>1, <1>3, AdjustedTotal
<1>6. rule.id \in Nat
  BY DEF Valid, Facts, Price!QuotesAssumption
<1>7. PICK lines \in Seq(Nat \X Amount) : lines = Append(was.lines, <<rule.id, adj>>)
  <2> DEFINE Line == Nat \X Amount
  <2>1. <<rule.id, adj>> \in Line /\ was.lines \in Seq(Line)
    BY <1>1, <1>4, <1>6
  <2> HIDE DEF Line
  <2>2. Append(was.lines, <<rule.id, adj>>) \in Seq(Line)
    BY <2>1
  <2> QED
    BY <2>2 DEF Line
<1>8. PICK fired \in BOOLEAN : fired = (was.fired \/ ~rule.stackable)
  OBVIOUS
<1>9. \/ Quoted(rule, slot, t, was) = was
      \/ Quoted(rule, slot, t, was) = [total |-> new, lines |-> lines, fired |-> fired]
  BY <1>3, <1>5, <1>7, <1>8 DEF Quoted
<1> QED
  BY <1>9 DEF Quoting

LEMMA QuoteLoops ==
    ASSUME Facts, NEW rs \in SUBSET Valid, NEW slot \in PriceSlots, NEW t
    PROVE  \E after : QuoteLoop(after, rs, slot, t)
<1> DEFINE N == Cardinality(rs)
           e == Price!InOrder(rs)
           start == Opening(slot)
           step == [p \in (1..N) \X Quoting |-> Quoted(e[p[1]], slot, t, p[2])]
           Unrolled(f) == [n \in 0..N |-> IF n = 0 THEN start ELSE Quoted(e[n], slot, t, f[n - 1])]
           after == CHOOSE f : f = Unrolled(f)
           G == {n \in 0..N : after[n] \in Quoting}
<1>1. rs \in SUBSET Rules
  BY DEF Valid
<1>2. N \in Nat /\ e \in [1..N -> rs] /\ \A n \in 1..N : e[n] \in Valid
  BY <1>1, RulesInTurn DEF InTurn
<1>3. Len(e) = N
  BY <1>2
<1>4. Price!ComputeQuote(rs, slot, t).total = Price!Rounded(after[N].total)
  <2> HIDE DEF N, e
  <2>1. Price!ComputeQuote(rs, slot, t).total =
        Price!Rounded((CHOOSE f : f = [n \in 0..Len(e) |->
          IF n = 0 THEN start ELSE Quoted(e[n], slot, t, f[n - 1])])[Len(e)].total)
    BY DEF Price!ComputeQuote, Quoted, Opening, e
  <2> QED
    BY <1>3, <2>1
<1> HIDE DEF N, e
<1>5. start \in Quoting
  <2>1. Price!Whole(Price!Base(slot)) \in Amount
    <3>1. Price!Base(slot) \in Int
      BY DEF Price!Base, Price!Hours, Facts, Price!QuotesAssumption, Price!PricingAssumption
    <3> QED
      BY <3>1 DEF Price!Whole, Amount
  <2> QED
    BY <2>1 DEF Opening, Quoting
<1>6. step \in [(1..N) \X Quoting -> Quoting]
  <2>1. \A p \in (1..N) \X Quoting : Quoted(e[p[1]], slot, t, p[2]) \in Quoting
    BY <1>2, QuotingGoesOn
  <2> QED
    BY <2>1
<1>7. PICK g : Unfolding(g, N, Quoting, start, step)
  <2> HIDE DEF step, start
  <2> QED
    BY <1>2, <1>5, <1>6, Unfolds
<1>8. g \in [0..N -> Quoting] /\ g[0] = start
  BY <1>7 DEF Unfolding
<1>9. \A k \in 1..N : k - 1 \in 0..N /\ k \in 0..N /\ k # 0
  BY <1>2
<1>10. \A n \in 0..N : n = 0 \/ n \in 1..N
  BY <1>2
<1>11. ASSUME NEW k \in 1..N PROVE g[k] = Quoted(e[k], slot, t, g[k - 1])
  <2>1. <<k, g[k - 1]>> \in (1..N) \X Quoting
    BY <1>8, <1>9
  <2>2. g[k] = step[<<k, g[k - 1]>>]
    BY <1>7 DEF Unfolding
  <2> QED
    BY <2>1, <2>2
<1>12. g = Unrolled(g)
  <2> HIDE DEF step, start
  <2> QED
    BY <1>8, <1>10, <1>11
<1>13. after = Unrolled(after)
  <2> HIDE DEF Unrolled
  <2> QED
    BY <1>12
<1> HIDE DEF after, step, start
<1>14. after[0] = start /\ 0 \in 0..N
  BY <1>2, <1>13
<1>15. ASSUME NEW k \in 1..N PROVE after[k] = Quoted(e[k], slot, t, after[k - 1])
  BY <1>9, <1>13
<1>16. ASSUME NEW k \in 1..N, k - 1 \in G PROVE k \in G
  BY <1>2, <1>9, <1>15, <1>16, QuotingGoesOn
<1>17. \A n \in 0..N : after[n] \in Quoting
  <2>1. 0 \in G
    BY <1>5, <1>14
  <2>2. \A n \in 0..N : n \in G
    <3> HIDE DEF G
    <3> QED
      BY <1>2, <1>16, <2>1, UpTo
  <2> QED
    BY <2>2
<1> QED
  BY <1>4, <1>14, <1>15, <1>17 DEF QuoteLoop, N, e, start

---------------------------------------------------------------------------
(* The rules that count, when one more comes after the rest.               *)

Counting(rs, slot, t) == Price!Firing(rs, slot, t)
Setting(rs, slot, t) == {r \in Counting(rs, slot, t) : Price!Sets(r)}
Latest(rs, slot, t) == Price!LastOf(Setting(rs, slot, t))
Following(rs, slot, t) ==
    {r \in Counting(rs, slot, t) :
       ~Price!Sets(r) /\ (Setting(rs, slot, t) = {} \/ Price!Before(Latest(rs, slot, t), r))}
Beginning(rs, slot, t) ==
    IF Setting(rs, slot, t) = {} THEN Price!Base(slot)
    ELSE Price!SetTotal(Latest(rs, slot, t), slot)
\* The total of what counts in rs; all is where the percentages are drawn from.
Exact(all, rs, slot, t) ==
    LET share == Price!Share({r \in all : ~Price!Sets(r)})[Following(rs, slot, t)]
    IN  [num |-> Beginning(rs, slot, t) * share.num, den |-> share.den]

\* A rule that does not stack has had its turn.
Shut(rs, slot, t) == \E r \in rs : r.here /\ Price!Applies(r, slot, t) /\ ~r.stackable
Fires(x, rs, slot, t) ==
    x.here /\ Price!Applies(x, slot, t) /\ (x.stackable \/ ~Shut(rs, slot, t))

LEMMA ExpectedIsExact ==
    ASSUME NEW rs, NEW slot, NEW t
    PROVE  Price!ExpectedTotal(rs, slot, t) = Price!Rounded(Exact(rs, rs, slot, t))
BY DEF Price!ExpectedTotal, Exact, Beginning, Following, Latest, Setting, Counting

\* x comes after all of rs.
ComesAfter(x, rs) == \A r \in rs : Price!Before(r, x)

LEMMA OneMoreCounts ==
    ASSUME Facts, NEW rs \in SUBSET Rules, NEW x \in Rules, ComesAfter(x, rs), NEW slot, NEW t
    PROVE  /\ Fires(x, rs, slot, t) => Counting(rs \cup {x}, slot, t) = Counting(rs, slot, t) \cup {x}
           /\ ~Fires(x, rs, slot, t) => Counting(rs \cup {x}, slot, t) = Counting(rs, slot, t)
           /\ Shut(rs \cup {x}, slot, t) <=>
                Shut(rs, slot, t) \/ (Fires(x, rs, slot, t) /\ ~x.stackable)
<1> DEFINE On(r) == r.here /\ Price!Applies(r, slot, t)
           Counts(r, S) == r.stackable \/ \A q \in S : On(q) /\ ~q.stackable /\ q # r => Price!Before(r, q)
<1>1. ASSUME NEW S PROVE Counting(S, slot, t) = {r \in S : On(r) /\ Counts(r, S)}
  BY DEF Counting, Price!Firing
<1>2. /\ \A r \in rs : Price!Before(r, x) /\ ~Price!Before(x, r)
      /\ x \notin rs
  BY RulesAreOrdered DEF ComesAfter
<1>3. \A r \in rs : On(r) => (Counts(r, rs \cup {x}) <=> Counts(r, rs))
  BY <1>2
<1>4. On(x) => (Counts(x, rs \cup {x}) <=> Fires(x, rs, slot, t))
  BY <1>2 DEF Fires, Shut
<1>5. Fires(x, rs, slot, t) => On(x)
  BY DEF Fires
<1>6. Shut(rs \cup {x}, slot, t) <=> Shut(rs, slot, t) \/ (Fires(x, rs, slot, t) /\ ~x.stackable)
  BY DEF Shut, Fires
<1> HIDE DEF On, Counts
<1>7. Fires(x, rs, slot, t) => Counting(rs \cup {x}, slot, t) = Counting(rs, slot, t) \cup {x}
  BY <1>1, <1>3, <1>4, <1>5
<1>8. ~Fires(x, rs, slot, t) => Counting(rs \cup {x}, slot, t) = Counting(rs, slot, t)
  BY <1>1, <1>3, <1>4
<1> QED
  BY <1>6, <1>7, <1>8

LEMMA CountedIsThere ==
    ASSUME NEW rs, NEW slot, NEW t
    PROVE  Setting(rs, slot, t) \subseteq rs /\ Following(rs, slot, t) \subseteq {r \in rs : ~Price!Sets(r)}
BY DEF Counting, Setting, Following, Price!Firing

\* A rule that sets the total is the last to set it, and nothing follows yet.
LEMMA OneMoreSets ==
    ASSUME Facts, NEW rs \in SUBSET Rules, NEW x \in Rules, ComesAfter(x, rs), NEW slot, NEW t,
           Fires(x, rs, slot, t), Price!Sets(x)
    PROVE  /\ Setting(rs \cup {x}, slot, t) # {} /\ Latest(rs \cup {x}, slot, t) = x
           /\ Following(rs \cup {x}, slot, t) = {}
           /\ Beginning(rs \cup {x}, slot, t) = Price!SetTotal(x, slot)
<1>1. PICK S : S = Setting(rs \cup {x}, slot, t)
  OBVIOUS
<1>2. S = Setting(rs, slot, t) \cup {x} /\ S \ {x} \subseteq rs
  BY <1>1, OneMoreCounts, CountedIsThere DEF Setting
<1>3. \A r \in rs : Price!Before(r, x) /\ ~Price!Before(x, r)
  BY RulesAreOrdered DEF ComesAfter
<1>4. \A y \in S : (\A q \in S \ {y} : Price!Before(q, y)) <=> y = x
  BY <1>2, <1>3
<1>5. Price!LastOf(S) = x
  BY <1>2, <1>4 DEF Price!LastOf
<1>6. Latest(rs \cup {x}, slot, t) = x
  BY <1>1, <1>5 DEF Latest
<1>7. Following(rs \cup {x}, slot, t) = {}
  <2>1. Following(rs \cup {x}, slot, t) \subseteq rs
    BY CountedIsThere
  <2>2. \A r \in Following(rs \cup {x}, slot, t) : Price!Before(x, r)
    BY <1>1, <1>2, <1>6 DEF Following
  <2> QED
    BY <1>3, <2>1, <2>2
<1> QED
  BY <1>1, <1>2, <1>6, <1>7 DEF Beginning

\* A percentage follows whatever set the total.
LEMMA OneMoreFollows ==
    ASSUME Facts, NEW rs \in SUBSET Rules, NEW x \in Rules, ComesAfter(x, rs), NEW slot, NEW t,
           Fires(x, rs, slot, t), ~Price!Sets(x),
           Setting(rs, slot, t) # {} => Latest(rs, slot, t) \in Setting(rs, slot, t)
    PROVE  /\ Setting(rs \cup {x}, slot, t) = Setting(rs, slot, t)
           /\ Latest(rs \cup {x}, slot, t) = Latest(rs, slot, t)
           /\ Following(rs \cup {x}, slot, t) = Following(rs, slot, t) \cup {x}
           /\ Beginning(rs \cup {x}, slot, t) = Beginning(rs, slot, t)
<1>1. Counting(rs \cup {x}, slot, t) = Counting(rs, slot, t) \cup {x}
  BY OneMoreCounts
<1>2. Setting(rs \cup {x}, slot, t) = Setting(rs, slot, t)
  BY <1>1 DEF Setting
<1>3. Latest(rs \cup {x}, slot, t) = Latest(rs, slot, t)
  BY <1>2 DEF Latest
<1>4. Beginning(rs \cup {x}, slot, t) = Beginning(rs, slot, t)
  BY <1>2, <1>3 DEF Beginning
<1>5. Setting(rs, slot, t) = {} \/ Price!Before(Latest(rs, slot, t), x)
  BY CountedIsThere DEF ComesAfter
<1>6. Following(rs \cup {x}, slot, t) = Following(rs, slot, t) \cup {x}
  BY <1>1, <1>2, <1>3, <1>5 DEF Following
<1> QED
  BY <1>2, <1>3, <1>4, <1>6

---------------------------------------------------------------------------
(* The loop is right after each of its turns.                              *)

Had(rs, n) == {Price!InOrder(rs)[i] : i \in 1..n}

Right(was, all, rs, slot, t) ==
    /\ was.fired <=> Shut(rs, slot, t)
    /\ Setting(rs, slot, t) # {} => Latest(rs, slot, t) \in Setting(rs, slot, t)
    /\ Same(was.total, Exact(all, rs, slot, t))

LEMMA SamePercent ==
    ASSUME NEW n \in Int, NEW d \in Nat \ {0}, NEW m \in Int, NEW c \in Nat \ {0},
           NEW s \in Int, NEW p \in Int, n * c = (s * m) * d
    PROVE  (n * p) * (c * 100) = (s * (m * p)) * (d * 100)
<1>1. (n * p) * (c * 100) = (n * c) * (p * 100)
  OBVIOUS
<1>2. ((s * m) * d) * (p * 100) = (s * (m * p)) * (d * 100)
  OBVIOUS
<1> QED
  BY <1>1, <1>2

LEMMA ChangesAreNumbers ==
    ASSUME Facts, NEW all \in SUBSET Valid
    PROVE  /\ IsFiniteSet({r \in all : ~Price!Sets(r)})
           /\ \A r \in {q \in all : ~Price!Sets(q)} : Price!Change(r) \in Int
<1>1. {r \in all : ~Price!Sets(r)} \in SUBSET Rules
  BY DEF Valid
<1>2. PICK slot \in PriceSlots : TRUE
  BY DEF Facts, Price!QuotesAssumption
<1> QED
  BY <1>1, <1>2, RuleSets, RulesHaveNumbers

LEMMA ExactIsAmount ==
    ASSUME Facts, NEW all \in SUBSET Valid, NEW rs \in SUBSET all, NEW slot \in PriceSlots, NEW t,
           Setting(rs, slot, t) # {} => Latest(rs, slot, t) \in Setting(rs, slot, t)
    PROVE  /\ Exact(all, rs, slot, t) \in Amount /\ Beginning(rs, slot, t) \in Int
           /\ Price!Share({r \in all : ~Price!Sets(r)})[Following(rs, slot, t)] \in Amount
<1>1. Price!Base(slot) \in Int
  BY DEF Price!Base, Price!Hours, Facts, Price!QuotesAssumption, Price!PricingAssumption
<1>2. Setting(rs, slot, t) \subseteq Valid /\ \A r \in Setting(rs, slot, t) : Price!Sets(r)
  BY CountedIsThere DEF Setting
<1>3. Beginning(rs, slot, t) \in Int
  BY <1>1, <1>2, RulesHaveNumbers DEF Beginning
<1>4. PICK S : S = {r \in all : ~Price!Sets(r)}
  OBVIOUS
<1>5. Following(rs, slot, t) \in SUBSET S
  BY <1>4, CountedIsThere
<1>6. IsFiniteSet(S) /\ \A r \in S : Price!Change(r) \in Int
  BY <1>4, ChangesAreNumbers
<1>7. Price!Share(S)[Following(rs, slot, t)] \in Amount
  BY <1>5, <1>6, ShareOfAny
<1>8. PICK share \in Amount : share = Price!Share(S)[Following(rs, slot, t)]
  BY <1>7
<1>9. Exact(all, rs, slot, t) = [num |-> Beginning(rs, slot, t) * share.num, den |-> share.den]
  BY <1>4, <1>8 DEF Exact
<1>10. Beginning(rs, slot, t) * share.num \in Int /\ share.den \in Nat \ {0}
  BY <1>3 DEF Amount
<1> QED
  BY <1>3, <1>4, <1>7, <1>9, <1>10 DEF Amount

LEMMA OneMoreTurn ==
    ASSUME Facts, NEW all \in SUBSET Valid, NEW rs \in SUBSET all, NEW x \in all, ComesAfter(x, rs),
           NEW slot \in PriceSlots, NEW t, NEW was \in Quoting, Right(was, all, rs, slot, t)
    PROVE  Right(Quoted(x, slot, t, was), all, rs \cup {x}, slot, t)
<1>1. rs \in SUBSET Rules /\ x \in Rules /\ x \in Valid
  BY DEF Valid
<1>2. was.total \in Amount /\ was.fired \in BOOLEAN
  BY DEF Quoting
<1>3. x.here \in BOOLEAN /\ x.stackable \in BOOLEAN
  BY <1>1 DEF Facts, Price!QuotesAssumption
<1>4. /\ was.fired <=> Shut(rs, slot, t)
      /\ Setting(rs, slot, t) # {} => Latest(rs, slot, t) \in Setting(rs, slot, t)
      /\ Same(was.total, Exact(all, rs, slot, t))
  BY DEF Right
<1>5. PICK new : new = Price!Adjusted(was.total, Price!Adjustment(x, slot, was.total))
  OBVIOUS
<1>6. /\ Price!Sets(x) => new = [num |-> Price!SetTotal(x, slot) * was.total.den, den |-> was.total.den]
      /\ ~Price!Sets(x) => new = Price!Percent(was.total, 100 + Price!Change(x))
      /\ new \in Amount
  BY <1>1, <1>2, <1>5, AdjustedTotal
<1>7. Fires(x, rs, slot, t) <=> x.here /\ Price!Gate(x, was.fired) /\ Price!Applies(x, slot, t)
  BY <1>4 DEF Fires, Price!Gate
<1>8. CASE ~Fires(x, rs, slot, t)
  <2>1. Quoted(x, slot, t, was) = was
    BY <1>7, <1>8 DEF Quoted
  <2>2. Counting(rs \cup {x}, slot, t) = Counting(rs, slot, t)
    BY <1>1, <1>8, OneMoreCounts
  <2>3. Setting(rs \cup {x}, slot, t) = Setting(rs, slot, t)
    BY <2>2 DEF Setting
  <2>4. Latest(rs \cup {x}, slot, t) = Latest(rs, slot, t)
    BY <2>3 DEF Latest
  <2>5. Following(rs \cup {x}, slot, t) = Following(rs, slot, t) /\ Beginning(rs \cup {x}, slot, t) = Beginning(rs, slot, t)
    BY <2>2, <2>3, <2>4 DEF Following, Beginning
  <2>6. Exact(all, rs \cup {x}, slot, t) = Exact(all, rs, slot, t)
    BY <2>5 DEF Exact
  <2>7. Shut(rs \cup {x}, slot, t) <=> Shut(rs, slot, t)
    BY <1>1, <1>8, OneMoreCounts
  <2> QED
    BY <1>4, <2>1, <2>3, <2>4, <2>6, <2>7 DEF Right
<1>9. CASE Fires(x, rs, slot, t)
  <2>1. PICK now : now = Quoted(x, slot, t, was)
    OBVIOUS
  <2>2. now.total = new /\ now.fired = (was.fired \/ ~x.stackable)
    BY <1>5, <1>7, <1>9, <2>1 DEF Quoted
  <2>3. now.fired <=> Shut(rs \cup {x}, slot, t)
    <3>1. Shut(rs \cup {x}, slot, t) <=> Shut(rs, slot, t) \/ ~x.stackable
      BY <1>1, <1>9, OneMoreCounts
    <3> QED
      BY <1>4, <2>2, <3>1
  <2>4. PICK n \in Int, d \in Nat \ {0} : n = was.total.num /\ d = was.total.den
    BY <1>2 DEF Amount
  <2>5. PICK of : of = Price!Share({r \in all : ~Price!Sets(r)})
    OBVIOUS
  <2> DEFINE plus == rs \cup {x}
             begin == Beginning(plus, slot, t)
             percents == of[Following(plus, slot, t)]
  <2>8. Exact(all, plus, slot, t) = [num |-> begin * percents.num, den |-> percents.den]
    BY <2>5 DEF Exact
  <2>6. CASE Price!Sets(x)
    <3>1. /\ Setting(rs \cup {x}, slot, t) # {} /\ Latest(rs \cup {x}, slot, t) = x
          /\ Following(rs \cup {x}, slot, t) = {}
          /\ Beginning(rs \cup {x}, slot, t) = Price!SetTotal(x, slot)
      BY <1>1, <1>9, <2>6, OneMoreSets
    <3>2. x \in Setting(rs \cup {x}, slot, t)
      BY <1>1, <1>9, <2>6, OneMoreCounts DEF Setting
    <3>3. PICK s \in Int : s = Price!SetTotal(x, slot)
      BY <1>1, <2>6, RulesHaveNumbers
    <3>4. of[{}] = Price!Whole(1)
      BY <2>5, ChangesAreNumbers, ShareIsOfRest DEF OfRest
    <3>5. Exact(all, rs \cup {x}, slot, t) = [num |-> s * 1, den |-> 1]
      <4>1. begin = s /\ percents = of[{}]
        BY <3>1, <3>3
      <4>2. percents.num = 1 /\ percents.den = 1
        BY <3>4, <4>1 DEF Price!Whole
      <4> HIDE DEF begin, percents
      <4> QED
        BY <2>8, <4>1, <4>2
    <3>6. new = [num |-> s * d, den |-> d]
      BY <1>6, <2>4, <2>6, <3>3
    <3>7. (s * d) * 1 = (s * 1) * d
      OBVIOUS
    <3>8. Same(new, Exact(all, rs \cup {x}, slot, t))
      BY <3>5, <3>6, <3>7 DEF Same
    <3> QED
      BY <2>1, <2>2, <2>3, <3>1, <3>2, <3>8 DEF Right
  <2>7. CASE ~Price!Sets(x)
    <3>1. /\ Setting(rs \cup {x}, slot, t) = Setting(rs, slot, t)
          /\ Latest(rs \cup {x}, slot, t) = Latest(rs, slot, t)
          /\ Following(rs \cup {x}, slot, t) = Following(rs, slot, t) \cup {x}
          /\ Beginning(rs \cup {x}, slot, t) = Beginning(rs, slot, t)
      BY <1>1, <1>4, <1>9, <2>7, OneMoreFollows, SMTT(30)
    <3>2. PICK T : T = Following(rs, slot, t)
      OBVIOUS
    <3>3. T \cup {x} \subseteq {r \in all : ~Price!Sets(r)} /\ T \subseteq rs
      BY <2>7, <3>2, CountedIsThere
    <3>4. (T \cup {x}) \ {x} = T
      <4>1. x \notin rs
        BY <1>1, RulesAreOrdered DEF ComesAfter
      <4> QED
        BY <3>3, <4>1
    <3>5. of[T \cup {x}] = Price!Percent(of[(T \cup {x}) \ {x}], 100 + Price!Change(x))
      BY <2>5, <3>3, ChangesAreNumbers, ShareOfAny
    <3>6. PICK p \in Int : p = 100 + Price!Change(x)
      BY <1>1, <2>7, RulesHaveNumbers
    <3>7. of[T] \in Amount /\ Beginning(rs, slot, t) \in Int
      BY <1>4, <2>5, <3>2, ExactIsAmount
    <3>8. PICK m \in Int, c \in Nat \ {0} : m = of[T].num /\ c = of[T].den
      BY <3>7 DEF Amount
    <3>9. PICK s \in Int : s = Beginning(rs, slot, t)
      BY <3>7
    <3>10. Exact(all, rs, slot, t) = [num |-> s * m, den |-> c]
      BY <2>5, <3>2, <3>8, <3>9 DEF Exact
    <3>11. n * c = (s * m) * d
      BY <1>4, <2>4, <3>10 DEF Same
    <3>12. (n * p) * (c * 100) = (s * (m * p)) * (d * 100)
      BY <3>11, SamePercent
    <3>13. of[T \cup {x}] = [num |-> m * p, den |-> c * 100]
      BY <3>4, <3>5, <3>6, <3>8 DEF Price!Percent
    <3>14. Exact(all, rs \cup {x}, slot, t) = [num |-> s * (m * p), den |-> c * 100]
      <4>1. begin = s /\ percents = of[T \cup {x}]
        BY <3>1, <3>2, <3>9
      <4>2. percents.num = m * p /\ percents.den = c * 100
        BY <3>13, <4>1
      <4> HIDE DEF begin, percents
      <4> QED
        BY <2>8, <4>1, <4>2
    <3>15. new = [num |-> n * p, den |-> d * 100]
      BY <1>6, <2>4, <2>7, <3>6 DEF Price!Percent
    <3>16. Same(new, Exact(all, rs \cup {x}, slot, t))
      BY <3>12, <3>14, <3>15 DEF Same
    <3> QED
      BY <1>4, <2>1, <2>2, <2>3, <3>1, <3>16 DEF Right
  <2> QED
    BY <2>6, <2>7
<1> QED
  BY <1>8, <1>9

LEMMA FirstIsRight ==
    ASSUME Facts, NEW all \in SUBSET Valid, NEW slot \in PriceSlots, NEW t
    PROVE  Right(Opening(slot), all, {}, slot, t)
<1>1. Counting({}, slot, t) = {} /\ ~Shut({}, slot, t)
  BY DEF Counting, Price!Firing, Shut
<1>2. Setting({}, slot, t) = {} /\ Following({}, slot, t) = {}
  BY <1>1 DEF Setting, Following
<1>3. Price!Share({r \in all : ~Price!Sets(r)})[{}] = Price!Whole(1)
  BY ChangesAreNumbers, ShareIsOfRest DEF OfRest
<1>4. PICK s \in Int : s = Price!Base(slot)
  BY DEF Price!Base, Price!Hours, Facts, Price!QuotesAssumption, Price!PricingAssumption
<1>5. Exact(all, {}, slot, t) = [num |-> s * 1, den |-> 1]
  BY <1>2, <1>3, <1>4 DEF Exact, Beginning, Price!Whole
<1>6. Opening(slot).total = [num |-> s, den |-> 1] /\ Opening(slot).fired = FALSE
  BY <1>4 DEF Opening, Price!Whole
<1>7. s * 1 = (s * 1) * 1
  OBVIOUS
<1>8. Same(Opening(slot).total, Exact(all, {}, slot, t))
  BY <1>5, <1>6, <1>7 DEF Same
<1> QED
  BY <1>1, <1>2, <1>6, <1>8 DEF Right

\* The loop's total is the one that is said without a loop.
LEMMA QuoteIsExpected ==
    ASSUME Facts, NEW rs \in SUBSET Valid, NEW slot \in PriceSlots, NEW t
    PROVE  Price!ComputeQuote(rs, slot, t).total = Price!ExpectedTotal(rs, slot, t)
<1> DEFINE N == Cardinality(rs)
           e == Price!InOrder(rs)
<1>1. PICK after : QuoteLoop(after, rs, slot, t)
  BY QuoteLoops
<1> DEFINE G == {n \in 0..N : Right(after[n], rs, Had(rs, n), slot, t)}
<1>2. rs \in SUBSET Rules
  BY DEF Valid
<1>3. /\ N \in Nat /\ e \in [1..N -> rs]
      /\ \A r \in rs : \E n \in 1..N : e[n] = r
      /\ \A i, j \in 1..N : i < j => Price!Before(e[i], e[j])
  BY <1>2, RulesInTurn DEF InTurn
<1>4. \A n \in 0..N : Had(rs, n) = {e[i] : i \in 1..n}
  BY DEF Had
<1>5. /\ \A n \in 0..N : after[n] \in Quoting
      /\ after[0] = Opening(slot)
      /\ \A k \in 1..N : after[k] = Quoted(e[k], slot, t, after[k - 1])
      /\ Price!ComputeQuote(rs, slot, t).total = Price!Rounded(after[N].total)
  BY <1>1 DEF QuoteLoop
<1> HIDE DEF N, e
<1>6. 0 \in G
  <2>1. 0 \in 0..N /\ 1..0 = {}
    BY <1>3
  <2>2. Had(rs, 0) = {}
    BY <1>4, <2>1
  <2> QED
    BY <1>5, <2>1, <2>2, FirstIsRight
<1>7. ASSUME NEW k \in 1..N, k - 1 \in G PROVE k \in G
  <2>1. k \in 0..N /\ k - 1 \in 0..N /\ 1..k = (1..(k - 1)) \cup {k}
    BY <1>3
  <2>2. Had(rs, k) = Had(rs, k - 1) \cup {e[k]}
    BY <1>4, <2>1
  <2>3. \A i \in 1..(k - 1) : i \in 1..N /\ i < k
    BY <1>3
  <2>4. Had(rs, k - 1) \in SUBSET rs /\ e[k] \in rs
    BY <1>3, <1>4, <2>1, <2>3
  <2>5. ComesAfter(e[k], Had(rs, k - 1))
    BY <1>3, <1>4, <2>1, <2>3 DEF ComesAfter
  <2>6. Right(after[k - 1], rs, Had(rs, k - 1), slot, t) /\ after[k - 1] \in Quoting
    BY <1>5, <1>7, <2>1
  <2>7. Right(Quoted(e[k], slot, t, after[k - 1]), rs, Had(rs, k - 1) \cup {e[k]}, slot, t)
    BY <2>4, <2>5, <2>6, OneMoreTurn
  <2> QED
    BY <1>5, <2>1, <2>2, <2>7
<1>8. N \in G
  <2> HIDE DEF G
  <2>1. N \in 0..N
    BY <1>3
  <2> QED
    BY <1>3, <1>6, <1>7, <2>1, UpTo
<1>9. Had(rs, N) = rs
  <2>1. N \in 0..N
    BY <1>3
  <2> QED
    BY <1>3, <1>4, <2>1
<1>10. Right(after[N], rs, rs, slot, t) /\ after[N].total \in Amount
  BY <1>3, <1>5, <1>8, <1>9 DEF Quoting
<1>11. Exact(rs, rs, slot, t) \in Amount
  BY <1>10, ExactIsAmount DEF Right
<1>12. Price!Rounded(after[N].total) = Price!Rounded(Exact(rs, rs, slot, t))
  BY <1>10, <1>11, RoundedSame DEF Right
<1> QED
  BY <1>5, <1>12, ExpectedIsExact

---------------------------------------------------------------------------
(* The total that is stored.                                               *)

\* A row's total is the quote of its own rules, slot and tier.
QuotedRows == \A r \in Pages : row[r].made =>
    /\ row[r].rules \in SUBSET Valid /\ row[r].slot \in PriceSlots
    /\ row[r].total_amount = Total(row[r].rules, row[r].slot, row[r].tier)
StoredInv == PriceInv /\ rules \in SUBSET Valid /\ QuotedRows

LEMMA StoredIsExpected ==
    ASSUME Facts, StoredInv
    PROVE  TotalAsExpected
<1> SUFFICES ASSUME NEW r \in Pages, row[r].made
             PROVE  row[r].total_amount =
                      Price!ExpectedTotal(row[r].rules, row[r].slot, row[r].tier)
  BY DEF TotalAsExpected, Price!TotalAsExpected
<1> QED
  BY QuoteIsExpected DEF StoredInv, QuotedRows, Total

LEMMA StoredStarts ==
    ASSUME Facts, Price!Init
    PROVE  StoredInv
<1>1. PriceInv
  BY PriceStarts DEF Facts
<1>2. rules \in SUBSET Valid /\ \A r \in Pages : row[r].made = FALSE
  BY DEF Price!Init, Price!NoRow, Valid
<1> QED
  BY <1>1, <1>2 DEF StoredInv, QuotedRows

\* What is stored when compute_quote raises is the quote of no rules.
LEMMA FallbackIsQuoted ==
    ASSUME Facts, NEW slot \in PriceSlots
    PROVE  Price!Fallback(slot).total_amount = Total({}, slot, NoTier)
<1>1. {} \in SUBSET Valid
  OBVIOUS
<1>2. PICK after : QuoteLoop(after, {}, slot, NoTier)
  BY <1>1, QuoteLoops
<1>3. Cardinality({}) = 0
  BY FS_EmptySet
<1>4. Total({}, slot, NoTier) = Price!Rounded(Opening(slot).total)
  BY <1>2, <1>3 DEF QuoteLoop, Total
<1>5. Opening(slot).total = Price!Whole(Price!Base(slot))
  BY DEF Opening
<1>6. Price!Fallback(slot).total_amount = Price!Rounded(Price!Whole(Price!Base(slot)))
  BY DEF Price!Fallback
<1> QED
  BY <1>4, <1>5, <1>6

LEMMA FreezingKeeps ==
    ASSUME Facts, StoredInv, NEW r \in Pages, NEW slot \in PriceSlots, NEW t,
           row' = [row EXCEPT ![r] = Price!Frozen(slot, t)]
             \/ row' = [row EXCEPT ![r] = Price!Fallback(slot)]
    PROVE  QuotedRows'
<1>1. /\ row'[r] \in {Price!Frozen(slot, t), Price!Fallback(slot)}
      /\ \A s \in Pages \ {r} : row'[s] = row[s]
  BY DEF StoredInv, PriceInv, PriceTyped
<1>2. /\ row'[r].rules \in SUBSET Valid /\ row'[r].slot = slot
      /\ row'[r].total_amount = Total(row'[r].rules, slot, row'[r].tier)
  <2>1. CASE row'[r] = Price!Frozen(slot, t)
    BY <2>1 DEF Price!Frozen, Total, StoredInv
  <2>2. CASE row'[r] = Price!Fallback(slot)
    <3>1. row'[r].rules = {} /\ row'[r].slot = slot /\ row'[r].tier = NoTier
      BY <2>2 DEF Price!Fallback
    <3> QED
      BY <2>2, <3>1, FallbackIsQuoted
  <2> QED
    BY <1>1, <2>1, <2>2
<1> SUFFICES ASSUME NEW s \in Pages, row'[s].made
             PROVE  /\ row'[s].rules \in SUBSET Valid /\ row'[s].slot \in PriceSlots
                    /\ row'[s].total_amount = Total(row'[s].rules, row'[s].slot, row'[s].tier)
  BY DEF QuotedRows
<1>3. CASE s = r
  BY <1>2, <1>3
<1>4. CASE s # r
  BY <1>1, <1>4 DEF StoredInv, QuotedRows
<1> QED
  BY <1>3, <1>4

LEMMA StoredStep ==
    ASSUME Facts, StoredInv, [Price!Next]_(Price!vars)
    PROVE  StoredInv'
<1>1. PriceInv'
  BY PriceStep DEF StoredInv
<1>2. ASSUME row' = row PROVE QuotedRows'
  BY <1>2 DEF StoredInv, QuotedRows
<1>3. CASE UNCHANGED Price!vars
  BY <1>1, <1>2, <1>3 DEF StoredInv, Price!vars
<1>4. ASSUME NEW rule \in Rules, Price!EditRules(rule) PROVE StoredInv'
  <2>1. rules' \in SUBSET Valid
    BY <1>4 DEF Price!EditRules, StoredInv, Valid
  <2>2. row' = row
    BY <1>4 DEF Price!EditRules, Price!Edit
  <2> QED
    BY <1>1, <1>2, <2>1, <2>2 DEF StoredInv
<1>5. ASSUME NEW r \in Pages, Price!Create(r) PROVE StoredInv'
  <2>1. request[r].slot \in PriceSlots
    BY DEF StoredInv, PriceInv, PriceTyped, PriceRequest
  <2>2. /\ \/ row' = [row EXCEPT ![r] = Price!Frozen(request[r].slot, request[r].tier)]
           \/ row' = [row EXCEPT ![r] = Price!Fallback(request[r].slot)]
        /\ rules' = rules
    BY <1>5 DEF Price!Create
  <2>3. QuotedRows'
    BY <2>1, <2>2, FreezingKeeps
  <2> QED
    BY <1>1, <2>2, <2>3 DEF StoredInv
<1>6. ASSUME NEW r \in Pages, NEW slot \in PriceSlots, Price!Reschedule(r, slot) PROVE StoredInv'
  <2>1. /\ \/ row' = [row EXCEPT ![r] = Price!Frozen(slot, tier)]
           \/ row' = [row EXCEPT ![r] = Price!Fallback(slot)]
        /\ rules' = rules
    BY <1>6 DEF Price!Reschedule
  <2>2. QuotedRows'
    BY <2>1, FreezingKeeps
  <2> QED
    BY <1>1, <2>1, <2>2 DEF StoredInv
<1>7. ASSUME rules' = rules, row' = row PROVE StoredInv'
  BY <1>1, <1>2, <1>7 DEF StoredInv
<1>8. ASSUME NEW new \in (Tiers \union {NoTier}), Price!ChangeTier(new) PROVE StoredInv'
  BY <1>7, <1>8 DEF Price!ChangeTier, Price!Edit
<1>9. ASSUME NEW r \in Pages, NEW slot \in PriceSlots, NEW known \in BOOLEAN,
             Price!Show(r, slot, known)
      PROVE  StoredInv'
  BY <1>7, <1>9 DEF Price!Show
<1>10. ASSUME NEW r \in Pages, NEW withPrice \in BOOLEAN, NEW normal \in BOOLEAN,
              Price!Submit(r, withPrice, normal)
       PROVE  StoredInv'
  BY <1>7, <1>10 DEF Price!Submit
<1>11. ASSUME NEW r \in Pages, Price!CheckTier(r) \/ Price!Check(r) \/ Price!ReadTier(r)
       PROVE  StoredInv'
  BY <1>7, <1>11 DEF Price!CheckTier, Price!Check, Price!ReadTier
<1> QED
  BY <1>3, <1>4, <1>5, <1>6, <1>8, <1>9, <1>10, <1>11 DEF Price!Next

\* compute_quote's loop over the rules by priority comes to the total that the rules say
\* taken together, for every set of rules the admin's form accepts, every slot and every
\* tier, and so every stored total is that of the rules it was made from (engine.py,
\* compute_quote; the strategies).
THEOREM TotalAsExpectedHolds == Price!Spec => []TotalAsExpected
<1>0. Facts
  BY PriceAssumption DEF Facts
<1>1. Price!Init => StoredInv
  BY <1>0, StoredStarts
<1>2. StoredInv /\ [Price!Next]_(Price!vars) => StoredInv'
  BY <1>0, StoredStep
<1>3. StoredInv => TotalAsExpected
  BY <1>0, StoredIsExpected
<1> QED
  BY <1>1, <1>2, <1>3, PTL DEF Price!Spec

---------------------------------------------------------------------------
(* The two parts, taking turns.                                            *)

LEMMA EitherPartMoves ==
    ASSUME [CustomerNext]_allVars
    PROVE  [Codes!Next]_(Codes!vars) /\ [Price!Next]_(Price!vars)
<1>1. CASE UNCHANGED allVars
  BY <1>1 DEF allVars, Codes!vars, Price!vars
<1>2. CASE InCodes(Codes!Next)
  BY <1>2 DEF InCodes, Price!vars
<1>3. ASSUME Price!Next, UNCHANGED <<part, codes, minute, hour, verified, checkedIn, requests>>
      PROVE  [Codes!Next]_(Codes!vars) /\ [Price!Next]_(Price!vars)
  BY <1>3 DEF Codes!vars
<1> QED
  BY <1>1, <1>2, <1>3 DEF CustomerNext

\* Whichever part moves, both keep their promises.
THEOREM CustomerKeepsPromises ==
  CustomerSpec => []OneLiveCode /\ []AgreedPrice /\ []TotalAsExpected
<1>1. CustomerInit => Codes!Init /\ Price!Init
  BY DEF CustomerInit
<1>2. CustomerSpec => Codes!Spec /\ Price!Spec
  BY <1>1, EitherPartMoves, PTL DEF CustomerSpec, Codes!Spec, Price!Spec
<1> QED
  BY <1>2, OneLiveCodeHolds, AgreedPriceHolds, TotalAsExpectedHolds, PTL
================================================================================
