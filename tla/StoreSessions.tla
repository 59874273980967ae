---------------------------- MODULE StoreSessions ----------------------------
\* One browser of a customer who visits several stores of the chain: the cookie of its
\* store and the cookie of its portal session, as core/middleware.py reads and writes
\* them around every request.  Tabs send requests with the cookies of that moment;
\* the answers, which may set or delete cookies, arrive in any order.
EXTENDS Naturals
CONSTANTS
  Requests,           \* slots for requests in flight
  Stores, FirstStore, \* the stores; the first one by slug
  Customers, Home,    \* rows of the browser's user: Home[c] is the store of row c
  Nobody, NoStore,
  Lifetime            \* CUSTOMER_COOKIE_MAX_AGE, in ticks

SessionsAssumption ==
  FirstStore \in Stores /\ Home \in [Customers -> Stores] /\ Lifetime \in Nat \ {0}

VARIABLES
  slug,      \* the store cookie
  session,   \* the session cookie: customer and ticks left (its store is Home's)
  requests,  \* requests in flight
  since      \* history: ticks left of the customer's latest sign-in
vars == <<slug, session, requests, since>>

NoSession == [customer |-> Nobody, left |-> 0]
Idle == [pc |-> "idle"]
Init ==
  /\ slug = NoStore /\ session = NoSession
  /\ requests = [r \in Requests |-> Idle]
  /\ since = [c \in Customers |-> 0]

At(r, pc) == requests[r].pc = pc
Down(n) == IF n = 0 THEN 0 ELSE n - 1

------------------------------------------------------------------------------
\* The portal names its store in a header; other pages may not.  Signing in names it too.
Send(r, op, customer, header) ==
  /\ At(r, "idle")
  /\ IF op = "sign in" THEN customer \in Customers /\ header = Home[customer] ELSE customer = Nobody
  /\ requests' = [requests EXCEPT ![r] =
       [pc |-> "sent", op |-> op, customer |-> customer, header |-> header,
        slug |-> slug, session |-> session]]
  /\ UNCHANGED <<slug, session, since>>

\* _resolve_store: the header, the cookie, the first store.  (Its first branch, a URL
\* kwarg, never fires: the middleware asks before the URL is dispatched.)
ResolveStore(q) ==
  CASE q.header # NoStore -> q.header
    [] q.header = NoStore /\ q.slug # NoStore -> q.slug
    [] OTHER -> FirstStore

\* Fault: the cookie is not held against the store of the request.
UnsignOnly(q) == IF q.session.left > 0 THEN q.session.customer ELSE Nobody

\* unsign_customer_session and the store binding: request.customer.
RequestCustomer(q) ==
  IF q.session.left > 0 /\ Home[q.session.customer] = ResolveStore(q)
    THEN q.session.customer ELSE Nobody

\* The middleware deletes, after the view, a session cookie that was no good.
ClearsCookie(q) == q.session # NoSession /\ RequestCustomer(q) = Nobody

\* The view runs in between: ok says that the code of a sign-in was right.
Serve(r) ==
  LET q == requests[r]
      SignedIn(ok) == q.op = "sign in" /\ ok
  IN  /\ At(r, "sent")
      /\ \E ok \in BOOLEAN :
           /\ requests' = [requests EXCEPT ![r] =
                [pc |-> "served", header |-> q.header, as |-> RequestCustomer(q),
                 signedIn |-> IF SignedIn(ok) THEN q.customer ELSE Nobody,
                 sets |-> ClearsCookie(q) \/ q.op = "log out" \/ SignedIn(ok),
                 session |-> IF SignedIn(ok) /\ ~ClearsCookie(q)
                               THEN [customer |-> q.customer, left |-> Lifetime] ELSE NoSession]]
           /\ since' = IF SignedIn(ok) THEN [since EXCEPT ![q.customer] = Lifetime] ELSE since
      /\ UNCHANGED <<slug, session>>

\* The answer reaches the browser, which keeps the cookies it sets.  A store named in
\* the header is written to the store cookie.
Arrive(r) ==
  LET q == requests[r]
  IN  /\ At(r, "served")
      /\ slug' = IF q.header # NoStore THEN q.header ELSE slug
      /\ session' = IF q.sets THEN q.session ELSE session
      /\ requests' = [requests EXCEPT ![r] = Idle]
      /\ UNCHANGED since

\* A session cookie ages, wherever a copy of it is.
Aged(s) == [s EXCEPT !.left = Down(@)]
Tick ==
  /\ session' = Aged(session)
  /\ requests' = [r \in Requests |-> IF At(r, "idle") THEN Idle
                    ELSE [requests[r] EXCEPT !.session = Aged(@)]]
  /\ since' = [c \in Customers |-> Down(since[c])]
  /\ UNCHANGED slug

Next ==
  \/ \E r \in Requests, op \in {"read", "sign in", "log out"},
        c \in Customers \union {Nobody}, h \in Stores \union {NoStore} : Send(r, op, c, h)
  \/ \E r \in Requests : Serve(r) \/ Arrive(r)
  \/ Tick
Spec == Init /\ [][Next]_vars

------------------------------------------------------------------------------
\* A request that names its store is served as no customer of another store, whatever
\* other tabs have done to the cookies in between, and as a customer only within a
\* session's lifetime of that customer's own sign-in.
ServedAtHome ==
  [][\A r \in Requests :
       At(r, "sent") /\ requests'[r].pc = "served" /\ requests'[r].as # Nobody =>
         /\ requests[r].header \in {NoStore, Home[requests'[r].as]}
         /\ since[requests'[r].as] > 0]_vars

\* A sign-in that is answered "On success: 200 ... and a signed cookie" leaves the
\* browser that cookie (views_customer_auth.py:125).
SignInSticks ==
  [][\A r \in Requests :
       At(r, "served") /\ requests'[r] = Idle /\ requests[r].signedIn # Nobody =>
         session'.customer = requests[r].signedIn]_vars
==============================================================================
