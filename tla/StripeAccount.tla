----------------------------- MODULE StripeAccount -----------------------------
\* A store's account at Stripe and the flag that caches whether it may take charges:
\* StripeConnectView and StripeReturnView in billing/views.py, handle_account_updated in
\* billing/webhook_handlers.py.  Stripe delivers its events in any order, or twice.
EXTENDS Naturals, Sequences
CONSTANTS
  Accounts,   \* accounts Stripe may open for the store
  NoAccount,  \* stripe_account_id is null
  Requests,   \* requests of the owner at one moment
  MaxEvents   \* bound on the account.updated events

VARIABLES
  account,  \* Store.stripe_account_id
  enabled,  \* Store.stripe_charges_enabled
  charges,  \* at Stripe: the accounts opened, and whether each may take charges
  events,   \* the account.updated events sent
  request,  \* what each request is about to do
  said,     \* history: the accounts Stripe has said to be enabled
  raced     \* history: a connect saved over an account it had not seen
vars == <<account, enabled, charges, events, request, said, raced>>

Idle == [op |-> "idle"]
Init ==
  /\ account = NoAccount /\ enabled = FALSE
  /\ charges = <<>> /\ events = <<>>
  /\ request = [r \in Requests |-> Idle]
  /\ said = {} /\ raced = FALSE

Do(r, what) == request' = [request EXCEPT ![r] = what]

------------------------------------------------------------------------------
\* At Stripe: an account changes, by what its owner fills in or a review takes back.
StripeChanges(a) ==
  /\ Len(events) < MaxEvents
  /\ charges' = [charges EXCEPT ![a] = ~@]
  /\ events' = Append(events, [account |-> a, enabled |-> charges'[a]])
  /\ said' = said \union {b \in {a} : charges'[b]}
  /\ UNCHANGED <<account, enabled, request, raced>>

\* handle_account_updated: the flag is set by any event of the row's account.
HandleEvent(e) ==
  /\ events[e].account = account
  /\ enabled' = events[e].enabled
  /\ UNCHANGED <<account, charges, events, request, said, raced>>

\* Fault: reconnecting opens an account again.
OpenAccountAgain(r) ==
  /\ request[r] = Idle
  /\ \E a \in Accounts \ DOMAIN charges :
       /\ charges' = [b \in DOMAIN charges \union {a} |-> b # a /\ charges[b]]
       /\ Do(r, [op |-> "link", read |-> account, opened |-> a])
  /\ UNCHANGED <<account, enabled, events, said, raced>>

\* StripeConnectView, with the row as the middleware read it: only a store without an
\* account opens one.  (With one it just gets a new onboarding link.)
OpenAccount(r) ==
  /\ request[r] = Idle /\ account = NoAccount
  /\ \E a \in Accounts \ DOMAIN charges :
       /\ charges' = [b \in DOMAIN charges \union {a} |-> b # a /\ charges[b]]
       /\ Do(r, [op |-> "link", read |-> account, opened |-> a])
  /\ UNCHANGED <<account, enabled, events, said, raced>>

LinkAccount(r) ==
  /\ request[r].op = "link"
  /\ account' = request[r].opened
  /\ raced' = (raced \/ account # request[r].read)
  /\ Do(r, Idle)
  /\ UNCHANGED <<enabled, charges, events, said>>

\* StripeReturnView: Stripe is asked about the account the row had, and the answer saved.
AskStripe(r) ==
  /\ request[r] = Idle /\ account # NoAccount
  /\ Do(r, [op |-> "refresh", heard |-> charges[account]])
  /\ UNCHANGED <<account, enabled, charges, events, said, raced>>

RefreshFlag(r) ==
  /\ request[r].op = "refresh"
  /\ enabled' = request[r].heard
  /\ Do(r, Idle)
  /\ UNCHANGED <<account, charges, events, said, raced>>

\* Stripe does not answer, or the process dies: an account opened is left behind.
Die(r) ==
  /\ request[r] # Idle /\ Do(r, Idle)
  /\ UNCHANGED <<account, enabled, charges, events, said, raced>>

Next ==
  \/ \E a \in DOMAIN charges : StripeChanges(a)
  \/ \E e \in DOMAIN events : HandleEvent(e)
  \/ \E r \in Requests : OpenAccount(r) \/ LinkAccount(r) \/ AskStripe(r) \/ RefreshFlag(r) \/ Die(r)
Spec == Init /\ [][Next]_vars

------------------------------------------------------------------------------
\* "Mirror of Stripe's account.charges_enabled": whatever order the events come in, and
\* whatever accounts were left behind, the flag is set only after Stripe said so of the
\* account in the row.  (Two connects at once may leave it set for the first account.)
FlagIsOfTheAccount == enabled => account \in said \/ raced
==============================================================================
