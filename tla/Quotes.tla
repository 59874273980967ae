---------------------------------- MODULE Quotes ----------------------------------
(***************************************************************************)
(* The price of a booking from the page that shows it to the row that      *)
(* keeps it: a quote is shown, checked against a second one when the       *)
(* booking is submitted, and a third one is stored; the rules and the      *)
(* customer's tier may change in between.  A reschedule stores a new one.  *)
(* compute_quote reads the tier before it reads the rules.  It may raise:  *)
(* the page then has no price, the check is answered 500, and what is      *)
(* stored is the base price.                                               *)
(***************************************************************************)
EXTENDS Pricing

CONSTANTS
    Requests,            \* each makes one booking
    Rules, Slots,
    Tiers, NoTier,
    MaxEdits             \* bound: of the changes of rules and tier

QuotesAssumption ==
    /\ NoTier \notin Tiers /\ Slots # {}
    /\ Slots \subseteq [start : Int, end : Int]
    /\ IsFiniteSet(Rules) /\ \A p, q \in Rules : p.id = q.id => p = q
    /\ \A rule \in Rules :
         /\ rule.id \in Nat /\ rule.priority \in Int
         /\ rule.type \in RuleTypes /\ {rule.here, rule.stackable} \subseteq BOOLEAN
    /\ MaxEdits \in Nat

NotGiven == 0 - 1        \* the request has no expected_total_amount

VARIABLES
    rules,     \* the PricingRule rows that are enabled
    tier,      \* the customer's
    request,
    row,       \* the booking of each request: its price, once it is made
    edits,
    moved      \* history: requests during which the rules or the tier changed, and
               \* bookings stored without a quote or moved

vars == <<rules, tier, request, row, edits, moved>>

NoRow == [made |-> FALSE]

Init ==
    /\ rules \in SUBSET {rule \in Rules : ValidParams(rule)}
    /\ tier \in Tiers \cup {NoTier}
    /\ request = [r \in Requests |->
         [pc |-> "idle", slot |-> CHOOSE s \in Slots : TRUE, expected |-> NotGiven,
          normal |-> TRUE, tier |-> NoTier]]
    /\ row = [r \in Requests |-> NoRow]
    /\ edits = 0
    /\ moved = {}

InFlight == {r \in Requests : request[r].pc \notin {"idle", "shown", "done"}}

Edit ==
    /\ edits < MaxEdits
    /\ edits' = edits + 1
    /\ moved' = moved \cup InFlight
    /\ UNCHANGED <<request, row>>

\* The admin creates, enables, disables or deletes a rule.
EditRules(rule) ==
    /\ Edit
    /\ ValidParams(rule)
    /\ rules' = IF rule \in rules THEN rules \ {rule} ELSE rules \cup {rule}
    /\ UNCHANGED tier

ChangeTier(new) == Edit /\ tier' = new /\ UNCHANGED rules

Goto(r, pc) == request' = [request EXCEPT ![r].pc = pc]

\* QuoteView: the page knows the customer or does not.
Show(r, slot, known) ==
    /\ request[r].pc = "idle"
    /\ request' = [request EXCEPT ![r].pc = "shown", ![r].slot = slot,
         ![r].expected = ComputeQuote(rules, slot, IF known THEN tier ELSE NoTier).total]
    /\ UNCHANGED <<rules, tier, row, edits, moved>>

\* The booking is submitted: with the price or, by an old client, without it,
\* and with a phone number that may not be in its normal form.
Submit(r, withPrice, normal) ==
    /\ request[r].pc = "shown"
    /\ request' = [request EXCEPT ![r].pc = IF withPrice THEN "checkTier" ELSE "tier",
         ![r].expected = IF withPrice THEN @ ELSE NotGiven, ![r].normal = normal]
    /\ UNCHANGED <<rules, tier, row, edits, moved>>

\* The check looks the customer up by the phone as it was typed.
CheckTier(r) ==
    /\ request[r].pc = "checkTier"
    /\ request' = [request EXCEPT ![r].pc = "check",
         ![r].tier = IF request[r].normal THEN tier ELSE NoTier]
    /\ UNCHANGED <<rules, tier, row, edits, moved>>

\* Fault: only a price that rises is refused.
DearerBy(total, expected) == total - expected > 1

Differs(total, expected) == total - expected > 1 \/ expected - total > 1

\* 409 quote_changed has the new quote, which the page shows; after a 500 it still
\* shows the old one.
Check(r) ==
    LET total   == ComputeQuote(rules, request[r].slot, request[r].tier).total
        differs == Differs(total, request[r].expected)
    IN  /\ request[r].pc = "check"
        /\ \/ /\ differs
              /\ request' = [request EXCEPT ![r].pc = "shown", ![r].expected = total]
              /\ moved' = moved \ {r}
           \/ ~differs /\ Goto(r, "tier") /\ UNCHANGED moved
           \/ Goto(r, "shown") /\ moved' = moved \ {r}
        /\ UNCHANGED <<rules, tier, row, edits>>

\* BookingCreateSerializer.create resolves the customer by the normal form.
ReadTier(r) ==
    /\ request[r].pc = "tier"
    /\ request' = [request EXCEPT ![r].pc = "create", ![r].tier = tier]
    /\ UNCHANGED <<rules, tier, row, edits, moved>>

\* The columns of a quote, and from what it was made.
Frozen(slot, t) ==
    LET quote == ComputeQuote(rules, slot, t)
    IN  [made |-> TRUE, slot |-> slot, total_amount |-> quote.total,
         rule_snapshot |-> quote.lines, rules |-> rules, tier |-> t]

\* The base price and no lines: what a quote without rules comes to.
Fallback(slot) ==
    [made |-> TRUE, slot |-> slot, total_amount |-> Rounded(Whole(Base(slot))),
     rule_snapshot |-> <<>>, rules |-> {}, tier |-> NoTier]

Create(r) ==
    /\ request[r].pc = "create"
    /\ \/ /\ row' = [row EXCEPT ![r] = Frozen(request[r].slot, request[r].tier)]
          /\ UNCHANGED moved
       \/ /\ row' = [row EXCEPT ![r] = Fallback(request[r].slot)]
          /\ moved' = moved \cup {r}
    /\ Goto(r, "done")
    /\ UNCHANGED <<rules, tier, edits>>

\* The portal moves a booking; nobody is asked to agree to the price.
Reschedule(r, slot) ==
    /\ row[r].made /\ edits < MaxEdits
    /\ 2 * Hours(slot) <= 3 * Hours(row[r].slot)
    /\ \E stored \in {Frozen(slot, tier), Fallback(slot)} : row' = [row EXCEPT ![r] = stored]
    /\ moved' = moved \cup {r}
    /\ edits' = edits + 1
    /\ UNCHANGED <<rules, tier, request>>

Next ==
    \/ \E rule \in Rules : EditRules(rule)
    \/ \E new \in (Tiers \cup {NoTier}) \ {tier} : ChangeTier(new)
    \/ \E r \in Requests :
         \/ \E slot \in Slots, known \in BOOLEAN : Show(r, slot, known)
         \/ \E withPrice, normal \in BOOLEAN : Submit(r, withPrice, normal)
         \/ CheckTier(r) \/ Check(r) \/ ReadTier(r) \/ Create(r)
         \/ \E slot \in Slots : Reschedule(r, slot)

Spec == Init /\ [][Next]_vars

---------------------------------------------------------------------------
\* A booking costs what its page showed, within a cent, unless the rules or
\* the tier changed after the check had read them, compute_quote raised when
\* the row was made, the phone was not in its normal form, or the booking was
\* moved.
AgreedPrice == \A r \in Requests :
    /\ row[r].made /\ r \notin moved
    /\ request[r].expected # NotGiven /\ request[r].normal
    => LET stored == row[r].total_amount
           shown  == request[r].expected
       IN  ~(stored - shown > 1 \/ shown - stored > 1)

\* The total is what the rules say taken together: the last rule that sets
\* the price, then the percentages after it, and of the rules that do not
\* stack the first one only; with no quote, what no rules say.
TotalAsExpected == \A r \in Requests :
    row[r].made => row[r].total_amount = ExpectedTotal(row[r].rules, row[r].slot, row[r].tier)
================================================================================
