--------------------------------- MODULE Pricing ---------------------------------
(***************************************************************************)
(* compute_quote: the price of a slot of one resource under a set of       *)
(* pricing rules.  Prices are in cents; an amount on the way to the total  *)
(* is a fraction of them, as exact as a Decimal.  Time is in hours from    *)
(* midnight on the first day of the week.                                  *)
(***************************************************************************)
EXTENDS Integers, Sequences, FiniteSets

CONSTANTS PricePerHour, HoursPerDay, DaysPerWeek

PricingAssumption ==
    /\ PricePerHour \in Nat
    /\ {HoursPerDay, DaysPerWeek} \subseteq Nat \ {0}

Hours(slot) == slot.end - slot.start
Hour(slot) == slot.start % HoursPerDay
Day(slot) == (slot.start \div HoursPerDay) % DaysPerWeek

Whole(cents) == [num |-> cents, den |-> 1]
Percent(amount, pct) == [num |-> amount.num * pct, den |-> amount.den * 100]

\* For adjustments over the denominator of the total or a multiple of it.
Adjusted(total, adj) ==
    [num |-> total.num * (adj.den \div total.den) + adj.num, den |-> adj.den]

---------------------------------------------------------------------------
(* The strategies.  A day_of_week rule has a rate or a discount; it and a  *)
(* bracket_rate set the total, the others change it by a percentage.       *)

PeakValid(rule) ==
    /\ rule.days # {}
    /\ {rule.from, rule.until} \subseteq 0..HoursPerDay
    /\ rule.from < rule.until
    /\ rule.adjustment_pct \in Int
DayValid(rule) ==
    /\ rule.days # {}
    /\ ("flat_rate" \in DOMAIN rule) # ("discount_pct" \in DOMAIN rule)
    /\ "flat_rate" \in DOMAIN rule => rule.flat_rate \in Int
    /\ "discount_pct" \in DOMAIN rule => rule.discount_pct \in Int
TierValid(rule) == rule.discount_pct \in 0..100
DurationValid(rule) == rule.min_hours >= 1 /\ rule.discount_pct \in 0..100
BracketsValid(rule) ==
    rule.brackets # <<>> /\ rule.brackets \in Seq([max_hours : Nat, rate : Int])

RuleTypes == {"peak_hours", "day_of_week", "member_tier", "min_duration", "bracket_rate"}

\* What the admin's form accepts.
ValidParams(rule) ==
    CASE rule.type = "peak_hours"   -> PeakValid(rule)
      [] rule.type = "day_of_week"  -> DayValid(rule)
      [] rule.type = "member_tier"  -> TierValid(rule)
      [] rule.type = "min_duration" -> DurationValid(rule)
      [] rule.type = "bracket_rate" -> BracketsValid(rule)

PeakApplies(rule, slot) ==
    Day(slot) \in rule.days /\ rule.from <= Hour(slot) /\ Hour(slot) < rule.until
DayApplies(rule, slot) == Day(slot) \in rule.days
TierApplies(rule, tier) == tier = rule.tier
DurationApplies(rule, slot) == Hours(slot) >= rule.min_hours

Applies(rule, slot, tier) ==
    CASE rule.type = "peak_hours"   -> PeakApplies(rule, slot)
      [] rule.type = "day_of_week"  -> DayApplies(rule, slot)
      [] rule.type = "member_tier"  -> TierApplies(rule, tier)
      [] rule.type = "min_duration" -> DurationApplies(rule, slot)
      [] rule.type = "bracket_rate" -> TRUE

\* Each bracket takes what lies between the previous cap and its own; the
\* open one, whose cap is 0, takes the rest.
BracketTotal(brackets, hours) ==
    LET after[n \in 0..Len(brackets)] ==
          IF n = 0 THEN [left |-> hours, cap |-> 0, total |-> 0]
          ELSE LET was  == after[n-1]
                   b    == brackets[n]
                   size == IF b.max_hours = 0 THEN was.left ELSE b.max_hours - was.cap
                   take == IF size < was.left THEN size ELSE was.left
               IN  IF was.left <= 0 \/ size <= 0 THEN was
                   ELSE [left |-> was.left - take, total |-> was.total + take * b.rate,
                         cap |-> IF b.max_hours = 0 THEN was.cap ELSE b.max_hours]
    IN  after[Len(brackets)].total

Sets(rule) ==
    rule.type = "bracket_rate" \/ (rule.type = "day_of_week" /\ "flat_rate" \in DOMAIN rule)
SetTotal(rule, slot) == IF rule.type = "bracket_rate" THEN BracketTotal(rule.brackets, Hours(slot))
                        ELSE rule.flat_rate * Hours(slot)

Change(rule) == IF rule.type = "peak_hours" THEN rule.adjustment_pct ELSE -rule.discount_pct

Adjustment(rule, slot, total) ==
    IF Sets(rule)
    THEN [num |-> SetTotal(rule, slot) * total.den - total.num, den |-> total.den]
    ELSE Percent(total, Change(rule))

---------------------------------------------------------------------------
Before(p, q) == p.priority < q.priority \/ (p.priority = q.priority /\ p.id < q.id)
Rank(rule, rules) == Cardinality({other \in rules : Before(other, rule)})
InOrder(rules) ==
    [n \in 1..Cardinality(rules) |-> CHOOSE rule \in rules : Rank(rule, rules) = n - 1]

\* Fault: an exclusive rule shuts out all the rules after it.
GateShutsAll(rule, fired) == ~fired

\* Once a rule that does not stack has fired, no other such rule does.
Gate(rule, fired) == rule.stackable \/ ~fired

\* To the cent, half up, and never negative.
Rounded(total) ==
    IF total.num < 0 THEN 0 ELSE (2 * total.num + total.den) \div (2 * total.den)

Base(slot) == PricePerHour * Hours(slot)

\* The lines of a quote are pairs of a rule's id (0: the base) and an amount.
ComputeQuote(rules, slot, tier) ==
    LET ordered == InOrder(rules)
        after[n \in 0..Len(ordered)] ==
          IF n = 0 THEN [total |-> Whole(Base(slot)), lines |-> <<<<0, Whole(Base(slot))>>>>,
                         fired |-> FALSE]
          ELSE LET was  == after[n-1]
                   rule == ordered[n]
                   adj  == Adjustment(rule, slot, was.total)
               IN  IF ~rule.here \/ ~Gate(rule, was.fired) \/ ~Applies(rule, slot, tier)
                   THEN was
                   ELSE [total |-> Adjusted(was.total, adj),
                         lines |-> Append(was.lines, <<rule.id, adj>>),
                         fired |-> was.fired \/ ~rule.stackable]
        last == after[Len(ordered)]
    IN  [total |-> Rounded(last.total), lines |-> last.lines]

---------------------------------------------------------------------------
(* What a quote should be, said without a loop.                            *)

\* The rules that count: those that apply, but of the ones that do not stack
\* the first only.
Firing(rules, slot, tier) ==
    LET applying == {r \in rules : r.here /\ Applies(r, slot, tier)}
    IN  {r \in applying : r.stackable \/
            \A q \in applying : ~q.stackable /\ q # r => Before(r, q)}

\* The last of the rules that sets the total.
LastOf(setters) == CHOOSE r \in setters : \A q \in setters \ {r} : Before(q, r)

\* What is left of a whole under all the percentages of a set of rules.
Share(rules) ==
    LET of[T \in SUBSET rules] ==
          IF T = {} THEN Whole(1)
          ELSE LET r == CHOOSE r \in T : TRUE IN Percent(of[T \ {r}], 100 + Change(r))
    IN  of

\* The total that was set last, or the base, and of it the percentages that follow.
ExpectedTotal(rules, slot, tier) ==
    LET firing  == Firing(rules, slot, tier)
        setters == {r \in firing : Sets(r)}
        later   == {r \in firing : ~Sets(r) /\ (setters = {} \/ Before(LastOf(setters), r))}
        start   == IF setters = {} THEN Base(slot) ELSE SetTotal(LastOf(setters), slot)
        share   == Share({r \in rules : ~Sets(r)})[later]
    IN  Rounded([num |-> start * share.num, den |-> share.den])
================================================================================
