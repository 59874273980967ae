------------------------------- MODULE MCCustomer -------------------------------
\* What a customer meets outside the calendar: the one-time codes of a phone, with two
\* threads; and quotes on a week of two days of four hours, with rules of each type
\* and one, the last, that the admin's form refuses.  A run picks one of the two parts
\* and lets it move, while the other rests in one initial state.
EXTENDS TLC
CONSTANTS
  Requests, Bookings, CodeIds,
  CodeLife, VerifiedLife, MinuteLife, HourLife, MaxPerHour, MaxAttempts,
  PricePerHour, HoursPerDay, DaysPerWeek,
  Pages,               \* each asks for one booking
  Rules, PriceSlots, Tiers, NoTier, MaxEdits
VARIABLES
  part,
  codes, minute, hour, verified, checkedIn, requests,
  rules, tier, request, row, edits, moved

Codes == INSTANCE CustomerCodes
Price == INSTANCE Quotes WITH Requests <- Pages, Slots <- PriceSlots

ASSUME CodesAssumption == Codes!FlowAssumption
ASSUME PriceAssumption == Price!PricingAssumption /\ Price!QuotesAssumption

CustomerInit ==
  /\ part \in {"codes", "price"}
  /\ Codes!Init /\ Price!Init
  /\ part = "codes" => rules = {} /\ tier = NoTier

InCodes(A) ==
  part = "codes" /\ A /\ UNCHANGED <<part, rules, tier, request, row, edits, moved>>
CustomerNext ==
  \/ InCodes(Codes!Next)
  \/ /\ part = "price" /\ Price!Next
     /\ UNCHANGED <<part, codes, minute, hour, verified, checkedIn, requests>>
allVars == <<part, codes, minute, hour, verified, checkedIn, requests,
             rules, tier, request, row, edits, moved>>

\* The fairness of Codes!FairSpec.
CustomerSpec ==
  /\ CustomerInit /\ [][CustomerNext]_allVars
  /\ WF_allVars(InCodes(Codes!Tick)) /\ SF_allVars(InCodes(Codes!Ask))
  /\ \A r \in Requests : WF_allVars(InCodes(Codes!Serve(r)))

\* Only the freshest code is ever valid (models.py:724-731).
OneLiveCode == Codes!OneLiveCode
\* A customer who keeps asking gets codes again and again (do_request_code).
CodesKeepComing == part = "codes" => Codes!CodesKeepComing
\* A booking costs what its page showed (QuoteView, BookingListCreateView.create).
AgreedPrice == Price!AgreedPrice
\* The total is what the rules say taken together (compute_quote).
TotalAsExpected == Price!TotalAsExpected

Rule(id, priority, stackable, type) ==
    [id |-> id, priority |-> priority, stackable |-> stackable, here |-> TRUE, type |-> type]

MCRules == {
    Rule(1, 10, TRUE, "bracket_rate") @@
      [brackets |-> <<[max_hours |-> 2, rate |-> 40], [max_hours |-> 1, rate |-> 10],
                      [max_hours |-> 0, rate |-> 30]>>],
    Rule(2, 20, FALSE, "peak_hours") @@
      [days |-> {0}, from |-> 1, until |-> 3, adjustment_pct |-> 50],
    Rule(3, 20, FALSE, "member_tier") @@ [tier |-> "gold", discount_pct |-> 10],
    Rule(4, 30, TRUE, "min_duration") @@ [min_hours |-> 3, discount_pct |-> 20],
    Rule(5, 30, TRUE, "day_of_week") @@ [days |-> {1}, flat_rate |-> 20],
    Rule(6, 40, FALSE, "day_of_week") @@ [days |-> {0, 1}, discount_pct |-> 120],
    [Rule(7, 50, TRUE, "peak_hours") EXCEPT !.here = FALSE] @@
      [days |-> {0, 1}, from |-> 0, until |-> 4, adjustment_pct |-> 10],
    Rule(8, 60, TRUE, "min_duration") @@ [min_hours |-> 0, discount_pct |-> 20]}

MCSlots == {[start |-> 0, end |-> 2], [start |-> 1, end |-> 4], [start |-> 5, end |-> 8]}
=================================================================================
