----------------------------- MODULE DepositPolicy -----------------------------
\* The deposit and refund policy of a store and what it takes and gives back:
\* billing/helpers.py, StripeSettingsUpdateView, and calc_deposit and
\* calc_refund_amount as a booking and its cancellation call them.  Money is in cents, a
\* deposit_value in hundredths: cents when it is fixed, of a percent otherwise.
EXTENDS Integers, SequencesExt
CONSTANTS
  Totals,     \* Booking.total_amount
  Values,     \* values a PATCH may name
  Overrides,  \* Resource.deposit_override_mode and _value; mode "": null
  Matrices,   \* refund matrices, rows in the order they are given
  Leads,      \* whole hours left before a booking
  Requests,   \* PATCH requests at one moment
  Bookings

VARIABLES
  store,     \* the policy columns of Store: mode, value, matrix
  override,  \* the columns of the booked resource
  request,   \* the columns each PATCH is about to save
  booking    \* each booking's total and deposit
vars == <<store, override, request, booking>>

Modes == {"none", "percentage", "fixed"}

PolicyAssumption ==
  /\ Totals \subseteq Nat /\ Values \subseteq Int /\ Leads \subseteq Int
  /\ Overrides \subseteq [mode : Modes \union {""}, value : Int]
  /\ Matrices \subseteq Seq([min_hours : Int, refund_pct : Int])

Hundred == 10000
Nothing == <<>>
Row(hours, pct) == [min_hours |-> hours, refund_pct |-> pct]
DefaultMatrix == <<Row(48, 100), Row(24, 50), Row(0, 0)>>

Init ==
  /\ store = [mode |-> "none", value |-> 0, matrix |-> DefaultMatrix]
  /\ override \in Overrides
  /\ request = [r \in Requests |-> Nothing]
  /\ booking = [b \in Bookings |-> Nothing]

------------------------------------------------------------------------------
HalfUp(n, d) == (2 * n + d) \div (2 * d)
Policy == IF override.mode = "" THEN store ELSE override

Within(value, most) == Max({0, Min({value, most})})

\* Fault: the percentage is not capped.
Uncapped(total) ==
  CASE Policy.mode = "none"       -> 0
    [] Policy.mode = "percentage" -> HalfUp(total * Max({0, Policy.value}), Hundred)
    [] Policy.mode = "fixed"      -> Within(Policy.value, total)

CalcDeposit(total) ==
  CASE Policy.mode = "none"       -> 0
    [] Policy.mode = "percentage" -> HalfUp(total * Within(Policy.value, Hundred), Hundred)
    [] Policy.mode = "fixed"      -> Within(Policy.value, total)

\* find_refund_pct: of the rows that `lead` meets, the first of those with most hours.
RefundPct(lead) ==
  LET row  == store.matrix
      met  == {k \in DOMAIN row : lead >= row[k].min_hours}
      most == {k \in met : \A other \in met : row[other].min_hours <= row[k].min_hours}
  IN  IF met = {} THEN 0 ELSE row[Min(most)].refund_pct

\* calc_refund_amount, whenever a booking is cancelled.
CalcRefund(deposit, lead) == HalfUp(deposit * RefundPct(lead), 100)

------------------------------------------------------------------------------
\* validate_refund_matrix: rows in any order, and more than one for the same notice.
ValidMatrix(matrix) ==
  \A row \in Range(matrix) : row.min_hours >= 0 /\ row.refund_pct \in 0..100

\* StripeSettingsUpdateView: the columns given are checked against the row as it was
\* read; a percentage is checked only when a value comes with it.
StartPatch(r) ==
  /\ request[r] = Nothing
  /\ \E mode \in Modes, value \in Values, matrix \in Matrices,
        given \in SUBSET {"mode", "value", "matrix"} :
       LET read == IF "mode" \in given THEN mode ELSE store.mode
           all  == [mode |-> mode, value |-> value, matrix |-> matrix]
       IN  /\ "value" \in given => value >= 0 /\ (read = "percentage" => value <= Hundred)
           /\ "matrix" \in given => ValidMatrix(matrix)
           /\ request' = [request EXCEPT ![r] = [field \in given |-> all[field]]]
  /\ UNCHANGED <<store, override, booking>>

\* Only those columns are saved.
SavePatch(r) ==
  /\ request[r] # Nothing
  /\ store' = [field \in DOMAIN store |->
                IF field \in DOMAIN request[r] THEN request[r][field] ELSE store[field]]
  /\ request' = [request EXCEPT ![r] = Nothing]
  /\ UNCHANGED <<override, booking>>

Book(b) ==
  /\ booking[b] = Nothing
  /\ \E total \in Totals :
       booking' = [booking EXCEPT ![b] = [total |-> total, deposit |-> CalcDeposit(total)]]
  /\ UNCHANGED <<store, override, request>>

Next ==
  \/ \E r \in Requests : StartPatch(r) \/ SavePatch(r)
  \/ \E b \in Bookings : Book(b)
Spec == Init /\ [][Next]_vars

------------------------------------------------------------------------------
GrowsWithNotice(matrix) == \A row, other \in Range(matrix) :
  row.min_hours < other.min_hours => row.refund_pct <= other.refund_pct

\* Whatever the order in which the policy was changed, a mode without its value or by two
\* requests at once, a deposit lies within the total of its booking and what a
\* cancellation gives back within the deposit; and under a matrix that gives more for
\* longer notice, in whatever order it lists its rows, longer notice never gives back less.
DepositsAreCovered ==
  \A b \in {b \in Bookings : booking[b] # Nothing} :
    LET deposit == booking[b].deposit
    IN  /\ 0 <= deposit /\ deposit <= booking[b].total
        /\ \A short, long \in Leads :
             /\ CalcRefund(deposit, long) <= deposit
             /\ short <= long /\ GrowsWithNotice(store.matrix)
                  => CalcRefund(deposit, short) <= CalcRefund(deposit, long)
=============================================================================
