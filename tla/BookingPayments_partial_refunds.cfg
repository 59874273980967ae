SPECIFICATION Spec
CONSTANTS
  Bookings = {b1}
  NoBooking = NoBooking
  Intents = {i1}
  NoIntent = NoIntent
  Workers = {w1}
  Requests = {}
  StaffOps = {}
  Deposits = {2}
  Total = 3
  RefundPercents = {0, 50, 100}
  DashboardRefunds = {1}
  PatchStatuses = {}
  SessionShowsIntent = {TRUE}
  MaxEvents = 3
  b1 = b1
  i1 = i1
  w1 = w1
SYMMETRY Symmetry
INVARIANT LedgerRefundsMatch
CHECK_DEADLOCK FALSE
