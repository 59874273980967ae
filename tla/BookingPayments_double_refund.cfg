SPECIFICATION Spec
CONSTANTS
  Bookings = {b1}
  NoBooking = NoBooking
  Intents = {i1}
  NoIntent = NoIntent
  Workers = {w1}
  Requests = {r1, r2}
  StaffOps = {"cancel"}
  Deposits = {2}
  Total = 3
  RefundPercents = {50}
  DashboardRefunds = {}
  PatchStatuses = {}
  SessionShowsIntent = {TRUE}
  MaxEvents = 3
  b1 = b1
  i1 = i1
  w1 = w1
  r1 = r1
  r2 = r2
SYMMETRY Symmetry
INVARIANT RefundWithinMatrix
CHECK_DEADLOCK FALSE
