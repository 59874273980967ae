SPECIFICATION Spec
CONSTANTS
  Bookings = {b1}
  NoBooking = NoBooking
  Intents = {i1, i2, i3}
  NoIntent = NoIntent
  Workers = {w1}
  Requests = {r1, r2}
  StaffOps = {"balance"}
  Deposits = {2}
  Total = 3
  RefundPercents = {0, 50, 100}
  DashboardRefunds = {}
  PatchStatuses = {}
  SessionShowsIntent = {TRUE}
  MaxEvents = 3
  b1 = b1
  i1 = i1
  i2 = i2
  i3 = i3
  w1 = w1
  r1 = r1
  r2 = r2
SYMMETRY Symmetry
INVARIANT NeverOvercharged
CHECK_DEADLOCK FALSE
