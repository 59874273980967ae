SPECIFICATION Spec
CONSTANTS
  Bookings = {b1}
  NoBooking = NoBooking
  Intents = {i1}
  NoIntent = NoIntent
  Workers = {w1}
  Requests = {}
  StaffOps = {}
  Deposits = {2}
  Total = 3
  RefundPercents = {0, 50, 100}
  DashboardRefunds = {}
  PatchStatuses = {}
  SessionShowsIntent = {TRUE}
  MaxEvents = 1
  b1 = b1
  i1 = i1
  w1 = w1
SYMMETRY Symmetry
PROPERTY SweepSparesPaid
CHECK_DEADLOCK FALSE
