SPECIFICATION Spec
CONSTANTS
  Bookings = {b1}
  NoBooking = NoBooking
  Intents = {i1, i2}
  NoIntent = NoIntent
  Workers = {w1, w2}
  Requests = {r1, r2}
  StaffOps = {"cancel", "balance", "patch"}
  Deposits = {2}
  Total = 3
  RefundPercents = {50}
  DashboardRefunds = {}
  PatchStatuses = {"confirmed"}
  SessionShowsIntent = {TRUE, FALSE}
  MaxEvents = 2
  b1 = b1
  i1 = i1
  i2 = i2
  r1 = r1
  r2 = r2
  w1 = w1
  w2 = w2
SYMMETRY Symmetry
ACTION_CONSTRAINT TakingTurns
INVARIANTS
  SettledRowsAreCaptured
  CapturedDepositIsOnLedger
  ProcessedMeansApplied
  RefundsFollowCapture
  PaidOnlyIfCaptured
CHECK_DEADLOCK FALSE
