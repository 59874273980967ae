\* Two minutes of a door are four ticks; money is in cents.
SPECIFICATION PartsSpec
CONSTANTS
  Customers = {c1, c2, c3}
  NoCustomer = none
  Requests = {r1, r2, r3}
  Pair = {r1, r2}
  Tags = {"vip", "sms_opt_out"}
  TagsInclude = {"vip"}
  RecipientCap = 2
  Impl = "forced"
  MaxRetags = 2
  MayDie = TRUE
  Cron = cron
  Staff = {s1}
  Minute = 2
  Rotations = {2, 4, 6}
  Grace = 2
  MaxKeys = 3
  MaxPosition = 2
  MaxEvents = 3
  Totals = {1, 999}
  Values = {3350, 15000}
  Overrides <- MCOverrides
  Matrices <- MCMatrices
  Leads = {0, 23, 24, 48}
  Bookings = {b1}
  Never = never
  MaxVisits = 5
  MaxMissed = 1
  Days <- MCDays
  Starts <- MCStarts
  Visitors <- MCVisitors
  Stores = {"A", "B"}
  FirstStore = "A"
  NoStore = "no store"
  Nobody = "nobody"
  Lifetime = 2
INVARIANTS
  SentOnce
  OptOutSkipped
  FlagIsOfTheAccount
  DepositsAreCovered
PROPERTIES
  DoorStaysOpen
  MoveLands
  ConcernGrows
  ServedAtHome
CHECK_DEADLOCK FALSE
SYMMETRY Sym
