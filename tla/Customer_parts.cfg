\* Two threads; lifetimes of one to three ticks, two codes an hour, two attempts a code.
\* One page, and two changes of the rules, the tier or the booking.
SPECIFICATION CustomerSpec
CONSTANTS
  Requests = {r1, r2}
  Bookings = {b1}
  CodeIds = {1, 2, 3}
  CodeLife = 2
  VerifiedLife = 1
  MinuteLife = 1
  HourLife = 3
  MaxPerHour = 2
  MaxAttempts = 2
  PricePerHour = 15
  HoursPerDay = 4
  DaysPerWeek = 2
  Pages = {p1}
  Rules <- MCRules
  PriceSlots <- MCSlots
  Tiers = {"gold"}
  NoTier = "none"
  MaxEdits = 2
INVARIANTS
  OneLiveCode
  AgreedPrice
  TotalAsExpected
PROPERTY CodesKeepComing
CHECK_DEADLOCK FALSE
