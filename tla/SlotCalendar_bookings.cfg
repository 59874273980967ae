SPECIFICATION FairSpec
CONSTANTS
  Bookings = {b1, b2}
  NoBooking = NoBooking
  Requests = {r1, r2}
  Horizon = 3
  Lengths = {1, 2}
  Edits = {"cancelled"}
  b1 = b1
  b2 = b2
  r1 = r1
  r2 = r2
INVARIANTS
  QuotedForItsSlot
  ChannelsAgree
PROPERTIES
  ImplementsCalendar
  HoldsEnd
CHECK_DEADLOCK FALSE
