SPECIFICATION Spec
CONSTANTS
  Bookings = {b1}
  NoBooking = NoBooking
  Requests = {r1, r2}
  Horizon = 4
  Lengths = {2}
  Edits = {"cancelled"}
  b1 = b1
  r1 = r1
  r2 = r2
INVARIANT DurationCapped
CHECK_DEADLOCK FALSE
