SPECIFICATION Spec
CONSTANTS
  Bookings = {b1}
  NoBooking = NoBooking
  Workers = {w1, w2}
  Edits = {"cancelled", "completed"}
  MaxMishaps = 0
  b1 = b1
  w1 = w1
  w2 = w2
INVARIANT NeverCreditedTwice
CHECK_DEADLOCK FALSE
