SPECIFICATION Spec
CONSTANTS
  Bookings = {b1}
  NoBooking = NoBooking
  Workers = {w1, w2}
  Edits = {"cancelled", "completed"}
  MaxMishaps = 2
  b1 = b1
  w1 = w1
  w2 = w2
SYMMETRY Symmetry
INVARIANTS
  VisitsAreBookings
  CreditedOnce
  CompletedIsCredited
PROPERTY CompletesOnlyCheckedIn
CHECK_DEADLOCK FALSE
