SPECIFICATION FairSpec
CONSTANTS
  Bookings = {b1}
  Requests = {r1}
  Workers = {w1, w2}
  MaxMessages = 2
  MaxSaves = 2
  Channels = {"sms"}
  DayLength = 2
  QuietStarts = {1}
  QuietEnds = {0}
  ReminderTimes = {1}
  Edits = {"cancelled", "completed"}
  BatchSize = 1
  LastSave = 1
  End = 2
  MaxCrashes = 1
  b1 = b1
  r1 = r1
  w1 = w1
  w2 = w2
INVARIANTS
  DeliveredOnce
  OptOutRespected
  FirstAllowedTime
PROPERTIES
  MessagesSettle
CHECK_DEADLOCK FALSE
