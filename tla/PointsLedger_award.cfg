SPECIFICATION FairSpec
CONSTANTS
  Customers = {c1}
  NoCustomer = NoCustomer
  Requests = {r1, r2}
  NoRequest = NoRequest
  Backfills = {2}
  Earnings = {2}
  Costs = {2}
  Corrections = {1}
  Thresholds = {2, 4}
  Readers = {"page", "audit"}
  MaxClock = 1
  c1 = c1
  r1 = r1
  r2 = r2
INVARIANTS
  RunningBalance
  ReadersAreSound
PROPERTIES
  ImplementsAccount
  RequestsEnd
CHECK_DEADLOCK FALSE
