SPECIFICATION Spec
CONSTANTS
  Customers = {c1, c2}
  NoCustomer = NoCustomer
  Requests = {r1, r2, r3}
  Tags = {"vip", "sms_opt_out"}
  TagsInclude = {"vip"}
  RecipientCap = 2
  Impl = "outbound"
  MaxRetags = 2
  MayDie = FALSE
  c1 = c1
  c2 = c2
  r1 = r1
  r2 = r2
  r3 = r3
INVARIANTS
  SendingHasARequest
CHECK_DEADLOCK FALSE
