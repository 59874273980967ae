SPECIFICATION Spec
CONSTANTS
  Requests = {r1, r2}
  Stores = {"A", "B"}
  FirstStore = "A"
  NoStore = "no store"
  Nobody = "nobody"
  Customers = {"ann at A", "ann at B"}
  Home <- MCHome
  Lifetime = 2
PROPERTY SignInSticks
CHECK_DEADLOCK FALSE
