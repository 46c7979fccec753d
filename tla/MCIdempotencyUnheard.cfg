SPECIFICATION Spec
CONSTANTS
  r1 = r1
  r2 = r2
  r3 = r3
  r4 = r4
  Requests = {r1, r2, r3, r4}
  Bodies = {"same", "other"}
  BodyOf <- OneStranger
  NoRequest = NoRequest
  MaxExpiries = 0
  MaxUnheard = 1
CHECK_DEADLOCK FALSE
INVARIANTS
  AtMostOncePerWindow
