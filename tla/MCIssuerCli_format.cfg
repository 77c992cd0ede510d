SPECIFICATION Spec
CHECK_DEADLOCK FALSE
CONSTANTS
  p1 = p1
  p2 = p2
  k1 = k1
  k2 = k2
  alice = alice
  bob = bob
  Bad = Bad
  Torn = Torn
  None = None
  Proc = {p1, p2}
  Key = {k1, k2}
  Request <- MCRequest
  MaxCommands = 2
INVARIANTS
  SignedStatementsParse
