SPECIFICATION Spec
CHECK_DEADLOCK FALSE
CONSTANTS
  router = router
  gov = gov
  ops = ops
  w1 = w1
  w2 = w2
  groth = groth
  mock = mock
  s1 = s1
  s2 = s2
  None = None
  Unset = Unset
  Tombstone = Tombstone
  Named = {w1, w2}
  Torn = Torn
  Contract = {router, w1, w2}
  Account = {gov, ops}
  Router = router
  Selector = {s1}
  Verifier = {w1, w2, groth}
  Wrapper = {w1, w2}
  Impl = {groth}
  OwnSelector <- MCOwnSelector
  Broken = {}
  Seal = {}
  Shell = {sh1}
  Timelock = gov
  Operator = ops
  Mock = {}
  MaxCommands = 5
PROPERTIES
  StopsTheSelector
