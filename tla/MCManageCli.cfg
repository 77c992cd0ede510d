SPECIFICATION FairSpec
CHECK_DEADLOCK FALSE
CONSTANTS
  router = router
  gov = gov
  ops = ops
  w1 = w1
  w2 = w2
  groth = groth
  mock = mock
  s1 = s1
  s2 = s2
  None = None
  Unset = Unset
  Tombstone = Tombstone
  Named = {w1}
  Torn = Torn
  Contract = {router, w1}
  Account = {gov, ops}
  Router = router
  Selector = {s1, s2}
  Verifier = {w1, groth, mock}
  Wrapper = {w1}
  Impl = {groth, mock}
  OwnSelector <- MCOwnSelector
  Broken = {}
  Seal = {}
  Shell = {sh1, sh2}
  Timelock = gov
  Operator = ops
  Mock = {mock}
  MaxCommands = 5
INVARIANTS
  RoutableWasAdded
  
  Stoppable

  
