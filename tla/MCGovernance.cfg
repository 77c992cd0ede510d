SPECIFICATION GovernanceSpec
CHECK_DEADLOCK FALSE
CONSTANTS
  a1 = a1
  a2 = a2
  swap = swap
  rival = rival
  leave = leave
  faster = faster
  router = router
  s1 = s1
  s2 = s2
  v1 = v1
  v2 = v2
  Self = Self
  None = None
  Unset = Unset
  Tombstone = Tombstone
  Account = {a1, a2}
  Op = {swap, rival, leave, faster}
  External = {swap, rival, leave}
  SelfOp = {faster}
  Pred <- MCPred
  SelfCall <- MCSelfCall
  DirectCall <- MCDirectCall
  Delay = {0, 1}
  Deployment <- MCDeployment
  Genesis = 2
  MaxTime = 4
  Router = router
  Selector = {s1, s2}
  Verifier = {v1, v2}
  Calls <- MCCalls
  AccountCall <- MCAccountCall
INVARIANTS
  DoneMeansApplied
PROPERTIES
  RouterGoverned
  RouterFrozenToo
  ImplementsTimelock
