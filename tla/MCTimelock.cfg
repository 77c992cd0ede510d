SPECIFICATION Spec
CHECK_DEADLOCK FALSE
CONSTANTS
  a1 = a1
  a2 = a2
  first = first
  faster = faster
  promote = promote
  Self = Self
  None = None
  Account = {a1, a2}
  Op = {first, faster, promote}
  External = {first}
  SelfOp = {faster, promote}
  Pred <- MCPred
  SelfCall <- MCSelfCall
  DirectCall <- MCDirectCall
  Delay = {0, 1, 2}
  Deployment <- MCDeployment
  Genesis = 2
  MaxTime = 4
INVARIANTS
  IInv
  ExecutedAfterNotice
PROPERTIES
  ImplementsBoard
  SelfGoverned
  FrozenForever
