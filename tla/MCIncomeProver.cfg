SPECIFICATION Spec
CONSTANTS
  k1 = k1
  k2 = k2
  None = None
  Key = {k1, k2}
  Doc <- MCDoc
  Signed <- MCSigned
  Thresholds <- MCLimits
  Word <- MCWord
  MaxRuns = 2
INVARIANTS
  IInv
  MeetsSound
  MeetsComplete
  NullifierNamesIdentity
  ClaimsAttested
CHECK_DEADLOCK FALSE
