SPECIFICATION SystemSpec
CHECK_DEADLOCK FALSE
CONSTANTS
  router = router
  w1 = w1
  broken = broken
  s2 = s2
  gov = gov
  a1 = a1
  k1 = k1
  k2 = k2
  ours = ours
  other = other
  None = None
  Unset = Unset
  Tombstone = Tombstone
  Self = Self
  Contract = {router, w1}
  Account = {gov}
  Router = router
  Selector = {s2}
  Verifier = {w1, broken}
  Wrapper = {w1}
  Impl = {broken}
  OwnSelector <- MCSelectorOf
  Broken = {broken}
  Seal <- MCSeal
  Word = 8
  Address = {a1}
  ImageId = {ours, other}
  ZeroImage = other
  Thresholds = {2}
  CreditAmounts = {1}
  MaxFunded = 2
  Ours = ours
  Pubkey = {k1, k2}
  Doc <- MCDoc
  Signed <- MCSigned
  Limits = {2}
  Foreign <- MCForeign
  MaxProofs = 2
INVARIANTS
  PaymentsFounded
  OnePaymentPerIdentity
PROPERTIES
  ForgeryEndsWithStop
  ImplementsLender
