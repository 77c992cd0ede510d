SPECIFICATION MCSpec
CONSTANTS
  a1 = a1
  a2 = a2
  i1 = i1
  i2 = i2
  n1 = n1
  n2 = n2
  ours = ours
  other = other
  zero = zero
  Self = Self
  None = None
  Address = {a1, a2}
  ImageId <- TwoImages
  ZeroImage = zero
  Issuer = {i1, i2}
  Nullifier = {n1, n2}
  Journal <- MCJournal
  Provable <- MCProvable
  Thresholds <- MCThresholds
  CreditAmounts <- MCAmounts
  Archivable <- SomeKeys
  MaxFunded = 3
INVARIANTS
  IInv
  Conservation
  CreditLinesBacked
  GrantsSound
  ProposalStands
PROPERTIES
  AuthorityRespected
  ImplementsPromise
