SPECIFICATION Spec
CONSTANTS
  a1 = a1
  a2 = a2
  i1 = i1
  i2 = i2
  n1 = n1
  n2 = n2
  ours = ours
  other = other
  zero = zero
  Self = Self
  None = None
  Address = {a1, a2}
  ImageId <- TwoImages
  ZeroImage = zero
  Issuer = {i1, i2}
  Nullifier = {n1, n2}
  Journal <- PaidJournal
  Provable <- PaidProvable
  Thresholds <- MCThresholds
  CreditAmounts <- MCAmounts
  Archivable <- NoKeys
  MaxFunded = 1
PROPERTIES
  AdminIsPermanent
