SPECIFICATION Spec
CHECK_DEADLOCK FALSE
CONSTANTS
  Byte = {0, 1, 2, 3}
  Half = 2
  Sha <- MCSha
  Fr <- MCFr
  TAG_OUTPUT <- MCTagOutput
  TAG_CLAIM <- MCTagClaim
  TAG_VERSION <- MCTagVersion
  HALTED <- MCHalted
  SelectorSize = 1
  None = None
  Image <- MCImage
  Journal <- MCJournal
  Execution <- MCExecution
  Version <- MCVersion
  MockSelector <- MCMockSelector
  Label <- MCLabel
  MaxSeals = 3
INVARIANTS
  AcceptedMeansProven
  ProvenIsAccepted
  SealSaysOneThing
