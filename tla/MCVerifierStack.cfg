SPECIFICATION Spec
CHECK_DEADLOCK FALSE
CONSTANTS
  router = router
  w1 = w1
  sound = sound
  broken = broken
  s1 = s1
  s2 = s2
  gov = gov
  guard = guard
  None = None
  Unset = Unset
  Tombstone = Tombstone
  Contract = {router, w1}
  Account = {gov, guard}
  Router = router
  Selector = {s1, s2}
  Verifier = {w1, sound, broken}
  Wrapper = {w1}
  Impl = {sound, broken}
  OwnSelector <- MCSelectorOf
  Broken = {broken}
  Seal <- MCSeal
INVARIANTS
  IInv
PROPERTIES
  StopIsFinal
  HealthyStoppedByGuardian
  RenouncedForever
  ImplementsPromise
