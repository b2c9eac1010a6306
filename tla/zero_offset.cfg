SPECIFICATION Spec
CONSTANTS
  t1 = t1
  t2 = t2
  Threads = {t1}
  Headers <- TwoHeaders
  Settings <- TwoPeriods
  InitialSettings <- Default
  Serialized = TRUE
  InOrder = TRUE
  MaxInstalls = 2
  MaxBuilds = 1
INVARIANTS
  RequiredIsEnough
