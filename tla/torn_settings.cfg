SPECIFICATION Spec
CONSTANTS
  t1 = t1
  t2 = t2
  Threads = {t1}
  Headers <- TwoHeaders
  Settings <- BeforeAndAfterRefresh
  InitialSettings <- Default
  Serialized = FALSE
  InOrder = TRUE
  MaxInstalls = 1
  MaxBuilds = 2
INVARIANTS
  ExpiresInInterval
