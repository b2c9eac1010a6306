SPECIFICATION Spec
CONSTANTS
  t1 = t1
  t2 = t2
  Threads = {t1, t2}
  Headers <- TwoHeaders
  Settings <- OneSettings
  InitialSettings <- Default
  Serialized = FALSE
  InOrder = TRUE
  MaxInstalls = 2
  MaxBuilds = 2
INVARIANTS
  UniqForSameData
