SPECIFICATION Spec
CONSTANTS
  t1 = t1
  t2 = t2
  Threads = {t1, t2}
  Headers <- FourHeaders
  Settings <- AllSettings
  InitialSettings <- Default
  Serialized = TRUE
  InOrder = TRUE
  MaxInstalls = 3
  MaxBuilds = 2
INVARIANTS
  AliveForHalfPeriod
  NoTornReference
  UniqForSameData
PROPERTIES
  IssuesSnapshots
