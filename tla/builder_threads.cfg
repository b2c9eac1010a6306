SPECIFICATION Spec
CONSTANTS
  t1 = t1
  t2 = t2
  Threads = {t1, t2}
  Headers <- TwoHeaders
  Settings <- BeforeAndAfterRefresh
  InitialSettings <- Default
  Serialized = FALSE
  InOrder = FALSE
  MaxInstalls = 2
  MaxBuilds = 2
INVARIANTS
  TypeOK
  DrawsUnique
  QuietIsSnapshot
  SameDataDiffers
  AliveForHalfPeriod
PROPERTIES
  IssuesInOrder
CONSTRAINT FewUpdates
SYMMETRY AnyThread
