SPECIFICATION Spec
CONSTANTS
  c1 = c1
  c2 = c2
  a = a
  b = b
  Callers = {c1, c2}
  Tables = {a, b}
  Chosen = {}
  PseudoRandom <- Scrambled
  UIntMax = 1000
  IntMax = 500
  Serialized = FALSE
  MaxCalls = 2
  MaxClock = 2
  MaxNotices = 1
INVARIANTS
  UniqIdentifier

