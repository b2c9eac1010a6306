SPECIFICATION Spec
CONSTANTS
  c1 = c1
  c2 = c2
  a = a
  b = b
  Callers = {c1, c2}
  Tables = {a, b}
  Chosen <- ChosenIdentifiers
  PseudoRandom <- Scrambled
  UIntMax = 7
  IntMax = 3
  Serialized = TRUE
  MaxCalls = 2
  MaxClock = 2
  MaxNotices = 1
INVARIANTS
  DrawnOnce
  NoCrossTalk
