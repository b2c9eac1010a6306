SPECIFICATION LifeSpec
CONSTANTS
  FirstBlock = 3
  Word = 5
  Interval = 3
  Exp = 9
  Off = 3
  Skips = {1, 2}
  MaxMade = 7
  MaxTime = 31
  MaxDraws = 2
  KeySize = 3
  NoiseSize = 2
  Keys <- MCKeys
  Noises <- MCNoises
  MaxTries = 3
  Rests <- TwoRests
  Curves <- MCCurves
  MaxSignings = 2
INVARIANTS
  ReferenceTypeOK
  ValidUntilItExpires
  ReferenceMeansItsBlock
  SignedByItsUser
  OneTextPerDigest
PROPERTIES
  SigningEnds
  EndsAcceptedOrExpired
CHECK_DEADLOCK FALSE
