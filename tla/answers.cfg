SPECIFICATION AnswersSpec
CONSTANTS
  Operations <- MCOperations
  Priced <- MCPriced
  DefaultFee <- MCDefaultFee
  DefaultExp = 60
  DefaultOff = 10
  FullScale = 10
  Word = 256
  Parameters <- MCParameters
  OwnChoices = {"core", "other"}
  DefaultChoice = "core"
  MaxAnswers = 1
  ByteWord = 4
  Decimals = 2
  Keys = {1, 2}
  Prices = {0, 3}
  Instances <- MCInstances
  Amounts <- MCAmounts
  Versions = {0, 5, 16, 80, 255}
  MaxEntries = 2
INVARIANTS
  ChargesOneAnswer
  MeetsRequirement
  ListsAreWhole
  AmountsAreOfOneAsset
  FeeReadBack
  TextsReadBack
CHECK_DEADLOCK FALSE
