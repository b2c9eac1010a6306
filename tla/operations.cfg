SPECIFICATION Spec
CONSTANTS
  Fees <- AllFees
  Values <- FieldValues
  DataFeeLimit = 150
INVARIANTS
  NodeHashesWhatWasSigned
  OneReading
  FeeCoversSize
