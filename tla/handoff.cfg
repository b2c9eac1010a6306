SPECIFICATION Spec
CONSTANTS
  Parties <- AliceAndBob
  Transactions <- TwoTransactions
  Signatures <- AliceTwice
  WalletBuilders <- Bob
  MaxInFlight = 2
INVARIANT OneTextPerApproval
PROPERTY KeepsApprovals
