SPECIFICATION Spec
CONSTANTS
  TotalShareBasisPoints = 5
  MaxWinners = 3
  IntSpan = 1024
  PrizeAmounts = {0, 1, 7, 13}
  Shares = {0, 1, 2, 4}
  Ordinals = {0, 1, 2}
  Inputs <- AllInputs
CHECK_DEADLOCK FALSE
INVARIANTS
  PaysInFull
  SharesAreFair
