SPECIFICATION Spec
CONSTANTS
  TotalShareBasisPoints = 5
  MaxWinners = 3
  IntSpan = 64
  PrizeAmounts = {7, 20}
  Shares = {0, 1, 2, 4}
  Ordinals = {0, 1, 2}
  Inputs <- AllInputs
CHECK_DEADLOCK FALSE
INVARIANT FloorRule
