SPECIFICATION Spec
CONSTANTS
  Base = 2
  Decimals = 2
  WholeMax = 0
  IntMax = 3
  JsSafe = 2
  MaxRows = 3
  Typeable <- AmountTexts
  Ops = {o1, o2}
  DepositAmounts = {2, 3}
  MaxDeposit = 2
  Required = 2
  StartBalance = 1
  Builds = {b1, b2}
  WrongSum = {b1}
  Entrants = {w1}
  Judgings = {j1, j2}
  Names = {ana, bob}
  Lines <- LineKinds
  Wallets = {w1}
  Choices = {c1, c2}
  Members <- Teammates
  Invalid = {}
  Releases = {e1}
  MaxSeq = 2
  PrizeCounts = {2, 7}
  MaxTeams = 7
  MaxReward = 1
  Linkers = {1}
  MaxBuilds = 3
  Requests = {r1, r2}
  None = None
  w1 = w1
  c1 = c1
  c2 = c2
CONSTRAINT Searching
INVARIANTS
  TypeOK
  PrizesAddUp
  SucceededIsCredited
  CreditedOnce
  Decodes
  CapacityIsExact
  ReservedAsShown
  ConfirmedIsRecorded
  OneTeamPerWallet
  RegisteredCouldReceive
  BuiltMatchesSelection
  ReleasedWasPaid
  PaidClaimsHold
  AnswersAreIncluded
CHECK_DEADLOCK FALSE
