SPECIFICATION ConfiguredSpec
CONSTANTS
  o1 = o1
  o2 = o2
  j1 = j1
  r1 = r1
  g1 = g1
  w1 = w1
  self = self
  Address <- MCAddress
  Self = self
  Organizers = {o1}
  Governors = {}
  Resolvers = {r1}
  Treasuries = {g1}
  Tokens = {usdc, eurc}
  None = None
  BPS = 2
  MAX_FEE_BPS = 1
  DEFAULT_FEE_BPS = 1
  FeeRates = {}
  Judges = {j1}
  EventIds = {e1, e2}
  CallAmounts = {0, 1, 2}
  PaymentLists <- SelfLists
  MAX_U32 = 3
  MAX_WINNERS = 2
  Supply = 3
  MaxTime = 1
INVARIANTS
  TypeOK
  Solvency
  RefundsMatchWallet
  LiveEventHasExit
CHECK_DEADLOCK FALSE
PROPERTIES
  LiveFundsLocked
  FinishedStaysFinished
  KeepsPromise
