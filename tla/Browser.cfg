SPECIFICATION Spec
CONSTANTS
  Wallets = {w1, w2}
  Nonces = {n1}
  Ttl = 1
  MaxTime = 1
  Browsers = {b1}
  Accounts = {a1, a2}
  States = {s1, s2}
  Calls = {c1, c2}
  Payouts = {pa, pb, pc}
  WalletOf <- EarnedBy
  EventOf <- EarnedAt
  Amount <- Tenths
  Offered = {pa}
  OfferedTo <- OfferedWallet
  Users = {u1, u2}
  Logins = {l1, l2, l3}
  MaxQueue = 2
  MaxVersion = 1
  Fetches <- SomeFetches
  Requests = {r1, r2}
  None = None
  w1 = w1
  w2 = w2
  u1 = u1
  u2 = u2
  l1 = l1
  l2 = l2
  pa = pa
  pb = pb
  pc = pc
INVARIANTS
  TypeOK
  NonceSingleUse
  ShownMatchesSession
  LinkFollowsStart
  OneLinkEach
  RowsAreScoped
  SummaryIsExact
PROPERTIES
  ReducedIsHonoured
  NavigationIsFresh
  StaleCopiesDrain
CHECK_DEADLOCK FALSE
