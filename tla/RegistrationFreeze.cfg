SPECIFICATION Spec
CONSTANTS
  Wallets = {w1}
  Requests = {r1, r2}
  Judgings = {j1, j2}
  Names = {ana, bob}
  Lines <- MCLines
  None = None
CHECK_DEADLOCK FALSE
PROPERTY TeamsFrozen
