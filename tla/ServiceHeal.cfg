SPECIFICATION FairSpec
CONSTANTS
  Requests = {r1}
  EscrowIds = {i1}
  Winners = {w1}
  MaxSeq = 2
  None = None
CHECK_DEADLOCK FALSE
PROPERTY PaidIsMirrored
