SPECIFICATION Spec
CONSTANTS
  Requests = {r1, r2}
  EscrowIds = {i1, i2}
  Winners = {w1, w2}
  MaxSeq = 2
  None = None
SYMMETRY Symmetry
CHECK_DEADLOCK FALSE
INVARIANT FailedReleaseNotPaid
