CONSTANTS
  x = x  y = y  z = z  w = w  e1 = e1  e2 = e2
  Keypers = {k1, k2, k3}
  Procs = {p1}
  Epochs = {e1}
  Packages = {x, y, w}
  EpochOf <- MCEpochOf
  Expiry <- MCExpiry
  Distinct = {x, y}
  Opens = {x}
  Members = {1}
  SettlementNonces = {n1, n2}
  None = None
  Missing = Missing
  LockDeadline = 1
  AbortDeadline = 2
  MaxTime = 3
  MaxLosses = 1
SYMMETRY Symmetry
SPECIFICATION Spec
INVARIANTS
  TypeOK
  OneQuorumPerEpoch
  SharesOnlyForLocked
  SettlementsFollowReveal
CHECK_DEADLOCK FALSE
