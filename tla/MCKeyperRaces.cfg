CONSTANTS
  x = x  y = y  z = z  w = w  e1 = e1  e2 = e2
  Keypers = {k1}
  Procs = {p1, p2}
  Epochs = {e1, e2}
  Packages = {x, y, z}
  EpochOf <- MCEpochOf
  Expiry <- MCExpiry
  Distinct = {x, y, z}
  Opens = {x}
  Members = {1}
  SettlementNonces = {n1}
  None = None
  Missing = Missing
  LockDeadline = 1
  AbortDeadline = 2
  MaxTime = 3
  MaxLosses = 1
SYMMETRY Symmetry
SPECIFICATION Spec
INVARIANTS
  OneLockPerKeyper
PROPERTIES
  JournalKeepsRecords
CHECK_DEADLOCK FALSE
