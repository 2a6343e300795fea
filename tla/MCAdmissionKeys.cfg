CONSTANTS
  Participants = {m1, m2}
  TradingKeys = {t1, t2}
  Registries = {a}
  Nonces = {n1, n2}
  r1 = r1
  r2 = r2
  EpochIds = {e1}
  Epoch = e1
  Receipts = {r1, r2}
  ZeroReceipt = zero
  Envelopes <- MCEnvelopes
  Expiries = {1}
  Minimum = 2
  MaxBatchMembers = 2
  MaxSlot = 1
  MaxSubmissions = 2
  NoBatch = NoBatch
  NoIssue = NoIssue
SPECIFICATION Spec
INVARIANTS
  DuplicatesRejected
CHECK_DEADLOCK FALSE
