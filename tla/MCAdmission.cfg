CONSTANTS
  Participants = {m1, m2}
  TradingKeys = {t1, t2}
  Registries = {a, b}
  Nonces = {n1, n2}
  r1 = r1  r2 = r2
  EpochIds = {e1, e2}
  Epoch = e1
  Receipts = {r1, r2}
  ZeroReceipt = zero
  Envelopes <- MCEnvelopes
  Expiries = {0, 1}
  Minimum = 1
  MaxBatchMembers = 2
  MaxSlot = 1
  MaxSubmissions = 3
  NoBatch = NoBatch
  NoIssue = NoIssue
SYMMETRY Symmetry
SPECIFICATION Spec
INVARIANTS
  TypeOK
  AdmittedBatchLocks
  AdmissionMonotone
  OneAuthorizationPerNonce
  SuspendedAnswersTrue
PROPERTIES
  SuspensionHolds
CHECK_DEADLOCK FALSE
