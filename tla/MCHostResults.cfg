CONSTANTS
  Procs = {a, b}
  Participants = {p1, p2}
  EpochIds = {e1}
  Nonces = {n1, n2}
  NoRecord = NoRecord
  Lot = 1
  Price = 1
  StartBase = 2
  StartQuote = 2
  InitialBalances <- MCInitialBalances
  Available <- MCAvailable
  MaxResults = 2
  RawTransitions = FALSE
SYMMETRY Symmetry
SPECIFICATION Spec
INVARIANTS
  UsedMeansCommitted
PROPERTIES
  CommitIsFinal
CHECK_DEADLOCK FALSE
