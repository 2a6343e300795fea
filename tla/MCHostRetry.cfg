CONSTANTS
  Procs = {a, b}
  Participants = {p1, p2}
  EpochIds = {e1, e2}
  Nonces = {n1, n2, n3}
  NoRecord = NoRecord
  Lot = 1
  Price = 1
  StartBase = 2
  StartQuote = 2
  InitialBalances <- MCInitialBalances
  Available <- MCAvailable
  MaxResults = 1
  RawTransitions = FALSE
SYMMETRY Symmetry
SPECIFICATION Spec
INVARIANTS
  RetryCanFinish
CHECK_DEADLOCK FALSE
