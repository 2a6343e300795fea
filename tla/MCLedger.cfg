CONSTANTS
  Participants = {m1, m2, m3}
  Amounts <- MCAmounts
  Limits = {1, 2, 3}
  Lot = 1
  Price = 2
  U64Max = 4
  MaxOrders = 3
  NotRun = NotRun
SYMMETRY Symmetry
SPECIFICATION Spec
INVARIANTS
  TypeOK
  NettingExact
  OrderIndependent
  ResidualCoversGains
  ConservationNeverRefuses
CHECK_DEADLOCK FALSE
