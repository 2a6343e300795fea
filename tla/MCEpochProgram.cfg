CONSTANTS
  k1 = k1  k2 = k2  k3 = k3  none = none  zero = zero  r1 = r1  n1 = n1  n2 = n2  c1 = c1
  EpochIds = {e1, e2}
  Keys <- MCKeys
  SignerSets <- MCSignerSets
  DefaultKey = none
  Zero = zero
  Roots <- MCRoots
  Nonces <- MCNonces
  Commitments <- MCCommitments
  Counts = {3, 4}
  Sides = {0, 1, 2, 3}
  Lots = {0, 1, 2}
  PoolArgs <- MCPoolArgs
  EpochArgs <- MCEpochArgs
  Deposits <- MCDeposits
  VenueFunds <- MCVenueFunds
  MaxDeposited = 6
  MaxTime = 4
  U64Max = 5
SPECIFICATION FairSpec
INVARIANTS
  TypeOK
  AccountsStayValid
  DigestsBindRecord
  TokenConservation
  VaultsHoldResiduals
  DeadlinesSeparateOutcomes
PROPERTIES
  LockedPackageFrozen
  EpochsEnd
  ImplementsLifecycle
CHECK_DEADLOCK FALSE
