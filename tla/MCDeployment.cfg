CONSTANTS
  Runs = {r1}
  Artifacts = {x, y}
  Payers = {p, q}
  None = None
  Artifact = x
  Payer = p
  ArtifactOf <- MCArtifactOf
  PayerOf <- MCPayerOf
  MaxSlot = 5
SPECIFICATION Spec
INVARIANTS
  TypeOK
  EvidenceRanCheckpoint
  LeftoversReported
CHECK_DEADLOCK FALSE
