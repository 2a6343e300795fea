CONSTANTS
  Runs = {r1, r2}
  Artifacts = {x}
  Payers = {p}
  None = None
  Artifact = x
  Payer = p
  ArtifactOf <- MCArtifactOf
  PayerOf <- MCPayerOf
  MaxSlot = 4
SYMMETRY Symmetry
SPECIFICATION Spec
PROPERTIES
  EvidenceFinal
CHECK_DEADLOCK FALSE
