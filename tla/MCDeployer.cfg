CONSTANTS
  PatchAgents = {fast, deep}
  Patches = {"fast", "deep"}
  Confidence <- MCConfidence
  Threshold = 2
  MaxRound = 2
  None = None
SPECIFICATION DeployerSpec
INVARIANTS DeployedOnce
PROPERTIES DeployedBestAfterPass
CHECK_DEADLOCK FALSE
