CONSTANTS
  DetectorName = detector
  VerifierName = verifier
  DeployerName = deployer
  fast = fast
  deep = deep
  hybrid = hybrid
  PatchAgents = {fast, deep, hybrid}
  Patches = {"fast", "deep", "hybrid"}
  Hirings <- MCAll
  PatchOf <- MCPatchOf
  Confidence <- MCConfidence
  StaticAnalysis <- MCStaticAnalysis
  Floor <- MCFloor
  Budget = 500000
  Threshold = 2
  AgentWallet = agentWallet
  DetectorWallet = detectorWallet
  Vaults = vaults
  MaxRound = 1
  MaxBatch = 1
  MaxRepeats = 0
  None = None
  Unset = Unset
SPECIFICATION FairSpec
PROPERTIES PatchDeployed
CHECK_DEADLOCK FALSE
