CONSTANTS
  DetectorName = detector
  VerifierName = verifier
  DeployerName = deployer
  fast = fast
  deep = deep
  hybrid = hybrid
  PatchAgents = {fast, deep, hybrid}
  Patches = {"fast", "deep", "hybrid"}
  Hirings <- MCPairs
  PatchOf <- MCPatchOf
  Confidence <- MCConfidence
  StaticAnalysis <- MCAnalysisFailed
  Floor <- MCFloor
  Budget = 120000
  Threshold = 2
  AgentWallet = agentWallet
  DetectorWallet = detectorWallet
  Vaults = vaults
  MaxRound = 2
  MaxBatch = 2
  MaxRepeats = 0
  None = None
  Unset = Unset
SPECIFICATION Spec
PROPERTIES BudgetPerEmergency PaidOnlyVerified EmergencyEnds
CHECK_DEADLOCK FALSE
