CONSTANTS
  Block <- MCBlock
  NoBlock = NoBlock
  height <- MCHeight
  prev <- MCPrev
  Null = Null
  DeploymentName = {"p2qpk", "taproot", "testdummy", "segwit"}
  deploymentInfo <- MCDeploymentInfo
  NoSnapshot = NoSnapshot
  Writer = {w1, w2}
  MaxMoves = 2
  MaxFailures = 1
SPECIFICATION Spec
INVARIANTS
  TypeOK
  FreshIsExact
PROPERTY SettlesFresh
