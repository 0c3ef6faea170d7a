CONSTANTS
  Block <- MCBlock
  NoBlock = NoBlock
  height <- MCHeight
  prev <- MCPrev
  Tx <- MCTx
  carries <- MCCarries
  parents <- MCParents
  conflicts <- MCConflicts
  repeatsKey = {3}
  NoSnapshot = NoSnapshot
  Writer = {w1}
  MayReturn = FALSE
  MaxMoves = 1
  MaxPoolMoves = 1
  MaxFailures = 0
SPECIFICATION Spec
PROPERTY SettlesCurrent
