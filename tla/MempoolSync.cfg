CONSTANTS
  Block <- MCBlock
  NoBlock = NoBlock
  height <- MCHeight
  prev <- MCPrev
  Tx <- MCTx
  carries <- MCCarries
  parents <- MCParents
  conflicts <- MCConflicts
  repeatsKey = {}
  NoSnapshot = NoSnapshot
  Writer = {w1}
  MayReturn = FALSE
  MaxMoves = 2
  MaxPoolMoves = 1
  MaxFailures = 1
SPECIFICATION Spec
INVARIANTS
  TypeOK
  SnapshotOfAnchor
PROPERTY SettlesCurrent
