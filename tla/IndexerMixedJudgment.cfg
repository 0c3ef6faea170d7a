CONSTANTS
  Block <- MCBlock
  NoBlock = NoBlock
  height <- MCHeight
  prev <- MCPrev
  Writer = {w1}
  MaxMoves = 4
  MaxCrashes = 1
  MaxAutomaticReorgDepth = 2
SPECIFICATION Spec
INVARIANT NoMixedJudgment
