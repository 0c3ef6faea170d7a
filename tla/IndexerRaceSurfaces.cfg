CONSTANTS
  Block <- MCBlock
  NoBlock = NoBlock
  height <- MCHeight
  prev <- MCPrev
  Writer = {w1}
  MaxMoves = 3
  MaxCrashes = 1
  MaxAutomaticReorgDepth = 2
SPECIFICATION Spec
INVARIANT RaceNeverSurfaces
