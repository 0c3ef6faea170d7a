CONSTANTS
  Block <- MCBlock
  Tx <- MCTx
  Output <- MCOutput
  Address <- MCAddress
  NoBlock = NoBlock
  NoTx = NoTx
  NoAddress = NoAddress
  NoRow = NoRow
  height <- MCHeight
  prev <- MCPrev
  txs <- MCTxs
  inputs <- MCInputs
  creator <- MCCreator
  value <- MCValue
  dest <- MCDest
  unspendable <- MCUnspendable
  InitialSubsidy = 16
  HalvingInterval = 2
  MaxHalvings = 3
  MaxAmount = 1000
  SatoshisPerQOGE = 2
  BesideIndex = {"down", "rollup"}
SPECIFICATION UpgradeSpec
INVARIANTS
  UpgradeTypeOK
  StartedWhole
  BucketsSound
  RollupRowsExact
  BackfillNeverStuck
