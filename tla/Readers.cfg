CONSTANTS
  Block <- RBlock
  Tx <- RTx
  Output <- ROutput
  Address <- RAddress
  NoBlock = NoBlock
  NoTx = NoTx
  NoAddress = NoAddress
  NoRow = NoRow
  NoCursor = NoCursor
  height <- RHeight
  prev <- RPrev
  txs <- RTxs
  inputs <- RInputs
  creator <- RCreator
  value <- RValue
  dest <- RDest
  unspendable <- RUnspendable
  textRank <- RTextRank
  InitialSubsidy = 16
  HalvingInterval = 2
  MaxHalvings = 3
  MaxAmount = 1000
  SatoshisPerQOGE = 2
  PageSize = 2
  RichListLimit = 1
  Client = {r1}
  Requests <- RRequests
  published <- RPublished
  observed <- RObserved
  coreTip = "a2"
  MaxGenerations = 2
SPECIFICATION ReadersSpec
INVARIANTS
  OneState
  OneGeneration
  WholeList
  NoIntegrityAlarm
  BlockPages
  HistoryPages
