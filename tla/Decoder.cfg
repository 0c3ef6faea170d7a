SPECIFICATION DecoderSpec
CONSTANTS
  NoToken = NoToken
  FractionDigits = 2
  MaxInt64 = 32767
  BadAmount = BadAmount
  Caller = {"indexer", "mempool"}
  Orchestrator = "indexer"
  Asked <- MCAsked
  Fragile <- MCFragile
  Derivable <- MCDerivable
  BadTexts <- MCBadTexts
  Null = Null
  Empty = Empty
INVARIANT CoreNeverRefused
INVARIANT NothingPartial
INVARIANT OwnersDerived
INVARIANT StoreShape
PROPERTY AttemptsAddUp
