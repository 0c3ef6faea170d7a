---------------------------- MODULE ReadersProofs ----------------------------
(***************************************************************************)
(* Every answer of the readers is the truth about one branch, or about one *)
(* generation of a cache, whatever is committed between its statements and *)
(* however many clients ask.  The argument: a committed state of the store *)
(* is sound (CanonicalStoreProofs), a transaction keeps the one it has seen first, *)
(* and all results of a request are selected from that one.                *)
(***************************************************************************)
EXTENDS Readers, CanonicalStoreProofs

-----------------------------------------------------------------------------
(* What a request has read                                                 *)

IsSequence(s) == \E S : s \in Seq(S)

LEMMA Appending ==
  ASSUME NEW s, IsSequence(s), NEW x
  PROVE  /\ IsSequence(Append(s, x))
         /\ Len(s) \in Nat /\ Len(Append(s, x)) = Len(s) + 1
         /\ Append(s, x)[Len(s) + 1] = x
         /\ \A i \in 1..Len(s) : Append(s, x)[i] = s[i]
         /\ Last(Append(s, x)) = x
<1>1. PICK S : s \in Seq(S)
  BY DEF IsSequence
<1> DEFINE T == S \cup {x}
<1>2. s \in Seq(T) /\ x \in T
  BY <1>1
<1> HIDE DEF T
<1>3. Append(s, x) \in Seq(T) /\ Len(s) \in Nat /\ Len(Append(s, x)) = Len(s) + 1
  BY <1>2
<1>4. Append(s, x)[Len(s) + 1] = x /\ \A i \in 1..Len(s) : Append(s, x)[i] = s[i]
  BY <1>2
<1>5. QED
  BY <1>3, <1>4 DEF IsSequence, Last

\* A request is a record of these fields and no others.
IsRequest(q) ==
  q = [ stage |-> q.stage, op |-> q.op, arg |-> q.arg, before |-> q.before, got |-> q.got,
        snap |-> q.snap, pages |-> q.pages, torn |-> q.torn ]

\* Every result so far is what its statement selects from db.
Follows(q, db) ==
  /\ IsRequest(q)
  /\ q.op \in Operation
  /\ q.op \notin Paged => q.before = NoCursor
  /\ IsSequence(q.got)
  /\ Len(q.got) \in 0..Len(Plan(q.op))
  /\ \A i \in 1..Len(q.got) : q.got[i] = Select(Plan(q.op)[i], db, q, q.got)

\* The first n results did not end the request.
Open(q, n) ==
  /\ \A i \in 1..n : q.got[i] # NoRow
  /\ q.op = "SupplyOverview" /\ n >= 1 => q.got[1] # NoBlock
  /\ q.op \in {"DeploymentOverview", "DeploymentByName"} /\ n >= 2 => q.got[1].generation # 0

Reading(q, db) ==
  Follows(q, db) /\ Len(q.got) < Len(Plan(q.op)) /\ Open(q, Len(q.got))
Settled(q, db) ==
  Follows(q, db) /\ Len(q.got) >= 1 /\ Open(q, Len(q.got) - 1) /\ Complete(q, q.got)

\* The statements that look at earlier results look at results there are.
LEMMA PlanShape ==
  ASSUME NEW op \in Operation
  PROVE  /\ Len(Plan(op)) \in 1..4
         /\ \A i \in 1..Len(Plan(op)) :
               /\ Plan(op)[i] = "variant" => i = 3
               /\ Plan(op)[i] \in {"rollup", "blockTxRefs"} => i = 2
  BY DEF Plan, Operation

\* One more statement against the same tables.
LEMMA StatementReads ==
  ASSUME NEW q, NEW db, Reading(q, db), NEW r, r = AfterStatement(q, db)
  PROVE  /\ r.op = q.op /\ r.arg = q.arg /\ r.before = q.before /\ r.torn = q.torn
         /\ r.got = Append(q.got, Select(Plan(q.op)[Len(q.got) + 1], db, q, q.got))
         /\ IsRequest(r)
         /\ \/ r.stage = "refused"
            \/ /\ r.stage = "reading" /\ r.snap = db /\ Reading(r, db) /\ ~CursorRefused(r, r.got)
               /\ r.pages = q.pages
            \/ /\ r.stage = "answered" /\ Settled(r, db) /\ ~CursorRefused(r, r.got)
               /\ r.pages = IF q.op \in Paged THEN q.pages \o Last(r.got) ELSE q.pages
<1> DEFINE n == Len(q.got)
           x == Select(Plan(q.op)[n + 1], db, q, q.got)
           got == Append(q.got, x)
<1>1. n \in Nat /\ IsSequence(got) /\ Len(got) = n + 1 /\ got[n + 1] = x /\ Last(got) = x
  BY Appending DEF Reading, Follows
<1>2. \A i \in 1..n : got[i] = q.got[i]
  BY Appending DEF Reading, Follows
<1>3. n + 1 \in 1..Len(Plan(q.op)) /\ q.op \in Operation
  BY <1>1, PlanShape DEF Reading, Follows
<1> HIDE DEF x, got
<1>4. /\ r.op = q.op /\ r.arg = q.arg /\ r.before = q.before /\ r.torn = q.torn /\ r.got = got
      /\ IsRequest(r)
      /\ \/ r.stage = "refused"
         \/ /\ r.stage = "reading" /\ r.snap = db /\ ~Complete(q, got) /\ ~CursorRefused(q, got)
            /\ r.pages = q.pages
         \/ /\ r.stage = "answered" /\ Complete(q, got) /\ ~CursorRefused(q, got)
            /\ r.pages = IF q.op \in Paged THEN q.pages \o Last(got) ELSE q.pages
  BY DEF AfterStatement, Reading, Follows, IsRequest, got, x
<1>5. /\ CursorRefused(r, r.got) <=> CursorRefused(q, got)
      /\ Complete(r, r.got) <=> Complete(q, got)
  BY <1>4 DEF CursorRefused, Complete
<1>6. Follows(r, db)
  <2>1. ASSUME NEW i \in 1..(n + 1) PROVE got[i] = Select(Plan(q.op)[i], db, r, got)
    <3>1. i \in 1..Len(Plan(q.op)) /\ (i > 1 => q.got[1] = got[1]) /\ (i > 2 => q.got[2] = got[2])
      BY <1>1, <1>2, <1>3, PlanShape
    <3>2. Select(Plan(q.op)[i], db, q, q.got) = Select(Plan(q.op)[i], db, r, got)
      <4> DEFINE st == Plan(q.op)[i]
      <4>1. /\ st = "variant" => q.got[2] = got[2]
            /\ st \in {"rollup", "blockTxRefs"} => q.got[1] = got[1]
        BY <1>3, <3>1, PlanShape
      <4> HIDE DEF st
      <4>2. Select(st, db, q, q.got) = Select(st, db, r, got)
        BY <1>4, <4>1 DEF Select
      <4>3. QED
        BY <4>2 DEF st
    <3>3. CASE i = n + 1
      BY <1>1, <3>2, <3>3 DEF x
    <3>4. CASE i \in 1..n
      BY <1>2, <3>2, <3>4 DEF Reading, Follows
    <3>5. QED
      BY <1>1, <3>3, <3>4
  <2>2. Len(r.got) \in 0..Len(Plan(r.op)) /\ IsSequence(r.got)
    BY <1>1, <1>3, <1>4, PlanShape
  <2>3. \A i \in 1..Len(r.got) : r.got[i] = Select(Plan(r.op)[i], db, r, r.got)
    BY <1>1, <1>4, <2>1
  <2>4. r.op \in Operation /\ (r.op \notin Paged => r.before = NoCursor)
    BY <1>4 DEF Reading, Follows
  <2>5. QED
    BY <1>4, <2>2, <2>3, <2>4 DEF Follows
<1>7. Open(r, n)
  BY <1>1, <1>2, <1>4 DEF Open, Reading
<1>8. ~Complete(q, got) => Len(r.got) < Len(Plan(r.op)) /\ Open(r, n + 1)
  <2> SUFFICES ASSUME ~Complete(q, got) PROVE Len(r.got) < Len(Plan(r.op)) /\ Open(r, n + 1)
    OBVIOUS
  <2>1. Len(got) # Len(Plan(q.op)) /\ got[n + 1] # NoRow
    BY <1>1 DEF Complete
  <2>2. \A i \in 1..(n + 1) : r.got[i] # NoRow
    BY <1>1, <1>4, <1>7, <2>1 DEF Open
  <2>3. q.op = "SupplyOverview" => got[1] # NoBlock
    BY DEF Complete
  <2>4. q.op \in {"DeploymentOverview", "DeploymentByName"} /\ n + 1 = 2 => got[1].generation # 0
    BY <1>1 DEF Complete
  <2>5. q.op \in {"DeploymentOverview", "DeploymentByName"} /\ n + 1 >= 2 => r.got[1].generation # 0
    BY <1>1, <1>4, <1>7, <2>4 DEF Open
  <2>6. QED
    BY <1>1, <1>3, <1>4, <2>1, <2>2, <2>3, <2>5, PlanShape DEF Open
<1>9. Len(r.got) = n + 1 /\ Len(r.got) >= 1 /\ Len(r.got) - 1 = n
  BY <1>1, <1>4
<1>10. QED
  BY <1>4, <1>5, <1>6, <1>7, <1>8, <1>9 DEF Reading, Settled, got, x

-----------------------------------------------------------------------------
(* What the committed tables say                                           *)

\* The writers of ReadersSpec are the store's own calls.
LEMMA WritersAreTheStore == ReadersSpec => Spec
<1>1. ReadersInit => Init
  BY DEF ReadersInit
<1>2. [ReadersNext]_readersVars => [Next]_vars
  <2> SUFFICES ASSUME [ReadersNext]_readersVars PROVE Next \/ UNCHANGED vars
    OBVIOUS
  <2>1. CASE UNCHANGED readersVars
    BY <2>1 DEF readersVars
  <2>2. ASSUME NEW b \in Block, IndexerApplies(b) \/ IndexerRollsBack(b) PROVE Next
    BY <2>2 DEF IndexerApplies, IndexerRollsBack, Next
  <2>3. CASE ReplacePool
    BY <2>3 DEF ReplacePool
  <2>4. CASE ReplaceDeployments
    BY <2>4 DEF ReplaceDeployments
  <2>5. ASSUME NEW c \in Client, Follow(c) \/ Fetch(c) \/ \E r \in Requests : Begin(c, r)
        PROVE  UNCHANGED vars
    BY <2>5 DEF Follow, Fetch, Begin
  <2>6. QED
    BY <2>1, <2>2, <2>3, <2>4, <2>5 DEF ReadersNext
<1>3. QED
  BY <1>1, <1>2, PTL DEF ReadersSpec, Spec

\* Every rollup row satisfies the identities the readers check, but for the
\* size of their first sum, which applySupplyRollup does not look at.
Balanced(r) ==
  /\ r \in RollupRow
  /\ r.cumCoinbase + r.cumUnclaimed = r.cumSubsidy + r.cumFee
  /\ r.cumUTXO + r.cumFee + r.cumExcluded = r.cumCoinbase
  /\ Fits(r.cumCoinbase)
RowsBalanced == \A b \in Block : rollup[b] # NoRow => Balanced(rollup[b])

LEMMA RowBalanced ==
  ASSUME RollupTypeOK, RowsBalanced, NEW b \in Block, ApplyBlock(b), ParentRollup(b) # NoRow
  PROVE  Balanced(SupplyRollup(b))
<1> DEFINE p == ParentRollup(b)
           f == BlockFacts(b)
           e == ExcludedValue(b)
           r == SupplyRollup(b)
<1>1. RollupAccepted(b) /\ FeesAccepted(b) /\ CoinbaseAccepted(b)
  BY DEF ApplyBlock, Accepts, applyTransactions
<1>2. r.cumUTXO >= 0 /\ Fits(r.cumCoinbase)
  BY <1>1 DEF RollupAccepted
<1>3. r \in RollupRow
  BY <1>1, <1>2, RollupRowTyped
<1>4. /\ p \in RollupRow
      /\ p.cumCoinbase + p.cumUnclaimed = p.cumSubsidy + p.cumFee
  <2>1. CASE height[b] = 0
    BY <2>1 DEF ParentRollup, ZeroRollup, RollupRow
  <2>2. CASE height[b] # 0
    <3>1. prev[b] \in Block /\ p = rollup[prev[b]]
      BY <2>2, TreeAssumption DEF ParentRollup
    <3>2. QED
      BY <3>1 DEF RowsBalanced, Balanced
  <2>3. QED
    BY <2>1, <2>2
<1>5. f \in FactsRow /\ e \in Nat /\ f.coinbase + f.unclaimed = f.subsidy + f.fee
  <2>1. f \in FactsRow /\ e \in Nat
    BY <1>1, FactsTyped
  <2>2. /\ f.subsidy = BlockSubsidy(height[b]) /\ f.fee = BlockFee(b)
        /\ f.coinbase = CoinbaseTotal(b)
        /\ f.unclaimed = BlockSubsidy(height[b]) + BlockFee(b) - CoinbaseTotal(b)
    BY DEF BlockFacts, ComputeBlockFacts
  <2>3. f.subsidy \in Nat /\ f.fee \in Nat /\ f.coinbase \in Nat
    BY <2>1 DEF FactsRow
  <2>4. QED
    BY <2>1, <2>2, <2>3
<1>6. /\ r.cumSubsidy = p.cumSubsidy + f.subsidy /\ r.cumFee = p.cumFee + f.fee
      /\ r.cumCoinbase = p.cumCoinbase + f.coinbase /\ r.cumUnclaimed = p.cumUnclaimed + f.unclaimed
      /\ r.cumExcluded = p.cumExcluded + e
      /\ r.cumUTXO = p.cumCoinbase + f.coinbase - (p.cumFee + f.fee) - (p.cumExcluded + e)
  BY DEF SupplyRollup
<1>7. /\ p.cumSubsidy \in Nat /\ p.cumFee \in Nat /\ p.cumCoinbase \in Nat /\ p.cumUnclaimed \in Nat
      /\ p.cumExcluded \in Nat
      /\ f.subsidy \in Nat /\ f.fee \in Nat /\ f.coinbase \in Nat /\ f.unclaimed \in Nat
  BY <1>4, <1>5 DEF RollupRow, FactsRow
<1> HIDE DEF p, f, e, r
<1>8. r.cumCoinbase + r.cumUnclaimed = r.cumSubsidy + r.cumFee
  <2>1. p.cumCoinbase + p.cumUnclaimed = p.cumSubsidy + p.cumFee
    BY <1>4
  <2>2. f.coinbase + f.unclaimed = f.subsidy + f.fee
    BY <1>5
  <2>3. r.cumCoinbase + r.cumUnclaimed = (p.cumCoinbase + p.cumUnclaimed) + (f.coinbase + f.unclaimed)
    BY <1>6, <1>7
  <2>4. r.cumSubsidy + r.cumFee = (p.cumSubsidy + p.cumFee) + (f.subsidy + f.fee)
    BY <1>6, <1>7
  <2>5. QED
    BY <2>1, <2>2, <2>3, <2>4
<1>9. r.cumUTXO + r.cumFee + r.cumExcluded = r.cumCoinbase
  BY <1>5, <1>6, <1>7
<1>10. QED
  BY <1>2, <1>3, <1>8, <1>9 DEF Balanced, r

LEMMA RowsStayBalanced == Spec => []RowsBalanced
<1>1. Init => RowsBalanced
  BY DEF Init, RowsBalanced
<1>2. RollupInv /\ RowsBalanced /\ [Next]_vars => RowsBalanced'
  <2> SUFFICES ASSUME RollupTypeOK, RowsBalanced, [Next]_vars, NEW c \in Block, rollup'[c] # NoRow
               PROVE  Balanced(rollup'[c])
    BY DEF RowsBalanced, RollupInv
  <2>1. CASE UNCHANGED vars
    BY <2>1 DEF vars, RowsBalanced
  <2>2. ASSUME NEW b \in Block, ApplyBlock(b) PROVE Balanced(rollup'[c])
    BY <2>2, RowsWritten, RowBalanced DEF RowsBalanced
  <2>3. ASSUME NEW b \in Block, RollbackTo(b) PROVE Balanced(rollup'[c])
    BY <2>3 DEF RollbackTo, supplyVars, RowsBalanced
  <2>4. QED
    BY <2>1, <2>2, <2>3 DEF Next, RejectBlock, RejectRollback
<1>3. QED
  BY <1>1, <1>2, RollupsInvariant, PTL DEF Spec

\* The confirmed tables db are what their own branch, replayed, yields.
Committed(db) ==
  /\ db.blocks \subseteq Block /\ db.canonical \subseteq db.blocks
  /\ IsFiniteSet(db.canonical) /\ LinkedChain(db.canonical)
  /\ db.checkpoint = Tip(db.canonical)
  /\ db.utxo = CoinsOn(db.canonical)
  /\ db.addresses \in [Address -> AddressRow \cup {NoRow}]
  /\ db.addresses = [a \in Address |-> recomputeAddress(a, CoinsOn(db.canonical))]
  /\ \A t : t = db.checkpoint /\ t # NoBlock /\ db.rollup[t] # NoRow =>
        /\ t \in Block
        /\ db.rollup[t].cumUTXO = ValueOf(UnspentOn(db.canonical))
        /\ db.rollup[t].cumSubsidy = ScheduledSubsidyThroughHeight(height[t])

\* db was committed, and its immutable rows are still there.
Past(db) ==
  /\ db.blocks \subseteq blocks
  /\ \A b \in Block : db.rollup[b] # NoRow => rollup[b] = db.rollup[b]

\* What the store's theorems say of every committed state.
StoreFacts ==
  /\ ChainInv /\ FiniteChain
  /\ CoinTypeOK /\ UtxoIsReplay
  /\ AddressTypeOK /\ AddressCacheExact
  /\ RollupTypeOK /\ SupplyMatchesCoins /\ ScheduleExact

LEMMA StoreHolds == ReadersSpec => [](StoreFacts /\ RowsBalanced)
<1>1. CoinInv => CoinTypeOK
  BY DEF CoinInv
<1>2. RollupInv => RollupTypeOK
  BY DEF RollupInv
<1>3. QED
  BY <1>1, <1>2, WritersAreTheStore, CoinsInvariant, ChainFinite, CoinsCorrect, AddressesTyped,
     AddressCacheCorrect, RollupsInvariant, SupplyCorrect, ScheduleCorrect, RowsStayBalanced, PTL
     DEF StoreFacts

Confirmed == [ blocks |-> blocks, canonical |-> canonical, checkpoint |-> checkpoint,
               utxo |-> utxo, addresses |-> addresses, rollup |-> rollup ]

LEMMA TipIsCheckpoint ==
  ASSUME ChainInv
  PROVE  checkpoint = Tip(canonical)
<1>1. CanonicalLinked /\ ChainTypeOK
  BY DEF ChainInv
<1>2. CASE canonical = {}
  BY <1>1, <1>2 DEF CanonicalLinked, Tip
<1>3. CASE canonical # {}
  <2>1. checkpoint \in canonical /\ \A c \in canonical : height[c] <= height[checkpoint]
    BY <1>1, <1>3 DEF CanonicalLinked, ChainTypeOK
  <2>2. \A b, c \in canonical : height[b] = height[c] => b = c
    BY <1>1 DEF CanonicalLinked, LinkedChain
  <2>3. \A b \in canonical : height[b] \in Nat
    BY <1>1, TreeAssumption DEF ChainTypeOK
  <2> DEFINE High(b) == \A c \in canonical : height[c] <= height[b]
  <2>4. ASSUME NEW b \in canonical, High(b) PROVE b = checkpoint
    BY <2>1, <2>2, <2>3, <2>4
  <2>5. (CHOOSE b \in canonical : High(b)) = checkpoint
    <3>1. High(checkpoint)
      BY <2>1
    <3> HIDE DEF High
    <3>2. QED
      BY <2>1, <2>4, <3>1
  <2>6. QED
    BY <1>3, <2>5 DEF Tip
<1>4. QED
  BY <1>2, <1>3

\* A committed state is sound: the store's theorems in terms of its tables.
LEMMA ViewSound ==
  ASSUME StoreFacts
  PROVE  Committed(Confirmed) /\ Past(Confirmed)
<1> DEFINE db == Confirmed
<1>1. /\ db.blocks = blocks /\ db.canonical = canonical /\ db.checkpoint = checkpoint
      /\ db.utxo = utxo /\ db.addresses = addresses /\ db.rollup = rollup
  BY DEF Confirmed
<1> HIDE DEF db
<1>2. utxo = CoinsOn(canonical)
  BY DEF StoreFacts, CoinTypeOK, UtxoIsReplay, CoinOf, CoinsOn
<1>3. addresses = [a \in Address |-> recomputeAddress(a, CoinsOn(canonical))]
  BY <1>2 DEF StoreFacts, AddressTypeOK, AddressCacheExact
<1>4. UnspentOn(canonical) = Unspent
  BY <1>2 DEF UnspentOn, Unspent
<1>5. ASSUME NEW t, t = checkpoint, t # NoBlock, rollup[t] # NoRow
      PROVE  /\ t \in Block
             /\ rollup[t].cumUTXO = ValueOf(UnspentOn(canonical))
             /\ rollup[t].cumSubsidy = ScheduledSubsidyThroughHeight(height[t])
  <2>1. t \in canonical /\ t \in blocks /\ t \in Block
    BY <1>5 DEF StoreFacts, ChainInv, ChainTypeOK
  <2>2. QED
    BY <1>4, <1>5, <2>1 DEF StoreFacts, SupplyMatchesCoins, ScheduleExact
<1>6. /\ blocks \subseteq Block /\ canonical \subseteq blocks
      /\ IsFiniteSet(canonical) /\ LinkedChain(canonical)
  BY DEF StoreFacts, ChainInv, ChainTypeOK, CanonicalLinked, FiniteChain
<1>7. checkpoint = Tip(canonical)
  BY TipIsCheckpoint DEF StoreFacts
<1>8. Committed(db)
  BY <1>1, <1>2, <1>3, <1>5, <1>6, <1>7 DEF Committed, StoreFacts, AddressTypeOK
<1>9. Past(db)
  BY <1>1 DEF Past
<1>10. QED
  BY <1>8, <1>9 DEF db

-----------------------------------------------------------------------------
(* Requests                                                                *)

PoolSound(p) ==
  /\ p.generation \in Nat
  /\ p.generation = 0 => p.rows = << >>
  /\ p.generation > 0 => p.generation \in DOMAIN published /\ p.rows = published[p.generation]
DepsSound(d) ==
  /\ d.generation \in Nat
  /\ d.generation > 0 =>
        d.count = Cardinality(DOMAIN d.rows) /\ \A n \in DOMAIN d.rows : d.rows[n] = d.generation

\* db is a state of the tables that op reads, as it was committed once.
Seen(op, db) ==
  IF op \in CacheReads THEN PoolSound(db.pool) /\ DepsSound(db.deps)
  ELSE Committed(db) /\ Past(db)

\* A request has selected everything from one such state, which its open
\* transaction still sees.
RequestOK(q) ==
  \/ q.stage \in {"idle", "refused"} /\ IsRequest(q)
  \/ \E db : /\ Seen(q.op, db)
             /\ \/ q.stage = "reading" /\ q.snap = db /\ Reading(q, db)
                \/ q.stage = "answered" /\ Settled(q, db)

CachesOK == PoolSound(pool) /\ DepsSound(deps)
ClientsOK == client = [c \in Client |-> client[c]] /\ \A c \in Client : RequestOK(client[c])

\* What a transaction sees first is sound.
LEMMA TablesSeen ==
  ASSUME StoreFacts, CachesOK, NEW op
  PROVE  Seen(op, Tables(op))
<1>1. CASE op \in CacheReads
  BY <1>1 DEF Seen, Tables, CachesOK
<1>2. CASE op \notin CacheReads
  BY <1>2, ViewSound DEF Seen, Tables, Confirmed
<1>3. QED
  BY <1>1, <1>2

\* A request before its first statement.
Fresh(q) ==
  /\ IsRequest(q) /\ q.op \in Operation /\ q.got = << >>
  /\ q.op \notin Paged => q.before = NoCursor

LEMMA FreshReads ==
  ASSUME NEW q, Fresh(q), NEW db
  PROVE  Reading(q, db)
<1>1. q.got \in Seq({}) /\ Len(q.got) = 0
  BY DEF Fresh
<1>2. Len(Plan(q.op)) \in 1..4
  BY PlanShape DEF Fresh
<1>3. IsSequence(q.got)
  BY <1>1 DEF IsSequence
<1>4. Follows(q, db)
  BY <1>1, <1>2, <1>3 DEF Fresh, Follows
<1>5. Open(q, Len(q.got)) /\ Len(q.got) < Len(Plan(q.op))
  BY <1>1, <1>2 DEF Open
<1>6. QED
  BY <1>4, <1>5 DEF Reading

LEMMA BeginFresh ==
  ASSUME NEW r \in Requests, NEW q, q = [Idle EXCEPT !.op = r.op, !.arg = r.arg]
  PROVE  /\ Fresh(q) /\ q.op = r.op /\ q.arg = r.arg /\ q.before = NoCursor
         /\ q.pages = << >> /\ q.torn = FALSE
<1> DEFINE op == r.op
           arg == r.arg
<1>1. IsRequest(Idle) /\ Idle.before = NoCursor /\ Idle.got = << >> /\ Idle.pages = << >>
  BY DEF Idle, IsRequest
<1>2. Idle.torn = FALSE
  BY DEF Idle
<1> HIDE DEF op, arg
<1>3. q = [Idle EXCEPT !.op = op, !.arg = arg]
  BY DEF op, arg
<1>4. /\ IsRequest(q) /\ q.op = op /\ q.arg = arg /\ q.before = Idle.before
      /\ q.got = Idle.got /\ q.pages = Idle.pages /\ q.torn = Idle.torn
  BY <1>1, <1>3 DEF IsRequest
<1>5. op \in Operation
  BY RequestsAssumption DEF op
<1>6. Fresh(q)
  BY <1>1, <1>4, <1>5 DEF Fresh
<1>7. QED
  BY <1>1, <1>2, <1>4, <1>6 DEF op, arg

\* The request for the next page.
Resumed(q, torn) == [q EXCEPT !.before = NextCursor(q, q.got), !.got = << >>, !.torn = torn]

LEMMA FollowFresh ==
  ASSUME NEW q, NEW db, Settled(q, db), NextCursor(q, q.got) # NoCursor, NEW torn, NEW r,
         r = Resumed(q, torn)
  PROVE  /\ Fresh(r) /\ r.op = q.op /\ r.arg = q.arg /\ r.before = NextCursor(q, q.got)
         /\ r.pages = q.pages /\ r.torn = torn
<1> DEFINE cursor == NextCursor(q, q.got)
           none == << >>
<1>1. q.op \in Paged
  BY DEF NextCursor, Paged
<1>2. q.op \in Operation /\ IsRequest(q)
  BY DEF Settled, Follows
<1> HIDE DEF cursor, none
<1>3. r = [q EXCEPT !.before = cursor, !.got = none, !.torn = torn]
  BY DEF Resumed, cursor, none
<1>4. /\ IsRequest(r) /\ r.op = q.op /\ r.arg = q.arg /\ r.before = cursor
      /\ r.got = none /\ r.pages = q.pages /\ r.torn = torn
  BY <1>2, <1>3 DEF IsRequest
<1>5. Fresh(r)
  BY <1>1, <1>2, <1>4 DEF Fresh, none
<1>6. QED
  BY <1>4, <1>5 DEF cursor

\* A statement leaves a request in order.
LEMMA StatementOK ==
  ASSUME NEW q, NEW db, Reading(q, db), Seen(q.op, db)
  PROVE  RequestOK(AfterStatement(q, db))
<1> DEFINE r == AfterStatement(q, db)
<1>1. /\ r.op = q.op /\ IsRequest(r)
      /\ \/ r.stage = "refused"
         \/ r.stage = "reading" /\ r.snap = db /\ Reading(r, db)
         \/ r.stage = "answered" /\ Settled(r, db)
  BY StatementReads
<1> HIDE DEF r
<1>2. RequestOK(r)
  BY <1>1 DEF RequestOK
<1>3. QED
  BY <1>2 DEF r

Kept == /\ blocks \subseteq blocks'
        /\ \A b \in Block : /\ accounting[b] # NoRow => accounting'[b] = accounting[b]
                            /\ rollup[b] # NoRow => rollup'[b] = rollup[b]

\* Writers take nothing away from what a request has seen.
LEMMA SeenStays ==
  ASSUME NEW q, RequestOK(q), Kept \/ UNCHANGED vars
  PROVE  RequestOK(q)'
<1>1. ASSUME NEW db, Past(db) PROVE Past(db)'
  BY <1>1 DEF Past, Kept, vars
<1>2. ASSUME NEW db, Seen(q.op, db) PROVE Seen(q.op, db)'
  BY <1>1, <1>2 DEF Seen
<1>3. QED
  BY <1>2 DEF RequestOK

\* A client's step puts a request in the place of another.
LEMMA ClientSteps ==
  ASSUME ClientsOK, NEW c \in Client, NEW r, RequestOK(r), client' = [client EXCEPT ![c] = r],
         UNCHANGED vars
  PROVE  ClientsOK'
<1>1. client' = [d \in Client |-> client'[d]]
  BY DEF ClientsOK
<1>2. ASSUME NEW d \in Client PROVE RequestOK(client'[d])
  <2>1. client'[d] = IF d = c THEN r ELSE client[d]
    BY DEF ClientsOK
  <2>2. QED
    BY <2>1 DEF ClientsOK
<1>3. ASSUME NEW d \in Client PROVE RequestOK(client[d])'
  <2>1. PICK s : s = client'[d]
    OBVIOUS
  <2>2. RequestOK(s)
    BY <1>2, <2>1
  <2>3. RequestOK(s)'
    BY <2>2, SeenStays
  <2>4. QED
    BY <2>1, <2>3 DEF RequestOK
<1>4. QED
  BY <1>1, <1>3 DEF ClientsOK

LEMMA BeginKeeps ==
  ASSUME StoreFacts, CachesOK, ClientsOK, NEW c \in Client, NEW r \in Requests, Begin(c, r)
  PROVE  ClientsOK'
<1> DEFINE q == [Idle EXCEPT !.op = r.op, !.arg = r.arg]
<1>1. Fresh(q) /\ q.op = r.op
  BY BeginFresh
<1>2. client' = [client EXCEPT ![c] = AfterStatement(q, Tables(r.op))] /\ UNCHANGED vars
  BY DEF Begin
<1> HIDE DEF q
<1>3. Reading(q, Tables(r.op)) /\ Seen(q.op, Tables(r.op))
  BY <1>1, FreshReads, TablesSeen
<1>4. RequestOK(AfterStatement(q, Tables(r.op)))
  BY <1>3, StatementOK
<1>5. QED
  BY <1>2, <1>4, ClientSteps

LEMMA FollowKeeps ==
  ASSUME StoreFacts, CachesOK, ClientsOK, NEW c \in Client, Follow(c)
  PROVE  ClientsOK'
<1> DEFINE q == client[c]
           torn == q.torn \/ TornNow(q)
           r == Resumed(q, torn)
<1>1. /\ q.stage = "answered" /\ NextCursor(q, q.got) # NoCursor
      /\ client' = [client EXCEPT ![c] = AfterStatement(r, Tables(q.op))] /\ UNCHANGED vars
  BY DEF Follow, Resumed
<1>2. PICK db : Settled(q, db)
  BY <1>1 DEF ClientsOK, RequestOK
<1> HIDE DEF q, torn
<1>3. NextCursor(q, q.got) # NoCursor
  BY <1>1
<1>4. Fresh(r) /\ r.op = q.op
  BY <1>2, <1>3, FollowFresh
<1> HIDE DEF r
<1>5. Reading(r, Tables(q.op)) /\ Seen(r.op, Tables(q.op))
  BY <1>4, FreshReads, TablesSeen
<1>6. RequestOK(AfterStatement(r, Tables(q.op)))
  BY <1>5, StatementOK
<1>7. QED
  BY <1>1, <1>6, ClientSteps

LEMMA FetchKeeps ==
  ASSUME ClientsOK, NEW c \in Client, Fetch(c)
  PROVE  ClientsOK'
<1> DEFINE q == client[c]
<1>1. /\ q.stage = "reading"
      /\ client' = [client EXCEPT ![c] = AfterStatement(q, q.snap)] /\ UNCHANGED vars
  BY DEF Fetch, View
<1>2. Reading(q, q.snap) /\ Seen(q.op, q.snap)
  BY <1>1 DEF ClientsOK, RequestOK
<1> HIDE DEF q
<1>3. RequestOK(AfterStatement(q, q.snap))
  BY <1>2, StatementOK
<1>4. QED
  BY <1>1, <1>3, ClientSteps

LEMMA CachesKeep ==
  ASSUME CachesOK, [ReadersNext]_readersVars
  PROVE  CachesOK'
<1>1. CASE UNCHANGED <<pool, deps>>
  BY <1>1 DEF CachesOK
<1>2. CASE ReplacePool
  <2>1. pool.generation + 1 \in Nat
    BY DEF CachesOK, PoolSound
  <2>2. PoolSound(pool') /\ deps' = deps
    BY <1>2, <2>1 DEF ReplacePool, CachesOK, PoolSound
  <2>3. QED
    BY <2>2 DEF CachesOK
<1>3. CASE ReplaceDeployments
  <2>1. deps.generation + 1 \in Nat
    BY DEF CachesOK, DepsSound
  <2>2. DepsSound(deps') /\ pool' = pool
    BY <1>3, <2>1 DEF ReplaceDeployments, CachesOK, DepsSound
  <2>3. QED
    BY <2>2 DEF CachesOK
<1>4. QED
  BY <1>1, <1>2, <1>3 DEF ReadersNext, readersVars, cacheVars, IndexerApplies, IndexerRollsBack,
     Follow, Fetch, Begin

LEMMA RequestsKeep ==
  ASSUME StoreFacts, CachesOK, ClientsOK, [ReadersNext]_readersVars, [Kept]_vars
  PROVE  ClientsOK'
<1>1. CASE UNCHANGED client
  <2>1. \A c \in Client : RequestOK(client[c])'
    BY <1>1, SeenStays DEF ClientsOK
  <2>2. QED
    BY <1>1, <2>1 DEF ClientsOK
<1>2. ASSUME NEW c \in Client, Follow(c) \/ Fetch(c) \/ \E r \in Requests : Begin(c, r)
      PROVE  ClientsOK'
  BY <1>2, FollowKeeps, FetchKeeps, BeginKeeps
<1>3. QED
  BY <1>1, <1>2 DEF ReadersNext, readersVars, IndexerApplies, IndexerRollsBack, ReplacePool,
     ReplaceDeployments

\* Every request, in every state, has read from one committed state.
LEMMA RequestsInvariant == ReadersSpec => [](StoreFacts /\ RowsBalanced /\ CachesOK /\ ClientsOK)
<1>1. ReadersInit => CachesOK /\ ClientsOK
  <2> SUFFICES ASSUME ReadersInit PROVE CachesOK /\ ClientsOK
    OBVIOUS
  <2>1. CachesOK
    BY DEF ReadersInit, CachesOK, PoolSound, DepsSound
  <2>2. IsRequest(Idle) /\ Idle.stage = "idle"
    BY DEF Idle, IsRequest
  <2>3. \A c \in Client : client[c] = Idle
    BY DEF ReadersInit
  <2>4. RequestOK(Idle)
    BY <2>2 DEF RequestOK
  <2>5. QED
    BY <2>1, <2>3, <2>4 DEF ClientsOK, ReadersInit
<1>2. StoreFacts /\ CachesOK /\ ClientsOK /\ [ReadersNext]_readersVars /\ [Kept]_vars
        => CachesOK' /\ ClientsOK'
  BY CachesKeep, RequestsKeep
<1>3. Spec => [][Kept]_vars
  BY RowsImmutable DEF ImmutableRows, Kept
<1>4. QED
  BY <1>1, <1>2, <1>3, WritersAreTheStore, StoreHolds, PTL DEF ReadersSpec

-----------------------------------------------------------------------------
(* Answers                                                                 *)

\* An answer is complete, or says early that there is nothing.
LEMMA AnswerIs ==
  ASSUME NEW q, RequestOK(q), Answered(q, q.op)
  PROVE  \E db : /\ Seen(q.op, db) /\ Follows(q, db) /\ Last(q.got) # NoRow /\ Len(q.got) >= 1
                 /\ \A i \in 1..(Len(q.got) - 1) : q.got[i] # NoRow
                 /\ \/ Len(q.got) = Len(Plan(q.op))
                    \/ q.op = "SupplyOverview" /\ q.got[1] = NoBlock
                    \/ q.op \in {"DeploymentOverview", "DeploymentByName"} /\ q.got[1].generation = 0
<1>1. q.stage = "answered" /\ Last(q.got) # NoRow
  BY DEF Answered
<1>2. PICK db : Seen(q.op, db) /\ Settled(q, db)
  BY <1>1 DEF RequestOK
<1>3. Follows(q, db) /\ Len(q.got) >= 1 /\ \A i \in 1..(Len(q.got) - 1) : q.got[i] # NoRow
  BY <1>2 DEF Settled, Open
<1>4. \/ Len(q.got) = Len(Plan(q.op))
      \/ q.op = "SupplyOverview" /\ q.got[1] = NoBlock
      \/ q.op \in {"DeploymentOverview", "DeploymentByName"} /\ q.got[1].generation = 0
  BY <1>1, <1>2 DEF Settled, Complete
<1>5. QED
  BY <1>1, <1>2, <1>3, <1>4

\* Every answer about the mempool is about the generation it names, for any
\* number of clients and any sequence of replacements (MempoolOverview,
\* mempoolTransactionDetail).
THEOREM GenerationsCorrect == ReadersSpec => []OneGeneration
<1>1. ClientsOK => OneGeneration
  <2> SUFFICES ASSUME ClientsOK, NEW c \in Client, NEW q, q = client[c]
               PROVE  /\ Answered(q, "MempoolTransactionByTxID") =>
                           LET rows == published[q.got[2].generation]
                           IN  /\ q.arg \in DOMAIN rows /\ q.got[1] = rows[q.arg]
                               /\ q.got[2].txCount = Cardinality(DOMAIN rows)
                               /\ q.got[4] = {u \in DOMAIN rows : \E o \in inputs[q.arg] : creator[o] = u}
                      /\ Answered(q, "MempoolOverview") /\ q.got[1].generation > 0 =>
                           q.got[3] = mempoolTxPageFrom(published[q.got[1].generation], q.before)
    BY DEF OneGeneration
  <2>1. RequestOK(q)
    BY DEF ClientsOK
  <2>2. ASSUME Answered(q, "MempoolTransactionByTxID")
        PROVE  LET rows == published[q.got[2].generation]
               IN  /\ q.arg \in DOMAIN rows /\ q.got[1] = rows[q.arg]
                   /\ q.got[2].txCount = Cardinality(DOMAIN rows)
                   /\ q.got[4] = {u \in DOMAIN rows : \E o \in inputs[q.arg] : creator[o] = u}
    <3>1. q.op = "MempoolTransactionByTxID" /\ Answered(q, q.op)
      BY <2>2 DEF Answered
    <3>2. PICK db : /\ Seen(q.op, db) /\ Follows(q, db)
                    /\ \A i \in 1..(Len(q.got) - 1) : q.got[i] # NoRow
                    /\ Len(q.got) = Len(Plan(q.op))
      BY <2>1, <3>1, AnswerIs
    <3>3. Plan(q.op) = <<"mempoolRow", "mempoolState", "status", "dependencies">>
      BY <3>1 DEF Plan
    <3>4. Len(q.got) = 4
      BY <3>2, <3>3
    <3>5. /\ q.got[1] = Select("mempoolRow", db, q, q.got)
          /\ q.got[2] = Select("mempoolState", db, q, q.got)
          /\ q.got[4] = Select("dependencies", db, q, q.got)
      BY <3>2, <3>3, <3>4 DEF Follows
    <3>6. /\ q.got[1] = mempoolRow(db, q.arg) /\ q.got[1] # NoRow
          /\ q.got[2] = mempoolStateRow(db)
          /\ q.got[4] = mempoolDependencies(db, q.arg)
      BY <3>2, <3>4, <3>5 DEF Select
    <3>7. q.arg \in DOMAIN db.pool.rows /\ q.got[1] = db.pool.rows[q.arg]
      BY <3>6 DEF mempoolRow
    <3>8. PoolSound(db.pool)
      BY <3>1, <3>2 DEF Seen, CacheReads
    <3>9. db.pool.generation > 0
      BY <3>7, <3>8 DEF PoolSound
    <3>10. db.pool.rows = published[db.pool.generation]
      BY <3>8, <3>9 DEF PoolSound
    <3>11. q.got[2].generation = db.pool.generation /\ q.got[2].txCount = Cardinality(DOMAIN db.pool.rows)
      BY <3>6 DEF mempoolStateRow
    <3>12. QED
      BY <3>6, <3>7, <3>10, <3>11 DEF mempoolDependencies
  <2>3. ASSUME Answered(q, "MempoolOverview"), q.got[1].generation > 0
        PROVE  q.got[3] = mempoolTxPageFrom(published[q.got[1].generation], q.before)
    <3>1. q.op = "MempoolOverview" /\ Answered(q, q.op)
      BY <2>3 DEF Answered
    <3>2. PICK db : /\ Seen(q.op, db) /\ Follows(q, db)
                    /\ Len(q.got) = Len(Plan(q.op))
      BY <2>1, <3>1, AnswerIs
    <3>3. Plan(q.op) = <<"mempoolState", "status", "mempoolPage">>
      BY <3>1 DEF Plan
    <3>4. Len(q.got) = 3
      BY <3>2, <3>3
    <3>5. /\ q.got[1] = Select("mempoolState", db, q, q.got)
          /\ q.got[3] = Select("mempoolPage", db, q, q.got)
      BY <3>2, <3>3, <3>4 DEF Follows
    <3>6. /\ q.got[1].generation = db.pool.generation
          /\ q.got[3] = mempoolTxPageFrom(db.pool.rows, q.before)
      BY <3>5 DEF Select, mempoolStateRow
    <3>7. PoolSound(db.pool)
      BY <3>1, <3>2 DEF Seen, CacheReads
    <3>8. db.pool.rows = published[db.pool.generation]
      BY <2>3, <3>6, <3>7 DEF PoolSound
    <3>9. QED
      BY <3>6, <3>8
  <2>4. QED
    BY <2>2, <2>3
<1>2. QED
  BY <1>1, RequestsInvariant, PTL

\* The one way the readers' checks can fail on sound tables: subsidies and
\* fees of a whole branch together exceed an int64.
RewardsFit == \A b \in Block : rollup[b] # NoRow => Fits(rollup[b].cumSubsidy + rollup[b].cumFee)

\* No check of the readers ever fires as long as the rewards of a branch fit
\* (checkSupplyRollupIdentities, decodeDeploymentRow, DeploymentOverview).
THEOREM AlarmsStayQuiet == ReadersSpec => [](RewardsFit => NoIntegrityAlarm)
<1>1. RowsBalanced /\ ClientsOK /\ RewardsFit => NoIntegrityAlarm
  <2> SUFFICES ASSUME RowsBalanced, ClientsOK, RewardsFit, NEW c \in Client, NEW q, q = client[c]
               PROVE  /\ Answered(q, "SupplyOverview") /\ q.got[1] # NoBlock =>
                           checkSupplyRollupIdentities(q.got[2])
                      /\ Answered(q, "DeploymentOverview") /\ q.got[1].generation > 0 =>
                           DeploymentsIntact(q.got[1], q.got[3])
                      /\ Answered(q, "DeploymentByName") /\ q.got[1].generation > 0 =>
                           q.got[3] = q.got[1].generation
    BY DEF NoIntegrityAlarm
  <2>1. RequestOK(q)
    BY DEF ClientsOK
  <2>2. ASSUME Answered(q, "SupplyOverview"), q.got[1] # NoBlock
        PROVE  checkSupplyRollupIdentities(q.got[2])
    <3>1. q.op = "SupplyOverview" /\ Answered(q, q.op)
      BY <2>2 DEF Answered
    <3>2. PICK db : /\ Seen(q.op, db) /\ Follows(q, db) /\ Last(q.got) # NoRow
                    /\ Len(q.got) = Len(Plan(q.op))
      BY <2>1, <2>2, <3>1, AnswerIs
    <3>3. Plan(q.op) = <<"status", "rollup">>
      BY <3>1 DEF Plan
    <3>4. Len(q.got) = 2
      BY <3>2, <3>3
    <3>5. /\ q.got[1] = Select("status", db, q, q.got)
          /\ q.got[2] = Select("rollup", db, q, q.got)
      BY <3>2, <3>3, <3>4 DEF Follows
    <3>6. q.got[1] = db.checkpoint /\ q.got[2] = db.rollup[q.got[1]] /\ q.got[2] # NoRow
      BY <3>2, <3>4, <3>5 DEF Select, statusFrom, Last
    <3>7. Committed(db) /\ Past(db)
      BY <3>1, <3>2 DEF Seen, CacheReads
    <3>8. q.got[1] \in Block
      BY <2>2, <3>6, <3>7 DEF Committed
    <3>9. q.got[2] = rollup[q.got[1]]
      BY <3>6, <3>7, <3>8 DEF Past
    <3>10. Balanced(q.got[2]) /\ Fits(q.got[2].cumSubsidy + q.got[2].cumFee)
      BY <3>6, <3>8, <3>9 DEF RowsBalanced, RewardsFit
    <3>11. QED
      BY <3>10 DEF Balanced, checkSupplyRollupIdentities
  <2>3. ASSUME q.op \in {"DeploymentOverview", "DeploymentByName"}, Answered(q, q.op),
               q.got[1].generation > 0
        PROVE  \E db : /\ Len(q.got) = 3 /\ Last(q.got) = q.got[3] /\ Follows(q, db)
                       /\ q.got[1] = deploymentStateRow(db)
                       /\ db.deps.count = Cardinality(DOMAIN db.deps.rows)
                       /\ \A n \in DOMAIN db.deps.rows : db.deps.rows[n] = db.deps.generation
    <3>1. PICK db : /\ Seen(q.op, db) /\ Follows(q, db)
                    /\ Len(q.got) = Len(Plan(q.op))
      BY <2>1, <2>3, AnswerIs
    <3>2. Len(Plan(q.op)) = 3 /\ Plan(q.op)[1] = "deploymentState"
      BY <2>3 DEF Plan
    <3>3. q.got[1] = Select("deploymentState", db, q, q.got)
      BY <3>1, <3>2 DEF Follows
    <3>4. q.got[1] = deploymentStateRow(db)
      BY <3>3 DEF Select
    <3>5. DepsSound(db.deps)
      BY <2>3, <3>1 DEF Seen, CacheReads
    <3>6. db.deps.generation > 0
      BY <2>3, <3>4 DEF deploymentStateRow
    <3>7. Len(q.got) = 3 /\ Last(q.got) = q.got[3]
      BY <3>1, <3>2 DEF Last
    <3>8. QED
      BY <3>1, <3>4, <3>5, <3>6, <3>7 DEF DepsSound
  <2>4. ASSUME Answered(q, "DeploymentOverview"), q.got[1].generation > 0
        PROVE  DeploymentsIntact(q.got[1], q.got[3])
    <3>1. q.op = "DeploymentOverview" /\ Answered(q, q.op)
      BY <2>4 DEF Answered
    <3>2. PICK db : /\ Len(q.got) = 3 /\ Follows(q, db)
                    /\ q.got[1] = deploymentStateRow(db)
                    /\ db.deps.count = Cardinality(DOMAIN db.deps.rows)
                    /\ \A n \in DOMAIN db.deps.rows : db.deps.rows[n] = db.deps.generation
      BY <2>3, <2>4, <3>1
    <3>3. q.got[3] = Select("deployments", db, q, q.got)
      BY <3>1, <3>2 DEF Follows, Plan
    <3>4. q.got[3] = db.deps.rows
      BY <3>3 DEF Select, deploymentRows
    <3>5. QED
      BY <3>2, <3>4 DEF DeploymentsIntact, deploymentStateRow
  <2>5. ASSUME Answered(q, "DeploymentByName"), q.got[1].generation > 0
        PROVE  q.got[3] = q.got[1].generation
    <3>1. q.op = "DeploymentByName" /\ Answered(q, q.op) /\ Last(q.got) # NoRow
      BY <2>5 DEF Answered
    <3>2. PICK db : /\ Len(q.got) = 3 /\ Follows(q, db) /\ Last(q.got) = q.got[3]
                    /\ q.got[1] = deploymentStateRow(db)
                    /\ \A n \in DOMAIN db.deps.rows : db.deps.rows[n] = db.deps.generation
      BY <2>3, <2>5, <3>1
    <3>3. q.got[3] = Select("deployment", db, q, q.got)
      BY <3>1, <3>2 DEF Follows, Plan
    <3>4. q.got[3] = deploymentRow(db, q.arg)
      BY <3>3 DEF Select
    <3>5. QED
      BY <3>1, <3>2, <3>4 DEF deploymentRow, deploymentStateRow
  <2>6. QED
    BY <2>2, <2>4, <2>5
<1>2. QED
  BY <1>1, RequestsInvariant, PTL

\* LIMIT.
LEMMA FirstRowsIs ==
  ASSUME NEW S, NEW list \in Seq(S), NEW n \in Nat, NEW page, page = FirstRows(list, n)
  PROVE  /\ page \in Seq(S) /\ DOMAIN page = 1..Len(page) /\ Len(page) \in Nat
         /\ Len(page) <= Len(list) /\ Len(page) <= n
         /\ Len(page) = Len(list) \/ Len(page) = n
         /\ \A i \in 1..Len(page) : page[i] = list[i]
<1> DEFINE m == IF Len(list) < n THEN Len(list) ELSE n
<1>1. Len(list) \in Nat /\ m \in 0..Len(list) /\ m <= n /\ (m = Len(list) \/ m = n)
  OBVIOUS
<1>2. Min({Len(list), n}) = m
  BY <1>1 DEF Min
<1> HIDE DEF m
<1>3. page = SubSeq(list, 1, m)
  BY <1>2 DEF FirstRows
<1>4. page \in Seq(S) /\ Len(page) = m /\ \A i \in 1..m : page[i] = list[i]
  BY <1>1, <1>3
<1>5. DOMAIN page = 1..Len(page)
  BY <1>4
<1>6. QED
  BY <1>1, <1>4, <1>5

\* The rich list holds the balances of its addresses and, unless it is full,
\* every address with a positive one.
LEMMA RichListIs ==
  ASSUME NEW db, db.addresses \in [Address -> AddressRow \cup {NoRow}],
         NEW list, list = richListEntriesFrom(db)
  PROVE  /\ \A i \in DOMAIN list :
               list[i].balance = addressSummaryFrom(db, list[i].address).balance
         /\ \A a \in Address :
               addressSummaryFrom(db, a).balance > 0 /\ Len(list) < RichListLimit =>
                 \E i \in DOMAIN list : list[i].address = a
<1> DEFINE balance(a) == addressSummaryFrom(db, a).balance
           S == {a \in Address : balance(a) > 0}
           Before(a, b) == \/ balance(a) > balance(b)
                           \/ balance(a) = balance(b) /\ textRank[a] < textRank[b]
           count(x) == Cardinality({y \in S : Before(y, x)})
           rich == OrderBy(S, LAMBDA a, b : \/ balance(a) > balance(b)
                                            \/ balance(a) = balance(b) /\ textRank[a] < textRank[b])
           R == {p \in S \X S : Before(p[1], p[2])}
           k == [a \in S |-> balance(a)]
           l == [a \in S |-> 0 - textRank[a]]
           entries == [i \in DOMAIN rich |-> [address |-> rich[i], balance |-> balance(rich[i])]]
<1>1. ASSUME NEW a \in Address PROVE balance(a) \in Nat /\ textRank[a] \in Nat
  <2>1. db.addresses[a] \in AddressRow \cup {NoRow}
    OBVIOUS
  <2>2. balance(a) = IF db.addresses[a] = NoRow THEN 0 ELSE db.addresses[a].balance
    BY DEF addressSummaryFrom
  <2>3. balance(a) \in Nat
    BY <2>1, <2>2 DEF AddressRow
  <2>4. QED
    BY <2>3, QueryAssumption
<1>2. list = FirstRows(entries, RichListLimit)
  BY DEF richListEntriesFrom
<1>3. rich = [i \in 1..Cardinality(S) |-> CHOOSE x \in S : count(x) = i - 1]
  BY DEF OrderBy
<1>4. IsFiniteSet(S) /\ S \subseteq Address
  BY FiniteRowsAssumption, FS_Subset
<1> HIDE DEF rich, balance
<1>5. ASSUME NEW x \in S PROVE count(x) = Rank(x, R, S)
  <2>1. {y \in S : Before(y, x)} = InFront(x, R, S)
    BY DEF InFront
  <2>2. QED
    BY <2>1 DEF Rank
<1>6. Orders(R, S)
  <2>1. \A x \in S : k[x] \in Int /\ l[x] \in Int
    BY <1>1, <1>4
  <2>2. \A x, y \in S : k[x] = k[y] /\ l[x] = l[y] => x = y
    BY <1>1, <1>4, QueryAssumption
  <2>3. \A x, y \in S : <<x, y>> \in R <=> k[x] > k[y] \/ (k[x] = k[y] /\ l[x] > l[y])
    BY <1>1, <1>4
  <2> HIDE DEF S, R, k, l
  <2>4. QED
    BY <2>1, <2>2, <2>3, TwoKeysOrder
<1> HIDE DEF S, R, k, l, count
<1>7. ASSUME NEW i \in 1..Cardinality(S), \E x \in S : Rank(x, R, S) = i - 1
      PROVE  rich[i] \in S /\ Rank(rich[i], R, S) = i - 1
  <2>1. \E x \in S : count(x) = i - 1
    BY <1>5, <1>7
  <2>2. rich[i] \in S /\ count(rich[i]) = i - 1
    BY <1>3, <2>1
  <2>3. QED
    BY <1>5, <2>2
<1>8. Lists(rich, R, S)
  <2>1. rich = [i \in 1..Cardinality(S) |-> rich[i]]
    BY <1>3
  <2>2. QED
    BY <1>4, <1>6, <1>7, <2>1, OrderLists
<1> DEFINE n == Len(rich)
           m == Len(list)
           Entry == [address : Address, balance : Nat]
<1>9. n \in Nat /\ DOMAIN rich = 1..n /\ \A i \in 1..n : rich[i] \in Address
  BY <1>4, <1>8 DEF Lists
<1>10. entries \in Seq(Entry) /\ Len(entries) = n
  BY <1>1, <1>9
<1>11. ASSUME NEW i \in 1..n
       PROVE  entries[i].address = rich[i] /\ entries[i].balance = balance(rich[i])
  BY <1>9
<1> HIDE DEF entries, Entry, n
<1>12. RichListLimit \in Nat
  BY QueryAssumption
<1>13. /\ DOMAIN list = 1..m /\ m \in Nat /\ m <= n /\ (m = n \/ m = RichListLimit)
       /\ \A i \in 1..m : list[i] = entries[i]
  BY <1>2, <1>10, <1>12, FirstRowsIs
<1> HIDE DEF m
<1>14. ASSUME NEW i \in DOMAIN list
       PROVE  list[i].address = rich[i] /\ list[i].balance = balance(rich[i])
  <2>1. i \in 1..n /\ list[i] = entries[i]
    BY <1>9, <1>13
  <2>2. QED
    BY <1>11, <2>1
<1>15. ASSUME NEW a \in Address, balance(a) > 0, m < RichListLimit
       PROVE  \E i \in DOMAIN list : list[i].address = a
  <2>1. a \in S
    BY <1>15 DEF S
  <2>2. PICK i \in 1..n : rich[i] = a
    BY <1>8, <2>1 DEF Lists, n
  <2>3. m = n
    BY <1>12, <1>13, <1>15
  <2>4. i \in DOMAIN list
    BY <1>13, <2>3
  <2>5. QED
    BY <1>14, <2>2, <2>4
<1>16. QED
  BY <1>14, <1>15 DEF balance, m

LEMMA TipOnBranch ==
  ASSUME NEW db, Committed(db)
  PROVE  db.canonical # {} => Tip(db.canonical) # NoBlock
<1> SUFFICES ASSUME db.canonical # {} PROVE Tip(db.canonical) # NoBlock
  OBVIOUS
<1> DEFINE S == db.canonical
           heights == {height[b] : b \in S}
<1>1. S \subseteq Block /\ IsFiniteSet(S) /\ S # {}
  BY DEF Committed
<1>2. IsFiniteSet(heights) /\ heights \subseteq Int /\ heights # {}
  <2>1. \A y \in heights : \E x \in S : y = height[x]
    OBVIOUS
  <2>2. heights \subseteq Int /\ heights # {}
    BY <1>1, TreeAssumption
  <2> HIDE DEF heights
  <2>3. QED
    BY <1>1, <2>1, <2>2, FiniteImage
<1>3. PICK h \in heights : \A y \in heights : h >= y
  <2> HIDE DEF heights
  <2> QED BY <1>2, FiniteHasEnds
<1>4. PICK t \in S : height[t] = h
  BY <1>3
<1>5. \A c \in S : height[c] <= height[t]
  BY <1>1, <1>3, <1>4, TreeAssumption
<1>6. Tip(S) \in S
  BY <1>1, <1>5 DEF Tip
<1>7. QED
  BY <1>1, <1>6, TreeAssumption

LEMMA TotalsAgree ==
  ASSUME NEW db, Committed(db), NEW a
  PROVE  addressSummaryFrom(db, a) = TotalsOn(db.canonical, a)
  BY DEF Committed, TotalsOn, addressSummaryFrom

\* A complete answer is what the branch of the tables it was selected from
\* has to say.
LEMMA AnswerFits ==
  ASSUME NEW q, NEW db, Committed(db), Follows(q, db), q.op \notin CacheReads,
         \A i \in 1..(Len(q.got) - 1) : q.got[i] # NoRow, Last(q.got) # NoRow, Len(q.got) >= 1,
         Len(q.got) = Len(Plan(q.op)) \/ (q.op = "SupplyOverview" /\ q.got[1] = NoBlock)
  PROVE  FitsBranch(q, db.canonical)
<1> DEFINE S == db.canonical
           got == q.got
<1>1. CASE q.op = "ExplorerOverview"
  <2>1. Plan(q.op) = <<"status", "recentBlocks">> /\ q.before = NoCursor
    BY <1>1 DEF Plan, Follows, Paged
  <2>2. /\ got[1] = Select("status", db, q, got)
        /\ got[2] = Select("recentBlocks", db, q, got)
    BY <1>1, <2>1 DEF Follows
  <2>3. got[1] = Tip(S) /\ got[2] = recentBlocksFrom(S, NoCursor)
    BY <2>1, <2>2 DEF Select, statusFrom, Committed
  <2>4. QED
    BY <1>1, <2>3 DEF FitsBranch
<1>2. CASE q.op = "AddressDetail"
  <2>1. Plan(q.op) = <<"summary", "history">>
    BY <1>2 DEF Plan
  <2>2. /\ got[1] = Select("summary", db, q, got)
        /\ got[2] = Select("history", db, q, got)
    BY <1>2, <2>1 DEF Follows
  <2>3. got[1] = addressSummaryFrom(db, q.arg) /\ got[2] = addressHistoryFrom(S, q.arg, q.before)
    BY <2>2 DEF Select
  <2>4. got[1] = TotalsOn(S, q.arg)
    BY <2>3, TotalsAgree
  <2>5. QED
    BY <1>2, <2>3, <2>4 DEF FitsBranch
<1>3. CASE q.op = "TransactionByTxID"
  <2>1. Plan(q.op) = <<"transaction", "occurrences", "variant", "outputs">>
    BY <1>3 DEF Plan
  <2>2. /\ got[2] = Select("occurrences", db, q, got)
        /\ got[3] = Select("variant", db, q, got)
        /\ got[4] = Select("outputs", db, q, got)
    BY <1>3, <2>1 DEF Follows
  <2>3. got[2] = txOccurrences(db, q.arg) /\ got[3] = Representatives(got[2]) /\ got[4] = txOutputs(db, q.arg)
    BY <2>2 DEF Select
  <2>4. \A o \in got[2] : o.canonical <=> o.block \in S
    <3> SUFFICES ASSUME NEW o \in got[2] PROVE o.canonical <=> o.block \in S
      OBVIOUS
    <3>1. PICK b : o = [block |-> b, canonical |-> b \in S]
      BY <2>3 DEF txOccurrences
    <3>2. QED
      BY <3>1, Zenon
  <2>5. ASSUME NEW o \in got[2], o.block \in S, NEW v \in got[3] PROVE v.block \in S
    <3>1. o.canonical
      BY <2>4, <2>5
    <3>2. v \in got[2] /\ v.canonical
      BY <2>3, <2>5, <3>1 DEF Representatives
    <3>3. QED
      BY <2>4, <3>2
  <2>6. \A o \in Outs(q.arg) :
          got[4][o] = IF CoinsOn(S)[o] = NoRow THEN "untracked"
                      ELSE IF CoinsOn(S)[o].spentBy = NoTx THEN "unspent" ELSE "spent"
    BY <2>3 DEF txOutputs, Committed
  <2>7. QED
    BY <1>3, <2>4, <2>5, <2>6 DEF FitsBranch
<1>4. CASE q.op = "SupplyOverview"
  <2>1. Plan(q.op) = <<"status", "rollup">> /\ Len(Plan(q.op)) = 2
    BY <1>4 DEF Plan
  <2>2. got[1] = Tip(S)
    <3>1. got[1] = Select("status", db, q, got)
      BY <1>4, <2>1 DEF Follows
    <3>2. QED
      BY <3>1 DEF Select, statusFrom, Committed
  <2>3. ASSUME S # {}
        PROVE  /\ got[2].cumUTXO = ValueOf(UnspentOn(S))
               /\ got[2].cumSubsidy = ScheduledSubsidyThroughHeight(height[Tip(S)])
    <3>1. Tip(S) # NoBlock
      BY <2>3, TipOnBranch
    <3>2. Len(got) = 2
      BY <2>1, <2>2, <3>1
    <3>3. got[2] = Select("rollup", db, q, got)
      BY <1>4, <2>1, <3>2 DEF Follows
    <3>4. got[2] = db.rollup[Tip(S)] /\ got[2] # NoRow /\ Tip(S) = db.checkpoint
      BY <2>2, <3>2, <3>3 DEF Select, Last, Committed
    <3>5. QED
      BY <3>1, <3>4 DEF Committed
  <2>4. QED
    BY <1>4, <2>2, <2>3 DEF FitsBranch
<1>5. CASE q.op = "RichListOverview"
  <2>1. Plan(q.op) = <<"status", "richList">>
    BY <1>5 DEF Plan
  <2>2. /\ got[1] = Select("status", db, q, got)
        /\ got[2] = Select("richList", db, q, got)
    BY <1>5, <2>1 DEF Follows
  <2>3. got[1] = Tip(S) /\ got[2] = richListEntriesFrom(db)
    BY <2>2 DEF Select, statusFrom, Committed
  <2>4. db.addresses \in [Address -> AddressRow \cup {NoRow}]
    BY DEF Committed
  <2>5. /\ \A i \in DOMAIN got[2] :
              got[2][i].balance = addressSummaryFrom(db, got[2][i].address).balance
        /\ \A a \in Address :
              addressSummaryFrom(db, a).balance > 0 /\ Len(got[2]) < RichListLimit =>
                \E i \in DOMAIN got[2] : got[2][i].address = a
    BY <2>3, <2>4, RichListIs
  <2>6. \A a : addressSummaryFrom(db, a) = TotalsOn(S, a)
    BY TotalsAgree
  <2>7. QED
    BY <1>5, <2>3, <2>5, <2>6 DEF FitsBranch
<1>6. CASE q.op = "BlockByHeight"
  <2>1. Plan(q.op)[1] = "blockAtHeight" /\ Len(got) = 2
    BY <1>6 DEF Plan
  <2>2. got[1] = Select("blockAtHeight", db, q, got) /\ got[1] # NoRow
    BY <2>1 DEF Follows
  <2>3. got[1] = BlockAtHeight(db, q.arg)
    BY <2>2 DEF Select
  <2>4. got[1].block \in S /\ height[got[1].block] = q.arg
    BY <2>2, <2>3 DEF BlockAtHeight
  <2>5. QED
    BY <1>6, <2>4 DEF FitsBranch
<1>7. CASE q.op = "BlockByHash"
  <2>1. Plan(q.op)[1] = "blockOfHash" /\ Len(got) = 2
    BY <1>7 DEF Plan
  <2>2. got[1] = Select("blockOfHash", db, q, got) /\ got[1] # NoRow
    BY <2>1 DEF Follows
  <2>3. got[1] = BlockOfHash(db, q.arg)
    BY <2>2 DEF Select
  <2>4. got[1].canonical <=> got[1].block \in S
    <3>1. got[1] = [block |-> q.arg, canonical |-> q.arg \in S]
      BY <2>2, <2>3 DEF BlockOfHash
    <3>2. ASSUME NEW x, NEW y, x = [block |-> y, canonical |-> y \in S]
          PROVE  x.canonical <=> x.block \in S
      <4> HIDE DEF S
      <4> QED BY <3>2, Zenon
    <3> HIDE DEF got, S
    <3>3. QED
      BY <3>1, <3>2, Zenon
  <2>5. QED
    BY <1>7, <2>4 DEF FitsBranch
<1>8. CASE q.op = "RecentBlocks"
  BY <1>8 DEF FitsBranch
<1>9. QED
  BY <1>1, <1>2, <1>3, <1>4, <1>5, <1>6, <1>7, <1>8 DEF Follows, Operation, CacheReads

\* Every answer about the confirmed chain is the truth about one branch, for
\* any number of clients, any tree of blocks and any reorganisations between
\* two statements (readTx and the operations that use it).
THEOREM AnswersCorrect == ReadersSpec => []OneState
<1>1. ClientsOK => OneState
  <2> SUFFICES ASSUME ClientsOK, NEW c \in Client, NEW q, q = client[c], Answered(q, q.op)
               PROVE  \E S \in SUBSET blocks : LinkedChain(S) /\ FitsBranch(q, S)
    BY DEF OneState
  <2>1. PICK db : /\ Seen(q.op, db) /\ Follows(q, db) /\ Last(q.got) # NoRow /\ Len(q.got) >= 1
                  /\ \A i \in 1..(Len(q.got) - 1) : q.got[i] # NoRow
                  /\ \/ Len(q.got) = Len(Plan(q.op))
                     \/ q.op = "SupplyOverview" /\ q.got[1] = NoBlock
                     \/ q.op \in CacheReads
    BY AnswerIs DEF ClientsOK, CacheReads
  <2>2. CASE q.op \notin CacheReads
    <3>1. Committed(db) /\ Past(db)
      BY <2>1, <2>2 DEF Seen
    <3>2. db.canonical \in SUBSET blocks /\ LinkedChain(db.canonical)
      BY <3>1 DEF Committed, Past
    <3>3. FitsBranch(q, db.canonical)
      BY <2>1, <2>2, <3>1, AnswerFits
    <3>4. QED
      BY <3>2, <3>3
  <2>3. CASE q.op \in CacheReads
    <3>1. {} \in SUBSET blocks /\ LinkedChain({})
      BY DEF LinkedChain
    <3>2. FitsBranch(q, {})
      BY <2>3 DEF FitsBranch, CacheReads
    <3>3. QED
      BY <3>1, <3>2
  <2>4. QED
    BY <2>2, <2>3
<1>2. QED
  BY <1>1, RequestsInvariant, PTL

-----------------------------------------------------------------------------
(* Pages of blocks                                                         *)

HighestFirst == {p \in Block \X Block : height[p[1]] > height[p[2]]}

LEMMA BlocksListed ==
  ASSUME NEW T, IsFiniteSet(T), T \subseteq Block, \A b, c \in T : height[b] = height[c] => b = c
  PROVE  Lists(OrderBy(T, LAMBDA b, c : height[b] > height[c]), HighestFirst, T)
<1> DEFINE list == OrderBy(T, LAMBDA b, c : height[b] > height[c])
           R == HighestFirst
           Before(b, c) == height[b] > height[c]
           count(x) == Cardinality({y \in T : Before(y, x)})
<1>1. \A b, c \in T : <<b, c>> \in R <=> height[b] > height[c]
  BY DEF HighestFirst
<1>2. Orders(R, T)
  <2>1. \A b \in T : height[b] \in Nat
    BY TreeAssumption
  <2> HIDE DEF R
  <2>2. QED
    BY <1>1, <2>1 DEF Orders
<1>3. list = [i \in 1..Cardinality(T) |-> CHOOSE x \in T : count(x) = i - 1]
  BY DEF OrderBy
<1>4. ASSUME NEW x \in T PROVE count(x) = Rank(x, R, T)
  <2>1. {y \in T : Before(y, x)} = InFront(x, R, T)
    BY <1>1 DEF InFront
  <2>2. QED
    BY <2>1 DEF Rank
<1> HIDE DEF list, R, count
<1>5. ASSUME NEW i \in 1..Cardinality(T), \E x \in T : Rank(x, R, T) = i - 1
      PROVE  list[i] \in T /\ Rank(list[i], R, T) = i - 1
  <2>1. \E x \in T : count(x) = i - 1
    BY <1>4, <1>5
  <2>2. list[i] \in T /\ count(list[i]) = i - 1
    BY <1>3, <2>1
  <2>3. QED
    BY <1>4, <2>2
<1>6. list = [i \in 1..Cardinality(T) |-> list[i]]
  BY <1>3
<1>7. Lists(list, R, T)
  BY <1>2, <1>5, <1>6, OrderLists
<1>8. QED
  BY <1>7 DEF R, list

\* A page of a linked chain is linked, starts with the highest block below the
\* cursor and, if it is not full, ends at the root.
LEMMA BlockPageIs ==
  ASSUME NEW S, IsFiniteSet(S), S \subseteq Block, LinkedChain(S),
         NEW before, before = NoCursor \/ before \in Nat,
         NEW page, page = recentBlocksFrom(S, before)
  PROVE  /\ page \in Seq(Block) /\ Len(page) <= PageSize
         /\ \A i \in 1..Len(page) : page[i] \in BlocksBelow(S, before)
         /\ \A i \in 1..(Len(page) - 1) :
               height[page[i]] > height[page[i + 1]] /\ prev[page[i]] = page[i + 1]
         /\ Len(page) > 0 => \A b \in BlocksBelow(S, before) : height[b] <= height[page[1]]
         /\ Len(page) # PageSize /\ Len(page) > 0 => prev[page[Len(page)]] = NoBlock
         /\ Len(page) = 0 => BlocksBelow(S, before) = {}
<1> DEFINE T == BlocksBelow(S, before)
           R == HighestFirst
           list == OrderBy(T, LAMBDA b, c : height[b] > height[c])
           n == Len(list)
           m == Len(page)
<1>1. T \in SUBSET S /\ IsFiniteSet(T) /\ T \subseteq Block
  BY FS_Subset DEF BlocksBelow
<1>2. \A b, c \in T : height[b] = height[c] => b = c
  BY <1>1 DEF LinkedChain
<1>3. \A b \in S : height[b] \in Nat
  BY TreeAssumption
<1>4. Lists(list, R, T)
  BY <1>1, <1>2, BlocksListed
<1>5. \A b, c \in T : <<b, c>> \in R <=> height[b] > height[c]
  BY <1>1 DEF HighestFirst
\* T goes down with the chain.
<1>6. ASSUME NEW x \in T, prev[x] \in S
      PROVE  prev[x] \in T /\ height[x] = height[prev[x]] + 1
  <2>1. height[x] = height[prev[x]] + 1
    <3>1. \/ prev[x] = NoBlock /\ \A c \in S : height[x] <= height[c]
          \/ prev[x] \in S /\ height[x] = height[prev[x]] + 1
      BY <1>1 DEF LinkedChain
    <3>2. prev[x] # NoBlock
      BY <1>6, TreeAssumption
    <3>3. QED
      BY <3>1, <3>2
  <2>2. height[prev[x]] < height[x]
    BY <1>3, <1>6, <2>1
  <2>3. before = NoCursor \/ height[x] < before
    BY DEF BlocksBelow
  <2>4. before = NoCursor \/ height[prev[x]] < before
    BY <1>1, <1>3, <1>6, <2>2, <2>3
  <2>5. QED
    BY <1>6, <2>1, <2>4 DEF BlocksBelow
<1>7. PageSize \in Nat /\ PageSize > 0
  BY QueryAssumption
<1>8. page = FirstRows(list, PageSize)
  BY DEF recentBlocksFrom
<1> HIDE DEF T, R, list
<1>9. /\ list \in Seq(T) /\ n \in Nat /\ n = Cardinality(T)
      /\ \A i, j \in 1..n : <<list[i], list[j]>> \in R <=> i < j
      /\ \A x \in T : \E i \in 1..n : list[i] = x
  BY <1>4 DEF Lists
<1>10. \A i \in 1..n : list[i] \in T
  BY <1>9
<1>11. /\ page \in Seq(T) /\ m \in Nat /\ m <= n /\ m <= PageSize /\ (m = n \/ m = PageSize)
       /\ \A i \in 1..m : page[i] = list[i]
  BY <1>7, <1>8, <1>9, FirstRowsIs
<1> HIDE DEF n, m
<1>12. ASSUME NEW i \in 1..m PROVE page[i] \in T /\ page[i] = list[i] /\ i \in 1..n
  BY <1>9, <1>10, <1>11
<1>13. ASSUME NEW i \in 1..n, NEW j \in 1..n PROVE height[list[i]] > height[list[j]] <=> i < j
  BY <1>5, <1>9, <1>10
<1>14. ASSUME NEW i \in 1..(m - 1)
       PROVE  height[page[i]] > height[page[i + 1]] /\ prev[page[i]] = page[i + 1]
  <2> DEFINE x == list[i]
             y == list[i + 1]
  <2>1. i \in 1..n /\ i + 1 \in 1..n /\ page[i] = x /\ page[i + 1] = y /\ x \in T /\ y \in T
    BY <1>9, <1>10, <1>11
  <2>2. height[x] > height[y]
    BY <1>13, <2>1
  <2>3. x \in S /\ y \in S /\ height[x] \in Nat /\ height[y] \in Nat
    BY <1>1, <1>3, <2>1
  <2> HIDE DEF x, y
  <2>4. prev[x] \in S
    BY <2>2, <2>3 DEF LinkedChain
  <2>5. prev[x] \in T /\ height[x] = height[prev[x]] + 1
    BY <1>6, <2>1, <2>4
  <2>6. PICK j \in 1..n : list[j] = prev[x]
    BY <1>9, <2>5
  <2>7. height[prev[x]] \in Nat
    BY <1>3, <2>4
  <2>8. ~ (height[y] > height[prev[x]])
    BY <2>2, <2>3, <2>5, <2>7
  <2>9. i < j
    BY <1>13, <2>1, <2>3, <2>5, <2>6, <2>7 DEF x
  <2>10. ~ (i + 1 < j)
    BY <1>13, <2>1, <2>6, <2>8 DEF y
  <2>11. j = i + 1
    BY <1>9, <2>9, <2>10
  <2>12. QED
    BY <2>1, <2>2, <2>6, <2>11 DEF y
<1>15. ASSUME m > 0, NEW b \in T PROVE height[b] <= height[page[1]]
  <2>1. PICK j \in 1..n : list[j] = b
    BY <1>9
  <2>2. 1 \in 1..m /\ 1 \in 1..n /\ page[1] = list[1] /\ page[1] \in T
    BY <1>9, <1>11, <1>12, <1>15
  <2>3. ~ (height[list[j]] > height[list[1]])
    BY <1>13, <2>1, <2>2
  <2>4. height[b] \in Nat /\ height[page[1]] \in Nat
    BY <1>1, <1>3, <2>2
  <2>5. QED
    BY <2>1, <2>2, <2>3, <2>4
<1>16. ASSUME m # PageSize, m > 0 PROVE prev[page[m]] = NoBlock
  <2> DEFINE x == page[m]
  <2>1. m = n /\ m \in 1..m /\ x \in T /\ x = list[n]
    BY <1>11, <1>12, <1>16
  <2> HIDE DEF x
  <2>2. ASSUME prev[x] \in S PROVE FALSE
    <3>1. prev[x] \in T /\ height[x] = height[prev[x]] + 1
      BY <1>6, <2>1, <2>2
    <3>2. PICK j \in 1..n : list[j] = prev[x]
      BY <1>9, <3>1
    <3>3. height[prev[x]] \in Nat
      BY <1>3, <2>2
    <3>4. height[list[n]] > height[list[j]]
      BY <2>1, <3>1, <3>2, <3>3
    <3>5. n < j
      BY <1>11, <1>13, <2>1, <3>4
    <3>6. QED
      BY <1>9, <3>5
  <2>3. QED
    BY <1>1, <2>1, <2>2 DEF LinkedChain, x
<1>17. ASSUME m = 0 PROVE T = {}
  BY <1>7, <1>9, <1>11, <1>17
<1>18. page \in Seq(Block)
  BY <1>1, <1>11
<1>19. QED
  BY <1>11, <1>12, <1>14, <1>15, <1>16, <1>17, <1>18 DEF T, m

LEMMA Joined ==
  ASSUME NEW S, NEW s \in Seq(S), NEW t \in Seq(S), NEW u, u = s \o t
  PROVE  /\ u \in Seq(S) /\ Len(u) = Len(s) + Len(t) /\ Len(s) \in Nat /\ Len(t) \in Nat
         /\ \A i \in 1..Len(s) : u[i] = s[i]
         /\ \A i \in 1..Len(t) : u[Len(s) + i] = t[i]
         /\ \A i \in 1..Len(u) : i \in 1..Len(s) \/ i - Len(s) \in 1..Len(t)
  OBVIOUS

\* The blocks a client has put together: each one lower than the one before it
\* and, unless a reorganisation came between two pages, its parent.
BlockWalk(pages, torn) ==
  /\ pages \in Seq(Block)
  /\ \A i \in 1..(Len(pages) - 1) :
        /\ height[pages[i]] > height[pages[i + 1]]
        /\ ~torn => prev[pages[i]] = pages[i + 1]

\* The cursor is behind the last of the pages, which is still on branch S.
BlockCursor(pages, before, torn, S) ==
  \/ before = NoCursor /\ pages = << >>
  \/ /\ before \in Nat /\ Len(pages) > 0 /\ before = height[Last(pages)]
     /\ ~torn => Last(pages) \in S

\* What the last page says of the end of the list.
BlockEnd(pages, page, torn) ==
  /\ page \in Seq(Block)
  /\ Len(page) = PageSize => Len(pages) > 0 /\ Last(pages) = Last(page)
  /\ ~torn /\ Len(pages) > 0 /\ (Len(page) # PageSize \/ height[Last(page)] = 0) =>
        prev[Last(pages)] = NoBlock

LEMMA BlockWalkGoesOn ==
  ASSUME NEW S, IsFiniteSet(S), S \subseteq Block, LinkedChain(S),
         NEW pages, NEW before, NEW torn, BlockWalk(pages, torn), BlockCursor(pages, before, torn, S),
         NEW page, page = recentBlocksFrom(S, before), NEW all, all = pages \o page
  PROVE  BlockWalk(all, torn) /\ BlockEnd(all, page, torn)
<1> DEFINE n == Len(pages)
           m == Len(page)
           T == BlocksBelow(S, before)
<1>1. before = NoCursor \/ before \in Nat
  BY DEF BlockCursor
<1>2. /\ page \in Seq(Block) /\ Len(page) <= PageSize
      /\ \A i \in 1..m : page[i] \in T
      /\ \A i \in 1..(m - 1) : height[page[i]] > height[page[i + 1]] /\ prev[page[i]] = page[i + 1]
      /\ m > 0 => \A b \in T : height[b] <= height[page[1]]
      /\ m # PageSize /\ m > 0 => prev[page[m]] = NoBlock
      /\ m = 0 => T = {}
  BY <1>1, BlockPageIs
<1>3. /\ \A b \in T : b \in S /\ (before = NoCursor \/ height[b] < before)
      /\ \A b \in S : height[b] < before => b \in T
  BY DEF BlocksBelow
<1>4. pages \in Seq(Block) /\ PageSize \in Nat /\ PageSize > 0 /\ \A b \in S : height[b] \in Nat
  BY QueryAssumption, TreeAssumption DEF BlockWalk
<1>5. /\ all \in Seq(Block) /\ Len(all) = n + m /\ n \in Nat /\ m \in Nat
      /\ \A i \in 1..n : all[i] = pages[i]
      /\ \A i \in 1..m : all[n + i] = page[i]
  BY <1>2, <1>4, Joined
<1> HIDE DEF T, n, m
\* Where the new page meets the old ones.
<1>6. ASSUME n > 0
      PROVE  /\ before \in Nat /\ before = height[pages[n]]
             /\ ~torn => pages[n] \in S
  BY <1>6 DEF BlockCursor, Last, n
<1>7. ASSUME n > 0, m > 0 PROVE height[pages[n]] > height[page[1]]
  <2>1. page[1] \in T /\ page[1] \in S
    BY <1>2, <1>3, <1>5, <1>7
  <2>2. height[page[1]] < before
    <3>1. before # NoCursor
      BY <1>6, <1>7, QueryAssumption
    <3>2. QED
      BY <1>3, <2>1, <3>1
  <2>3. QED
    BY <1>4, <1>6, <1>7, <2>1, <2>2
<1>8. ASSUME n > 0, ~torn, prev[pages[n]] \in S
      PROVE  prev[pages[n]] \in T /\ height[pages[n]] = height[prev[pages[n]]] + 1
  <2> DEFINE y == pages[n]
  <2>1. y \in S /\ prev[y] \in S /\ before = height[y]
    BY <1>6, <1>8
  <2> HIDE DEF y
  <2>2. prev[y] # NoBlock
    BY <2>1, TreeAssumption
  <2>3. height[y] = height[prev[y]] + 1
    BY <2>1, <2>2 DEF LinkedChain
  <2>4. height[prev[y]] < before
    BY <1>4, <2>1, <2>3
  <2>5. QED
    BY <1>3, <2>1, <2>3, <2>4 DEF y
<1>9. ASSUME n > 0, m > 0, ~torn PROVE prev[pages[n]] = page[1]
  <2> DEFINE y == pages[n]
             z == page[1]
  <2>1. y \in S /\ z \in S /\ z \in T /\ height[z] < height[y]
    <3>1. 1 \in 1..m
      BY <1>5, <1>9
    <3>2. z \in T
      BY <1>2, <3>1
    <3>3. QED
      BY <1>3, <1>4, <1>6, <1>7, <1>9, <3>2
  <2>2. y = pages[n] /\ z = page[1]
    OBVIOUS
  <2> HIDE DEF y, z
  <2>3. height[y] \in Nat /\ height[z] \in Nat
    BY <1>4, <2>1
  <2>4. prev[y] \in S
    BY <2>1, <2>3 DEF LinkedChain
  <2>5. prev[y] \in T /\ height[y] = height[prev[y]] + 1
    BY <1>8, <1>9, <2>2, <2>4
  <2>6. height[prev[y]] <= height[z] /\ height[prev[y]] \in Nat
    BY <1>2, <1>4, <1>9, <2>2, <2>4, <2>5
  <2>7. height[prev[y]] = height[z]
    BY <2>1, <2>3, <2>5, <2>6
  <2>8. QED
    BY <2>1, <2>2, <2>4, <2>7 DEF LinkedChain
<1>10. BlockWalk(all, torn)
  <2>1. ASSUME NEW i \in 1..(Len(all) - 1)
        PROVE  /\ height[all[i]] > height[all[i + 1]]
               /\ ~torn => prev[all[i]] = all[i + 1]
    <3>1. CASE i < n
      <4>1. all[i] = pages[i] /\ all[i + 1] = pages[i + 1] /\ i \in 1..(n - 1)
        BY <1>5, <3>1
      <4>2. QED
        BY <4>1 DEF BlockWalk, n
    <3>2. CASE i = n
      <4>1. 1 \in 1..m /\ n \in 1..n /\ n > 0 /\ m > 0
        BY <1>5, <3>2
      <4>2. all[i] = pages[n] /\ all[i + 1] = page[1]
        BY <1>5, <3>2, <4>1
      <4>3. QED
        BY <1>7, <1>9, <4>1, <4>2
    <3>3. CASE i > n
      <4> DEFINE j == i - n
      <4>1. j \in 1..(m - 1) /\ j \in 1..m /\ j + 1 \in 1..m /\ i = n + j /\ i + 1 = n + (j + 1)
        BY <1>5, <3>3
      <4> HIDE DEF j
      <4>2. all[i] = page[j] /\ all[i + 1] = page[j + 1]
        BY <1>5, <4>1
      <4>3. QED
        BY <1>2, <4>1, <4>2
    <3>4. QED
      BY <1>5, <3>1, <3>2, <3>3
  <2>2. QED
    BY <1>5, <2>1 DEF BlockWalk
<1>11. Last(all) = all[n + m] /\ Last(page) = page[m]
  BY <1>5 DEF Last, m
<1>12. ASSUME m > 0 PROVE Last(all) = Last(page) /\ Len(all) > 0 /\ Last(page) \in S
  <2>1. m \in 1..m
    BY <1>5, <1>12
  <2>2. QED
    BY <1>2, <1>3, <1>5, <1>11, <1>12, <2>1
<1>13. ASSUME ~torn, Len(all) > 0, m # PageSize \/ height[Last(page)] = 0
       PROVE  prev[Last(all)] = NoBlock
  <2>1. CASE m = 0
    <3>1. n > 0 /\ Last(all) = pages[n]
      <4>1. n > 0 /\ n \in 1..n /\ n + m = n
        BY <1>5, <1>13, <2>1
      <4>2. QED
        BY <1>5, <1>11, <4>1
    <3>2. pages[n] \in S /\ prev[pages[n]] \notin S
      BY <1>2, <1>6, <1>8, <1>13, <2>1, <3>1
    <3>3. QED
      BY <3>1, <3>2 DEF LinkedChain
  <2>2. CASE m > 0 /\ m # PageSize
    BY <1>2, <1>11, <1>12, <2>2
  <2>3. CASE m > 0 /\ height[Last(page)] = 0
    <3> DEFINE x == Last(page)
    <3>1. x \in S /\ height[x] = 0 /\ Last(all) = x
      BY <1>12, <2>3
    <3> HIDE DEF x
    <3>2. ~ (prev[x] \in S /\ height[x] = height[prev[x]] + 1)
      BY <1>4, <3>1
    <3>3. QED
      BY <3>1, <3>2 DEF LinkedChain
  <2>4. QED
    BY <1>5, <1>13, <2>1, <2>2, <2>3
<1>14. BlockEnd(all, page, torn)
  BY <1>2, <1>4, <1>5, <1>12, <1>13 DEF BlockEnd, m
<1>15. QED
  BY <1>10, <1>14

-----------------------------------------------------------------------------
(* Lists that are read page by page                                        *)

Begins(pages, list) ==
  /\ \E E : pages \in Seq(E) /\ list \in Seq(E)
  /\ Len(pages) <= Len(list)
  /\ \A i \in 1..Len(pages) : pages[i] = list[i]

LEMMA BeginsIsPrefix ==
  ASSUME NEW pages, NEW list, Begins(pages, list)
  PROVE  IsPrefix(pages, list)
<1>1. PICK E : pages \in Seq(E) /\ list \in Seq(E)
  BY DEF Begins
<1>2. Len(pages) \in Nat /\ Len(list) \in Nat /\ Len(pages) <= Len(list)
  BY <1>1 DEF Begins
<1> DEFINE s == SubSeq(pages, 1, Len(pages))
           t == SubSeq(list, 1, Len(pages))
<1>3. s \in Seq(E) /\ t \in Seq(E) /\ Len(s) = Len(pages) /\ Len(t) = Len(pages)
  BY <1>1, <1>2
<1>4. \A i \in 1..Len(pages) : s[i] = t[i]
  BY <1>1, <1>2 DEF Begins
<1> HIDE DEF s, t
<1>5. s = t
  BY <1>3, <1>4
<1>6. QED
  BY <1>2, <1>5 DEF IsPrefix, s, t

LEMMA SameSequence ==
  ASSUME NEW S, NEW s \in Seq(S), NEW t \in Seq(S), Len(s) = Len(t), \A i \in 1..Len(s) : s[i] = t[i]
  PROVE  s = t
  OBVIOUS

\* A finite set has one list in a given order.
LEMMA OneList ==
  ASSUME NEW S, IsFiniteSet(S), NEW R, Orders(R, S), NEW s, Lists(s, R, S), NEW t, Lists(t, R, S)
  PROVE  Len(s) = Len(t) /\ \A i \in 1..Len(s) : s[i] = t[i]
<1>1. s \in Seq(S) /\ t \in Seq(S) /\ Len(s) = Len(t) /\ Len(s) \in Nat
  BY DEF Lists
<1>2. ASSUME NEW i \in 1..Len(s) PROVE s[i] = t[i]
  <2>1. s[i] \in S /\ t[i] \in S
    BY <1>1
  <2>2. Rank(s[i], R, S) = i - 1 /\ Rank(t[i], R, S) = i - 1
    BY <1>1 DEF Lists
  <2>3. /\ ~ (Rank(s[i], R, S) < Rank(t[i], R, S))
        /\ ~ (Rank(t[i], R, S) < Rank(s[i], R, S))
    BY <2>2
  <2>4. <<s[i], t[i]>> \notin R /\ <<t[i], s[i]>> \notin R
    BY <2>1, <2>3, Ranks
  <2>5. QED
    BY <2>1, <2>4 DEF Orders
<1>3. QED
  BY <1>1, <1>2

\* T is what of S comes behind the pages.
Remains(T, S, R, pages) ==
  \A x : x \in T <=> x \in S /\ (Len(pages) = 0 \/ <<pages[Len(pages)], x>> \in R)

\* With page, all of the pages still begin the list.
Grown(all, page, list, T) ==
  /\ Begins(all, list) /\ page \in Seq(T)
  /\ Len(page) # PageSize => all = list
  /\ Len(page) = PageSize => Len(all) > 0 /\ Last(all) = Last(page)

\* The rows behind the last one a client has, in order and up to a page of
\* them, continue its list; a page that is not full completes it.
LEMMA ListGoesOn ==
  ASSUME NEW S, IsFiniteSet(S), NEW R, Orders(R, S), NEW list, Lists(list, R, S),
         NEW pages, Begins(pages, list), NEW T, Remains(T, S, R, pages),
         NEW tail, Lists(tail, R, T),
         NEW page, page = FirstRows(tail, PageSize), NEW all, all = pages \o page
  PROVE  Grown(all, page, list, T)
<1> DEFINE n == Len(pages)
           m == Len(page)
<1>1. list \in Seq(S) /\ tail \in Seq(T) /\ Len(list) \in Nat /\ Len(tail) \in Nat
  BY DEF Lists
<1>2. n \in Nat /\ n <= Len(list) /\ \A i \in 1..n : pages[i] = list[i]
  BY DEF Begins
<1>3. /\ Len(list) = n + Len(tail)
      /\ \A i \in 1..Len(tail) : tail[i] = list[n + i]
  <2>1. CASE n = 0
    <3>1. T = S
      BY <2>1 DEF Remains
    <3>2. Len(list) = Len(tail) /\ \A i \in 1..Len(list) : list[i] = tail[i]
      BY <3>1, OneList
    <3>3. \A i \in 1..Len(tail) : tail[i] = list[0 + i]
      BY <1>1, <3>2
    <3>4. QED
      BY <1>1, <2>1, <3>2, <3>3
  <2>2. CASE n # 0
    <3>1. n \in 1..Len(list) /\ pages[n] = list[n]
      BY <1>1, <1>2, <2>2
    <3> HIDE DEF n
    <3>2. \A x : x \in T <=> x \in S /\ <<list[n], x>> \in R
      BY <2>2, <3>1 DEF n, Remains
    <3>3. ASSUME NEW k \in 1..Len(list), \A x : x \in T <=> x \in S /\ <<list[k], x>> \in R
          PROVE  /\ Len(list) = k + Len(tail)
                 /\ \A i \in 1..Len(tail) : tail[i] = list[k + i]
      BY <3>3, ListTail
    <3>4. QED
      BY <3>1, <3>2, <3>3
  <2>3. QED
    BY <2>1, <2>2
<1>4. PageSize \in Nat /\ PageSize > 0
  BY QueryAssumption
<1>5. /\ page \in Seq(T) /\ m \in Nat /\ m <= Len(tail) /\ m <= PageSize
      /\ m = Len(tail) \/ m = PageSize
      /\ \A i \in 1..m : page[i] = tail[i]
  BY <1>1, <1>4, FirstRowsIs
<1>6. pages \in Seq(S) /\ page \in Seq(S)
  <2>1. T \subseteq S
    BY DEF Remains
  <2>2. pages \in Seq(S)
    <3>1. PICK E : pages \in Seq(E)
      BY DEF Begins
    <3>2. \A i \in 1..n : pages[i] \in S
      BY <1>1, <1>2
    <3>3. QED
      BY <3>1, <3>2
  <2>3. QED
    BY <1>5, <2>1, <2>2
<1>7. /\ all \in Seq(S) /\ Len(all) = n + m
      /\ \A i \in 1..n : all[i] = pages[i]
      /\ \A i \in 1..m : all[n + i] = page[i]
      /\ \A i \in 1..Len(all) : i \in 1..n \/ i - n \in 1..m
  BY <1>6, Joined
<1> HIDE DEF n, m
<1>8. ASSUME NEW i \in 1..Len(all) PROVE all[i] = list[i]
  <2>1. CASE i \in 1..n
    BY <1>2, <1>7, <2>1
  <2>2. CASE i - n \in 1..m
    <3> DEFINE j == i - n
    <3>1. j \in 1..m /\ j \in 1..Len(tail) /\ i = n + j
      BY <1>1, <1>2, <1>5, <1>7, <2>2
    <3> HIDE DEF j
    <3>2. all[i] = tail[j] /\ tail[j] = list[i]
      BY <1>3, <1>5, <1>7, <3>1
    <3>3. QED
      BY <3>2
  <2>3. QED
    BY <1>7, <2>1, <2>2
<1>9. Len(all) <= Len(list) /\ (m # PageSize => Len(all) = Len(list))
  BY <1>1, <1>2, <1>3, <1>5, <1>7
<1>10. Begins(all, list)
  BY <1>1, <1>7, <1>8, <1>9 DEF Begins
<1>11. ASSUME m # PageSize PROVE all = list
  <2>1. Len(all) = Len(list)
    BY <1>9, <1>11
  <2>2. QED
    BY <1>1, <1>7, <1>8, <2>1, SameSequence
<1>12. ASSUME m = PageSize PROVE Len(all) > 0 /\ Last(all) = Last(page)
  <2>1. m \in 1..m /\ m > 0
    BY <1>4, <1>5, <1>12
  <2>2. all[n + m] = page[m] /\ Len(all) > 0
    BY <1>2, <1>5, <1>7, <2>1
  <2>3. QED
    BY <1>7, <2>2 DEF Last, m
<1>13. QED
  BY <1>5, <1>10, <1>11, <1>12 DEF Grown, m

-----------------------------------------------------------------------------
(* Pages of the mempool                                                    *)

PoolEntry == [tx : Tx, time : Nat]
NewestFirst == {p \in PoolEntry \X PoolEntry : PoolBehind(p[2], p[1])}
Rows(rows) ==
  IsFiniteSet(DOMAIN rows) /\ DOMAIN rows \subseteq Tx /\ rows \in [DOMAIN rows -> Nat]

LEMMA PoolEntriesAre ==
  ASSUME NEW rows, Rows(rows)
  PROVE  /\ PoolEntries(rows) \subseteq PoolEntry
         /\ IsFiniteSet(PoolEntries(rows))
         /\ Cardinality(PoolEntries(rows)) = Cardinality(DOMAIN rows)
<1> DEFINE D == DOMAIN rows
           E == PoolEntries(rows)
           f == [t \in D |-> [tx |-> t, time |-> rows[t]]]
<1>1. E = {[tx |-> t, time |-> rows[t]] : t \in D}
  BY DEF PoolEntries
<1>2. E \subseteq PoolEntry
  BY <1>1 DEF Rows, PoolEntry
<1>3. f \in Surjection(D, E)
  BY <1>1 DEF Surjection
<1>4. f \in Injection(D, E)
  <2>1. f \in [D -> E]
    BY <1>1
  <2>2. ASSUME NEW t \in D, NEW u \in D, f[t] = f[u] PROVE t = u
    <3>1. f[t].tx = t /\ f[u].tx = u
      OBVIOUS
    <3>2. QED
      BY <2>2, <3>1
  <2> HIDE DEF f
  <2>3. QED
    BY <2>1, <2>2 DEF Injection, IsInjective
<1> HIDE DEF f, E
<1>5. IsFiniteSet(D)
  BY DEF Rows
<1>6. IsFiniteSet(E) /\ Cardinality(E) = Cardinality(D)
  BY <1>3, <1>4, <1>5, FS_Surjection
<1>7. QED
  BY <1>2, <1>6 DEF E

LEMMA PoolOrders ==
  ASSUME NEW S, S \subseteq PoolEntry
  PROVE  Orders(NewestFirst, S)
<1> DEFINE k == [e \in S |-> e.time]
           l == [e \in S |-> textRank[e.tx]]
           R == NewestFirst
<1>1. \A e \in S : k[e] \in Int /\ l[e] \in Int
  BY QueryAssumption DEF PoolEntry
<1>2. ASSUME NEW e \in S, NEW f \in S, k[e] = k[f], l[e] = l[f] PROVE e = f
  <2>1. e.time = f.time /\ textRank[e.tx] = textRank[f.tx]
    BY <1>2
  <2>2. e.tx \in Tx /\ f.tx \in Tx
    BY DEF PoolEntry
  <2>3. e.tx = f.tx
    BY <2>1, <2>2, QueryAssumption
  <2>4. e = [tx |-> e.tx, time |-> e.time] /\ f = [tx |-> f.tx, time |-> f.time]
    BY DEF PoolEntry
  <2>5. QED
    BY <2>1, <2>3, <2>4
<1>3. ASSUME NEW e \in S, NEW f \in S
      PROVE  <<e, f>> \in R <=> k[e] > k[f] \/ (k[e] = k[f] /\ l[e] > l[f])
  <2>1. <<e, f>> \in R <=> PoolBehind(f, e)
    BY DEF NewestFirst
  <2>2. QED
    BY <1>1, <2>1 DEF PoolBehind
<1> HIDE DEF k, l, R
<1>4. Orders(R, S)
  BY <1>1, <1>2, <1>3, TwoKeysOrder
<1>5. QED
  BY <1>4 DEF R

PoolRest(rows, before) == {e \in PoolEntries(rows) : before = NoCursor \/ PoolBehind(e, before)}

LEMMA PoolListed ==
  ASSUME NEW rows, Rows(rows), NEW before
  PROVE  /\ IsFiniteSet(PoolRest(rows, before)) /\ PoolRest(rows, before) \subseteq PoolEntry
         /\ Lists(PoolList(rows, before), NewestFirst, PoolRest(rows, before))
<1> DEFINE T == PoolRest(rows, before)
           list == PoolList(rows, before)
           R == NewestFirst
           Before(e, f) == PoolBehind(f, e)
           count(x) == Cardinality({y \in T : Before(y, x)})
<1>1. IsFiniteSet(T) /\ T \subseteq PoolEntry
  <2>1. T \in SUBSET PoolEntries(rows)
    BY DEF PoolRest
  <2>2. QED
    BY <2>1, PoolEntriesAre, FS_Subset
<1>2. Orders(R, T)
  BY <1>1, PoolOrders
<1>3. list = [i \in 1..Cardinality(T) |-> CHOOSE x \in T : count(x) = i - 1]
  BY DEF PoolList, PoolRest, OrderBy
<1>4. ASSUME NEW x \in T PROVE count(x) = Rank(x, R, T)
  <2>1. \A y \in T : <<y, x>> \in R <=> Before(y, x)
    BY <1>1 DEF NewestFirst
  <2>2. {y \in T : Before(y, x)} = InFront(x, R, T)
    BY <2>1 DEF InFront
  <2>3. QED
    BY <2>2 DEF Rank
<1> HIDE DEF list, R, T, count
<1>5. ASSUME NEW i \in 1..Cardinality(T), \E x \in T : Rank(x, R, T) = i - 1
      PROVE  list[i] \in T /\ Rank(list[i], R, T) = i - 1
  <2>1. \E x \in T : count(x) = i - 1
    BY <1>4, <1>5
  <2>2. list[i] \in T /\ count(list[i]) = i - 1
    BY <1>3, <2>1
  <2>3. QED
    BY <1>4, <2>2
<1>6. list = [i \in 1..Cardinality(T) |-> list[i]]
  BY <1>3
<1>7. Lists(list, R, T)
  BY <1>1, <1>2, <1>5, <1>6, OrderLists
<1>8. QED
  BY <1>1, <1>7 DEF R, list, T

\* The pages so far begin the list of the generation the cursor is of.
PoolWalk(pages, rows) == Begins(pages, PoolList(rows, NoCursor))
PoolCursor(pages, before) ==
  \/ before = NoCursor /\ pages = << >>
  \/ /\ before # NoCursor /\ Len(pages) > 0
     /\ before.tx = Last(pages).tx /\ before.time = Last(pages).time

\* What the last page says of the end of the list.
PoolEnd(pages, page, rows) ==
  /\ page \in Seq(PoolEntry)
  /\ Len(page) # PageSize => Len(pages) = Cardinality(DOMAIN rows)
  /\ Len(page) = PageSize => Len(pages) > 0 /\ Last(pages) = Last(page)

LEMMA PoolWalkGoesOn ==
  ASSUME NEW rows, Rows(rows), NEW pages, NEW before, PoolWalk(pages, rows),
         PoolCursor(pages, before), NEW page, page = mempoolTxPageFrom(rows, before),
         NEW all, all = pages \o page
  PROVE  PoolWalk(all, rows) /\ PoolEnd(all, page, rows)
<1> DEFINE S == PoolRest(rows, NoCursor)
           T == PoolRest(rows, before)
           R == NewestFirst
           list == PoolList(rows, NoCursor)
           tail == PoolList(rows, before)
           n == Len(pages)
<1>1. IsFiniteSet(S) /\ Lists(list, R, S) /\ IsFiniteSet(T) /\ Lists(tail, R, T)
      /\ S \subseteq PoolEntry /\ T \subseteq PoolEntry
  BY PoolListed
<1>2. Orders(R, S)
  BY <1>1, PoolOrders
<1>3. S = PoolEntries(rows)
  BY DEF PoolRest
<1>4. Begins(pages, list)
  BY DEF PoolWalk
<1>5. n \in Nat /\ (n > 0 => pages[n] \in PoolEntry /\ Last(pages) = pages[n])
  <2>1. n \in Nat /\ n <= Len(list) /\ \A i \in 1..n : pages[i] = list[i]
    BY <1>4 DEF Begins
  <2>2. list \in Seq(S) /\ Len(list) \in Nat
    BY <1>1 DEF Lists
  <2> HIDE DEF list, S, n
  <2>3. ASSUME n > 0 PROVE pages[n] \in S
    <3>1. n \in 1..Len(list) /\ pages[n] = list[n]
      BY <2>1, <2>2, <2>3
    <3>2. QED
      BY <2>2, <3>1
  <2>4. QED
    BY <1>1, <2>1, <2>3 DEF Last, n
<1>6. ASSUME NEW x PROVE x \in T <=> x \in S /\ (n = 0 \/ <<pages[n], x>> \in R)
  <2>1. x \in T <=> x \in S /\ (before = NoCursor \/ PoolBehind(x, before))
    BY DEF PoolRest
  <2>2. CASE before = NoCursor /\ pages = << >>
    BY <2>1, <2>2
  <2>3. CASE before # NoCursor /\ n > 0 /\ before.tx = Last(pages).tx /\ before.time = Last(pages).time
    <3>1. PoolBehind(x, before) <=> PoolBehind(x, pages[n])
      BY <1>5, <2>3 DEF PoolBehind
    <3>2. x \in S => (<<pages[n], x>> \in R <=> PoolBehind(x, pages[n]))
      BY <1>1, <1>5, <2>3 DEF NewestFirst
    <3>3. n # 0
      BY <1>5, <2>3
    <3>4. QED
      BY <2>1, <2>3, <3>1, <3>2, <3>3
  <2>4. QED
    BY <2>2, <2>3 DEF PoolCursor
<1>7. page = FirstRows(tail, PageSize)
  BY DEF mempoolTxPageFrom
<1> HIDE DEF S, T, R, list, tail
<1>8. Grown(all, page, list, T)
  <2>1. Remains(T, S, R, pages)
    BY <1>6 DEF Remains
  <2>2. QED
    BY <1>1, <1>2, <1>4, <1>7, <2>1, ListGoesOn
<1>9. Len(list) = Cardinality(DOMAIN rows)
  BY <1>1, <1>3, PoolEntriesAre DEF Lists
<1>10. page \in Seq(PoolEntry)
  BY <1>1, <1>8 DEF Grown
<1>11. QED
  BY <1>8, <1>9, <1>10 DEF Grown, PoolWalk, PoolEnd, list

-----------------------------------------------------------------------------
(* Pages of an address history                                             *)

\* Two linked chains that share a block share everything below it.
LEMMA SharedBelow ==
  ASSUME NEW S, S \subseteq Block, LinkedChain(S), NEW B, B \subseteq Block, LinkedChain(B),
         NEW y, y \in S, y \in B, NEW b \in S, height[b] <= height[y]
  PROVE  b \in B
<1>1. Ancestry[y] = {c \in S : height[c] <= height[y]}
  BY BranchIsBelow
<1>2. Ancestry[y] = {c \in B : height[c] <= height[y]}
  BY BranchIsBelow
<1>3. QED
  BY <1>1, <1>2

\* The branch of a block of a linked chain is one too.
LEMMA BranchLinked ==
  ASSUME NEW S, IsFiniteSet(S), S \subseteq Block, LinkedChain(S), NEW x \in S, NEW B, B = Ancestry[x]
  PROVE  IsFiniteSet(B) /\ B \subseteq Block /\ LinkedChain(B) /\ x \in B
<1>1. \A b : b \in B <=> b \in S /\ height[b] <= height[x]
  BY BranchIsBelow
<1>2. B \in SUBSET S /\ IsFiniteSet(B)
  BY <1>1, FS_Subset
<1>3. \A b \in S : height[b] \in Nat
  BY TreeAssumption
<1>4. x \in B
  BY <1>1, <1>3
<1>5. ASSUME NEW b \in B
      PROVE  \/ prev[b] = NoBlock /\ \A c \in B : height[b] <= height[c]
             \/ prev[b] \in B /\ height[b] = height[prev[b]] + 1
  <2>1. b \in S /\ height[b] <= height[x]
    BY <1>1
  <2>2. CASE prev[b] = NoBlock /\ \A c \in S : height[b] <= height[c]
    BY <1>2, <2>2
  <2>3. CASE prev[b] \in S /\ height[b] = height[prev[b]] + 1
    <3>1. height[prev[b]] <= height[x]
      BY <1>3, <2>1, <2>3
    <3>2. QED
      BY <1>1, <2>3, <3>1
  <2>4. QED
    BY <2>1, <2>2, <2>3 DEF LinkedChain
<1>6. \A b, c \in B : height[b] = height[c] => b = c
  BY <1>2 DEF LinkedChain
<1>7. LinkedChain(B)
  BY <1>5, <1>6 DEF LinkedChain
<1>8. QED
  BY <1>2, <1>4, <1>7

HistoryEntry == [tx : Tx, block : Block]
LatestFirst == {p \in HistoryEntry \X HistoryEntry : Behind(p[2], p[1])}

LEMMA TouchesAre ==
  ASSUME NEW S, IsFiniteSet(S), S \subseteq Block, NEW a
  PROVE  /\ Touches(S, a) \subseteq HistoryEntry /\ IsFiniteSet(Touches(S, a))
         /\ \A e : e \in Touches(S, a) <=>
               \E b \in S : \E t \in TouchedTxs(b, a) : e = [tx |-> t, block |-> b]
<1> DEFINE Of(b) == {[tx |-> t, block |-> b] : t \in TouchedTxs(b, a)}
           parts == {Of(b) : b \in S}
<1>1. Touches(S, a) = UNION parts
  BY DEF Touches
<1>2. ASSUME NEW b \in S PROVE IsFiniteSet(Of(b)) /\ Of(b) \subseteq HistoryEntry
  <2> DEFINE T == TouchedTxs(b, a)
             f == [t \in T |-> [tx |-> t, block |-> b]]
             g == txs[b]
  <2>1. g \in Seq(Tx) /\ T \subseteq {g[i] : i \in DOMAIN g}
    BY BlockDataAssumption DEF TouchedTxs, TxSet, Range
  <2>2. DOMAIN g = 1..Len(g) /\ Len(g) \in Nat /\ \A i \in 1..Len(g) : g[i] \in Tx
    BY <2>1
  <2> HIDE DEF T, g
  <2>3. IsFiniteSet(1..Len(g)) /\ \A t \in T : \E i \in 1..Len(g) : t = g[i]
    BY <2>1, <2>2, FS_Interval
  <2>4. IsFiniteSet(T) /\ T \subseteq Tx
    <3>1. IsFiniteSet(T)
      BY <2>3, FiniteImage
    <3>2. QED
      BY <2>2, <2>3, <3>1
  <2>5. \A e \in Of(b) : \E t \in T : e = f[t]
    BY DEF T
  <2>6. IsFiniteSet(Of(b))
    <3> HIDE DEF f, Of
    <3> QED BY <2>4, <2>5, FiniteImage
  <2>7. Of(b) \subseteq HistoryEntry
    BY <2>4 DEF T, HistoryEntry
  <2>8. QED
    BY <2>6, <2>7
<1>3. IsFiniteSet(parts)
  <2> DEFINE h == [b \in S |-> Of(b)]
  <2>1. \A p \in parts : \E b \in S : p = h[b]
    OBVIOUS
  <2> HIDE DEF h, parts, Of
  <2>2. QED
    BY <2>1, FiniteImage
<1>4. IsFiniteSet(UNION parts)
  <2>1. \A p \in parts : IsFiniteSet(p)
    BY <1>2
  <2> HIDE DEF parts
  <2>2. QED
    BY <1>3, <2>1, FS_UNION
<1>5. \A e : e \in Touches(S, a) <=>
               \E b \in S : \E t \in TouchedTxs(b, a) : e = [tx |-> t, block |-> b]
  BY <1>1
<1>6. Touches(S, a) \subseteq HistoryEntry
  <2>1. ASSUME NEW e \in Touches(S, a) PROVE \E b \in S : e \in Of(b)
    BY <1>5
  <2> HIDE DEF Of
  <2>2. QED
    BY <1>2, <2>1
<1>7. QED
  BY <1>1, <1>4, <1>5, <1>6

LEMMA HistoryOrders ==
  ASSUME NEW S, S \subseteq Block, LinkedChain(S), NEW T, T \subseteq HistoryEntry,
         \A e \in T : e.block \in S
  PROVE  Orders(LatestFirst, T)
<1> DEFINE k == [e \in T |-> height[e.block]]
           l == [e \in T |-> textRank[e.tx]]
           R == LatestFirst
<1>1. \A e \in T : k[e] \in Int /\ l[e] \in Int
  BY QueryAssumption, TreeAssumption DEF HistoryEntry
<1>2. ASSUME NEW e \in T, NEW f \in T, k[e] = k[f], l[e] = l[f] PROVE e = f
  <2>1. height[e.block] = height[f.block] /\ textRank[e.tx] = textRank[f.tx]
    BY <1>2
  <2>2. e.tx \in Tx /\ f.tx \in Tx /\ e.block \in S /\ f.block \in S
    BY DEF HistoryEntry
  <2>3. e.tx = f.tx
    BY <2>1, <2>2, QueryAssumption
  <2>4. e.block = f.block
    BY <2>1, <2>2 DEF LinkedChain
  <2>5. e = [tx |-> e.tx, block |-> e.block] /\ f = [tx |-> f.tx, block |-> f.block]
    BY DEF HistoryEntry
  <2>6. QED
    BY <2>3, <2>4, <2>5
<1>3. ASSUME NEW e \in T, NEW f \in T
      PROVE  <<e, f>> \in R <=> k[e] > k[f] \/ (k[e] = k[f] /\ l[e] > l[f])
  <2>1. <<e, f>> \in R <=> Behind(f, e)
    BY DEF LatestFirst
  <2>2. QED
    BY <1>1, <2>1 DEF Behind
<1> HIDE DEF k, l, R
<1>4. Orders(R, T)
  BY <1>1, <1>2, <1>3, TwoKeysOrder
<1>5. QED
  BY <1>4 DEF R

HistoryRest(S, a, before) == {e \in Touches(S, a) : before = NoCursor \/ BehindCursor(e, before)}

LEMMA HistoryListed ==
  ASSUME NEW S, IsFiniteSet(S), S \subseteq Block, LinkedChain(S), NEW a, NEW before
  PROVE  /\ IsFiniteSet(HistoryRest(S, a, before)) /\ HistoryRest(S, a, before) \subseteq HistoryEntry
         /\ \A e \in HistoryRest(S, a, before) : e.block \in S
         /\ Orders(LatestFirst, HistoryRest(S, a, before))
         /\ Lists(History(S, a, before), LatestFirst, HistoryRest(S, a, before))
<1> DEFINE T == HistoryRest(S, a, before)
           list == History(S, a, before)
           R == LatestFirst
           Before(e, f) == Behind(f, e)
           count(x) == Cardinality({y \in T : Before(y, x)})
<1>1. IsFiniteSet(T) /\ T \subseteq HistoryEntry /\ \A e \in T : e.block \in S
  <2>1. T \in SUBSET Touches(S, a)
    BY DEF HistoryRest
  <2>2. IsFiniteSet(T) /\ T \subseteq HistoryEntry
    BY <2>1, TouchesAre, FS_Subset
  <2>3. \A e \in Touches(S, a) : e.block \in S
    BY TouchesAre
  <2>4. QED
    BY <2>1, <2>2, <2>3
<1>2. Orders(R, T)
  BY <1>1, HistoryOrders
<1>3. list = [i \in 1..Cardinality(T) |-> CHOOSE x \in T : count(x) = i - 1]
  BY DEF History, HistoryRest, OrderBy
<1>4. ASSUME NEW x \in T PROVE count(x) = Rank(x, R, T)
  <2>1. \A y \in T : <<y, x>> \in R <=> Before(y, x)
    BY <1>1 DEF LatestFirst
  <2>2. {y \in T : Before(y, x)} = InFront(x, R, T)
    BY <2>1 DEF InFront
  <2>3. QED
    BY <2>2 DEF Rank
<1> HIDE DEF list, R, T, count
<1>5. ASSUME NEW i \in 1..Cardinality(T), \E x \in T : Rank(x, R, T) = i - 1
      PROVE  list[i] \in T /\ Rank(list[i], R, T) = i - 1
  <2>1. \E x \in T : count(x) = i - 1
    BY <1>4, <1>5
  <2>2. list[i] \in T /\ count(list[i]) = i - 1
    BY <1>3, <2>1
  <2>3. QED
    BY <1>4, <2>2
<1>6. list = [i \in 1..Cardinality(T) |-> list[i]]
  BY <1>3
<1>7. Lists(list, R, T)
  BY <1>1, <1>2, <1>5, <1>6, OrderLists
<1>8. QED
  BY <1>1, <1>2, <1>7 DEF R, list, T

\* The entries a client has put together: each one behind the one before it
\* and, unless a reorganisation came between two pages, the beginning of the
\* history on the branch of the first.
HistoryWalk(pages, a, torn) ==
  /\ pages \in Seq(HistoryEntry)
  /\ \A i \in 1..(Len(pages) - 1) : Behind(pages[i + 1], pages[i])
  /\ ~torn /\ Len(pages) > 0 =>
        LET B == Ancestry[pages[1].block]
        IN  /\ IsFiniteSet(B) /\ B \subseteq Block /\ LinkedChain(B)
            /\ Begins(pages, History(B, a, NoCursor))
HistoryCursor(pages, before, torn, S) ==
  \/ before = NoCursor /\ pages = << >>
  \/ /\ before # NoCursor /\ Len(pages) > 0 /\ before = Last(pages)
     /\ ~torn => Last(pages).block \in S
HistoryEnd(pages, page, a, torn) ==
  /\ page \in Seq(HistoryEntry)
  /\ Len(page) = PageSize => Len(pages) > 0 /\ Last(pages) = Last(page)
  /\ ~torn /\ Len(pages) > 0 /\ Len(page) # PageSize =>
        pages = History(Ancestry[pages[1].block], a, NoCursor)

\* The first page is of the branch of its first entry.
LEMMA HistoryStarts ==
  ASSUME NEW S, IsFiniteSet(S), S \subseteq Block, LinkedChain(S), NEW a,
         NEW page, page = addressHistoryFrom(S, a, NoCursor), Len(page) > 0,
         NEW B, B = Ancestry[page[1].block], NEW pages, pages = << >>, NEW all, all = pages \o page
  PROVE  /\ IsFiniteSet(B) /\ B \subseteq Block /\ LinkedChain(B)
         /\ Grown(all, page, History(B, a, NoCursor), HistoryRest(B, a, NoCursor))
<1> DEFINE T == HistoryRest(S, a, NoCursor)
           U == HistoryRest(B, a, NoCursor)
           R == LatestFirst
           tail == History(S, a, NoCursor)
           list == History(B, a, NoCursor)
           x == page[1].block
<1>1. /\ IsFiniteSet(T) /\ T \subseteq HistoryEntry /\ Orders(R, T) /\ Lists(tail, R, T)
      /\ \A e \in T : e.block \in S
  BY HistoryListed
<1>2. page = FirstRows(tail, PageSize) /\ PageSize \in Nat
  BY QueryAssumption DEF addressHistoryFrom
<1>3. T = Touches(S, a) /\ U = Touches(B, a)
  BY DEF HistoryRest
<1> HIDE DEF T, U, R, tail, list
<1>4. tail \in Seq(T) /\ Len(tail) \in Nat
  BY <1>1 DEF Lists
<1>5. Len(page) \in Nat /\ Len(page) <= Len(tail) /\ \A i \in 1..Len(page) : page[i] = tail[i]
  BY <1>2, <1>4, FirstRowsIs
<1>6. 1 \in 1..Len(tail) /\ page[1] = tail[1] /\ tail[1] \in T /\ x \in S
  <2>1. 1 \in 1..Len(page) /\ 1 \in 1..Len(tail)
    BY <1>4, <1>5
  <2>2. page[1] = tail[1] /\ tail[1] \in T
    BY <1>4, <1>5, <2>1
  <2>3. QED
    BY <1>1, <2>1, <2>2
<1>7. IsFiniteSet(B) /\ B \subseteq Block /\ LinkedChain(B) /\ x \in B
  BY <1>6, BranchLinked
<1>8. ASSUME NEW e \in T PROVE height[e.block] <= height[x]
  <2>1. PICK j \in 1..Len(tail) : tail[j] = e
    BY <1>1 DEF Lists
  <2>2. j = 1 \/ 1 < j
    BY <1>4
  <2>3. CASE j = 1
    <3>1. e.block = x /\ height[x] \in Nat
      BY <1>6, <2>1, <2>3, TreeAssumption
    <3>2. QED
      BY <3>1
  <2>4. CASE 1 < j
    <3>1. <<tail[1], tail[j]>> \in R
      BY <1>1, <1>6, <2>4 DEF Lists
    <3>2. Behind(e, page[1])
      BY <1>6, <2>1, <3>1 DEF R, LatestFirst
    <3>3. height[e.block] \in Nat /\ height[x] \in Nat
      BY <1>1, <1>6, TreeAssumption
    <3>4. QED
      BY <3>2, <3>3 DEF Behind
  <2>5. QED
    BY <2>2, <2>3, <2>4
<1>9. U = T
  <2>1. \A b : b \in B <=> b \in S /\ height[b] <= height[x]
    BY <1>6, BranchIsBelow
  <2>2. \A e : e \in T <=> \E b \in S : \E t \in TouchedTxs(b, a) : e = [tx |-> t, block |-> b]
    BY <1>3, TouchesAre
  <2>3. \A e : e \in U <=> \E b \in B : \E t \in TouchedTxs(b, a) : e = [tx |-> t, block |-> b]
    BY <1>3, <1>7, TouchesAre
  <2> HIDE DEF x
  <2>4. ASSUME NEW e \in T PROVE e \in U
    <3>1. PICK b \in S : \E t \in TouchedTxs(b, a) : e = [tx |-> t, block |-> b]
      BY <2>2
    <3>2. e.block = b
      BY <3>1
    <3>3. b \in B
      BY <1>8, <2>1, <3>2
    <3>4. QED
      BY <2>3, <3>1, <3>3
  <2>5. ASSUME NEW e \in U PROVE e \in T
    BY <2>1, <2>2, <2>3
  <2>6. QED
    BY <2>4, <2>5
<1>10. Lists(list, R, U)
  BY <1>7, HistoryListed DEF list, R, U
<1>11. Lists(list, R, T)
  BY <1>9, <1>10
<1>12. Begins(pages, list)
  <2>1. pages \in Seq(T) /\ list \in Seq(T) /\ Len(pages) = 0 /\ Len(list) \in Nat
    BY <1>11 DEF Lists
  <2>2. QED
    BY <2>1 DEF Begins
<1>13. Remains(T, T, R, pages)
  BY DEF Remains
<1>14. Grown(all, page, list, T)
  BY <1>1, <1>2, <1>11, <1>12, <1>13, ListGoesOn
<1>15. QED
  BY <1>7, <1>9, <1>14 DEF list, U

\* A later page, of any branch that still has the cursor's block, goes on.
LEMMA HistoryGoesOn ==
  ASSUME NEW S, IsFiniteSet(S), S \subseteq Block, LinkedChain(S), NEW a,
         NEW B, IsFiniteSet(B), B \subseteq Block, LinkedChain(B),
         NEW pages, Len(pages) > 0, Begins(pages, History(B, a, NoCursor)),
         NEW before, before # NoCursor, before = Last(pages), before.block \in S,
         NEW page, page = addressHistoryFrom(S, a, before), NEW all, all = pages \o page
  PROVE  Grown(all, page, History(B, a, NoCursor), HistoryRest(S, a, before))
<1> DEFINE T == HistoryRest(S, a, before)
           U == HistoryRest(B, a, NoCursor)
           R == LatestFirst
           tail == History(S, a, before)
           list == History(B, a, NoCursor)
           n == Len(pages)
<1>1. /\ IsFiniteSet(T) /\ T \subseteq HistoryEntry /\ Lists(tail, R, T)
      /\ \A e \in T : e.block \in S
  BY HistoryListed
<1>2. /\ IsFiniteSet(U) /\ U \subseteq HistoryEntry /\ Orders(R, U) /\ Lists(list, R, U)
      /\ \A e \in U : e.block \in B
  BY HistoryListed
<1>3. page = FirstRows(tail, PageSize)
  BY DEF addressHistoryFrom
<1>4. /\ \A e : e \in T <=> e \in Touches(S, a) /\ Behind(e, before)
      /\ U = Touches(B, a)
  BY DEF HistoryRest, BehindCursor
<1> HIDE DEF T, U, R, tail, list
<1>5. Begins(pages, list)
  BY DEF list
<1>6. before \in U /\ n # 0 /\ before = pages[n]
  <2>1. list \in Seq(U) /\ Len(list) \in Nat
    BY <1>2 DEF Lists
  <2>2. n \in Nat /\ n <= Len(list) /\ \A i \in 1..n : pages[i] = list[i]
    BY <1>5 DEF Begins
  <2>3. n \in 1..n /\ n \in 1..Len(list)
    BY <2>1, <2>2
  <2>4. pages[n] = list[n] /\ list[n] \in U
    BY <2>1, <2>2, <2>3
  <2>5. QED
    BY <2>2, <2>3, <2>4 DEF Last
<1> DEFINE y == before.block
<1>7. y \in S /\ y \in B /\ before \in HistoryEntry
  BY <1>2, <1>6
<1> HIDE DEF y, n
<1>8. ASSUME NEW e, Behind(e, before) PROVE e \in Touches(S, a) <=> e \in Touches(B, a)
  <2>1. /\ e \in Touches(S, a) <=> \E b \in S : \E t \in TouchedTxs(b, a) : e = [tx |-> t, block |-> b]
        /\ e \in Touches(B, a) <=> \E b \in B : \E t \in TouchedTxs(b, a) : e = [tx |-> t, block |-> b]
    BY TouchesAre
  <2>2. ASSUME NEW b \in Block, NEW t, e = [tx |-> t, block |-> b] PROVE height[b] <= height[y]
    <3>1. e.block = b
      BY <2>2
    <3>2. height[b] \in Nat /\ height[y] \in Nat
      BY <1>7, TreeAssumption
    <3>3. QED
      BY <1>8, <3>1, <3>2 DEF Behind, y
  <2>3. ASSUME NEW b \in S, NEW t, e = [tx |-> t, block |-> b] PROVE b \in B
    <3>1. height[b] <= height[y]
      BY <2>2, <2>3
    <3>2. QED
      BY <1>7, <3>1, SharedBelow
  <2>4. ASSUME NEW b \in B, NEW t, e = [tx |-> t, block |-> b] PROVE b \in S
    <3>1. height[b] <= height[y]
      BY <2>2, <2>4
    <3>2. QED
      BY <1>7, <3>1, SharedBelow
  <2>5. QED
    BY <2>1, <2>3, <2>4
<1>9. Remains(T, U, R, pages)
  <2>1. ASSUME NEW e PROVE e \in T <=> e \in U /\ <<before, e>> \in R
    <3>1. e \in U => (<<before, e>> \in R <=> Behind(e, before))
      BY <1>2, <1>7 DEF R, LatestFirst
    <3>2. QED
      BY <1>4, <1>8, <3>1
  <2>2. QED
    BY <1>6, <2>1 DEF Remains, n
<1>10. Grown(all, page, list, T)
  BY <1>2, <1>1, <1>3, <1>5, <1>9, ListGoesOn
<1>11. QED
  BY <1>10 DEF list, T

LEMMA HistoryWalkGoesOn ==
  ASSUME NEW S, IsFiniteSet(S), S \subseteq Block, LinkedChain(S), NEW a,
         NEW pages, NEW before, NEW torn, HistoryWalk(pages, a, torn),
         HistoryCursor(pages, before, torn, S),
         NEW page, page = addressHistoryFrom(S, a, before), NEW all, all = pages \o page
  PROVE  HistoryWalk(all, a, torn) /\ HistoryEnd(all, page, a, torn)
<1> DEFINE T == HistoryRest(S, a, before)
           R == LatestFirst
           tail == History(S, a, before)
           n == Len(pages)
           m == Len(page)
<1>1. T \subseteq HistoryEntry /\ Lists(tail, R, T)
  BY HistoryListed
<1>2. PageSize \in Nat /\ PageSize > 0 /\ page = FirstRows(tail, PageSize)
  BY QueryAssumption DEF addressHistoryFrom
<1>3. \A e \in T : before = NoCursor \/ Behind(e, before)
  BY DEF HistoryRest, BehindCursor
<1> HIDE DEF T, R, tail
<1>4. tail \in Seq(T) /\ Len(tail) \in Nat
  BY <1>1 DEF Lists
<1>5. /\ page \in Seq(T) /\ m \in Nat /\ m <= Len(tail)
      /\ \A i \in 1..m : page[i] = tail[i]
  BY <1>2, <1>4, FirstRowsIs
<1>6. pages \in Seq(HistoryEntry) /\ page \in Seq(HistoryEntry) /\ \A i \in 1..m : page[i] \in T
  BY <1>1, <1>5 DEF HistoryWalk
<1>7. /\ all \in Seq(HistoryEntry) /\ Len(all) = n + m /\ n \in Nat
      /\ \A i \in 1..n : all[i] = pages[i]
      /\ \A i \in 1..m : all[n + i] = page[i]
  BY <1>6, Joined
<1>8. ASSUME NEW i \in 1..(m - 1) PROVE Behind(page[i + 1], page[i])
  <2> HIDE DEF m
  <2>1. i \in 1..m /\ i + 1 \in 1..m /\ i \in 1..Len(tail) /\ i + 1 \in 1..Len(tail) /\ i < i + 1
    BY <1>4, <1>5
  <2>2. <<tail[i], tail[i + 1]>> \in R
    BY <1>1, <2>1 DEF Lists
  <2>3. page[i] = tail[i] /\ page[i + 1] = tail[i + 1]
    BY <1>5, <2>1
  <2>4. QED
    BY <2>2, <2>3 DEF R, LatestFirst
<1> HIDE DEF n, m
<1>9. ASSUME NEW i \in 1..(Len(all) - 1) PROVE Behind(all[i + 1], all[i])
  <2>1. CASE i < n
    <3>1. i \in 1..(n - 1) /\ i \in 1..n /\ i + 1 \in 1..n
      BY <1>5, <1>7, <2>1
    <3>2. all[i] = pages[i] /\ all[i + 1] = pages[i + 1]
      BY <1>7, <3>1
    <3>3. QED
      BY <3>1, <3>2 DEF HistoryWalk, n
  <2>2. CASE i = n
    <3>1. 1 \in 1..m /\ n \in 1..n /\ n > 0
      BY <1>5, <1>7, <2>2
    <3>2. all[i] = pages[n] /\ all[i + 1] = page[1] /\ page[1] \in T
      BY <1>6, <1>7, <2>2, <3>1
    <3>3. before # NoCursor /\ before = pages[n]
      BY <3>1 DEF HistoryCursor, Last, n
    <3>4. QED
      BY <1>3, <3>2, <3>3
  <2>3. CASE i > n
    <3> DEFINE j == i - n
    <3>1. j \in 1..(m - 1) /\ j \in 1..m /\ j + 1 \in 1..m /\ i = n + j /\ i + 1 = n + (j + 1)
      BY <1>5, <1>7, <2>3
    <3> HIDE DEF j
    <3>2. all[i] = page[j] /\ all[i + 1] = page[j + 1]
      BY <1>7, <3>1
    <3>3. QED
      BY <1>8, <3>1, <3>2
  <2>4. i < n \/ i = n \/ i > n
    BY <1>5, <1>7
  <2>5. QED
    BY <2>1, <2>2, <2>3, <2>4
<1>10. ASSUME m = PageSize PROVE Len(all) > 0 /\ Last(all) = Last(page)
  <2>1. m \in 1..m
    BY <1>2, <1>5, <1>10
  <2>2. all[n + m] = page[m] /\ Len(all) > 0
    BY <1>5, <1>7, <2>1
  <2>3. QED
    BY <1>7, <2>2 DEF Last, m
<1> DEFINE B == Ancestry[all[1].block]
           list == History(B, a, NoCursor)
<1>11. ASSUME ~torn, Len(all) > 0
       PROVE  /\ IsFiniteSet(B) /\ B \subseteq Block /\ LinkedChain(B)
              /\ \E V : Grown(all, page, list, V)
  <2>1. CASE before = NoCursor /\ pages = << >>
    <3>1. n = 0 /\ m > 0
      BY <1>5, <1>7, <1>11, <2>1 DEF n
    <3>2. 1 \in 1..m /\ n + 1 = 1
      BY <1>5, <3>1
    <3>3. all[1] = page[1]
      <4>1. all[n + 1] = page[1]
        BY <1>7, <3>2
      <4>2. QED
        BY <3>2, <4>1
    <3>4. B = Ancestry[page[1].block]
      BY <3>3
    <3>5. m > 0 => Len(page) > 0
      BY DEF m
    <3>6. page = addressHistoryFrom(S, a, NoCursor)
      BY <2>1
    <3> HIDE DEF B
    <3>7. /\ IsFiniteSet(B) /\ B \subseteq Block /\ LinkedChain(B)
          /\ Grown(all, page, list, HistoryRest(B, a, NoCursor))
      BY <2>1, <3>1, <3>4, <3>5, <3>6, HistoryStarts
    <3>8. QED
      BY <3>7
  <2>2. CASE before # NoCursor /\ Len(pages) > 0 /\ before = Last(pages) /\ (~torn => Last(pages).block \in S)
    <3>1. all[1] = pages[1]
      <4>1. 1 \in 1..n
        BY <1>7, <2>2 DEF n
      <4>2. QED
        BY <1>7, <4>1
    <3>2. B = Ancestry[pages[1].block]
      BY <3>1
    <3>3. /\ IsFiniteSet(B) /\ B \subseteq Block /\ LinkedChain(B)
          /\ Begins(pages, list)
      BY <1>11, <2>2, <3>2 DEF HistoryWalk
    <3>4. before.block \in S
      BY <1>11, <2>2
    <3> HIDE DEF B
    <3>5. Grown(all, page, list, HistoryRest(S, a, before))
      BY <2>2, <3>3, <3>4, HistoryGoesOn
    <3>6. QED
      BY <3>3, <3>5
  <2>3. QED
    BY <2>1, <2>2 DEF HistoryCursor
<1>12. HistoryWalk(all, a, torn)
  <2>1. ASSUME ~torn, Len(all) > 0
        PROVE  IsFiniteSet(B) /\ B \subseteq Block /\ LinkedChain(B) /\ Begins(all, list)
    BY <1>11, <2>1 DEF Grown
  <2>2. QED
    BY <1>7, <1>9, <2>1 DEF HistoryWalk
<1>13. HistoryEnd(all, page, a, torn)
  <2>1. ASSUME ~torn, Len(all) > 0, Len(page) # PageSize PROVE all = list
    BY <1>11, <2>1 DEF Grown
  <2>2. QED
    BY <1>6, <1>10, <2>1 DEF HistoryEnd, m
<1>14. QED
  BY <1>12, <1>13

-----------------------------------------------------------------------------
(* The pages of a client                                                   *)

\* A request for a page goes on where its pages end; db is what it sees.
Continues(q, db) ==
  /\ q.op = "RecentBlocks" =>
        BlockWalk(q.pages, q.torn) /\ BlockCursor(q.pages, q.before, q.torn, db.canonical)
  /\ q.op = "AddressDetail" =>
        /\ HistoryWalk(q.pages, q.arg, q.torn)
        /\ HistoryCursor(q.pages, q.before, q.torn, db.canonical)
  /\ q.op = "MempoolOverview" =>
        /\ PoolCursor(q.pages, q.before)
        /\ q.before # NoCursor =>
              /\ q.before.generation \in DOMAIN published
              /\ PoolWalk(q.pages, published[q.before.generation])
              /\ Len(q.got) >= 2 => q.got[1].generation = q.before.generation

\* The pages with the last one.
Paginated(q) ==
  /\ q.op = "RecentBlocks" =>
        BlockWalk(q.pages, q.torn) /\ BlockEnd(q.pages, Last(q.got), q.torn)
  /\ q.op = "AddressDetail" =>
        HistoryWalk(q.pages, q.arg, q.torn) /\ HistoryEnd(q.pages, Last(q.got), q.arg, q.torn)
  /\ q.op = "MempoolOverview" =>
        LET generation == q.got[1].generation
            rows == published[generation]
        IN  /\ generation \in Nat
            /\ Last(q.got) \in Seq(PoolEntry)
            /\ generation = 0 => Last(q.got) = << >>
            /\ generation > 0 => /\ generation \in DOMAIN published
                                 /\ PoolWalk(q.pages, rows) /\ PoolEnd(q.pages, Last(q.got), rows)

PagesOK ==
  \A c \in Client :
    LET q == client[c]
    IN  /\ q.stage = "reading" => Continues(q, q.snap)
        /\ q.stage = "answered" /\ Last(q.got) # NoRow => Paginated(q)

\* A complete answer of these has all results.
LEMMA PageIsLast ==
  ASSUME NEW q, NEW db, Settled(q, db), q.op \in Paged, Last(q.got) # NoRow
  PROVE  /\ Len(q.got) = Len(Plan(q.op)) /\ IsSequence(q.got)
         /\ q.got[1] = Select(Plan(q.op)[1], db, q, q.got)
         /\ Last(q.got) = Select(Plan(q.op)[Len(Plan(q.op))], db, q, q.got)
<1>1. Len(q.got) = Len(Plan(q.op))
  BY DEF Settled, Complete, Paged
<1>2. Follows(q, db) /\ q.op \in Operation /\ IsSequence(q.got)
  BY DEF Settled, Follows
<1>3. Len(Plan(q.op)) \in 1..4
  BY <1>2, PlanShape
<1>4. 1 \in 1..Len(q.got) /\ Len(q.got) \in 1..Len(q.got)
  <2>1. PICK k \in 1..4 : k = Len(Plan(q.op))
    BY <1>3
  <2>2. 1 \in 1..k /\ k \in 1..k
    OBVIOUS
  <2>3. QED
    BY <1>1, <2>1, <2>2
<1>5. QED
  BY <1>1, <1>2, <1>4 DEF Follows, Last

LEMMA BlocksGoOn ==
  ASSUME NEW q, NEW db, Reading(q, db), Seen(q.op, db), Continues(q, db), q.op = "RecentBlocks",
         NEW r, r = AfterStatement(q, db)
  PROVE  /\ r.stage = "reading" => Continues(r, db)
         /\ r.stage = "answered" /\ Last(r.got) # NoRow => Paginated(r)
<1>1. /\ r.op = q.op /\ r.before = q.before /\ r.torn = q.torn
      /\ \/ r.stage = "refused"
         \/ r.stage = "reading" /\ r.pages = q.pages
         \/ /\ r.stage = "answered" /\ Settled(r, db)
            /\ r.pages = IF q.op \in Paged THEN q.pages \o Last(r.got) ELSE q.pages
  BY StatementReads
<1>2. ASSUME r.stage = "reading" PROVE Continues(r, db)
  BY <1>1, <1>2 DEF Continues
<1>3. ASSUME r.stage = "answered", Last(r.got) # NoRow PROVE Paginated(r)
  <2> DEFINE page == Last(r.got)
             S == db.canonical
  <2>1. Settled(r, db) /\ r.pages = q.pages \o page
    BY <1>1, <1>3 DEF Paged
  <2>2. page = Select("recentBlocks", db, r, r.got)
    BY <1>1, <1>3, <2>1, PageIsLast DEF Plan, Paged
  <2>3. page = recentBlocksFrom(S, q.before)
    BY <1>1, <2>2 DEF Select
  <2>4. IsFiniteSet(S) /\ S \subseteq Block /\ LinkedChain(S)
    BY DEF Seen, CacheReads, Committed
  <2>5. BlockWalk(q.pages, q.torn) /\ BlockCursor(q.pages, q.before, q.torn, S)
    BY DEF Continues
  <2> HIDE DEF page, S
  <2>6. BlockWalk(r.pages, q.torn) /\ BlockEnd(r.pages, page, q.torn)
    BY <2>1, <2>3, <2>4, <2>5, BlockWalkGoesOn
  <2>7. QED
    BY <1>1, <2>6 DEF Paginated, page
<1>4. QED
  BY <1>2, <1>3

LEMMA HistoriesGoOn ==
  ASSUME NEW q, NEW db, Reading(q, db), Seen(q.op, db), Continues(q, db), q.op = "AddressDetail",
         NEW r, r = AfterStatement(q, db)
  PROVE  /\ r.stage = "reading" => Continues(r, db)
         /\ r.stage = "answered" /\ Last(r.got) # NoRow => Paginated(r)
<1>1. /\ r.op = q.op /\ r.arg = q.arg /\ r.before = q.before /\ r.torn = q.torn
      /\ \/ r.stage = "refused"
         \/ r.stage = "reading" /\ r.pages = q.pages
         \/ /\ r.stage = "answered" /\ Settled(r, db)
            /\ r.pages = IF q.op \in Paged THEN q.pages \o Last(r.got) ELSE q.pages
  BY StatementReads
<1>2. ASSUME r.stage = "reading" PROVE Continues(r, db)
  BY <1>1, <1>2 DEF Continues
<1>3. ASSUME r.stage = "answered", Last(r.got) # NoRow PROVE Paginated(r)
  <2> DEFINE page == Last(r.got)
             S == db.canonical
  <2>1. Settled(r, db) /\ r.pages = q.pages \o page
    BY <1>1, <1>3 DEF Paged
  <2>2. page = Select("history", db, r, r.got)
    BY <1>1, <1>3, <2>1, PageIsLast DEF Plan, Paged
  <2>3. page = addressHistoryFrom(S, q.arg, q.before)
    BY <1>1, <2>2 DEF Select
  <2>4. IsFiniteSet(S) /\ S \subseteq Block /\ LinkedChain(S)
    BY DEF Seen, CacheReads, Committed
  <2>5. HistoryWalk(q.pages, q.arg, q.torn) /\ HistoryCursor(q.pages, q.before, q.torn, S)
    BY DEF Continues
  <2> HIDE DEF page, S
  <2>6. HistoryWalk(r.pages, q.arg, q.torn) /\ HistoryEnd(r.pages, page, q.arg, q.torn)
    BY <2>1, <2>3, <2>4, <2>5, HistoryWalkGoesOn
  <2>7. QED
    BY <1>1, <2>6 DEF Paginated, page
<1>4. QED
  BY <1>2, <1>3

\* Nothing is listed before the first refresh.
LEMMA EmptyPool ==
  ASSUME NEW before, NEW page, page = mempoolTxPageFrom(<< >>, before)
  PROVE  page = << >> /\ page \in Seq(PoolEntry)
<1> DEFINE none == << >>
           T == PoolRest(none, before)
           list == PoolList(none, before)
<1>1. Rows(none) /\ PoolEntries(none) = {}
  BY FS_EmptySet DEF Rows, PoolEntries
<1>2. page = FirstRows(list, PageSize) /\ PageSize \in Nat
  BY QueryAssumption DEF mempoolTxPageFrom
<1> HIDE DEF none
<1>3. Lists(list, NewestFirst, T) /\ T = {}
  BY <1>1, PoolListed DEF PoolRest
<1> HIDE DEF T, list
<1>4. list \in Seq(T) /\ Len(list) = 0
  BY <1>3, FS_EmptySet DEF Lists
<1>5. page \in Seq(T) /\ Len(page) \in Nat /\ Len(page) <= Len(list)
  BY <1>2, <1>4, FirstRowsIs
<1>6. QED
  BY <1>3, <1>4, <1>5

LEMMA PoolsGoOn ==
  ASSUME NEW q, NEW db, Reading(q, db), Seen(q.op, db), Continues(q, db), q.op = "MempoolOverview",
         NEW r, r = AfterStatement(q, db)
  PROVE  /\ r.stage = "reading" => Continues(r, db)
         /\ r.stage = "answered" /\ Last(r.got) # NoRow => Paginated(r)
<1> DEFINE x == Select(Plan(q.op)[Len(q.got) + 1], db, q, q.got)
<1>1. /\ r.op = q.op /\ r.before = q.before /\ r.torn = q.torn
      /\ r.got = Append(q.got, x)
      /\ \/ r.stage = "refused"
         \/ r.stage = "reading" /\ Reading(r, db) /\ ~CursorRefused(r, r.got) /\ r.pages = q.pages
         \/ /\ r.stage = "answered" /\ Settled(r, db)
            /\ r.pages = IF q.op \in Paged THEN q.pages \o Last(r.got) ELSE q.pages
  BY StatementReads
<1>2. Len(Plan(q.op)) = 3
  BY DEF Plan
<1>3. IsSequence(q.got)
  BY DEF Reading, Follows
<1> HIDE DEF x
<1>4. /\ Len(q.got) \in Nat /\ Len(r.got) = Len(q.got) + 1
      /\ \A i \in 1..Len(q.got) : r.got[i] = q.got[i]
  BY <1>1, <1>3, Appending
<1>5. /\ PoolCursor(q.pages, q.before)
      /\ q.before # NoCursor =>
            /\ q.before.generation \in DOMAIN published
            /\ PoolWalk(q.pages, published[q.before.generation])
            /\ Len(q.got) >= 2 => q.got[1].generation = q.before.generation
  BY DEF Continues
<1>6. ASSUME r.stage = "reading" PROVE Continues(r, db)
  <2>1. Reading(r, db) /\ ~CursorRefused(r, r.got) /\ r.pages = q.pages
    BY <1>1, <1>6
  <2>2. Len(r.got) < 3
    BY <1>1, <1>2, <2>1 DEF Reading
  <2>3. ASSUME r.before # NoCursor, Len(r.got) >= 2 PROVE r.got[1].generation = r.before.generation
    <3>1. Len(r.got) = 2
      BY <1>4, <2>2, <2>3
    <3>2. QED
      BY <1>1, <2>1, <2>3, <3>1 DEF CursorRefused
  <2>4. QED
    BY <1>1, <1>5, <2>1, <2>3 DEF Continues
<1>7. ASSUME r.stage = "answered", Last(r.got) # NoRow PROVE Paginated(r)
  <2> DEFINE page == Last(r.got)
             g == db.pool.generation
             rows == db.pool.rows
  <2>1. Settled(r, db) /\ r.pages = q.pages \o page
    BY <1>1, <1>7 DEF Paged
  <2>2. /\ r.got[1] = Select("mempoolState", db, r, r.got)
        /\ page = Select("mempoolPage", db, r, r.got) /\ Len(r.got) = 3
    BY <1>1, <1>7, <2>1, PageIsLast DEF Plan, Paged
  <2>3. r.got[1].generation = g
    BY <2>2 DEF Select, mempoolStateRow
  <2>4. page = mempoolTxPageFrom(rows, q.before)
    BY <1>1, <2>2 DEF Select
  <2>5. g \in Nat /\ (g = 0 => rows = << >>) /\ (g > 0 => g \in DOMAIN published /\ rows = published[g])
    BY DEF Seen, CacheReads, PoolSound
  <2>6. q.before # NoCursor => q.before.generation = g
    <3>1. Len(q.got) = 2 /\ 1 \in 1..Len(q.got)
      <4>1. PICK k \in Nat : k = Len(q.got)
        BY <1>4
      <4>2. k + 1 = 3
        BY <1>4, <2>2, <4>1
      <4>3. k = 2 /\ 1 \in 1..k
        BY <4>2
      <4>4. QED
        BY <4>1, <4>3
    <3>2. q.got[1] = r.got[1]
      BY <1>4, <3>1
    <3>3. QED
      BY <1>5, <2>3, <3>1, <3>2
  <2> HIDE DEF page, g, rows
  <2>7. CASE g = 0
    <3>1. page = << >> /\ page \in Seq(PoolEntry)
      BY <2>4, <2>5, <2>7, EmptyPool
    <3>2. QED
      BY <1>1, <2>3, <2>5, <2>7, <3>1 DEF Paginated, page
  <2>8. CASE g > 0
    <3>1. Rows(rows) /\ g \in DOMAIN published /\ rows = published[g]
      BY <2>5, <2>8, PublishedAssumption DEF Rows
    <3>2. PoolWalk(q.pages, rows)
      <4>1. CASE q.before = NoCursor /\ q.pages = << >>
        <5>1. Lists(PoolList(rows, NoCursor), NewestFirst, PoolRest(rows, NoCursor))
          BY <3>1, PoolListed
        <5> DEFINE list == PoolList(rows, NoCursor)
                   S == PoolRest(rows, NoCursor)
        <5> HIDE DEF list, S
        <5>2. list \in Seq(S) /\ Len(list) \in Nat
          BY <5>1 DEF Lists, list, S
        <5>3. q.pages \in Seq(S) /\ Len(q.pages) = 0
          BY <4>1
        <5>4. Begins(q.pages, list)
          BY <5>2, <5>3 DEF Begins
        <5>5. QED
          BY <5>4 DEF PoolWalk, list
      <4>2. CASE q.before # NoCursor
        BY <1>5, <2>6, <3>1, <4>2
      <4>3. QED
        BY <1>5, <4>1, <4>2 DEF PoolCursor
    <3>3. PoolWalk(r.pages, rows) /\ PoolEnd(r.pages, page, rows)
      BY <1>5, <2>1, <2>4, <3>1, <3>2, PoolWalkGoesOn
    <3>4. page \in Seq(PoolEntry)
      BY <3>3 DEF PoolEnd
    <3>5. g # 0
      BY <2>8
    <3>6. QED
      BY <1>1, <2>3, <2>5, <3>1, <3>3, <3>4, <3>5 DEF Paginated, page
  <2>9. QED
    BY <2>5, <2>7, <2>8
<1>8. QED
  BY <1>6, <1>7

\* A statement keeps a client's pages in order.
LEMMA PagesGoOn ==
  ASSUME NEW q, NEW db, Reading(q, db), Seen(q.op, db), Continues(q, db),
         NEW r, r = AfterStatement(q, db)
  PROVE  /\ r.stage = "reading" => r.snap = db /\ Continues(r, db)
         /\ r.stage = "answered" /\ Last(r.got) # NoRow => Paginated(r)
<1>1. r.op = q.op /\ (r.stage = "reading" => r.snap = db)
  BY StatementReads
<1>2. CASE q.op \notin Paged
  BY <1>1, <1>2 DEF Paged, Continues, Paginated
<1>3. CASE q.op \in Paged
  BY <1>1, <1>3, BlocksGoOn, HistoriesGoOn, PoolsGoOn DEF Paged
<1>4. QED
  BY <1>2, <1>3

\* The next page is asked for with the cursor of the last one; torn notes
\* whether the block of that cursor has gone.
LEMMA FollowContinues ==
  ASSUME NEW q, Paginated(q), NextCursor(q, q.got) # NoCursor,
         NEW torn, ~torn => ~q.torn /\ ~TornNow(q),
         NEW r, Fresh(r), r.op = q.op, r.arg = q.arg, r.before = NextCursor(q, q.got),
         r.pages = q.pages, r.torn = torn
  PROVE  Continues(r, Tables(q.op))
<1> DEFINE page == Last(q.got)
           pages == q.pages
           before == r.before
<1>1. PageSize \in Nat /\ PageSize > 0
  BY QueryAssumption
<1>2. CASE q.op = "RecentBlocks"
  <2>1. BlockWalk(pages, q.torn) /\ BlockEnd(pages, page, q.torn)
    BY <1>2 DEF Paginated
  <2>2. before = NextBeforeHeight(page) /\ before # NoCursor
    BY <1>2 DEF NextCursor
  <2>3. Len(page) = PageSize /\ before = height[Last(page)]
    BY <2>2 DEF NextBeforeHeight
  <2>4. ~torn => Last(pages) \in canonical
    BY <1>2 DEF TornNow, LastBlock
  <2>5. Tables(q.op).canonical = canonical
    BY <1>2 DEF Tables, CacheReads
  <2> HIDE DEF page, pages, before
  <2>6. Len(pages) > 0 /\ Last(pages) = Last(page) /\ page \in Seq(Block)
    BY <2>1, <2>3 DEF BlockEnd
  <2>7. height[Last(page)] \in Nat
    <3>1. Len(page) \in 1..Len(page)
      BY <1>1, <2>3
    <3>2. Last(page) \in Block
      BY <2>6, <3>1 DEF Last
    <3>3. QED
      BY <3>2, TreeAssumption
  <2>8. BlockCursor(pages, before, torn, canonical)
    BY <2>3, <2>4, <2>6, <2>7 DEF BlockCursor
  <2>9. BlockWalk(pages, torn)
    BY <2>1 DEF BlockWalk
  <2>10. QED
    BY <1>2, <2>5, <2>8, <2>9 DEF Continues, pages, before
<1>3. CASE q.op = "AddressDetail"
  <2>1. HistoryWalk(pages, q.arg, q.torn) /\ HistoryEnd(pages, page, q.arg, q.torn)
    BY <1>3 DEF Paginated
  <2>2. before = NextBeforeEntry(page) /\ before # NoCursor
    BY <1>3 DEF NextCursor
  <2>3. Len(page) = PageSize /\ before = Last(page)
    BY <2>2 DEF NextBeforeEntry
  <2>4. ~torn => Last(pages).block \in canonical
    BY <1>3 DEF TornNow, LastBlock
  <2>5. Tables(q.op).canonical = canonical
    BY <1>3 DEF Tables, CacheReads
  <2> HIDE DEF page, pages, before
  <2>6. Len(pages) > 0 /\ Last(pages) = Last(page)
    BY <2>1, <2>3 DEF HistoryEnd
  <2>7. HistoryCursor(pages, before, torn, canonical)
    BY <2>2, <2>3, <2>4, <2>6 DEF HistoryCursor
  <2>8. HistoryWalk(pages, q.arg, torn)
    BY <2>1 DEF HistoryWalk
  <2>9. QED
    BY <1>3, <2>5, <2>7, <2>8 DEF Continues, pages, before
<1>4. CASE q.op = "MempoolOverview"
  <2> DEFINE g == q.got[1].generation
             rows == published[g]
  <2>1. /\ g \in Nat /\ (g = 0 => page = << >>)
        /\ g > 0 => g \in DOMAIN published /\ PoolWalk(pages, rows) /\ PoolEnd(pages, page, rows)
    BY <1>4 DEF Paginated
  <2>2. before = NextPoolCursor(g, page) /\ before # NoCursor
    BY <1>4 DEF NextCursor
  <2>3. /\ Len(page) = PageSize
        /\ before = [generation |-> g, time |-> Last(page).time, tx |-> Last(page).tx]
    BY <2>2 DEF NextPoolCursor
  <2> HIDE DEF page, pages, before, g
  <2>4. g > 0
    <3>1. page # << >>
      BY <1>1, <2>3
    <3>2. QED
      BY <2>1, <3>1
  <2>5. before.generation = g /\ before.time = Last(page).time /\ before.tx = Last(page).tx
    BY <2>3
  <2>6. Len(pages) > 0 /\ Last(pages) = Last(page)
    BY <2>1, <2>3, <2>4 DEF PoolEnd
  <2>7. PoolCursor(pages, before)
    BY <2>2, <2>5, <2>6 DEF PoolCursor
  <2>8. before.generation \in DOMAIN published /\ PoolWalk(pages, published[before.generation])
    BY <2>1, <2>4, <2>5
  <2>9. ~ (Len(r.got) >= 2)
    BY DEF Fresh
  <2>10. QED
    BY <1>4, <2>7, <2>8, <2>9 DEF Continues, pages, before
<1>5. CASE q.op \notin Paged
  BY <1>5 DEF Continues, Paged
<1>6. QED
  BY <1>2, <1>3, <1>4, <1>5 DEF Paged

\* A client's step puts a request in the place of another.
LEMMA PageSteps ==
  ASSUME ClientsOK, PagesOK, NEW c \in Client, NEW q, NEW db, Reading(q, db), Seen(q.op, db),
         Continues(q, db), client' = [client EXCEPT ![c] = AfterStatement(q, db)]
  PROVE  PagesOK'
<1> DEFINE r == AfterStatement(q, db)
<1>1. /\ r.stage = "reading" => r.snap = db /\ Continues(r, db)
      /\ r.stage = "answered" /\ Last(r.got) # NoRow => Paginated(r)
  BY PagesGoOn
<1> HIDE DEF r
<1>2. ASSUME NEW d \in Client, NEW s, s = client'[d]
      PROVE  /\ s.stage = "reading" => Continues(s, s.snap)
             /\ s.stage = "answered" /\ Last(s.got) # NoRow => Paginated(s)
  <2>1. s = IF d = c THEN r ELSE client[d]
    BY <1>2 DEF ClientsOK, r
  <2>2. QED
    BY <1>1, <2>1 DEF PagesOK
<1>3. QED
  BY <1>2 DEF PagesOK

LEMMA BeginPages ==
  ASSUME StoreFacts, CachesOK, ClientsOK, PagesOK, NEW c \in Client, NEW r \in Requests, Begin(c, r)
  PROVE  PagesOK'
<1> DEFINE q == [Idle EXCEPT !.op = r.op, !.arg = r.arg]
<1>1. /\ Fresh(q) /\ q.op = r.op /\ q.before = NoCursor /\ q.pages = << >>
  BY BeginFresh
<1>2. client' = [client EXCEPT ![c] = AfterStatement(q, Tables(r.op))]
  BY DEF Begin
<1> HIDE DEF q
<1> DEFINE db == Tables(r.op)
           none == << >>
<1>3. Reading(q, db) /\ Seen(q.op, db)
  BY <1>1, FreshReads, TablesSeen
<1>4. \A E : none \in Seq(E) /\ Len(none) = 0
  OBVIOUS
<1> HIDE DEF db
<1>5. q.pages = none /\ q.before = NoCursor
  BY <1>1
<1> HIDE DEF none
<1>6. Continues(q, db)
  <2>1. BlockWalk(q.pages, q.torn) /\ BlockCursor(q.pages, q.before, q.torn, db.canonical)
    BY <1>4, <1>5 DEF BlockWalk, BlockCursor, none
  <2>2. /\ HistoryWalk(q.pages, q.arg, q.torn)
        /\ HistoryCursor(q.pages, q.before, q.torn, db.canonical)
    BY <1>4, <1>5 DEF HistoryWalk, HistoryCursor, none
  <2>3. PoolCursor(q.pages, q.before)
    BY <1>5 DEF PoolCursor, none
  <2>4. QED
    BY <1>5, <2>1, <2>2, <2>3 DEF Continues
<1>7. QED
  BY <1>2, <1>3, <1>6, PageSteps DEF db

LEMMA FollowPages ==
  ASSUME StoreFacts, CachesOK, ClientsOK, PagesOK, NEW c \in Client, Follow(c)
  PROVE  PagesOK'
<1> DEFINE q == client[c]
           torn == q.torn \/ TornNow(q)
           r == Resumed(q, torn)
<1>1. /\ q.stage = "answered" /\ Last(q.got) # NoRow /\ NextCursor(q, q.got) # NoCursor
      /\ client' = [client EXCEPT ![c] = AfterStatement(r, Tables(q.op))]
  BY DEF Follow, Resumed
<1>2. PICK db : Settled(q, db)
  BY <1>1 DEF ClientsOK, RequestOK
<1>3. Paginated(q)
  BY <1>1 DEF PagesOK
<1>4. ~torn => ~q.torn /\ ~TornNow(q)
  OBVIOUS
<1> HIDE DEF q, torn
<1>5. NextCursor(q, q.got) # NoCursor
  BY <1>1
<1>6. /\ Fresh(r) /\ r.op = q.op /\ r.arg = q.arg /\ r.before = NextCursor(q, q.got)
      /\ r.pages = q.pages /\ r.torn = torn
  BY <1>2, <1>5, FollowFresh
<1> HIDE DEF r
<1>7. Reading(r, Tables(q.op)) /\ Seen(r.op, Tables(q.op))
  BY <1>6, FreshReads, TablesSeen
<1>8. Continues(r, Tables(q.op))
  BY <1>3, <1>4, <1>5, <1>6, FollowContinues
<1>9. QED
  BY <1>1, <1>7, <1>8, PageSteps

LEMMA FetchPages ==
  ASSUME ClientsOK, PagesOK, NEW c \in Client, Fetch(c)
  PROVE  PagesOK'
<1> DEFINE q == client[c]
<1>1. /\ q.stage = "reading"
      /\ client' = [client EXCEPT ![c] = AfterStatement(q, q.snap)]
  BY DEF Fetch, View
<1>2. Reading(q, q.snap) /\ Seen(q.op, q.snap)
  BY <1>1 DEF ClientsOK, RequestOK
<1>3. Continues(q, q.snap)
  BY <1>1 DEF PagesOK
<1> HIDE DEF q
<1>4. QED
  BY <1>1, <1>2, <1>3, PageSteps

\* At any time, what clients have put together is in order.
LEMMA PagesInvariant == ReadersSpec => []PagesOK
<1>1. ReadersInit => PagesOK
  <2>1. Idle.stage = "idle"
    BY DEF Idle
  <2>2. ReadersInit => \A c \in Client : client[c] = Idle
    BY DEF ReadersInit
  <2>3. QED
    BY <2>1, <2>2 DEF PagesOK
<1>2. StoreFacts /\ CachesOK /\ ClientsOK /\ PagesOK /\ [ReadersNext]_readersVars => PagesOK'
  <2> SUFFICES ASSUME StoreFacts, CachesOK, ClientsOK, PagesOK, [ReadersNext]_readersVars
               PROVE  PagesOK'
    OBVIOUS
  <2>1. CASE UNCHANGED client
    BY <2>1 DEF PagesOK
  <2>2. ASSUME NEW c \in Client, Follow(c) \/ Fetch(c) \/ \E r \in Requests : Begin(c, r)
        PROVE  PagesOK'
    BY <2>2, FollowPages, FetchPages, BeginPages
  <2>3. QED
    BY <2>1, <2>2 DEF ReadersNext, readersVars, IndexerApplies, IndexerRollsBack, ReplacePool,
       ReplaceDeployments
<1>3. QED
  BY <1>1, <1>2, RequestsInvariant, PTL DEF ReadersSpec

\* The pages a client has put together begin the mempool list of the generation
\* they are of, and are the whole of it when no cursor is left, however often
\* the mempool was replaced between two of them (MempoolOverview).
THEOREM ListsWhole == ReadersSpec => []WholeList
<1>1. PagesOK => WholeList
  <2> SUFFICES ASSUME PagesOK, NEW c \in Client, NEW q, q = client[c],
                      Answered(q, "MempoolOverview"), q.got[1].generation > 0
               PROVE  LET rows == published[q.got[1].generation]
                      IN  /\ IsPrefix(q.pages, PoolList(rows, NoCursor))
                          /\ NextCursor(q, q.got) = NoCursor => Len(q.pages) = Cardinality(DOMAIN rows)
    BY DEF WholeList
  <2> DEFINE g == q.got[1].generation
             rows == published[g]
             page == Last(q.got)
  <2>1. q.stage = "answered" /\ q.op = "MempoolOverview" /\ Last(q.got) # NoRow
    BY DEF Answered
  <2>2. Paginated(q)
    BY <2>1 DEF PagesOK
  <2>3. g \in Nat /\ PoolWalk(q.pages, rows) /\ PoolEnd(q.pages, page, rows)
    BY <2>1, <2>2 DEF Paginated
  <2>4. IsPrefix(q.pages, PoolList(rows, NoCursor))
    BY <2>3, BeginsIsPrefix DEF PoolWalk
  <2>5. NextCursor(q, q.got) = NextPoolCursor(g, page)
    BY <2>1 DEF NextCursor
  <2> HIDE DEF g, page, rows
  <2>6. ASSUME Len(page) = PageSize PROVE NextPoolCursor(g, page) # NoCursor
    <3>1. page \in Seq(PoolEntry) /\ Len(page) \in 1..Len(page)
      BY <2>3, <2>6, QueryAssumption DEF PoolEnd
    <3>2. Last(page) \in PoolEntry
      BY <3>1 DEF Last
    <3>3. NextPoolCursor(g, page) \in [generation : Nat, time : Nat, tx : Tx]
      BY <2>3, <2>6, <3>2 DEF NextPoolCursor, PoolEntry
    <3>4. QED
      BY <3>3, QueryAssumption
  <2>7. NextCursor(q, q.got) = NoCursor => Len(q.pages) = Cardinality(DOMAIN rows)
    BY <2>3, <2>5, <2>6 DEF PoolEnd
  <2>8. QED
    BY <2>4, <2>7 DEF rows, g
<1>2. QED
  BY <1>1, PagesInvariant, PTL

\* Pages of blocks descend and, unless a reorganisation removed the block of a
\* cursor, are parent-linked down to the root (RecentBlocks).
THEOREM BlocksPaged == ReadersSpec => []BlockPages
<1>1. PagesOK => BlockPages
  <2> SUFFICES ASSUME PagesOK, NEW c \in Client, NEW q, q = client[c], Answered(q, "RecentBlocks")
               PROVE  LET n == Len(q.pages)
                      IN  /\ \A i \in 1..(n - 1) : height[q.pages[i]] > height[q.pages[i + 1]]
                          /\ ~q.torn => \A i \in 1..(n - 1) : prev[q.pages[i]] = q.pages[i + 1]
                          /\ ~q.torn /\ n > 0 /\ NextCursor(q, q.got) = NoCursor
                               => prev[q.pages[n]] = NoBlock
    BY DEF BlockPages
  <2> DEFINE page == Last(q.got)
  <2>1. q.stage = "answered" /\ q.op = "RecentBlocks" /\ Last(q.got) # NoRow
    BY DEF Answered
  <2>2. Paginated(q)
    BY <2>1 DEF PagesOK
  <2>3. BlockWalk(q.pages, q.torn) /\ BlockEnd(q.pages, page, q.torn)
    BY <2>1, <2>2 DEF Paginated
  <2>4. NextCursor(q, q.got) = NextBeforeHeight(page)
    BY <2>1 DEF NextCursor
  <2> HIDE DEF page
  <2>5. ASSUME Len(page) = PageSize, height[Last(page)] # 0 PROVE NextBeforeHeight(page) # NoCursor
    <3>1. page \in Seq(Block) /\ Len(page) \in 1..Len(page)
      BY <2>3, <2>5, QueryAssumption DEF BlockEnd
    <3>2. Last(page) \in Block
      BY <3>1 DEF Last
    <3>3. height[Last(page)] \in Nat /\ height[Last(page)] > 0
      BY <2>5, <3>2, TreeAssumption
    <3>4. QED
      BY <2>5, <3>3, QueryAssumption DEF NextBeforeHeight
  <2>6. ~q.torn /\ Len(q.pages) > 0 /\ NextCursor(q, q.got) = NoCursor
          => prev[q.pages[Len(q.pages)]] = NoBlock
    BY <2>3, <2>4, <2>5 DEF BlockEnd, Last
  <2>7. QED
    BY <2>3, <2>6 DEF BlockWalk
<1>2. QED
  BY <1>1, PagesInvariant, PTL

\* Pages of an address history descend and, unless a reorganisation removed the
\* block of a cursor, begin the history of one branch, which they are when no
\* cursor is left (addressHistoryFrom).
THEOREM HistoriesPaged == ReadersSpec => []HistoryPages
<1>1. PagesOK => HistoryPages
  <2> SUFFICES ASSUME PagesOK, NEW c \in Client, NEW q, q = client[c],
                      Answered(q, "AddressDetail"), Len(q.pages) > 0
               PROVE  LET all == History(Ancestry[q.pages[1].block], q.arg, NoCursor)
                      IN  /\ \A i \in 1..(Len(q.pages) - 1) :
                               \/ height[q.pages[i].block] > height[q.pages[i + 1].block]
                               \/ /\ height[q.pages[i].block] = height[q.pages[i + 1].block]
                                  /\ textRank[q.pages[i].tx] > textRank[q.pages[i + 1].tx]
                          /\ ~q.torn => IsPrefix(q.pages, all)
                          /\ ~q.torn /\ NextCursor(q, q.got) = NoCursor => q.pages = all
    BY DEF HistoryPages
  <2> DEFINE page == Last(q.got)
             pages == q.pages
             all == History(Ancestry[pages[1].block], q.arg, NoCursor)
  <2>1. q.stage = "answered" /\ q.op = "AddressDetail" /\ Last(q.got) # NoRow
    BY DEF Answered
  <2>2. Paginated(q)
    BY <2>1 DEF PagesOK
  <2>3. HistoryWalk(pages, q.arg, q.torn) /\ HistoryEnd(pages, page, q.arg, q.torn)
    BY <2>1, <2>2 DEF Paginated
  <2>4. NextCursor(q, q.got) = NextBeforeEntry(page)
    BY <2>1 DEF NextCursor
  <2> HIDE DEF page, pages
  <2>5. ASSUME Len(page) = PageSize PROVE NextBeforeEntry(page) # NoCursor
    <3>1. page \in Seq(HistoryEntry) /\ Len(page) \in 1..Len(page)
      BY <2>3, <2>5, QueryAssumption DEF HistoryEnd
    <3>2. Last(page) \in HistoryEntry
      BY <3>1 DEF Last
    <3>3. QED
      BY <2>5, <3>2, QueryAssumption DEF NextBeforeEntry, HistoryEntry
  <2>6. Len(pages) > 0
    BY DEF pages
  <2>7. ~q.torn => Begins(pages, all)
    BY <2>3, <2>6 DEF HistoryWalk
  <2>8. ~q.torn => IsPrefix(pages, all)
    <3> HIDE DEF all
    <3> QED BY <2>7, BeginsIsPrefix
  <2>9. ~q.torn /\ NextCursor(q, q.got) = NoCursor => pages = all
    BY <2>3, <2>4, <2>5, <2>6 DEF HistoryEnd
  <2>10. ASSUME NEW i \in 1..(Len(pages) - 1)
         PROVE  \/ height[pages[i].block] > height[pages[i + 1].block]
                \/ /\ height[pages[i].block] = height[pages[i + 1].block]
                   /\ textRank[pages[i].tx] > textRank[pages[i + 1].tx]
    <3> DEFINE e == pages[i + 1]
               f == pages[i]
    <3>1. pages \in Seq(HistoryEntry) /\ Behind(e, f)
      BY <2>3 DEF HistoryWalk
    <3>2. e \in HistoryEntry /\ f \in HistoryEntry
      BY <3>1
    <3> HIDE DEF e, f
    <3>3. /\ height[e.block] \in Nat /\ height[f.block] \in Nat
          /\ textRank[e.tx] \in Nat /\ textRank[f.tx] \in Nat
      BY <3>2, TreeAssumption, QueryAssumption DEF HistoryEntry
    <3>4. \/ height[f.block] > height[e.block]
          \/ height[f.block] = height[e.block] /\ textRank[f.tx] > textRank[e.tx]
      BY <3>1, <3>3 DEF Behind
    <3>5. QED
      BY <3>4 DEF e, f
  <2>11. QED
    BY <2>8, <2>9, <2>10 DEF pages
<1>2. QED
  BY <1>1, PagesInvariant, PTL
=============================================================================
