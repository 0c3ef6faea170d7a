---------------------------- MODULE UpgradeProofs ----------------------------
(***************************************************************************)
(* Whatever is migrated, indexed, backfilled, stopped and restarted, in    *)
(* any order, a rollup row is the sum over its block's ancestry and the    *)
(* backfills accept the database.  If no migration is applied beside a     *)
(* running index, its two preflights, which read one row each, are enough  *)
(* for the tables to be those of an index that wrote them from the start.  *)
(*                                                                         *)
(* The argument: the chain, the coins and the address cache are written by *)
(* the store alone (StoreInv); each row of the later tables is a function  *)
(* of its block (AccountingInv, RollupTableInv); what an open backfill has *)
(* read stays true until it commits, because DROP TABLE waits for it       *)
(* (BuildInv, RebuildInv).                                                 *)
(***************************************************************************)
EXTENDS Upgrade, CanonicalStoreProofs

StoreInv == ChainInv /\ FiniteChain /\ CoinInv /\ AddressCacheExact /\ AddressTypeOK

\* A stored block passed the checks that look at nothing but the block, and
\* its branch is stored as well.
BranchSound(b) ==
  /\ IsFiniteSet(Ancestry[b])
  /\ prev[b] # NoBlock => height[b] = height[prev[b]] + 1
  /\ \A c \in Ancestry[b] : /\ c \in Block /\ FeesAccepted(c) /\ CoinbaseAccepted(c)
                            /\ height[c] <= height[b]
BlockStored(b) == /\ validateBlockShape(b) /\ IsInjective(txs[b])
                  /\ BranchSound(b) /\ Ancestry[b] \subseteq blocks
BlocksInv == \A b \in blocks : BlockStored(b)

AccountingInv ==
  /\ accounting \in [Block -> FactsRow \cup {NoRow}]
  /\ \A b \in Block : accounting[b] # NoRow => b \in blocks /\ accounting[b] = BlockFacts(b)

RollupRowOK(b) ==
  /\ b \in blocks /\ accounting[b] # NoRow
  /\ rollup[b] = Lineage[b]
  /\ \A c \in Ancestry[b] : rollup[c] # NoRow
RollupTableInv == RollupTypeOK /\ \A b \in Block : rollup[b] # NoRow => RollupRowOK(b)

MigrationInv ==
  /\ applied \subseteq Versions /\ \A v \in applied : 4..v \subseteq applied
  /\ indexer \in {"off", "checked", "on"}
  /\ backlog \subseteq blocks
  /\ 4 \notin applied => accounting = NoRows
  /\ 5 \notin applied => rollup = NoRows
  /\ 7 \notin applied => buckets = EmptyBuckets /\ anchor = NoBlock

\* The rollup backfill after its INSERT, and from the first statement that
\* read block_accounting.
Inserted == {"coins", "totals", "commit"}
Reading == {"stage", "verify", "insert"} \cup Inserted

StagedRowOK(b) ==
  /\ b \in blocks /\ accounting[b] # NoRow
  /\ build.staged[b] = Lineage[b]
  /\ Ancestry[b] \subseteq DOMAIN build.staged
  /\ build.pc \in Inserted =>
       /\ b \in build.pending \/ rollup[b] # NoRow
       /\ build.staged[b] \in RollupRow
BuildShape ==
  /\ build = [pc |-> build.pc, height |-> build.height, staged |-> build.staged,
              pending |-> build.pending]
  /\ build.pc \in {"off", "shape", "ancestry", "complete"} \cup Reading
  /\ build.pending \subseteq DOMAIN build.staged
  /\ build.pc \in {"off", "shape", "ancestry", "complete", "stage"} => DOMAIN build.staged = {}
BuildInv ==
  /\ BuildShape
  /\ build.pc \in Reading => 4 \in applied
  /\ build.pc \in {"insert"} \cup Inserted => 5 \in applied
  /\ build.pc = "stage" => AccountingComplete
  /\ \A b \in DOMAIN build.staged : StagedRowOK(b)

RebuildInv ==
  /\ rebuild = [pc |-> rebuild.pc, tip |-> rebuild.tip, rows |-> rebuild.rows]
  /\ rebuild.pc \in {"off", "rebuild", "check", "publish"}
  /\ rebuild.pc # "off" => indexer = "off" /\ rebuild.tip = checkpoint
  /\ rebuild.pc \in {"check", "publish"} => 7 \in applied
  /\ rebuild.pc = "publish" => rebuild.rows = ExactBuckets

-----------------------------------------------------------------------------
(* The kinds of steps                                                      *)

\* A step of the store under the index command.
StoreStep == \E b \in Block : IndexBlock(b) \/ IndexRollback(b)

\* Few steps write a table, and each command keeps its own state.
LEMMA StepKinds ==
  ASSUME [UpgradeNext]_upgradeVars
  PROVE  /\ \/ StoreStep \/ Down \/ (\E b \in Block : BackfillBlockAccounting(b))
            \/ CommitBuild \/ PublishBuckets \/ UNCHANGED vars
         /\ applied' = applied \/ Up \/ Down
         /\ indexer' = indexer \/ StartIndex \/ EnterLoop \/ StopIndex
         /\ backlog' = backlog \/ Accounting
         /\ build' = build \/ Rollup
         /\ rebuild' = rebuild \/ Rebuild
<1> USE DEF Migrate, Index, Accounting, Rollup, Rebuild, Statement
<1>1. CASE UNCHANGED upgradeVars
  BY <1>1 DEF upgradeVars
<1>2. CASE Migrate
  BY <1>2 DEF Up, Down
<1>3. CASE Index
  BY <1>3 DEF StoreStep, StartIndex, EnterLoop, StopIndex, IndexBlock, IndexRollback
<1>4. CASE Accounting
  BY <1>4 DEF BackfillAccounting, StopAccounting, BackfillBlockAccounting
<1>5. CASE Rollup
  BY <1>5 DEF BackfillSupplyRollup, CheckShape, CheckAncestry, CheckComplete, Stage,
              CheckContradictions, InsertFromStaging, CheckCoins, CheckTotals, CommitBuild,
              StopBuild
<1>6. CASE Rebuild
  BY <1>6 DEF BackfillAddressDistribution, RebuildBuckets, CheckRebuilt, PublishBuckets,
              StopRebuild
<1>7. QED
  BY <1>1, <1>2, <1>3, <1>4, <1>5, <1>6 DEF UpgradeNext

\* But for the store's, none leads to another chain, other coins or another
\* cache, and an anchor it sets is the checkpoint's or none.
LEMMA OtherSteps ==
  ASSUME RebuildInv, [UpgradeNext]_upgradeVars, ~StoreStep
  PROVE  /\ UNCHANGED <<chainVars, utxo, addresses>>
         /\ anchor' \in {anchor, checkpoint, NoBlock}
<1>1. CASE UNCHANGED vars
  BY <1>1 DEF vars, chainVars
<1>2. CASE Down
  BY <1>2 DEF Down, chainVars
<1>3. ASSUME NEW b \in Block, BackfillBlockAccounting(b) PROVE UNCHANGED <<chainVars, ledgerVars>>
  BY <1>3 DEF BackfillBlockAccounting
<1>4. CASE CommitBuild
  BY <1>4 DEF CommitBuild, ledgerVars
<1>5. CASE PublishBuckets
  BY <1>5 DEF PublishBuckets, RebuildInv
<1>6. QED
  BY <1>1, <1>2, <1>3, <1>4, <1>5, StepKinds DEF ledgerVars

LEMMA ApplyKeepsStore ==
  ASSUME StoreInv, NEW b \in Block, ApplyBlock(b)
  PROVE  StoreInv'
<1>1. ChainInv' /\ FiniteChain' /\ CoinInv' /\ AddressCacheExact'
  BY ApplyKeepsChain, ApplyKeepsFinite, ApplyKeepsCoins, ApplyKeepsCache DEF StoreInv
<1>2. ReadableCoins(utxo)'
  BY <1>1, CoinInvReadable, PTL
<1>3. AddressTypeOK'
  BY <1>1, <1>2, LedgerKeepsTypes DEF ApplyBlock, UpdateLedger
<1>4. QED
  BY <1>1, <1>3 DEF StoreInv

LEMMA RollbackKeepsStore ==
  ASSUME StoreInv, NEW a \in Block, RollbackTo(a)
  PROVE  StoreInv'
<1>1. ChainInv' /\ FiniteChain' /\ CoinInv' /\ AddressCacheExact'
  BY RollbackKeepsChain, RollbackKeepsFinite, RollbackKeepsCoins, RollbackKeepsCache DEF StoreInv
<1>2. ReadableCoins(utxo)'
  BY <1>1, CoinInvReadable, PTL
<1>3. AddressTypeOK'
  BY <1>1, <1>2, LedgerKeepsTypes DEF RollbackTo, UpdateLedger
<1>4. QED
  BY <1>1, <1>3 DEF StoreInv

\* The chain, the coins and the address cache stay those of the store.
LEMMA StoreKept ==
  ASSUME StoreInv, RebuildInv, [UpgradeNext]_upgradeVars
  PROVE  StoreInv'
<1>1. CASE ~StoreStep
  <2>1. /\ UNCHANGED <<chainVars, utxo, addresses>>
        /\ anchor' \in {anchor, checkpoint, NoBlock}
    BY <1>1, OtherSteps
  <2>2. ChainInv'
    BY <2>1 DEF StoreInv, ChainInv, ChainTypeOK, BootstrapEmpty, CanonicalLinked, chainVars
  <2>3. FiniteChain' /\ CoinInv'
    BY <2>1 DEF StoreInv, FiniteChain, CoinInv, CoinTypeOK, CoinsCreated, CoinsOwned,
                SpendsRecorded, SpendsOwned, chainVars
  <2>4. AddressCacheExact'
    <3> SUFFICES ASSUME NEW a \in Address PROVE addresses'[a] = recomputeAddress(a, utxo')
      BY DEF AddressCacheExact, recomputeAddress
    <3>1. QED
      BY <2>1 DEF StoreInv, AddressCacheExact
  <2>5. AddressTypeOK'
    BY <2>1 DEF StoreInv, AddressTypeOK
  <2>6. QED
    BY <2>2, <2>3, <2>4, <2>5 DEF StoreInv
<1>2. QED
  BY <1>1, ApplyKeepsStore, RollbackKeepsStore DEF StoreStep, IndexBlock, IndexRollback

-----------------------------------------------------------------------------
(* Branches                                                                *)

LEMMA OwnBranch ==
  ASSUME NEW b \in Block
  PROVE  /\ b \in Ancestry[b]
         /\ prev[b] = NoBlock => Ancestry[b] = {b}
         /\ prev[b] # NoBlock => prev[b] \in Block /\ prev[b] \in Ancestry[b]
                                   /\ Ancestry[b] = {b} \cup Ancestry[prev[b]]
<1>1. Ancestry[b] = {b} \cup (IF prev[b] = NoBlock THEN {} ELSE Ancestry[prev[b]])
  BY AncestryIs
<1>2. ASSUME prev[b] # NoBlock PROVE prev[b] \in Block /\ prev[b] \in Ancestry[prev[b]]
  <2>1. prev[b] \in Block
    BY <1>2, TreeAssumption
  <2>2. QED
    BY <2>1, AncestryIs
<1>3. QED
  BY <1>1, <1>2

\* A sound branch grows by one sound block.
LEMMA BranchGrows ==
  ASSUME NEW b \in Block, FeesAccepted(b), CoinbaseAccepted(b),
         prev[b] # NoBlock => BranchSound(prev[b]) /\ height[b] = height[prev[b]] + 1
  PROVE  BranchSound(b)
<1>1. CASE prev[b] = NoBlock
  BY <1>1, OwnBranch, FS_Singleton, TreeAssumption DEF BranchSound
<1>2. CASE prev[b] # NoBlock
  <2> DEFINE p == prev[b]
  <2>1. Ancestry[b] = {b} \cup Ancestry[p] /\ p \in Block
    BY <1>2, OwnBranch
  <2>2. BranchSound(p) /\ height[b] = height[p] + 1
    BY <1>2
  <2>3. IsFiniteSet(Ancestry[b])
    BY <2>1, <2>2, FS_AddElement DEF BranchSound
  <2>4. \A c \in Ancestry[b] : c \in Block /\ FeesAccepted(c) /\ CoinbaseAccepted(c)
    BY <2>1, <2>2 DEF BranchSound
  <2>5. ASSUME NEW c \in Ancestry[b] PROVE height[c] <= height[b]
    <3>1. height[c] \in Nat /\ height[p] \in Nat /\ height[b] \in Nat
      BY <2>1, <2>4, TreeAssumption
    <3>2. c = b \/ height[c] <= height[p]
      BY <2>1, <2>2 DEF BranchSound
    <3> HIDE DEF p
    <3>3. QED
      BY <2>2, <3>1, <3>2
  <2>6. QED
    BY <2>2, <2>3, <2>4, <2>5 DEF BranchSound
<1>3. QED
  BY <1>1, <1>2

\* What is on the branch of a block is not above it, so the block is not on
\* its parent's branch.
LEMMA ParentBranch ==
  ASSUME NEW b \in Block, BranchSound(b), prev[b] # NoBlock, BranchSound(prev[b])
  PROVE  b \notin Ancestry[prev[b]]
<1> DEFINE p == prev[b]
<1>1. height[b] = height[p] + 1 /\ height[p] \in Nat
  BY OwnBranch, TreeAssumption DEF BranchSound
<1>2. \A c \in Ancestry[p] : height[c] <= height[p]
  BY DEF BranchSound
<1> HIDE DEF p
<1>3. b \notin Ancestry[p]
  BY <1>1, <1>2
<1>4. QED
  BY <1>3 DEF p

\* Rows of blocks only ever rest on stored blocks.
LEMMA ApplyKeepsBlocks ==
  ASSUME ChainInv, BlocksInv, NEW b \in Block, ApplyBlock(b)
  PROVE  BlocksInv'
<1>1. blocks' = blocks \cup {b}
  BY DEF ApplyBlock
<1>2. ASSUME NEW c \in blocks PROVE BlockStored(c)'
  BY <1>1, <1>2 DEF BlocksInv, BlockStored, BranchSound
<1>3. ASSUME b \notin blocks PROVE BlockStored(b)'
  <2>1. /\ validateBlockShape(b) /\ IsInjective(txs[b]) /\ FeesAccepted(b) /\ CoinbaseAccepted(b)
        /\ checkCanonicalContinuity(b) /\ applyBlockHeader(b)
    BY DEF ApplyBlock, Accepts, applyTransactions
  <2>2. prev[b] # NoBlock => prev[b] \in blocks /\ height[b] = height[prev[b]] + 1
    BY <1>3, <2>1 DEF checkCanonicalContinuity, applyBlockHeader, ChainInv, ChainTypeOK,
                      BootstrapEmpty
  <2>3. prev[b] # NoBlock => BranchSound(prev[b]) /\ Ancestry[prev[b]] \subseteq blocks
    BY <2>2 DEF BlocksInv, BlockStored
  <2>4. BranchSound(b)
    BY <2>1, <2>2, <2>3, BranchGrows
  <2>5. Ancestry[b] \subseteq blocks'
    BY <1>1, <2>3, OwnBranch
  <2>6. QED
    BY <2>1, <2>4, <2>5 DEF BlockStored
<1>4. QED
  BY <1>1, <1>2, <1>3 DEF BlocksInv

LEMMA BlocksKept ==
  ASSUME StoreInv, RebuildInv, BlocksInv, [UpgradeNext]_upgradeVars
  PROVE  BlocksInv'
<1>1. ASSUME blocks' = blocks PROVE BlocksInv'
  BY <1>1 DEF BlocksInv, BlockStored
<1>2. QED
  BY <1>1, OtherSteps, ApplyKeepsBlocks
     DEF StoreStep, IndexBlock, IndexRollback, RollbackTo, chainVars, StoreInv

-----------------------------------------------------------------------------
(* The sums over a branch                                                  *)

LEMMA AlongStep ==
  ASSUME NEW b \in Block, BranchSound(b), prev[b] # NoBlock => BranchSound(prev[b]),
         NEW f, \A c \in Ancestry[b] : f[c] \in Int
  PROVE  Along(b, f) = IF prev[b] = NoBlock THEN f[b] ELSE f[b] + Along(prev[b], f)
<1>1. CASE prev[b] = NoBlock
  <2>1. Ancestry[b] = {b} \cup {} /\ b \notin {} /\ IsFiniteSet({})
    BY <1>1, OwnBranch, FS_EmptySet
  <2>2. f[b] \in Int
    BY OwnBranch
  <2>3. SumFunctionOnSet(f, {b}) = f[b] + SumFunctionOnSet(f, {})
    BY <2>1, <2>2, SumAdd
  <2>4. Ancestry[b] = {b}
    BY <2>1
  <2>5. QED
    BY <1>1, <2>2, <2>3, <2>4, SumEmpty DEF Along
<1>2. CASE prev[b] # NoBlock
  <2> DEFINE rest == Ancestry[prev[b]]
  <2>1. Ancestry[b] = rest \cup {b} /\ b \notin rest
    BY <1>2, OwnBranch, ParentBranch
  <2>2. IsFiniteSet(rest)
    BY <1>2 DEF BranchSound
  <2>3. \A c \in rest \cup {b} : f[c] \in Int
    BY <2>1
  <2> HIDE DEF rest
  <2>4. SumFunctionOnSet(f, rest \cup {b}) = f[b] + SumFunctionOnSet(f, rest)
    BY <2>1, <2>2, <2>3, SumAdd
  <2>5. QED
    BY <1>2, <2>1, <2>4 DEF Along, rest
<1>3. QED
  BY <1>1, <1>2

\* The four amounts of a block that the rollup adds up, and what its coinbase
\* leaves unclaimed.
Coinbases == [c \in Block |-> CoinbaseTotal(c)]
Fees == [c \in Block |-> BlockFee(c)]
Excluded == [c \in Block |-> ExcludedValue(c)]
Subsidies == [c \in Block |-> BlockSubsidy(height[c])]
Unclaimed == [c \in Block |-> BlockSubsidy(height[c]) + BlockFee(c) - CoinbaseTotal(c)]

LEMMA LineageIs ==
  ASSUME NEW b \in Block
  PROVE  Lineage[b] =
           [ excluded |-> ExcludedValue(b), cumSubsidy |-> Along(b, Subsidies),
             cumFee |-> Along(b, Fees), cumCoinbase |-> Along(b, Coinbases),
             cumUnclaimed |-> Along(b, Subsidies) + Along(b, Fees) - Along(b, Coinbases),
             cumExcluded |-> Along(b, Excluded),
             cumUTXO |-> Along(b, Coinbases) - Along(b, Fees) - Along(b, Excluded) ]
BY DEF Lineage, Coinbases, Fees, Excluded, Subsidies

LEMMA BranchAmounts ==
  ASSUME NEW b \in Block, BranchSound(b)
  PROVE  /\ IsFiniteSet(Ancestry[b])
         /\ \A c \in Ancestry[b] :
              /\ Coinbases[c] \in Nat /\ Fees[c] \in Nat /\ Excluded[c] \in Nat
              /\ Subsidies[c] \in Nat /\ Unclaimed[c] \in Nat
              /\ Unclaimed[c] = Subsidies[c] + Fees[c] - Coinbases[c]
<1>1. IsFiniteSet(Ancestry[b])
  BY DEF BranchSound
<1>2. ASSUME NEW c \in Ancestry[b]
      PROVE  /\ Coinbases[c] \in Nat /\ Fees[c] \in Nat /\ Excluded[c] \in Nat
             /\ Subsidies[c] \in Nat /\ Unclaimed[c] \in Nat
             /\ Unclaimed[c] = Subsidies[c] + Fees[c] - Coinbases[c]
  <2>1. c \in Block /\ FeesAccepted(c) /\ CoinbaseAccepted(c)
    BY DEF BranchSound
  <2>2. BlockFee(c) \in Nat /\ CoinbaseTotal(c) \in Nat /\ ExcludedValue(c) \in Nat
    BY <2>1, FactsTyped
  <2>3. BlockSubsidy(height[c]) \in Nat
    BY <2>1, SubsidyNat, TreeAssumption
  <2>4. CoinbaseTotal(c) <= BlockSubsidy(height[c]) + BlockFee(c)
    BY <2>1 DEF CoinbaseAccepted, RewardAccepted
  <2>5. BlockSubsidy(height[c]) + BlockFee(c) - CoinbaseTotal(c) \in Nat
    BY <2>2, <2>3, <2>4
  <2>6. QED
    BY <2>1, <2>2, <2>3, <2>5 DEF Coinbases, Fees, Excluded, Subsidies, Unclaimed
<1>3. QED
  BY <1>1, <1>2

\* A row of the lineage is a row of the table, but for the sign of the coins'
\* value, which the table checks.
LEMMA LineageTyped ==
  ASSUME NEW b \in Block, BranchSound(b)
  PROVE  /\ Along(b, Subsidies) \in Nat /\ Along(b, Fees) \in Nat
         /\ Along(b, Coinbases) \in Nat /\ Along(b, Excluded) \in Nat
         /\ Along(b, Unclaimed) \in Nat
         /\ Along(b, Unclaimed) = Along(b, Subsidies) + Along(b, Fees) - Along(b, Coinbases)
         /\ Lineage[b].cumUTXO >= 0 => Lineage[b] \in RollupRow
<1> DEFINE A == Ancestry[b]
           net == [c \in Block |-> Coinbases[c] - Fees[c]]
<1>1. IsFiniteSet(A) /\ A \subseteq Block
  BY DEF BranchSound
<1>2. \A c \in A : /\ Coinbases[c] \in Nat /\ Fees[c] \in Nat /\ Excluded[c] \in Nat
                   /\ Subsidies[c] \in Nat /\ Unclaimed[c] \in Nat
                   /\ Unclaimed[c] = Subsidies[c] + Fees[c] - Coinbases[c]
  BY BranchAmounts
<1>3. \A c \in A : net[c] = Coinbases[c] - Fees[c]
  BY <1>1
<1> HIDE DEF A, net
<1>4. /\ SumFunctionOnSet(Subsidies, A) \in Nat /\ SumFunctionOnSet(Fees, A) \in Nat
      /\ SumFunctionOnSet(Coinbases, A) \in Nat /\ SumFunctionOnSet(Excluded, A) \in Nat
      /\ SumFunctionOnSet(Unclaimed, A) \in Nat
  BY <1>1, <1>2, SumNat
<1>5. SumFunctionOnSet(net, A) = SumFunctionOnSet(Coinbases, A) - SumFunctionOnSet(Fees, A)
  <2>1. \A c \in A : Coinbases[c] \in Int /\ Fees[c] \in Int /\ net[c] = Coinbases[c] - Fees[c]
    BY <1>2, <1>3
  <2>2. QED
    BY <1>1, <2>1, SumMinus
<1>6. SumFunctionOnSet(Unclaimed, A) = SumFunctionOnSet(Subsidies, A) - SumFunctionOnSet(net, A)
  <2>1. \A c \in A : Subsidies[c] \in Int /\ net[c] \in Int
                       /\ Unclaimed[c] = Subsidies[c] - net[c]
    BY <1>2, <1>3
  <2>2. QED
    BY <1>1, <2>1, SumMinus
<1> DEFINE su == SumFunctionOnSet(Subsidies, A)
           fe == SumFunctionOnSet(Fees, A)
           co == SumFunctionOnSet(Coinbases, A)
           ex == SumFunctionOnSet(Excluded, A)
           un == SumFunctionOnSet(Unclaimed, A)
<1>7. un = su + fe - co
  <2>1. un = su - (co - fe)
    BY <1>5, <1>6
  <2> HIDE DEF su, fe, co, un
  <2>2. su \in Nat /\ fe \in Nat /\ co \in Nat
    BY <1>4 DEF su, fe, co
  <2>3. QED
    BY <2>1, <2>2
<1>8. Along(b, Subsidies) = su /\ Along(b, Fees) = fe /\ Along(b, Coinbases) = co
        /\ Along(b, Excluded) = ex /\ Along(b, Unclaimed) = un
  BY DEF Along, A
<1>9. ASSUME Lineage[b].cumUTXO >= 0 PROVE Lineage[b] \in RollupRow
  <2>1. Lineage[b] = [ excluded |-> ExcludedValue(b), cumSubsidy |-> su, cumFee |-> fe,
                       cumCoinbase |-> co, cumUnclaimed |-> un, cumExcluded |-> ex,
                       cumUTXO |-> co - fe - ex ]
    BY <1>7, <1>8, LineageIs
  <2>2. ExcludedValue(b) \in Nat
    BY ValueNat DEF ExcludedValue, ExcludedOutputs, OutsOf
  <2>3. su \in Nat /\ fe \in Nat /\ co \in Nat /\ ex \in Nat /\ un \in Nat
    BY <1>4
  <2> HIDE DEF su, fe, co, ex, un
  <2>4. co - fe - ex >= 0
    BY <1>9, <2>1
  <2>5. co - fe - ex \in Nat
    BY <2>3, <2>4
  <2>6. QED
    BY <2>1, <2>2, <2>3, <2>5 DEF RollupRow
<1>10. QED
  BY <1>4, <1>7, <1>8, <1>9

\* The row that applySupplyRollup builds on its parent's.
RowOn(p, b) ==
  LET f == BlockFacts(b)
  IN  [ excluded     |-> ExcludedValue(b),
        cumSubsidy   |-> p.cumSubsidy + f.subsidy,
        cumFee       |-> p.cumFee + f.fee,
        cumCoinbase  |-> p.cumCoinbase + f.coinbase,
        cumUnclaimed |-> p.cumUnclaimed + f.unclaimed,
        cumExcluded  |-> p.cumExcluded + ExcludedValue(b),
        cumUTXO      |-> p.cumCoinbase + f.coinbase - (p.cumFee + f.fee)
                           - (p.cumExcluded + ExcludedValue(b)) ]

\* One block's row on top of the lineage of its parent is its own lineage.
LEMMA LineageStep ==
  ASSUME NEW b \in Block, BranchSound(b), prev[b] # NoBlock => BranchSound(prev[b])
  PROVE  Lineage[b] = RowOn(IF prev[b] = NoBlock THEN ZeroRollup ELSE Lineage[prev[b]], b)
<1> DEFINE sb == BlockSubsidy(height[b])
           fb == BlockFee(b)
           cb == CoinbaseTotal(b)
           eb == ExcludedValue(b)
<1>1. \A c \in Ancestry[b] : /\ Coinbases[c] \in Int /\ Fees[c] \in Int
                             /\ Excluded[c] \in Int /\ Subsidies[c] \in Int
  BY BranchAmounts
<1>2. sb \in Int /\ fb \in Int /\ cb \in Int /\ eb \in Int
  BY <1>1, OwnBranch DEF Coinbases, Fees, Excluded, Subsidies
<1>3. Coinbases[b] = cb /\ Fees[b] = fb /\ Excluded[b] = eb /\ Subsidies[b] = sb
  BY DEF Coinbases, Fees, Excluded, Subsidies
<1>4. BlockFacts(b) = [subsidy |-> sb, fee |-> fb, coinbase |-> cb, unclaimed |-> sb + fb - cb]
  BY DEF BlockFacts, ComputeBlockFacts
<1> HIDE DEF sb, fb, cb, eb
<1>5. CASE prev[b] = NoBlock
  <2>1. /\ Along(b, Coinbases) = cb /\ Along(b, Fees) = fb
        /\ Along(b, Excluded) = eb /\ Along(b, Subsidies) = sb
    BY <1>1, <1>3, <1>5, AlongStep
  <2>2. Lineage[b] = [ excluded |-> eb, cumSubsidy |-> sb, cumFee |-> fb, cumCoinbase |-> cb,
                       cumUnclaimed |-> sb + fb - cb, cumExcluded |-> eb,
                       cumUTXO |-> cb - fb - eb ]
    BY <2>1, LineageIs DEF eb
  <2>3. RowOn(ZeroRollup, b) = [ excluded |-> eb, cumSubsidy |-> 0 + sb, cumFee |-> 0 + fb,
                       cumCoinbase |-> 0 + cb, cumUnclaimed |-> 0 + (sb + fb - cb),
                       cumExcluded |-> 0 + eb, cumUTXO |-> 0 + cb - (0 + fb) - (0 + eb) ]
    BY <1>4 DEF RowOn, ZeroRollup, eb
  <2>4. QED
    BY <1>2, <1>5, <2>2, <2>3
<1>6. CASE prev[b] # NoBlock
  <2> DEFINE p == prev[b]
             s == Along(p, Subsidies)
             f == Along(p, Fees)
             c == Along(p, Coinbases)
             e == Along(p, Excluded)
  <2>1. p \in Block /\ BranchSound(p)
    BY <1>6, OwnBranch
  <2>2. s \in Nat /\ f \in Nat /\ c \in Nat /\ e \in Nat
    BY <2>1, LineageTyped
  <2>3. /\ Along(b, Coinbases) = cb + c /\ Along(b, Fees) = fb + f
        /\ Along(b, Excluded) = eb + e /\ Along(b, Subsidies) = sb + s
    BY <1>1, <1>3, <1>6, AlongStep
  <2>4. Lineage[p] = [ excluded |-> ExcludedValue(p), cumSubsidy |-> s, cumFee |-> f,
                       cumCoinbase |-> c, cumUnclaimed |-> s + f - c, cumExcluded |-> e,
                       cumUTXO |-> c - f - e ]
    BY <2>1, LineageIs
  <2>5. Lineage[b] = [ excluded |-> eb, cumSubsidy |-> sb + s, cumFee |-> fb + f,
                       cumCoinbase |-> cb + c, cumUnclaimed |-> (sb + s) + (fb + f) - (cb + c),
                       cumExcluded |-> eb + e, cumUTXO |-> (cb + c) - (fb + f) - (eb + e) ]
    BY <2>3, LineageIs DEF eb
  <2> HIDE DEF s, f, c, e, p
  <2>6. RowOn(Lineage[p], b) = [ excluded |-> eb, cumSubsidy |-> s + sb, cumFee |-> f + fb,
                       cumCoinbase |-> c + cb, cumUnclaimed |-> s + f - c + (sb + fb - cb),
                       cumExcluded |-> e + eb, cumUTXO |-> c + cb - (f + fb) - (e + eb) ]
    BY <1>4, <2>4 DEF RowOn, eb
  <2>7. Lineage[b] = RowOn(Lineage[p], b)
    BY <1>2, <2>2, <2>5, <2>6
  <2>8. QED
    BY <1>6, <2>7 DEF p
<1>7. QED
  BY <1>5, <1>6

-----------------------------------------------------------------------------
(* The migrations                                                          *)

LEMMA MinMax ==
  ASSUME NEW S, IsFiniteSet(S), S \subseteq Int, S # {}
  PROVE  /\ Min(S) \in S /\ \A y \in S : Min(S) <= y
         /\ Max(S) \in S /\ \A y \in S : Max(S) >= y
<1>1. PICK x \in S : \A y \in S : x <= y
  BY FiniteHasEnds
<1>2. PICK z \in S : \A y \in S : z >= y
  BY FiniteHasEnds
<1>3. Min(S) \in S /\ \A y \in S : Min(S) <= y
  BY <1>1 DEF Min
<1>4. Max(S) \in S /\ \A y \in S : Max(S) >= y
  BY <1>2 DEF Max
<1>5. QED
  BY <1>3, <1>4

LEMMA VersionEnds ==
  ASSUME NEW S \in SUBSET Versions, S # {}
  PROVE  /\ Min(S) \in S /\ \A y \in S : Min(S) <= y
         /\ Max(S) \in S /\ \A y \in S : Max(S) >= y
<1>1. S \subseteq Int
  BY DEF Versions
<1>2. IsFiniteSet(4..7)
  BY FS_Interval, 4 \in Int, 7 \in Int
<1>3. IsFiniteSet(S)
  BY <1>2, FS_Subset DEF Versions
<1>4. QED
  BY <1>1, <1>3, MinMax

\* Migrations are applied from the oldest and taken back from the newest.
LEMMA OneMigration ==
  ASSUME MigrationInv, [UpgradeNext]_upgradeVars
  PROVE  /\ applied' \subseteq Versions /\ \A v \in applied' : 4..v \subseteq applied'
         /\ applied' \subseteq applied \/ UNCHANGED vars
<1>1. CASE Up
  <2> DEFINE v == Min(Versions \ applied)
  <2>1. v \in Versions \ applied /\ \A y \in Versions \ applied : v <= y
    BY <1>1, VersionEnds DEF Up, MigrationInv
  <2>2. applied' = applied \cup {v} /\ UNCHANGED vars
    BY <1>1 DEF Up
  <2> HIDE DEF v
  <2>3. 4..v \subseteq applied'
    BY <2>1, <2>2 DEF Versions
  <2>4. QED
    BY <2>1, <2>2, <2>3 DEF MigrationInv
<1>2. CASE Down
  <2> DEFINE v == Max(applied)
  <2>1. v \in applied /\ applied' = applied \ {v}
    BY <1>2 DEF Down, NewestApplied
  <2>2. \A y \in applied : v >= y
    BY <2>1, VersionEnds DEF MigrationInv
  <2> HIDE DEF v
  <2>3. \A w \in applied' : 4..w \subseteq applied'
    BY <2>1, <2>2 DEF MigrationInv, Versions
  <2>4. QED
    BY <2>1, <2>3 DEF MigrationInv
<1>3. ASSUME ~Up, ~Down PROVE applied' = applied
  BY <1>3, StepKinds
<1>4. QED
  BY <1>1, <1>2, <1>3 DEF MigrationInv

\* The newest migration is the only one Down takes back.
LEMMA DownDrops ==
  ASSUME MigrationInv, Down
  PROVE  \E v \in applied :
           /\ applied' = applied \ {v} /\ ~InUse(v)
           /\ \A w \in applied : w <= v
           /\ accounting' = IF v = 4 THEN NoRows ELSE accounting
           /\ rollup' = IF v = 5 THEN NoRows ELSE rollup
           /\ buckets' = IF v = 7 THEN EmptyBuckets ELSE buckets
           /\ anchor' = IF v = 7 THEN NoBlock ELSE anchor
<1>1. PICK v \in applied :
           /\ v = NewestApplied /\ ~InUse(v)
           /\ applied' = applied \ {v}
           /\ accounting' = IF v = 4 THEN NoRows ELSE accounting
           /\ rollup' = IF v = 5 THEN NoRows ELSE rollup
           /\ buckets' = IF v = 7 THEN EmptyBuckets ELSE buckets
           /\ anchor' = IF v = 7 THEN NoBlock ELSE anchor
  BY DEF Down
<1>2. \A w \in applied : v >= w
  BY <1>1, VersionEnds DEF MigrationInv, NewestApplied
<1>3. \A w \in applied : w <= v
  BY <1>2 DEF MigrationInv, Versions
<1>4. QED
  BY <1>1, <1>3

\* The order of migrations and the emptiness of missing tables.
LEMMA MigrationKept ==
  ASSUME MigrationInv, BuildInv, RebuildInv, StoreInv, [UpgradeNext]_upgradeVars
  PROVE  MigrationInv'
<1>1. /\ applied' \subseteq Versions /\ \A v \in applied' : 4..v \subseteq applied'
  BY OneMigration
<1>2. indexer' \in {"off", "checked", "on"}
  BY StepKinds DEF MigrationInv, StartIndex, EnterLoop, StopIndex
<1>3. backlog' \subseteq blocks'
  <2>1. backlog' \subseteq blocks
    BY StepKinds DEF MigrationInv, Accounting, BackfillAccounting, StopAccounting,
                     BackfillBlockAccounting
  <2>2. blocks \subseteq blocks'
    BY OtherSteps DEF StoreStep, IndexBlock, IndexRollback, ApplyBlock, RollbackTo, chainVars
  <2>3. QED
    BY <2>1, <2>2
<1>4. /\ 4 \notin applied' => accounting' = NoRows
      /\ 5 \notin applied' => rollup' = NoRows
      /\ 7 \notin applied' => buckets' = EmptyBuckets /\ anchor' = NoBlock
  <2>1. CASE UNCHANGED vars /\ applied \subseteq applied'
    BY <2>1 DEF vars, MigrationInv
  <2>2. CASE Down
    BY <2>2, DownDrops DEF MigrationInv
  <2>3. CASE StoreStep
    BY <2>3 DEF StoreStep, IndexBlock, IndexRollback, MigrationInv, Versions, RollbackTo,
                supplyVars
  <2>4. ASSUME NEW b \in Block, BackfillBlockAccounting(b)
        PROVE  /\ 4 \in applied /\ applied' = applied
               /\ UNCHANGED <<rollup, buckets, anchor>>
    BY <2>4 DEF BackfillBlockAccounting, ledgerVars
  <2>5. CASE CommitBuild
    BY <2>5 DEF CommitBuild, ledgerVars, BuildInv, Inserted, MigrationInv
  <2>6. CASE PublishBuckets
    BY <2>6 DEF PublishBuckets, supplyVars, RebuildInv, MigrationInv
  <2>7. applied \subseteq applied' \/ Down
    BY StepKinds DEF Up
  <2>8. QED
    BY <2>1, <2>2, <2>3, <2>4, <2>5, <2>6, <2>7, StepKinds DEF MigrationInv
<1>5. QED
  BY <1>1, <1>2, <1>3, <1>4 DEF MigrationInv

-----------------------------------------------------------------------------
(* block_accounting and block_supply_rollup                                *)

\* The backfill computes the facts that ApplyBlock computes.
LEMMA SameFacts ==
  ASSUME NEW b \in Block
  PROVE  BackfillFacts(b) = BlockFacts(b)
<1>1. {txs[b][i] : i \in DOMAIN txs[b]} = TxSet(b)
  BY DEF TxSet, Range
<1>2. {t \in {txs[b][i] : i \in DOMAIN txs[b]} : ~IsCoinbase(t)} = Paying(b)
  BY <1>1 DEF Paying
<1>3. QED
  BY <1>2 DEF BackfillFacts, BlockFacts, BlockFee, CoinbaseTotal

\* Neither ApplyBlock nor the backfill writes other facts than the block's.
LEMMA WritesFacts ==
  ASSUME BlocksInv', AccountingInv, NEW b \in Block, b \in blocks', blocks \subseteq blocks',
         accounting' = [accounting EXCEPT ![b] = BlockFacts(b)]
  PROVE  /\ AccountingInv'
         /\ \A c \in Block : accounting[c] # NoRow => accounting'[c] = accounting[c]
<1>1. BlockStored(b)'
  BY DEF BlocksInv
<1>2. FeesAccepted(b) /\ CoinbaseAccepted(b)
  BY <1>1, OwnBranch DEF BlockStored, BranchSound
<1>3. BlockFacts(b) \in FactsRow
  BY <1>2, FactsTyped
<1>4. QED
  BY <1>3 DEF AccountingInv

LEMMA ApplyKeepsFactRows ==
  ASSUME BlocksInv', AccountingInv, NEW b \in Block, ApplyBlock(b)
  PROVE  /\ AccountingInv'
         /\ \A c \in Block : accounting[c] # NoRow => accounting'[c] = accounting[c]
<1>1. /\ b \in blocks' /\ blocks \subseteq blocks'
      /\ accounting' = [accounting EXCEPT ![b] = BlockFacts(b)]
  BY DEF ApplyBlock
<1>2. QED
  BY <1>1, WritesFacts

\* Only Down removes any.
LEMMA FactsGrow ==
  ASSUME BlocksInv', AccountingInv, MigrationInv, StoreInv, [UpgradeNext]_upgradeVars, ~Down
  PROVE  /\ AccountingInv'
         /\ \A b \in Block : accounting[b] # NoRow => accounting'[b] = accounting[b]
<1>1. ASSUME NEW b \in Block, BackfillBlockAccounting(b)
      PROVE  /\ b \in blocks' /\ blocks \subseteq blocks'
             /\ accounting' = [accounting EXCEPT ![b] = BlockFacts(b)]
  BY <1>1, SameFacts DEF BackfillBlockAccounting, MigrationInv, chainVars
<1>2. CASE \E b \in Block : ApplyBlock(b) \/ BackfillBlockAccounting(b)
  BY <1>1, <1>2, WritesFacts, ApplyKeepsFactRows
<1>3. CASE (\E b \in Block : RollbackTo(b)) \/ CommitBuild \/ PublishBuckets \/ UNCHANGED vars
  <2>1. UNCHANGED <<accounting, blocks>>
    BY <1>3 DEF RollbackTo, CommitBuild, PublishBuckets, vars, chainVars, supplyVars
  <2>2. QED
    BY <2>1 DEF AccountingInv
<1>4. QED
  BY <1>2, <1>3, StepKinds DEF StoreStep, IndexBlock, IndexRollback

LEMMA AccountingKept ==
  ASSUME BlocksInv', AccountingInv, MigrationInv, StoreInv, [UpgradeNext]_upgradeVars
  PROVE  AccountingInv'
<1>1. CASE Down
  <2>1. accounting' \in {accounting, NoRows} /\ blocks' = blocks
    BY <1>1 DEF Down, chainVars
  <2>2. QED
    BY <2>1 DEF AccountingInv, NoRows
<1>2. QED
  BY <1>1, FactsGrow

\* The row built on a parent's is the block's lineage.
LEMMA RowOnParent ==
  ASSUME RollupTableInv, NEW b \in Block, BranchSound(b),
         prev[b] # NoBlock => BranchSound(prev[b]), ParentRollup(b) # NoRow
  PROVE  /\ SupplyRollup(b) = Lineage[b]
         /\ \A c \in Ancestry[b] : c = b \/ rollup[c] # NoRow
<1>1. SupplyRollup(b) = RowOn(ParentRollup(b), b)
  BY DEF SupplyRollup, RowOn
<1>2. CASE prev[b] = NoBlock
  <2>1. ParentRollup(b) = ZeroRollup
    BY <1>2 DEF ParentRollup
  <2>2. Ancestry[b] = {b}
    BY <1>2, OwnBranch
  <2>3. QED
    BY <1>1, <1>2, <2>1, <2>2, LineageStep
<1>3. CASE prev[b] # NoBlock
  <2> DEFINE p == prev[b]
  <2>1. p \in Block /\ Ancestry[b] = {b} \cup Ancestry[p]
    BY <1>3, OwnBranch
  <2>2. height[b] # 0
    <3>1. height[p] \in Nat /\ height[b] = height[p] + 1
      BY <1>3, <2>1, TreeAssumption DEF BranchSound
    <3> HIDE DEF p
    <3>2. QED
      BY <3>1
  <2>3. ParentRollup(b) = rollup[p]
    BY <1>3, <2>2 DEF ParentRollup
  <2>4. rollup[p] = Lineage[p] /\ \A c \in Ancestry[p] : rollup[c] # NoRow
    BY <2>1, <2>3 DEF RollupTableInv, RollupRowOK
  <2>5. Lineage[b] = RowOn(Lineage[p], b)
    BY <1>3, LineageStep
  <2>6. QED
    BY <1>1, <2>1, <2>3, <2>4, <2>5
<1>4. QED
  BY <1>2, <1>3

\* ApplyBlock adds the block's lineage, and only to its parent's.
LEMMA ApplyWritesLineage ==
  ASSUME StoreInv, BlocksInv', RollupTableInv, NEW b \in Block, ApplyBlock(b),
         ParentRollup(b) # NoRow
  PROVE  /\ SupplyRollup(b) = Lineage[b]
         /\ \A c \in Ancestry[b] : c = b \/ rollup[c] # NoRow
<1>1. BlockStored(b)' /\ b \in blocks'
  BY DEF BlocksInv, ApplyBlock
<1>2. BranchSound(b)
  BY <1>1 DEF BlockStored
<1>3. prev[b] # NoBlock => BranchSound(prev[b])
  BY <1>1, OwnBranch DEF BlockStored, BlocksInv
<1>4. QED
  BY <1>2, <1>3, RowOnParent

LEMMA ApplyKeepsRollupRows ==
  ASSUME StoreInv, BlocksInv', AccountingInv, RollupTableInv, NEW b \in Block, ApplyBlock(b)
  PROVE  RollupTableInv'
<1> USE DEF RollupTableInv
<1>0. \A c \in Block : accounting[c] # NoRow => accounting'[c] # NoRow
  BY ApplyKeepsFactRows
<1>1. /\ RollupTypeOK'
      /\ \A c \in Block : c # b => rollup'[c] = rollup[c]
      /\ \A c \in Block : rollup[c] # NoRow => rollup'[c] = rollup[c]
      /\ ParentRollup(b) = NoRow => rollup' = rollup
      /\ ParentRollup(b) # NoRow => rollup'[b] = SupplyRollup(b) /\ rollup'[b] # NoRow
  BY RowsWritten
<1>2. blocks' = blocks \cup {b} /\ accounting'[b] = BlockFacts(b)
  BY DEF ApplyBlock, AccountingInv
<1>3. ASSUME NEW c \in Block, rollup[c] # NoRow PROVE RollupRowOK(c)'
  <2>1. RollupRowOK(c)
    BY <1>3
  <2>2. Ancestry[c] \subseteq Block
    <3>1. c \in blocks'
      BY <1>2, <2>1 DEF RollupRowOK
    <3>2. QED
      BY <3>1 DEF BlocksInv, BlockStored, BranchSound
  <2>3. QED
    BY <1>0, <1>1, <1>2, <1>3, <2>1, <2>2 DEF RollupRowOK
<1>4. ASSUME ParentRollup(b) # NoRow PROVE RollupRowOK(b)'
  <2>1. /\ SupplyRollup(b) = Lineage[b]
        /\ \A c \in Ancestry[b] : c = b \/ rollup[c] # NoRow
    BY <1>4, ApplyWritesLineage
  <2>2. BlockStored(b)'
    BY <1>2 DEF BlocksInv
  <2>3. Ancestry[b] \subseteq Block
    BY <2>2 DEF BlockStored, BranchSound
  <2>4. BlockFacts(b) # NoRow
    <3>1. FeesAccepted(b) /\ CoinbaseAccepted(b)
      BY <2>2, OwnBranch DEF BlockStored, BranchSound
    <3>2. QED
      BY <3>1, FactsTyped, NoRowAssumption
  <2>5. QED
    BY <1>1, <1>2, <1>4, <2>1, <2>3, <2>4 DEF RollupRowOK
<1>5. QED
  BY <1>1, <1>3, <1>4

LEMMA RollupKept ==
  ASSUME StoreInv, BlocksInv', AccountingInv, RollupTableInv, MigrationInv, BuildInv,
         [UpgradeNext]_upgradeVars
  PROVE  RollupTableInv'
<1> USE DEF RollupTableInv, RollupTypeOK
<1>1. CASE Down
  <2>1. PICK v \in applied :
           /\ \A w \in applied : w <= v
           /\ accounting' = IF v = 4 THEN NoRows ELSE accounting
           /\ rollup' = IF v = 5 THEN NoRows ELSE rollup
    BY <1>1, DownDrops
  <2>2. blocks' = blocks
    BY <1>1 DEF Down, chainVars
  <2>3. v = 4 => rollup = NoRows
    BY <2>1 DEF MigrationInv
  <2>4. rollup' = NoRows \/ (rollup' = rollup /\ accounting' = accounting)
    BY <2>1, <2>3
  <2>5. QED
    BY <2>2, <2>4 DEF NoRows, RollupRowOK
<1>2. ASSUME ~Down PROVE \A b \in Block : accounting[b] # NoRow => accounting'[b] # NoRow
  BY <1>2, FactsGrow
<1>4. ASSUME UNCHANGED rollup, blocks \subseteq blocks', ~Down PROVE RollupTableInv'
  BY <1>2, <1>4 DEF RollupRowOK
<1>5. ASSUME NEW b \in Block, ApplyBlock(b) PROVE RollupTableInv'
  BY <1>5, ApplyKeepsRollupRows
<1>6. ASSUME CommitBuild, ~Down PROVE RollupTableInv'
  <2>1. /\ rollup' = [b \in Block |-> IF b \in build.pending THEN build.staged[b] ELSE rollup[b]]
        /\ UNCHANGED <<blocks, accounting>> /\ build.pc \in Inserted
    BY <1>6 DEF CommitBuild, chainVars, Inserted
  <2>2. \A b \in build.pending : build.staged[b] \in RollupRow /\ build.staged[b] # NoRow
    BY <2>1, NoRowAssumption DEF BuildInv, BuildShape, StagedRowOK
  <2>3. ASSUME NEW b \in Block, rollup'[b] # NoRow PROVE RollupRowOK(b)'
    <3>1. CASE b \in build.pending
      <4>1. StagedRowOK(b)
        BY <3>1 DEF BuildInv, BuildShape
      <4>2. b \in blocks /\ accounting[b] # NoRow /\ build.staged[b] = Lineage[b]
              /\ Ancestry[b] \subseteq DOMAIN build.staged
        BY <4>1 DEF StagedRowOK
      <4>3. ASSUME NEW c \in Ancestry[b] PROVE rollup'[c] # NoRow
        <5>1. StagedRowOK(c) /\ c \in Block
          BY <4>2 DEF BuildInv, StoreInv, ChainInv, ChainTypeOK, StagedRowOK
        <5>2. c \in build.pending \/ rollup[c] # NoRow
          BY <2>1, <5>1 DEF StagedRowOK
        <5>3. QED
          BY <2>1, <2>2, <5>1, <5>2
      <4>4. QED
        BY <2>1, <3>1, <4>2, <4>3 DEF RollupRowOK
    <3>2. CASE b \notin build.pending
      <4>1. RollupRowOK(b) /\ rollup'[b] = rollup[b]
        BY <2>1, <2>3, <3>2
      <4>2. Ancestry[b] \subseteq Block
        <5>1. b \in blocks'
          BY <2>1, <4>1 DEF RollupRowOK
        <5>2. QED
          BY <5>1 DEF BlocksInv, BlockStored, BranchSound
      <4>3. \A c \in Block : rollup[c] # NoRow => rollup'[c] # NoRow
        BY <2>1, <2>2
      <4>4. QED
        BY <2>1, <4>1, <4>2, <4>3 DEF RollupRowOK
    <3>3. QED
      BY <3>1, <3>2
  <2>4. QED
    BY <2>1, <2>2, <2>3
<1>7. ASSUME (\E b \in Block : RollbackTo(b) \/ BackfillBlockAccounting(b))
               \/ PublishBuckets \/ UNCHANGED vars
      PROVE  UNCHANGED <<rollup, blocks>>
  BY <1>7 DEF RollbackTo, BackfillBlockAccounting, PublishBuckets, vars, chainVars, supplyVars
<1>8. QED
  BY <1>1, <1>4, <1>5, <1>6, <1>7, StepKinds DEF StoreStep, IndexBlock, IndexRollback

-----------------------------------------------------------------------------
(* The distribution                                                        *)

LEMMA MembersTyped ==
  ASSUME NEW S \in SUBSET Address, NEW cache, \A a \in Address : Balance(cache[a]) \in Nat,
         NEW k
  PROVE  Cardinality(Members(k, S, cache)) \in Nat /\ Holdings(k, S, cache) \in Nat
<1> DEFINE M == Members(k, S, cache)
           bal == [a \in Address |-> Balance(cache[a])]
<1>1. M \in SUBSET Address
  BY DEF Members
<1>2. IsFiniteSet(M)
  BY <1>1, FS_Subset, FiniteRowsAssumption
<1>3. \A a \in M : bal[a] \in Nat
  BY <1>1
<1> HIDE DEF M, bal
<1>4. Cardinality(M) \in Nat /\ SumFunctionOnSet(bal, M) \in Nat
  BY <1>2, <1>3, FS_CardinalityType, SumNat
<1>5. QED
  BY <1>4 DEF M, bal, Holdings

LEMMA CachedBalances ==
  ASSUME AddressTypeOK
  PROVE  \A a \in Address : Balance(addresses[a]) \in Nat
BY DEF AddressTypeOK, Balance, AddressRow

LEMMA ExactTyped ==
  ASSUME AddressTypeOK
  PROVE  ExactBuckets \in [Bucket -> [count : Nat, balance : Nat]]
<1>1. \A k \in Bucket : /\ Cardinality(Members(k, Address, addresses)) \in Nat
                        /\ Holdings(k, Address, addresses) \in Nat
  BY CachedBalances, MembersTyped
<1>2. QED
  BY <1>1 DEF ExactBuckets

\* A delta that DistributionOK accepts leaves no negative column, whatever
\* the buckets held.
LEMMA DeltaTyped ==
  ASSUME BucketTypeOK, NEW touched \in SUBSET Address, NEW cache,
         \A a \in Address : Balance(addresses[a]) \in Nat /\ Balance(cache[a]) \in Nat,
         DistributionAccepted(BucketsAfter(touched, cache))
  PROVE  BucketsAfter(touched, cache) \in [Bucket -> [count : Nat, balance : Nat]]
<1> SUFFICES ASSUME NEW k \in Bucket
             PROVE  BucketsAfter(touched, cache)[k] \in [count : Nat, balance : Nat]
  BY DEF BucketsAfter
<1> DEFINE c0 == Cardinality(Members(k, touched, addresses))
           c1 == Cardinality(Members(k, touched, cache))
           h0 == Holdings(k, touched, addresses)
           h1 == Holdings(k, touched, cache)
<1>1. c0 \in Nat /\ c1 \in Nat /\ h0 \in Nat /\ h1 \in Nat
  BY MembersTyped
<1>2. BucketsAfter(touched, cache)[k] =
        [count |-> buckets[k].count - c0 + c1, balance |-> buckets[k].balance - h0 + h1]
  BY DEF BucketsAfter
<1>3. /\ BucketsAfter(touched, cache)[k].count >= 0
      /\ BucketsAfter(touched, cache)[k].balance >= 0
  BY DEF DistributionAccepted
<1> HIDE DEF c0, c1, h0, h1
<1>4. buckets[k].count \in Nat /\ buckets[k].balance \in Nat
  BY DEF BucketTypeOK
<1>5. QED
  BY <1>1, <1>2, <1>3, <1>4

LEMMA BucketTypesKept ==
  ASSUME StoreInv, StoreInv', BucketTypeOK, RebuildInv, [UpgradeNext]_upgradeVars
  PROVE  BucketTypeOK'
<1>1. \A a \in Address : Balance(addresses[a]) \in Nat /\ Balance(addresses'[a]) \in Nat
  BY DEF StoreInv, AddressTypeOK, Balance, AddressRow
<1>2. ASSUME NEW touched \in SUBSET Address, NEW coins, NEW tip,
             UpdateLedger(touched, coins, tip), DistributionOK(touched, coins)
      PROVE  BucketTypeOK'
  <2>1. buckets' = BucketsAfter(touched, addresses')
    BY <1>2 DEF UpdateLedger
  <2>2. DistributionAccepted(BucketsAfter(touched, addresses'))
    BY <1>2 DEF UpdateLedger, DistributionOK
  <2>3. QED
    BY <1>1, <2>1, <2>2, DeltaTyped DEF BucketTypeOK
<1>3. ASSUME NEW b \in Block, ApplyBlock(b) PROVE BucketTypeOK'
  BY <1>2, <1>3, TouchedAddresses DEF ApplyBlock, Accepts
<1>4. ASSUME NEW a \in Block, RollbackTo(a) PROVE BucketTypeOK'
  BY <1>2, <1>4, TouchedAddresses DEF RollbackTo, RollbackAccepted
<1>5. CASE Down
  BY <1>5 DEF Down, BucketTypeOK, EmptyBuckets
<1>6. CASE PublishBuckets
  BY <1>6, ExactTyped DEF PublishBuckets, RebuildInv, BucketTypeOK, StoreInv
<1>7. CASE (\E b \in Block : BackfillBlockAccounting(b)) \/ CommitBuild \/ UNCHANGED vars
  BY <1>7 DEF BackfillBlockAccounting, CommitBuild, vars, ledgerVars, BucketTypeOK
<1>8. QED
  BY <1>3, <1>4, <1>5, <1>6, <1>7, StepKinds DEF StoreStep, IndexBlock, IndexRollback

\* A rebuild publishes what it has checked: the index stays stopped, so the
\* checkpoint and the cache it has read do not move.
LEMMA RebuildKept ==
  ASSUME RebuildInv, MigrationInv, [UpgradeNext]_upgradeVars
  PROVE  RebuildInv'
<1> USE DEF RebuildInv
<1>1. CASE rebuild.pc = "off" /\ rebuild' = rebuild
  BY <1>1
<1>2. CASE Rebuild
  <2>1. CASE BackfillAddressDistribution
    BY <2>1 DEF BackfillAddressDistribution, NoRebuild, vars
  <2>2. CASE RebuildBuckets
    BY <2>2 DEF RebuildBuckets, vars
  <2>3. CASE CheckRebuilt
    <3>1. /\ rebuild.pc = "check" /\ rebuild.rows = ExactBuckets
          /\ rebuild' = [rebuild EXCEPT !.pc = "publish"]
          /\ UNCHANGED <<vars, applied, indexer>>
      BY <2>3 DEF CheckRebuilt
    <3>2. ExactBuckets' = ExactBuckets
      BY <3>1 DEF ExactBuckets, Members, Holdings, vars
    <3>3. QED
      BY <3>1, <3>2 DEF vars
  <2>4. CASE PublishBuckets \/ StopRebuild
    BY <2>4 DEF PublishBuckets, StopRebuild, NoRebuild
  <2>5. QED
    BY <1>2, <2>1, <2>2, <2>3, <2>4 DEF Rebuild
<1>3. CASE rebuild.pc # "off" /\ rebuild' = rebuild
  <2>1. ~StoreStep
    BY <1>3 DEF StoreStep, IndexBlock, IndexRollback
  <2>2. UNCHANGED <<chainVars, addresses>>
    BY <2>1, OtherSteps
  <2>3. ExactBuckets' = ExactBuckets
    BY <2>2 DEF ExactBuckets, Members, Holdings
  <2>4. indexer' = "off"
    BY <1>3, StepKinds DEF StartIndex, OthersAllowIndex, EnterLoop, StopIndex
  <2>5. rebuild.pc \in {"check", "publish"} => 7 \in applied'
    <3>1. CASE Down
      BY <1>3, <3>1, DownDrops DEF InUse
    <3>2. QED
      BY <1>3, <3>1, StepKinds DEF Up
  <2>6. QED
    BY <1>3, <2>2, <2>3, <2>4, <2>5 DEF chainVars
<1>4. QED
  BY <1>1, <1>2, <1>3, StepKinds

-----------------------------------------------------------------------------
(* The rollup backfill                                                     *)

\* On the canonical chain, what is not above a block is its branch.
LEMMA ChainIsBranch ==
  ASSUME StoreInv, NEW b \in canonical
  PROVE  /\ b \in Block /\ b \in blocks
         /\ Ancestry[b] = {c \in canonical : height[c] <= height[b]}
<1>1. canonical \subseteq Block /\ canonical \subseteq blocks /\ LinkedChain(canonical)
  BY DEF StoreInv, ChainInv, ChainTypeOK, CanonicalLinked
<1>2. QED
  BY <1>1, BranchIsBelow

\* The window over complete accounting is the lineage of every block.
LEMMA WindowIsLineage ==
  ASSUME StoreInv, BlocksInv, AccountingInv, AccountingComplete, NEW b \in canonical
  PROVE  CumulativeRow(b, {c \in Joined : height[c] <= height[b]}) = Lineage[b]
<1> DEFINE A == Ancestry[b]
<1>1. Joined = canonical
  BY DEF Joined, AccountingComplete
<1>2. {c \in Joined : height[c] <= height[b]} = A
  BY <1>1, ChainIsBranch
<1>3. b \in Block /\ BranchSound(b)
  BY ChainIsBranch DEF BlocksInv, BlockStored
<1>4. IsFiniteSet(A)
  BY <1>3 DEF BranchSound
<1>5. \A c \in A : c \in Block /\ c \in Joined /\ c \in canonical
  BY <1>1, ChainIsBranch
<1>6. \A c \in A : accounting[c] = BlockFacts(c)
  BY <1>5 DEF AccountingInv, AccountingComplete
<1>7. \A c \in A : BlockFacts(c) = [subsidy |-> Subsidies[c], fee |-> Fees[c],
                                    coinbase |-> Coinbases[c], unclaimed |-> Unclaimed[c]]
  BY <1>5 DEF BlockFacts, ComputeBlockFacts, Subsidies, Fees, Coinbases, Unclaimed
<1>8. \A c \in A : /\ [x \in Joined |-> accounting[x]["subsidy"]][c] = Subsidies[c]
                   /\ [x \in Joined |-> accounting[x]["fee"]][c] = Fees[c]
                   /\ [x \in Joined |-> accounting[x]["coinbase"]][c] = Coinbases[c]
                   /\ [x \in Joined |-> accounting[x]["unclaimed"]][c] = Unclaimed[c]
                   /\ [x \in Joined |-> ExcludedValue(x)][c] = Excluded[c]
  BY <1>5, <1>6, <1>7 DEF Excluded
<1> HIDE DEF A
<1>9. /\ Total("subsidy", A) = SumFunctionOnSet(Subsidies, A)
      /\ Total("fee", A) = SumFunctionOnSet(Fees, A)
      /\ Total("coinbase", A) = SumFunctionOnSet(Coinbases, A)
      /\ Total("unclaimed", A) = SumFunctionOnSet(Unclaimed, A)
      /\ TotalExcluded(A) = SumFunctionOnSet(Excluded, A)
  <2>1. SumFunctionOnSet([x \in Joined |-> accounting[x]["subsidy"]], A)
          = SumFunctionOnSet(Subsidies, A)
    BY <1>4, <1>8, SumSame
  <2>2. SumFunctionOnSet([x \in Joined |-> accounting[x]["fee"]], A) = SumFunctionOnSet(Fees, A)
    BY <1>4, <1>8, SumSame
  <2>3. SumFunctionOnSet([x \in Joined |-> accounting[x]["coinbase"]], A)
          = SumFunctionOnSet(Coinbases, A)
    BY <1>4, <1>8, SumSame
  <2>4. SumFunctionOnSet([x \in Joined |-> accounting[x]["unclaimed"]], A)
          = SumFunctionOnSet(Unclaimed, A)
    BY <1>4, <1>8, SumSame
  <2>5. SumFunctionOnSet([x \in Joined |-> ExcludedValue(x)], A) = SumFunctionOnSet(Excluded, A)
    BY <1>4, <1>8, SumSame
  <2>6. QED
    BY <2>1, <2>2, <2>3, <2>4, <2>5 DEF Total, TotalExcluded
<1>10. /\ Total("subsidy", A) = Along(b, Subsidies) /\ Total("fee", A) = Along(b, Fees)
       /\ Total("coinbase", A) = Along(b, Coinbases)
       /\ Total("unclaimed", A) = Along(b, Unclaimed)
       /\ TotalExcluded(A) = Along(b, Excluded)
  BY <1>9 DEF Along, A
<1>11. Along(b, Unclaimed) = Along(b, Subsidies) + Along(b, Fees) - Along(b, Coinbases)
  BY <1>3, LineageTyped
<1>12. QED
  BY <1>2, <1>3, <1>10, <1>11, LineageIs DEF CumulativeRow

\* Rows of the rollup disappear with the table only.
LEMMA RowsGrow ==
  ASSUME RollupTableInv, BuildInv, StoreInv, [UpgradeNext]_upgradeVars, ~Down
  PROVE  \A b \in Block : rollup[b] # NoRow => rollup'[b] # NoRow
<1>1. ASSUME NEW b \in Block, ApplyBlock(b)
      PROVE  \A c \in Block : rollup[c] # NoRow => rollup'[c] # NoRow
  BY <1>1, RowsWritten DEF RollupTableInv
<1>2. ASSUME CommitBuild PROVE \A c \in Block : rollup[c] # NoRow => rollup'[c] # NoRow
  <2>1. \A c \in build.pending : build.staged[c] # NoRow
    BY <1>2, NoRowAssumption DEF BuildInv, BuildShape, StagedRowOK, CommitBuild, Inserted
  <2>2. QED
    BY <1>2, <2>1 DEF CommitBuild
<1>3. ASSUME (\E b \in Block : RollbackTo(b) \/ BackfillBlockAccounting(b))
               \/ PublishBuckets \/ UNCHANGED vars
      PROVE  UNCHANGED rollup
  BY <1>3 DEF RollbackTo, BackfillBlockAccounting, PublishBuckets, vars, supplyVars
<1>4. QED
  BY <1>1, <1>2, <1>3, StepKinds DEF StoreStep, IndexBlock, IndexRollback

\* What an open backfill has read stays true beside the other commands.
LEMMA BuildWaits ==
  ASSUME StoreInv, BlocksInv', AccountingInv, RollupTableInv, MigrationInv, BuildInv,
         RebuildInv, [UpgradeNext]_upgradeVars, build' = build
  PROVE  BuildInv'
<1>1. BuildShape'
  BY DEF BuildInv, BuildShape
<1>2. /\ build.pc \in Reading => 4 \in applied'
      /\ build.pc \in {"insert"} \cup Inserted => 5 \in applied'
  <2>1. CASE Down
    BY <2>1, DownDrops DEF InUse, BuildInv, Reading, Inserted
  <2>2. QED
    BY <2>1, StepKinds DEF Up, BuildInv
<1>3. blocks \subseteq blocks'
  BY OtherSteps DEF StoreStep, IndexBlock, IndexRollback, ApplyBlock, RollbackTo, chainVars
<1>4. build.pc \in Reading =>
        \A b \in Block : accounting[b] # NoRow => accounting'[b] # NoRow
  <2>1. CASE Down
    BY <2>1, DownDrops DEF InUse, Reading, Inserted
  <2>2. QED
    BY <2>1, FactsGrow
<1>5. build.pc \in Inserted => \A b \in Block : rollup[b] # NoRow => rollup'[b] # NoRow
  <2>1. CASE Down
    BY <2>1, DownDrops DEF InUse, Inserted
  <2>2. QED
    BY <2>1, RowsGrow
<1>6. ASSUME build.pc = "stage" PROVE AccountingComplete'
  <2>1. AccountingComplete
    BY <1>6 DEF BuildInv
  <2>2. \A b \in Block : accounting[b] # NoRow => accounting'[b] # NoRow
    BY <1>4, <1>6 DEF Reading
  <2>3. canonical \subseteq Block
    BY DEF StoreInv, ChainInv, ChainTypeOK
  <2>4. CASE canonical' \subseteq canonical
    BY <2>1, <2>2, <2>3, <2>4 DEF AccountingComplete
  <2>5. ASSUME NEW b \in Block, ApplyBlock(b) PROVE AccountingComplete'
    <3>1. canonical' = canonical \cup {b} /\ accounting'[b] = BlockFacts(b) /\ b \in blocks'
      BY <2>5 DEF ApplyBlock, AccountingInv
    <3>2. FeesAccepted(b) /\ CoinbaseAccepted(b)
      BY <2>5 DEF ApplyBlock, Accepts, applyTransactions
    <3>3. BlockFacts(b) # NoRow
      BY <3>2, FactsTyped, NoRowAssumption
    <3>4. QED
      BY <2>1, <2>2, <2>3, <3>1, <3>3 DEF AccountingComplete
  <2>6. QED
    BY <2>4, <2>5, OtherSteps DEF StoreStep, IndexBlock, IndexRollback, RollbackTo, chainVars
<1>7. ASSUME NEW b \in DOMAIN build.staged PROVE StagedRowOK(b)'
  <2>1. StagedRowOK(b) /\ b \in Block
    BY DEF BuildInv, StagedRowOK, StoreInv, ChainInv, ChainTypeOK
  <2>2. build.pc \in Reading
    BY DEF BuildInv, BuildShape
  <2>3. QED
    BY <1>3, <1>4, <1>5, <2>1, <2>2 DEF StagedRowOK
<1>8. QED
  BY <1>1, <1>2, <1>6, <1>7 DEF BuildInv

\* The statements of the rollup backfill.
LEMMA BuildSteps ==
  ASSUME StoreInv, BlocksInv, AccountingInv, RollupTableInv, BuildInv, Rollup
  PROVE  BuildInv'
<1> USE DEF BuildInv, BuildShape
<1>1. CASE StopBuild \/ CommitBuild \/ BackfillSupplyRollup
  <2>1. \E pc \in {"off", "shape"} : \E h :
           build' = [pc |-> pc, height |-> h, staged |-> << >>, pending |-> {}]
    BY <1>1 DEF StopBuild, CommitBuild, BackfillSupplyRollup, NoBuild
  <2>2. DOMAIN build'.staged = {} /\ build'.pending = {} /\ build'.pc \in {"off", "shape"}
    BY <2>1
  <2>3. BuildShape'
    BY <2>1, <2>2
  <2>4. QED
    BY <2>2, <2>3 DEF Reading, Inserted
<1>2. CASE CheckShape \/ CheckAncestry \/ CheckComplete
  <2>1. /\ build.pc \in {"shape", "ancestry", "complete"}
        /\ build'.pc \in {"ancestry", "complete", "stage"}
        /\ build' = [build EXCEPT !.pc = build'.pc]
        /\ build'.pc = "stage" => 4 \in applied /\ AccountingComplete
        /\ UNCHANGED <<vars, applied>>
    BY <1>2 DEF CheckShape, CheckAncestry, CheckComplete, Statement
  <2>2. AccountingComplete' <=> AccountingComplete
    BY <2>1 DEF vars, AccountingComplete
  <2>3. QED
    BY <2>1, <2>2 DEF Reading, Inserted
<1>3. CASE Stage
  <2>1. /\ build.pc = "stage" /\ UNCHANGED <<vars, applied>>
        /\ build' = [build EXCEPT !.pc = "verify", !.staged = Staged]
    BY <1>3 DEF Stage
  <2>2. AccountingComplete /\ 4 \in applied
    BY <2>1 DEF Reading
  <2>3. Joined = canonical
    BY <2>2 DEF Joined, AccountingComplete
  <2>4. DOMAIN Staged = canonical /\ \A b \in canonical : Staged[b] = Lineage[b]
    BY <2>2, <2>3, WindowIsLineage DEF Staged
  <2>5. build'.pc = "verify" /\ build'.staged = Staged /\ build'.pending = build.pending
    BY <2>1
  <2>6. build'.pending = {}
    BY <2>1, <2>5
  <2>7. ASSUME NEW b \in canonical PROVE StagedRowOK(b)'
    <3>1. b \in blocks /\ accounting[b] # NoRow /\ Ancestry[b] \subseteq canonical
      BY <2>2, ChainIsBranch DEF AccountingComplete
    <3>2. QED
      BY <2>1, <2>4, <2>5, <3>1 DEF StagedRowOK, vars, Inserted
  <2>8. BuildShape'
    BY <2>1, <2>5, <2>6 DEF Reading
  <2>9. QED
    BY <2>1, <2>2, <2>4, <2>5, <2>7, <2>8 DEF Reading, Inserted
<1>4. CASE CheckContradictions
  <2>1. /\ build.pc = "verify" /\ 5 \in applied /\ UNCHANGED <<vars, applied>>
        /\ build' = [build EXCEPT !.pc = "insert"]
    BY <1>4 DEF CheckContradictions, Statement
  <2>2. \A b \in DOMAIN build.staged : StagedRowOK(b)'
    BY <2>1 DEF StagedRowOK, vars, Inserted
  <2>3. QED
    BY <2>1, <2>2 DEF Reading, Inserted
<1>5. CASE InsertFromStaging
  <2>1. /\ build.pc = "insert" /\ UNCHANGED <<vars, applied>>
        /\ \A b \in DOMAIN build.staged : build.staged[b].cumUTXO >= 0
        /\ build' = [build EXCEPT !.pc = "coins",
                                  !.pending = {b \in DOMAIN build.staged : rollup[b] = NoRow}]
    BY <1>5 DEF InsertFromStaging, RowsFit
  <2>2. /\ build'.pc = "coins" /\ build'.staged = build.staged
        /\ build'.pending = {b \in DOMAIN build.staged : rollup[b] = NoRow}
    BY <2>1
  <2>3. ASSUME NEW b \in DOMAIN build.staged PROVE StagedRowOK(b)'
    <3>1. StagedRowOK(b)
      OBVIOUS
    <3>2. b \in Block /\ BranchSound(b) /\ build.staged[b] = Lineage[b]
      BY <3>1 DEF StagedRowOK, StoreInv, ChainInv, ChainTypeOK, BlocksInv, BlockStored
    <3>3. build.staged[b] \in RollupRow
      BY <2>1, <3>2, LineageTyped
    <3>4. QED
      BY <2>1, <2>2, <3>1, <3>3 DEF StagedRowOK, vars
  <2>4. BuildShape'
    BY <2>1, <2>2 DEF Reading, Inserted
  <2>5. QED
    BY <2>1, <2>2, <2>3, <2>4 DEF Reading, Inserted
<1>6. CASE CheckCoins \/ CheckTotals
  <2>1. /\ build.pc \in {"coins", "totals"} /\ build'.pc \in {"totals", "commit"}
        /\ build' = [build EXCEPT !.pc = build'.pc]
        /\ UNCHANGED <<vars, applied>>
    BY <1>6 DEF CheckCoins, CheckTotals, Statement
  <2>2. \A b \in DOMAIN build.staged : StagedRowOK(b)'
    BY <2>1 DEF StagedRowOK, vars, Inserted
  <2>3. QED
    BY <2>1, <2>2 DEF Reading, Inserted
<1>7. QED
  BY <1>1, <1>2, <1>3, <1>4, <1>5, <1>6 DEF Rollup

-----------------------------------------------------------------------------
(* The invariant                                                           *)

UpgradeInv == StoreInv /\ BlocksInv /\ AccountingInv /\ RollupTableInv /\ BucketTypeOK
                /\ MigrationInv /\ BuildInv /\ RebuildInv

LEMMA InitTables == Init => StoreInv /\ BlocksInv /\ AccountingInv /\ RollupTableInv
<1> SUFFICES ASSUME Init PROVE StoreInv /\ BlocksInv /\ AccountingInv /\ RollupTableInv
  OBVIOUS
<1>1. ChainInv
  BY DEF Init, ChainInv, ChainTypeOK, BootstrapEmpty, CanonicalLinked, LinkedChain
<1>2. CoinInv
  BY DEF Init, CoinInv, CoinTypeOK, CoinsCreated, CoinsOwned, SpendsRecorded, SpendsOwned
<1>3. FiniteChain /\ AddressTypeOK
  BY FS_EmptySet DEF Init, FiniteChain, AddressTypeOK
<1>4. BlocksInv /\ AccountingInv /\ RollupTableInv
  BY DEF Init, BlocksInv, AccountingInv, RollupTableInv, RollupTypeOK
<1>5. QED
  BY <1>1, <1>2, <1>3, <1>4, InitCache DEF StoreInv

LEMMA InitUpgradeInv == UpgradeInit => UpgradeInv
<1> SUFFICES ASSUME UpgradeInit PROVE UpgradeInv
  OBVIOUS
<1> USE DEF UpgradeInit
<1>1. StoreInv /\ BlocksInv /\ AccountingInv /\ RollupTableInv
  BY InitTables
<1>2. BucketTypeOK
  BY DEF Init, BucketTypeOK
<1>3. MigrationInv
  BY DEF Init, MigrationInv, NoRows, EmptyBuckets
<1>4. BuildInv
  <2>1. build = [pc |-> "off", height |-> -1, staged |-> << >>, pending |-> {}]
    BY DEF NoBuild
  <2>2. DOMAIN build.staged = {} /\ build.pending = {} /\ build.pc = "off"
    BY <2>1
  <2>3. BuildShape
    BY <2>1, <2>2 DEF BuildShape
  <2>4. QED
    BY <2>2, <2>3 DEF BuildInv, Reading, Inserted
<1>5. RebuildInv
  BY DEF RebuildInv, NoRebuild
<1>6. QED
  BY <1>1, <1>2, <1>3, <1>4, <1>5 DEF UpgradeInv

LEMMA UpgradeInvKept ==
  ASSUME UpgradeInv, [UpgradeNext]_upgradeVars
  PROVE  UpgradeInv'
<1> USE DEF UpgradeInv
<1>1. StoreInv'
  BY StoreKept
<1>2. BlocksInv'
  BY BlocksKept
<1>3. AccountingInv'
  BY <1>2, AccountingKept
<1>4. RollupTableInv'
  BY <1>2, RollupKept
<1>5. BucketTypeOK'
  BY <1>1, BucketTypesKept
<1>6. MigrationInv'
  BY MigrationKept
<1>7. BuildInv'
  BY <1>2, BuildWaits, BuildSteps, StepKinds
<1>8. RebuildInv'
  BY RebuildKept
<1>9. QED
  BY <1>1, <1>2, <1>3, <1>4, <1>5, <1>6, <1>7, <1>8

LEMMA UpgradeInvariant == UpgradeSpec => []UpgradeInv
<1>1. UpgradeInv /\ [UpgradeNext]_upgradeVars => UpgradeInv'
  BY UpgradeInvKept
<1>2. QED
  BY <1>1, InitUpgradeInv, PTL DEF UpgradeSpec

\* The tables keep their columns and their non-negative amounts, migrations
\* stay in order and a missing table holds nothing, whatever commands run
\* beside each other (Up, Down, ApplyBlock, RollbackTo and the backfills).
THEOREM UpgradeTyped == UpgradeSpec => []UpgradeTypeOK
<1>1. UpgradeInv => UpgradeTypeOK
  <2> SUFFICES ASSUME UpgradeInv PROVE UpgradeTypeOK
    OBVIOUS
  <2>1. TypeOK
    BY DEF UpgradeInv, StoreInv, ChainInv, CoinInv, AddressTypeOK, BucketTypeOK, AccountingInv,
           RollupTableInv, RollupTypeOK, TypeOK
  <2>2. DOMAIN build.staged \subseteq blocks /\ build.pending \subseteq DOMAIN build.staged
    BY DEF UpgradeInv, BuildInv, BuildShape, StagedRowOK
  <2>3. QED
    BY <2>1, <2>2 DEF UpgradeInv, MigrationInv, UpgradeTypeOK
<1>2. QED
  BY <1>1, UpgradeInvariant, PTL

\* A published rollup row is the sum over its block's ancestry and all its
\* ancestors have rows, whether `index` or the backfill wrote it and whatever
\* ran beside them, reorganisations during the backfill included.
THEOREM RollupRowsCorrect == UpgradeSpec => []RollupRowsExact
<1>1. UpgradeInv => RollupRowsExact
  BY DEF UpgradeInv, RollupTableInv, RollupRowOK, RollupRowsExact
<1>2. QED
  BY <1>1, UpgradeInvariant, PTL

-----------------------------------------------------------------------------
(* The sums over a branch are the value of its coins                       *)

ChainSupply == \A b \in canonical : Lineage[b].cumUTXO = ValueOf(CoinsAt(b))

LEMMA TipUnspent == ChainInv /\ CoinInv => TipCoinsExact
BY TipCoins

\* What one block adds to the value of its branch.
LEMMA LineageGain ==
  ASSUME NEW b \in Block, BranchSound(b), prev[b] # NoBlock => BranchSound(prev[b])
  PROVE  /\ prev[b] = NoBlock =>
              Lineage[b].cumUTXO = CoinbaseTotal(b) - BlockFee(b) - ExcludedValue(b)
         /\ prev[b] # NoBlock =>
              /\ Lineage[prev[b]].cumUTXO \in Int
              /\ Lineage[b].cumUTXO = Lineage[prev[b]].cumUTXO + CoinbaseTotal(b) - BlockFee(b)
                                        - ExcludedValue(b)
<1> DEFINE fb == BlockFee(b)
           cb == CoinbaseTotal(b)
           eb == ExcludedValue(b)
<1>1. fb \in Int /\ cb \in Int /\ eb \in Int
  <2>1. Fees[b] \in Nat /\ Coinbases[b] \in Nat /\ Excluded[b] \in Nat
    BY BranchAmounts, OwnBranch
  <2>2. QED
    BY <2>1 DEF Coinbases, Fees, Excluded
<1>2. BlockFacts(b).coinbase = cb /\ BlockFacts(b).fee = fb
  BY DEF BlockFacts, ComputeBlockFacts
<1> HIDE DEF fb, cb, eb
<1>3. CASE prev[b] = NoBlock
  <2>1. Lineage[b] = RowOn(ZeroRollup, b)
    BY <1>3, LineageStep
  <2>2. Lineage[b].cumUTXO = 0 + cb - (0 + fb) - (0 + eb)
    BY <1>2, <2>1 DEF RowOn, ZeroRollup, eb
  <2>3. Lineage[b].cumUTXO = cb - fb - eb
    BY <1>1, <2>2
  <2>4. QED
    BY <1>3, <2>3 DEF cb, fb, eb
<1>4. CASE prev[b] # NoBlock
  <2> DEFINE p == prev[b]
             f == Along(p, Fees)
             c == Along(p, Coinbases)
             e == Along(p, Excluded)
  <2>1. p \in Block /\ BranchSound(p)
    BY <1>4, OwnBranch
  <2>2. f \in Nat /\ c \in Nat /\ e \in Nat
    BY <2>1, LineageTyped
  <2>3. Lineage[p].cumUTXO = c - f - e /\ Lineage[p].cumFee = f /\ Lineage[p].cumCoinbase = c
          /\ Lineage[p].cumExcluded = e
    <3>1. Lineage[p] =
            [ excluded |-> ExcludedValue(p), cumSubsidy |-> Along(p, Subsidies), cumFee |-> f,
              cumCoinbase |-> c, cumUnclaimed |-> Along(p, Subsidies) + f - c,
              cumExcluded |-> e, cumUTXO |-> c - f - e ]
      BY <2>1, LineageIs
    <3> HIDE DEF f, c, e, p
    <3>2. QED
      BY <3>1
  <2>4. Lineage[b] = RowOn(Lineage[p], b)
    BY <1>4, LineageStep
  <2> HIDE DEF f, c, e, p
  <2>5. Lineage[b].cumUTXO = c + cb - (f + fb) - (e + eb)
    BY <1>2, <2>3, <2>4 DEF RowOn, eb
  <2>6. Lineage[p].cumUTXO \in Int /\ Lineage[b].cumUTXO = Lineage[p].cumUTXO + cb - fb - eb
    BY <1>1, <2>2, <2>3, <2>5
  <2>7. QED
    BY <1>4, <2>6 DEF cb, fb, eb, p
<1>5. QED
  BY <1>3, <1>4

LEMMA ApplyKeepsChainSupply ==
  ASSUME StoreInv, StoreInv', BlocksInv', ChainSupply, NEW b \in Block, ApplyBlock(b)
  PROVE  ChainSupply'
<1>0. ChainInv /\ CoinInv
  BY DEF StoreInv
<1>1. CASE b \in canonical
  <2>1. canonical' = canonical
    BY <1>1 DEF ApplyBlock
  <2>2. utxo' = utxo
    BY <1>0, <1>1, ReplayKeepsCoins DEF ApplyBlock, UpdateLedger
  <2>3. QED
    BY <2>1, <2>2 DEF ChainSupply, CoinsAt
<1>2. CASE b \notin canonical
  <2>1. canonical' = canonical \cup {b} /\ checkpoint' = b
    BY DEF ApplyBlock
  <2>2. ASSUME NEW c \in canonical PROVE Lineage[c].cumUTXO = ValueOf(CoinsAt(c)')
    <3>1. CoinsAt(c)' = CoinsAt(c)
      BY <1>0, <1>2, LowerCoinsKept
    <3>2. QED
      BY <3>1 DEF ChainSupply
  <2>3. Lineage[b].cumUTXO = ValueOf(CoinsAt(b)')
    <3>1. TipCoinsExact /\ TipCoinsExact'
      <4>1. ChainInv' /\ CoinInv'
        BY DEF StoreInv
      <4>2. TipCoinsExact
        BY <1>0, TipUnspent
      <4>3. TipCoinsExact'
        BY <4>1, TipUnspent, PTL
      <4>4. QED
        BY <4>2, <4>3
    <3>2. CoinsAt(b)' = Unspent'
      BY <2>1, <3>1, TreeAssumption DEF TipCoinsExact
    <3>3. ValueOf(Unspent') = ValueOf(Unspent) + CoinbaseTotal(b) - BlockFee(b)
                                - ExcludedValue(b)
      BY <1>0, <1>2, ApplyMovesValue
    <3>4. BlockStored(b)'
      BY DEF BlocksInv, ApplyBlock
    <3>5. BranchSound(b) /\ (prev[b] # NoBlock => BranchSound(prev[b]))
      <4>1. prev[b] # NoBlock => prev[b] \in blocks'
        BY <3>4, OwnBranch DEF BlockStored
      <4>2. QED
        BY <3>4, <4>1 DEF BlocksInv, BlockStored
    <3>6. FeesAccepted(b) /\ CoinbaseAccepted(b)
      BY <3>5, OwnBranch DEF BranchSound
    <3>7. CoinbaseTotal(b) \in Nat /\ BlockFee(b) \in Nat /\ ExcludedValue(b) \in Nat
      BY <3>6, FactsTyped
    <3>8. checkCanonicalContinuity(b) /\ applyBlockHeader(b)
      BY DEF ApplyBlock, Accepts
    <3>9. CASE checkpoint = NoBlock
      <4>1. blocks = {} /\ canonical = {}
        BY <1>0, <3>9 DEF ChainInv, ChainTypeOK, BootstrapEmpty
      <4>2. prev[b] = NoBlock
        BY <3>8, <4>1 DEF applyBlockHeader
      <4>3. Unspent = {}
        BY <1>0, <4>1 DEF Unspent, CoinInv, CoinsOwned
      <4>4. ValueOf(Unspent) = 0
        BY <4>3, SumEmpty DEF ValueOf
      <4>5. Lineage[b].cumUTXO = CoinbaseTotal(b) - BlockFee(b) - ExcludedValue(b)
        BY <3>5, <4>2, LineageGain
      <4>6. QED
        BY <3>2, <3>3, <3>7, <4>4, <4>5
    <3>10. CASE checkpoint # NoBlock
      <4>1. checkpoint \in canonical /\ prev[b] = checkpoint
        BY <1>0, <1>2, <3>8, <3>10 DEF ChainInv, ChainTypeOK, checkCanonicalContinuity
      <4>2. Lineage[prev[b]].cumUTXO = ValueOf(Unspent)
        BY <3>1, <3>10, <4>1 DEF ChainSupply, TipCoinsExact
      <4>3. /\ Lineage[prev[b]].cumUTXO \in Int
            /\ Lineage[b].cumUTXO = Lineage[prev[b]].cumUTXO + CoinbaseTotal(b) - BlockFee(b)
                                      - ExcludedValue(b)
        BY <3>5, <3>10, <4>1, LineageGain
      <4>4. QED
        BY <3>2, <3>3, <3>7, <4>2, <4>3
    <3>11. QED
      BY <3>9, <3>10
  <2>4. QED
    BY <2>1, <2>2, <2>3 DEF ChainSupply, ValueOf
<1>3. QED
  BY <1>1, <1>2

LEMMA RollbackKeepsChainSupply ==
  ASSUME StoreInv, ChainSupply, NEW a \in Block, RollbackTo(a)
  PROVE  ChainSupply'
<1>1. canonical' \subseteq canonical
  BY DEF RollbackTo
<1>2. \A c \in canonical' : CoinsAt(c)' = CoinsAt(c)
  BY RollbackKeepsLowerCoins DEF StoreInv
<1>3. QED
  BY <1>1, <1>2 DEF ChainSupply, ValueOf

LEMMA ChainSupplyKept ==
  ASSUME StoreInv, StoreInv', BlocksInv', RebuildInv, ChainSupply, [UpgradeNext]_upgradeVars
  PROVE  ChainSupply'
<1>1. CASE ~StoreStep
  <2>1. canonical' = canonical /\ utxo' = utxo
    BY <1>1, OtherSteps DEF chainVars
  <2>2. QED
    BY <2>1 DEF ChainSupply, CoinsAt
<1>2. QED
  BY <1>1, ApplyKeepsChainSupply, RollbackKeepsChainSupply
     DEF StoreStep, IndexBlock, IndexRollback

LEMMA SupplyInvariant == UpgradeSpec => [](UpgradeInv /\ ChainSupply)
<1>1. UpgradeInit => ChainSupply
  BY DEF UpgradeInit, Init, ChainSupply
<1>2. ChainSupply /\ UpgradeInv /\ UpgradeInv' /\ [UpgradeNext]_upgradeVars => ChainSupply'
  BY ChainSupplyKept DEF UpgradeInv
<1>3. QED
  BY <1>1, <1>2, UpgradeInvariant, PTL DEF UpgradeSpec

-----------------------------------------------------------------------------
(* The preflights                                                          *)

\* An empty chain has an empty distribution.
LEMMA EmptyChainBuckets ==
  ASSUME StoreInv, checkpoint = NoBlock
  PROVE  ExactBuckets = EmptyBuckets /\ anchor = NoBlock
<1>1. canonical = {} /\ anchor = NoBlock
  BY DEF StoreInv, ChainInv, ChainTypeOK, CanonicalLinked
<1>2. \A o \in Output : utxo[o] = NoRow
  BY <1>1 DEF StoreInv, CoinInv, CoinsOwned
<1>3. ASSUME NEW a \in Address PROVE addresses[a] = NoRow
  <2> DEFINE mine == {o \in Output : dest[o] = a /\ utxo[o] # NoRow}
             spent == {o \in mine : utxo[o].spentBy # NoTx}
  <2>1. mine = {} /\ spent = {}
    BY <1>2
  <2>2. {creator[o] : o \in mine} \cup {utxo[o].spentBy : o \in spent} = {}
    BY <2>1
  <2>3. recomputeAddress(a, utxo) = NoRow
    BY <2>2 DEF recomputeAddress
  <2>4. QED
    BY <2>3 DEF StoreInv, AddressCacheExact
<1>4. ASSUME NEW k \in Bucket
      PROVE  /\ Cardinality(Members(k, Address, addresses)) = 0
             /\ Holdings(k, Address, addresses) = 0
  <2>1. Members(k, Address, addresses) = {}
    BY <1>3 DEF Members, Balance, bucketForBalance, Bucket, NoBucket
  <2>2. QED
    BY <2>1, SumEmpty, FS_EmptySet DEF Holdings
<1>5. QED
  BY <1>1, <1>4 DEF ExactBuckets, EmptyBuckets

LEMMA ExactIsDistribution ==
  BucketTypeOK => (DistributionExact <=> anchor = checkpoint /\ buckets = ExactBuckets)
BY DEF BucketTypeOK, DistributionExact, ExactBuckets

\* A running index has the distribution at its checkpoint.
AnchorWithIndex == indexer = "on" /\ 7 \in applied => anchor = checkpoint
SoundInv == AnchorWithIndex /\ BucketsSound

LEMMA SoundKept ==
  ASSUME "up" \notin BesideIndex, UpgradeInv, UpgradeInv', SoundInv, [UpgradeNext]_upgradeVars
  PROVE  SoundInv'
<1> USE DEF SoundInv, AnchorWithIndex, BucketsSound
<1>1. StoreInv /\ StoreInv' /\ BucketTypeOK /\ BucketTypeOK' /\ MigrationInv /\ RebuildInv
  BY DEF UpgradeInv
<1>2. AddressTypeOK /\ AddressTypeOK'
  BY <1>1 DEF StoreInv
<1>3. CASE StoreStep
  <2>1. indexer = "on" /\ 7 \in applied
    BY <1>3 DEF StoreStep, IndexBlock, IndexRollback, Versions
  <2>2. DistributionExact
    BY <1>1, <2>1, ExactIsDistribution
  <2>3. DistributionExact'
    BY <1>2, <1>3, <2>2, ApplyKeepsDistribution, RollbackKeepsDistribution
       DEF StoreStep, IndexBlock, IndexRollback
  <2>4. anchor' = checkpoint' /\ buckets' = ExactBuckets'
    BY <1>1, <2>3 DEF BucketTypeOK, DistributionExact, ExactBuckets
  <2>5. QED
    BY <2>4
<1>4. CASE ~StoreStep
  <2>1. UNCHANGED <<checkpoint, addresses>>
    BY <1>1, <1>4, OtherSteps DEF chainVars
  <2>2. ExactBuckets' = ExactBuckets
    BY <2>1 DEF ExactBuckets, Members, Holdings
  <2>3. CASE Up
    <3>1. indexer = "off" /\ UNCHANGED <<vars, indexer>>
      BY <2>3 DEF Up, MayRun
    <3>2. 7 \notin applied /\ anchor = checkpoint => buckets = ExactBuckets
      BY <1>1, EmptyChainBuckets DEF MigrationInv
    <3>3. QED
      BY <2>2, <3>1, <3>2 DEF vars
  <2>4. CASE Down
    BY <1>1, <2>1, <2>2, <2>4, DownDrops DEF Down
  <2>5. CASE PublishBuckets
    BY <1>1, <2>1, <2>2, <2>5 DEF PublishBuckets, RebuildInv
  <2>6. CASE UNCHANGED <<buckets, anchor, applied>> /\ (indexer' = "on" => indexer = "on")
    BY <2>1, <2>2, <2>6
  <2>7. CASE EnterLoop
    <3>1. VerifyDistributionCoverage /\ UNCHANGED <<vars, applied>>
      BY <2>7 DEF EnterLoop
    <3>2. 7 \in applied => anchor = checkpoint
      BY <1>1, <3>1, EmptyChainBuckets DEF VerifyDistributionCoverage
    <3>3. QED
      BY <2>2, <3>1, <3>2 DEF vars
  <2>8. (indexer' = "on" => indexer = "on") \/ EnterLoop
    BY StepKinds DEF StartIndex, StopIndex
  <2>9. UNCHANGED <<buckets, anchor>> \/ Down \/ PublishBuckets
    BY <1>4, StepKinds DEF BackfillBlockAccounting, CommitBuild, vars, ledgerVars
  <2>10. QED
    BY <2>3, <2>4, <2>5, <2>6, <2>7, <2>8, <2>9, StepKinds
<1>5. QED
  BY <1>3, <1>4

LEMMA SoundInvariant ==
  ASSUME "up" \notin BesideIndex
  PROVE  UpgradeSpec => []SoundInv
<1>1. UpgradeInit => SoundInv
  BY DEF UpgradeInit, SoundInv, AnchorWithIndex, BucketsSound
<1>2. SoundInv /\ UpgradeInv /\ UpgradeInv' /\ [UpgradeNext]_upgradeVars => SoundInv'
  BY SoundKept
<1>3. QED
  BY <1>1, <1>2, UpgradeInvariant, PTL DEF UpgradeSpec

\* As long as no migration is applied beside a running index, buckets that
\* are anchored at the checkpoint are the aggregation of the address cache,
\* whatever was migrated, rebuilt and interrupted before (ApplyBlock,
\* RollbackTo, BackfillAddressDistribution, Down).
THEOREM BucketsCorrect ==
  ASSUME "up" \notin BesideIndex
  PROVE  UpgradeSpec => []BucketsSound
<1>1. SoundInv => BucketsSound
  BY DEF SoundInv
<1>2. QED
  BY <1>1, SoundInvariant, PTL

\* Core's tree: only the genesis block has no parent.
RootedInGenesis == \A b \in Block : prev[b] = NoBlock => height[b] = 0

\* From its first preflight on, the index has the tip's rollup row.
TipCovered == indexer # "off" /\ 5 \in applied /\ checkpoint # NoBlock
                => rollup[checkpoint] # NoRow

LEMMA TipCoveredKept ==
  ASSUME "up" \notin BesideIndex, RootedInGenesis, UpgradeInv, UpgradeInv', TipCovered,
         [UpgradeNext]_upgradeVars
  PROVE  TipCovered'
<1> USE DEF TipCovered
<1>1. StoreInv /\ RollupTableInv /\ RollupTypeOK /\ MigrationInv /\ BuildInv /\ RebuildInv
  BY DEF UpgradeInv, RollupTableInv
<1>2. ChainInv
  BY <1>1 DEF StoreInv
<1>3. ASSUME NEW b \in Block, IndexBlock(b) PROVE TipCovered'
  <2>1. ApplyBlock(b) /\ indexer = "on" /\ 5 \in applied /\ checkpoint' = b
    BY <1>3 DEF IndexBlock, Versions, ApplyBlock
  <2>2. SUFFICES ParentRollup(b) # NoRow
    BY <1>1, <2>1, RowsWritten
  <2>3. checkCanonicalContinuity(b) /\ applyBlockHeader(b) /\ b # checkpoint
    BY <1>3, <2>1 DEF IndexBlock, ApplyBlock, Accepts
  <2>4. ZeroRollup # NoRow
    <3>1. ZeroRollup \in RollupRow
      BY DEF ZeroRollup, RollupRow
    <3>2. QED
      BY <3>1, NoRowAssumption
  <2>5. CASE checkpoint = NoBlock
    <3>1. prev[b] = NoBlock
      BY <1>2, <2>3, <2>5 DEF applyBlockHeader, ChainInv, BootstrapEmpty
    <3>2. QED
      BY <2>4, <3>1 DEF RootedInGenesis, ParentRollup
  <2>6. CASE checkpoint # NoBlock
    <3>1. prev[b] = checkpoint /\ rollup[checkpoint] # NoRow
      BY <2>1, <2>3, <2>6 DEF checkCanonicalContinuity
    <3>2. QED
      BY <2>4, <2>6, <3>1 DEF ParentRollup
  <2>7. QED
    BY <2>5, <2>6
<1>4. ASSUME NEW a \in Block, IndexRollback(a) PROVE TipCovered'
  <2>1. /\ indexer = "on" /\ applied' = applied /\ rollup' = rollup /\ checkpoint' = a
        /\ a \in canonical
    BY <1>4 DEF IndexRollback, RollbackTo, RollbackAccepted, AncestorFound, supplyVars
  <2>2. checkpoint # NoBlock /\ checkpoint \in canonical /\ height[a] <= height[checkpoint]
    BY <1>2, <2>1 DEF ChainInv, ChainTypeOK, CanonicalLinked
  <2>3. a \in Ancestry[checkpoint] /\ checkpoint \in Block
    BY <1>1, <2>1, <2>2, ChainIsBranch
  <2>4. 5 \in applied => rollup[a] # NoRow
    BY <1>1, <2>1, <2>2, <2>3 DEF RollupTableInv, RollupRowOK
  <2>5. QED
    BY <2>1, <2>4
<1>5. CASE ~StoreStep
  <2>1. UNCHANGED checkpoint /\ checkpoint \in Block \cup {NoBlock}
    BY <1>1, <1>2, <1>5, OtherSteps DEF chainVars, ChainInv, ChainTypeOK
  <2>2. CASE Down
    BY <1>1, <2>1, <2>2, DownDrops DEF Down
  <2>3. CASE ~Down
    <3>1. \A b \in Block : rollup[b] # NoRow => rollup'[b] # NoRow
      BY <1>1, <2>3, RowsGrow
    <3>2. CASE Up
      BY <3>2 DEF Up, MayRun
    <3>3. CASE StartIndex
      BY <2>1, <3>1, <3>3 DEF StartIndex, VerifySupplyRollupCoverage
    <3>4. CASE applied' = applied /\ (indexer' # "off" => indexer # "off")
      BY <2>1, <3>1, <3>4
    <3>5. (indexer' # "off" => indexer # "off") \/ StartIndex
      BY StepKinds DEF EnterLoop, StopIndex
    <3>6. QED
      BY <2>3, <3>2, <3>3, <3>4, <3>5, StepKinds
  <2>4. QED
    BY <2>2, <2>3
<1>6. QED
  BY <1>3, <1>4, <1>5 DEF StoreStep

\* As long as no migration is applied beside a running index, the two
\* preflights are enough: a running index works on complete accounting,
\* complete rollups and an exact distribution, as if it had written them all
\* from the start (VerifySupplyRollupCoverage, VerifyDistributionCoverage).
THEOREM PreflightsSuffice ==
  ASSUME "up" \notin BesideIndex, RootedInGenesis
  PROVE  UpgradeSpec => []StartedWhole
<1>1. UpgradeInit => TipCovered
  BY DEF UpgradeInit, TipCovered
<1>2. TipCovered /\ UpgradeInv /\ UpgradeInv' /\ [UpgradeNext]_upgradeVars => TipCovered'
  BY TipCoveredKept
<1>3. UpgradeInv /\ SoundInv /\ TipCovered => StartedWhole
  <2> SUFFICES ASSUME UpgradeInv, SoundInv, TipCovered, indexer = "on", applied = Versions
               PROVE  /\ \A b \in canonical : accounting[b] # NoRow /\ rollup[b] # NoRow
                      /\ DistributionExact
    BY DEF StartedWhole
  <2>1. 5 \in applied /\ 7 \in applied
    BY DEF Versions
  <2>2. StoreInv /\ RollupTableInv /\ BucketTypeOK
    BY DEF UpgradeInv
  <2>3. DistributionExact
    BY <2>1, <2>2, ExactIsDistribution DEF SoundInv, AnchorWithIndex, BucketsSound
  <2>4. ASSUME NEW b \in canonical PROVE accounting[b] # NoRow /\ rollup[b] # NoRow
    <3>1. checkpoint # NoBlock /\ checkpoint \in canonical /\ height[b] <= height[checkpoint]
      BY <2>2 DEF StoreInv, ChainInv, ChainTypeOK, CanonicalLinked
    <3>2. b \in Ancestry[checkpoint] /\ checkpoint \in Block /\ b \in Block
      BY <2>2, <3>1, ChainIsBranch
    <3>3. rollup[checkpoint] # NoRow
      BY <2>1, <3>1 DEF TipCovered
    <3>4. rollup[b] # NoRow
      BY <2>2, <3>2, <3>3 DEF RollupTableInv, RollupRowOK
    <3>5. QED
      BY <2>2, <3>2, <3>4 DEF RollupTableInv, RollupRowOK
  <2>5. QED
    BY <2>3, <2>4
<1>4. QED
  BY <1>1, <1>2, <1>3, UpgradeInvariant, SoundInvariant, PTL DEF UpgradeSpec

-----------------------------------------------------------------------------
(* The way out                                                             *)

\* A canonical chain that is rooted in genesis has a block at every height up
\* to its tip's.
LEMMA FullChain ==
  ASSUME RootedInGenesis, StoreInv, canonical # {}
  PROVE  ShapeHolds(height[checkpoint]) /\ AncestryHolds
<1> DEFINE h == height[checkpoint]
           heights == {height[b] : b \in canonical}
<1>1. /\ canonical \subseteq Block /\ IsFiniteSet(canonical) /\ LinkedChain(canonical)
      /\ checkpoint \in canonical /\ NoBlock \notin canonical
      /\ \A b \in canonical : height[b] \in Nat /\ height[b] <= h
  BY TreeAssumption DEF StoreInv, ChainInv, ChainTypeOK, CanonicalLinked, FiniteChain
<1>2. ASSUME NEW b \in canonical
      PROVE  \/ height[b] = 0 /\ prev[b] = NoBlock
             \/ height[b] # 0 /\ prev[b] \in canonical /\ height[prev[b]] = height[b] - 1
  <2>1. CASE prev[b] = NoBlock
    BY <1>1, <2>1 DEF RootedInGenesis
  <2>2. CASE prev[b] # NoBlock
    <3> DEFINE p == prev[b]
    <3>1. p \in canonical /\ height[b] = height[p] + 1
      BY <2>2 DEF LinkedChain, StoreInv, ChainInv, CanonicalLinked
    <3>2. height[p] \in Nat
      BY <1>1, <3>1
    <3> HIDE DEF p
    <3>3. height[b] # 0 /\ height[p] = height[b] - 1
      BY <3>1, <3>2
    <3>4. QED
      BY <3>1, <3>3 DEF p
  <2>3. QED
    BY <2>1, <2>2
<1>3. AncestryHolds
  BY <1>2 DEF AncestryHolds
<1>4. heights = 0..h
  <2>1. heights \subseteq 0..h
    BY <1>1
  <2> DEFINE missing == (0..h) \ heights
  <2>2. h \in Nat /\ h \in heights
    BY <1>1
  <2> HIDE DEF h
  <2>3. ASSUME missing # {} PROVE FALSE
    <3>1. IsFiniteSet(missing) /\ missing \subseteq Int
      <4>1. IsFiniteSet(0..h)
        BY <2>2, FS_Interval, 0 \in Int, h \in Int
      <4>2. missing \in SUBSET (0..h)
        OBVIOUS
      <4>3. IsFiniteSet(missing)
        BY <4>1, <4>2, FS_Subset
      <4>4. QED
        BY <4>3
    <3> HIDE DEF missing
    <3>2. PICK m \in missing : \A n \in missing : m >= n
      BY <2>3, <3>1, FiniteHasEnds
    <3>3. m \in Nat /\ m + 1 \in 0..h
      BY <2>2, <3>2 DEF missing
    <3>4. m + 1 \notin missing
      BY <3>1, <3>2, <3>3
    <3>5. PICK b \in canonical : height[b] = m + 1
      BY <3>3, <3>4 DEF missing
    <3>6. prev[b] \in canonical /\ height[prev[b]] = m
      BY <1>2, <3>3, <3>5
    <3>7. QED
      BY <3>2, <3>6 DEF missing
  <2>4. QED
    BY <2>1, <2>3
<1>5. Cardinality(canonical) = h + 1
  <2> DEFINE f == [b \in canonical |-> height[b]]
  <2>1. f \in Bijection(canonical, 0..h)
    <3>1. f \in [canonical -> 0..h]
      BY <1>4
    <3>2. \A b, c \in canonical : f[b] = f[c] => b = c
      BY <1>1 DEF LinkedChain
    <3>3. \A n \in 0..h : \E b \in canonical : f[b] = n
      BY <1>4
    <3>4. QED
      BY <3>1, <3>2, <3>3 DEF Bijection, Injection, Surjection, IsInjective
  <2>2. Cardinality(canonical) = Cardinality(0..h)
    <3>1. ExistsBijection(canonical, 0..h)
      BY <2>1 DEF ExistsBijection
    <3>2. QED
      BY <1>1, <3>1, FS_Bijection
  <2>3. h \in Nat
    BY <1>1
  <2> HIDE DEF h
  <2>4. Cardinality(0..h) = h + 1
    BY <2>3, FS_Interval, 0 \in Int, h \in Int
  <2>5. QED
    BY <2>2, <2>4
<1>6. Min(heights) = 0 /\ Max(heights) = h
  <2>1. h \in Nat /\ IsFiniteSet(0..h)
    BY <1>1, FS_Interval, 0 \in Int, h \in Int
  <2> HIDE DEF h
  <2>2. 0..h \subseteq Int /\ 0..h # {}
    BY <2>1
  <2>3. /\ Min(0..h) \in 0..h /\ \A y \in 0..h : Min(0..h) <= y
        /\ Max(0..h) \in 0..h /\ \A y \in 0..h : Max(0..h) >= y
    BY <2>1, <2>2, MinMax
  <2>4. Min(0..h) = 0 /\ Max(0..h) = h
    BY <2>1, <2>3
  <2>5. QED
    BY <1>4, <2>4
<1>7. ShapeHolds(h)
  BY <1>5, <1>6 DEF ShapeHolds
<1>8. QED
  BY <1>3, <1>7

\* The checks of the rollup backfill on a chain with complete accounting.
LEMMA ChecksPass ==
  ASSUME UpgradeInv, ChainSupply, canonical # {}, AccountingComplete
  PROVE  NoContradiction(Staged) /\ CoinsMatch(Staged) /\ TotalsMatch(Staged)
<1>1. StoreInv /\ BlocksInv /\ AccountingInv /\ RollupTableInv
  BY DEF UpgradeInv
<1>2. /\ canonical \subseteq Block /\ LinkedChain(canonical) /\ checkpoint \in canonical
      /\ \A b \in canonical : height[b] \in Nat /\ height[b] <= height[checkpoint]
      /\ checkpoint # NoBlock
  BY <1>1, TreeAssumption DEF StoreInv, ChainInv, ChainTypeOK, CanonicalLinked
<1>3. Joined = canonical
  BY DEF Joined, AccountingComplete
<1>4. \A b \in canonical : Staged[b] = Lineage[b]
  BY <1>1, <1>3, WindowIsLineage DEF Staged
<1>5. DOMAIN Staged = canonical
  BY <1>3 DEF Staged
<1>6. NoContradiction(Staged)
  BY <1>1, <1>2, <1>4, <1>5 DEF NoContradiction, InsertOrVerify, RollupTableInv, RollupRowOK
<1>7. TopRow(Staged) = Staged[checkpoint]
  <2>1. ASSUME NEW b \in canonical, \A c \in canonical : height[c] <= height[b]
        PROVE  b = checkpoint
    BY <1>2, <2>1 DEF LinkedChain
  <2>2. (CHOOSE b \in canonical : \A c \in canonical : height[c] <= height[b]) = checkpoint
    BY <1>2, <2>1
  <2>3. QED
    BY <1>5, <2>2 DEF TopRow
<1>8. CoinsMatch(Staged)
  <2>1. CoinsAt(checkpoint) = Unspent
    BY <1>1, <1>2, TipUnspent DEF StoreInv, TipCoinsExact
  <2>2. QED
    BY <1>2, <1>4, <1>7, <2>1 DEF CoinsMatch, ChainSupply
<1>9. TotalsMatch(Staged)
  <2>1. {c \in Joined : height[c] <= height[checkpoint]} = Joined
    BY <1>2, <1>3
  <2>2. Staged[checkpoint] = CumulativeRow(checkpoint, Joined)
    BY <1>2, <1>3, <2>1 DEF Staged
  <2>3. QED
    BY <1>7, <2>2 DEF TotalsMatch, CumulativeRow
<1>10. QED
  BY <1>6, <1>8, <1>9

-----------------------------------------------------------------------------
(* The store under the commands                                            *)

\* None of the commands takes from the store what it guarantees alone: the
\* chain is linked, the coins are a replay of it, the address cache is exact,
\* although migrations and backfills write beside it.
THEOREM CommandsKeepStore ==
  UpgradeSpec => [](CanonicalLinked /\ UtxoIsReplay /\ AddressCacheExact)
<1>1. UpgradeInv => CanonicalLinked /\ UtxoIsReplay /\ AddressCacheExact
  BY CoinInvIsReplay DEF UpgradeInv, StoreInv, ChainInv
<1>2. QED
  BY <1>1, UpgradeInvariant, PTL

\* Readers of the canonical rows by height see one chain that is extended at
\* its tip and retracted to one of its blocks, whichever commands run: only
\* the index's two writers move it.
THEOREM CommandsImplementChainLog == UpgradeSpec => ImplementsChainLog
<1>1. UpgradeInit => Log!Init
  BY DEF UpgradeInit, Init, Log!Init, Log!EmptyChain
<1>2. UpgradeInv /\ [UpgradeNext]_upgradeVars => [Log!Next]_ByHeight
  <2> SUFFICES ASSUME UpgradeInv, [UpgradeNext]_upgradeVars PROVE [Log!Next]_ByHeight
    OBVIOUS
  <2>1. ChainInv /\ RebuildInv
    BY DEF UpgradeInv, StoreInv
  <2>2. CASE StoreStep
    BY <2>1, <2>2, ApplyRefines, RollbackRefines DEF StoreStep, IndexBlock, IndexRollback
  <2>3. CASE ~StoreStep
    <3>1. canonical' = canonical
      BY <2>1, <2>3, OtherSteps DEF chainVars
    <3>2. ByHeight' = ByHeight
      BY <3>1 DEF ByHeight, CanonicalAt
    <3>3. QED
      BY <3>2
  <2>4. QED
    BY <2>2, <2>3
<1>3. QED
  BY <1>1, <1>2, UpgradeInvariant, PTL DEF UpgradeSpec, ImplementsChainLog, Log!Spec, ByHeight
-----------------------------------------------------------------------------
(* What the store accepts                                                  *)

\* Core's tree: a block is one above its parent.
HeightsByParent == \A b \in Block : prev[b] # NoBlock => height[b] = height[prev[b]] + 1

\* Subsidies and fees of a whole branch fit an int64 (addChecked).
BranchRewardsFit == \A b \in Block : BranchSound(b) => Fits(Along(b, Subsidies) + Along(b, Fees))

\* Then every total of its row fits, because no coin is worth less than
\* nothing.
LEMMA RowFits ==
  ASSUME BranchRewardsFit, NEW b \in Block, BranchSound(b), Lineage[b].cumUTXO >= 0
  PROVE  \A c \in {"cumSubsidy", "cumFee", "cumCoinbase", "cumUnclaimed", "cumExcluded"} :
           Fits(Lineage[b][c])
<1> DEFINE s == Along(b, Subsidies)
           f == Along(b, Fees)
           c == Along(b, Coinbases)
           e == Along(b, Excluded)
           u == Along(b, Unclaimed)
           x == ExcludedValue(b)
<1>1. /\ s \in Nat /\ f \in Nat /\ c \in Nat /\ e \in Nat /\ u \in Nat
      /\ u = s + f - c
  BY LineageTyped
<1>2. s + f <= MaxAmount /\ MaxAmount \in Nat
  BY ScheduleAssumption DEF BranchRewardsFit, Fits
<1>3. Lineage[b] = [ excluded |-> x, cumSubsidy |-> s, cumFee |-> f, cumCoinbase |-> c,
                     cumUnclaimed |-> s + f - c, cumExcluded |-> e, cumUTXO |-> c - f - e ]
  BY LineageIs
<1> HIDE DEF s, f, c, e, u, x
<1>4. c - f - e >= 0
  BY <1>3
<1>5. /\ Lineage[b]["cumSubsidy"] = s /\ Lineage[b]["cumFee"] = f
      /\ Lineage[b]["cumCoinbase"] = c /\ Lineage[b]["cumUnclaimed"] = s + f - c
      /\ Lineage[b]["cumExcluded"] = e
  BY <1>3
<1>6. /\ s <= MaxAmount /\ f <= MaxAmount /\ c <= MaxAmount
      /\ s + f - c <= MaxAmount /\ e <= MaxAmount
  BY <1>1, <1>2, <1>4
<1>7. QED
  BY <1>5, <1>6 DEF Fits

\* The rows the backfill stages satisfy the constraints of their table.
LEMMA StagedFits ==
  ASSUME BranchRewardsFit, UpgradeInv, ChainSupply, AccountingComplete
  PROVE  RowsFit(Staged)
<1>1. StoreInv /\ BlocksInv /\ AccountingInv
  BY DEF UpgradeInv
<1>2. canonical \subseteq blocks /\ blocks \subseteq Block
  BY <1>1 DEF StoreInv, ChainInv, ChainTypeOK
<1>3. Joined = canonical
  BY DEF Joined, AccountingComplete
<1>4. ASSUME NEW b \in canonical
      PROVE  Staged[b].cumUTXO >= 0 /\ Fits(Staged[b].cumCoinbase)
  <2>1. b \in Block /\ BranchSound(b)
    BY <1>1, <1>2 DEF BlocksInv, BlockStored
  <2>2. Staged[b] = Lineage[b]
    BY <1>1, <1>3, WindowIsLineage DEF Staged
  <2>3. Lineage[b].cumUTXO >= 0
    <3>1. Lineage[b].cumUTXO = ValueOf(CoinsAt(b))
      BY DEF ChainSupply
    <3>2. ValueOf(CoinsAt(b)) \in Nat
      BY ValueNat DEF CoinsAt
    <3>3. QED
      BY <3>1, <3>2
  <2>4. Fits(Lineage[b]["cumCoinbase"])
    BY <2>1, <2>3, RowFits
  <2>5. QED
    BY <2>2, <2>3, <2>4
<1>5. QED
  BY <1>3, <1>4 DEF RowsFit, Staged

\* The way out is always open: no order of commands, crashes and
\* reorganisations leaves rows that a backfill refuses, and once the chain has
\* its accounting all checks of the rollup backfill pass, the constraints of
\* the table included (BackfillAccounting,
\* BackfillSupplyRollup).
THEOREM BackfillsAccept ==
  ASSUME RootedInGenesis, BranchRewardsFit
  PROVE  UpgradeSpec => []BackfillNeverStuck
<1>1. ASSUME UpgradeInv, NEW b \in blocks PROVE BackfillAccepted(b)
  <2>1. b \in Block /\ BlockStored(b) /\ AccountingInv
    BY <1>1 DEF UpgradeInv, StoreInv, ChainInv, ChainTypeOK, BlocksInv
  <2>2. BackfillFacts(b) = BlockFacts(b)
    BY <2>1, SameFacts
  <2>3. validateBlockShape(b) /\ CoinbaseAccepted(b)
    BY <2>1, OwnBranch DEF BlockStored, BranchSound
  <2>4. txs[b] \in Seq(Tx)
    BY <2>1, BlockDataAssumption
  <2>5. 1 \in DOMAIN txs[b]
    BY <2>3, <2>4 DEF validateBlockShape
  <2>6. IsCoinbase(txs[b][1]) /\ Outs(txs[b][1]) # {}
    BY <2>3, <2>5 DEF validateBlockShape
  <2>7. BlockFacts(b).fee = BlockFee(b) /\ BlockFacts(b).coinbase = CoinbaseTotal(b)
    BY DEF BlockFacts, ComputeBlockFacts
  <2>8. RewardAccepted(height[b], BlockFacts(b).fee, BlockFacts(b).coinbase)
    BY <2>3, <2>7 DEF CoinbaseAccepted
  <2>9. InsertOrVerify(accounting[b], BlockFacts(b))
    BY <2>1 DEF InsertOrVerify, AccountingInv
  <2>10. QED
    BY <2>2, <2>6, <2>8, <2>9 DEF BackfillAccepted
<1>2. UpgradeInv /\ ChainSupply => BackfillNeverStuck
  <2> SUFFICES ASSUME UpgradeInv, ChainSupply PROVE BackfillNeverStuck
    OBVIOUS
  <2>1. ASSUME canonical # {}, AccountingComplete
        PROVE  /\ ShapeHolds(height[checkpoint]) /\ AncestryHolds
               /\ NoContradiction(Staged) /\ RowsFit(Staged)
               /\ CoinsMatch(Staged) /\ TotalsMatch(Staged)
    BY <2>1, FullChain, ChecksPass, StagedFits DEF UpgradeInv
  <2>2. QED
    BY <1>1, <2>1 DEF BackfillNeverStuck
<1>3. QED
  BY <1>2, SupplyInvariant, PTL

\* applySupplyRollup accepts a block whose parent has its row.
LEMMA RollupPasses ==
  ASSUME BranchRewardsFit, RollupTableInv, NEW b \in Block, BranchSound(b),
         prev[b] # NoBlock => BranchSound(prev[b]), Lineage[b].cumUTXO >= 0,
         ParentRollup(b) # NoRow
  PROVE  RollupAccepted(b)
<1>1. SupplyRollup(b) = Lineage[b]
  BY RowOnParent
<1>2. rollup[b] \in {NoRow, Lineage[b]}
  BY DEF RollupTableInv, RollupRowOK
<1>3. QED
  BY <1>1, <1>2, RowFits DEF RollupAccepted, InsertOrVerify

\* Above its child, a tip has nothing, and below it the canonical chain.
LEMMA TipChild ==
  ASSUME HeightsByParent, StoreInv, NEW b \in Block, prev[b] = checkpoint
  PROVE  /\ b \notin canonical /\ Ancestry[b] \ {b} = canonical
         /\ \A c \in canonical : height[c] # height[b]
         /\ checkpoint # NoBlock => checkpoint \in canonical /\ height[b] = height[checkpoint] + 1
<1> USE DEF StoreInv, ChainInv, ChainTypeOK, CanonicalLinked
<1>1. CASE checkpoint = NoBlock
  <2>1. Ancestry[b] = {b} /\ canonical = {}
    BY <1>1, OwnBranch
  <2>2. QED
    BY <1>1, <2>1
<1>2. CASE checkpoint # NoBlock
  <2>1. checkpoint \in canonical /\ height[b] = height[checkpoint] + 1
    BY <1>2 DEF HeightsByParent
  <2>2. Ancestry[checkpoint] = {c \in canonical : height[c] <= height[checkpoint]}
    BY <2>1, ChainIsBranch
  <2>3. \A c \in canonical : c \in Block /\ height[c] \in Nat /\ height[c] <= height[checkpoint]
    BY <1>2, TreeAssumption
  <2>4. Ancestry[checkpoint] = canonical
    BY <2>2, <2>3
  <2>5. \A c \in canonical : height[c] # height[b]
    BY <2>1, <2>3
  <2>6. Ancestry[b] = {b} \cup canonical
    BY <1>2, <2>4, OwnBranch
  <2>7. QED
    BY <2>1, <2>5, <2>6
<1>3. QED
  BY <1>1, <1>2

\* A block that Core accepts on top of the canonical chain finds its prevouts
\* and none of its own coins in utxo_state.
LEMMA CoreSuffices ==
  ASSUME StoreInv, NEW b \in Block, CoreAccepts(b), Ancestry[b] \ {b} = canonical
  PROVE  applyTransactions(b) /\ FreshCoins(b)
<1> USE DEF StoreInv, CoinInv
<1>1. /\ IsInjective(txs[b]) /\ FeesAccepted(b)
      /\ \A o \in OutsOf(b) : \A c \in canonical : o \notin OutsOf(c)
      /\ \A i \in DOMAIN txs[b] : \A o \in inputs[txs[b][i]] :
            /\ \/ \E c \in canonical : AddsCoin(c, o)
               \/ AddsCoin(b, o) /\ creator[o] \in {txs[b][j] : j \in 1..(i - 1)}
            /\ \A c \in canonical : ~SpendsCoin(c, o)
            /\ \A j \in 1..(i - 1) : o \notin inputs[txs[b][j]]
  BY DEF CoreAccepts
<1>2. ASSUME NEW o \in Output, AddsCoin(b, o) PROVE utxo[o] = NoRow
  BY <1>1, <1>2 DEF CoinsOwned, AddsCoin, OutsOf
<1>3. ASSUME NEW o \in Output, utxo[o] # NoRow, \A c \in canonical : ~SpendsCoin(c, o)
      PROVE  utxo[o].spentBy = NoTx
  BY <1>3 DEF SpendsOwned, SpendsCoin
<1>4. \A t \in Tx : inputs[t] \subseteq Output
  BY BlockDataAssumption
<1>5. ASSUME NEW i \in DOMAIN txs[b], NEW o \in inputs[txs[b][i]]
      PROVE  /\ o \in Output /\ checkPrevout(b, i, o)
             /\ \/ utxo[o] # NoRow /\ utxo[o].spentBy = NoTx
                \/ utxo[o] = NoRow /\ AddsCoin(b, o)
  <2>1. txs[b][i] \in Tx
    BY TxPosition
  <2>2. o \in Output
    BY <1>4, <2>1
  <2>3. utxo[o] # NoRow => utxo[o].spentBy = NoTx
    BY <1>1, <1>3, <2>2
  <2>4. utxo[o] # NoRow \/ (AddsCoin(b, o) /\ creator[o] \in {txs[b][j] : j \in 1..(i - 1)})
    BY <1>1, <2>2 DEF CoinsCreated
  <2>5. \A j \in 1..(i - 1) : o \notin inputs[txs[b][j]]
    BY <1>1
  <2>6. QED
    BY <2>2, <2>3, <2>4, <2>5 DEF checkPrevout
<1>6. applyTransactions(b)
  BY <1>1, <1>2, <1>5 DEF applyTransactions
<1>7. ASSUME NEW o \in Output, SpendsCoin(b, o)
      PROVE  \/ utxo[o] # NoRow /\ utxo[o].spentBy = NoTx
             \/ utxo[o] = NoRow /\ AddsCoin(b, o)
  BY <1>5, <1>7, TxPosition DEF SpendsCoin
<1>8. QED
  BY <1>2, <1>6, <1>7 DEF FreshCoins
LEMMA FreshCoinsReadable ==
  ASSUME StoreInv, NEW b \in Block, FreshCoins(b)
  PROVE  ReadableCoins(CoinsAfter(b))
<1>1. ReadableCoins(utxo)
  BY CoinInvReadable DEF StoreInv
<1>2. ASSUME NEW o \in Output, CoinsAfter(b)[o] # NoRow
      PROVE  /\ CoinsAfter(b)[o].created \in Block
             /\ CoinsAfter(b)[o].spentBy # NoTx => CoinsAfter(b)[o].spentIn \in Block
  <2> DEFINE made == IF AddsCoin(b, o) /\ utxo[o] = NoRow THEN Coin(b) ELSE utxo[o]
             by   == Spender(b, o)
             from == made.created
  <2>1. CoinsAfter(b)[o] = IF SpendsCoin(b, o) /\ made.spentBy = NoTx
                           THEN [created |-> from, spentBy |-> by, spentIn |-> b] ELSE made
    BY DEF CoinsAfter
  <2>2. made # NoRow => /\ made.created \in Block
                        /\ made.spentBy # NoTx => made.spentIn \in Block
    BY <1>1 DEF ReadableCoins, Coin
  <2>3. SpendsCoin(b, o) => made # NoRow
    BY IdentityAssumption, TreeAssumption DEF FreshCoins, Coin, CoinRow
  <2>4. made # NoRow => from \in Block
    BY <2>2
  <2> HIDE DEF made, by, from
  <2>5. QED
    BY <1>2, <2>1, <2>2, <2>3, <2>4
<1>3. QED
  BY <1>2 DEF ReadableCoins

LEMMA RollbackCoinsReadable ==
  ASSUME StoreInv, NEW orphans
  PROVE  ReadableCoins(CoinsAfterRollback(orphans))
<1>1. ReadableCoins(utxo)
  BY CoinInvReadable DEF StoreInv
<1>2. QED
  BY <1>1 DEF ReadableCoins, CoinsAfterRollback, Coin

\* What a call of the store needs to find in the database: rows that are
\* functions of their blocks, a rollup that reaches the tip if it has begun,
\* and an exact distribution.
DatabaseInv == StoreInv /\ BlocksInv /\ AccountingInv /\ RollupTableInv /\ ChainSupply
TipRow == checkpoint # NoBlock /\ genesisRollupExists => rollup[checkpoint] # NoRow

LEMMA ChildAccepted ==
  ASSUME HeightsByParent, BranchRewardsFit, DatabaseInv, TipRow, DistributionExact,
         NEW b \in Block, ConsensusValid(b), prev[b] = checkpoint
  PROVE  Accepts(b)
<1> USE DEF DatabaseInv
<1>0. ChainInv /\ CoinInv /\ AddressTypeOK
  BY DEF StoreInv
<1>1. CoreAccepts(b)
  BY OwnBranch DEF ConsensusValid
<1>2. validateBlockShape(b) /\ FeesAccepted(b) /\ CoinbaseAccepted(b)
  BY <1>1 DEF CoreAccepts
<1>3. /\ b \notin canonical /\ Ancestry[b] \ {b} = canonical
      /\ \A c \in canonical : height[c] # height[b]
      /\ checkpoint # NoBlock => checkpoint \in canonical /\ height[b] = height[checkpoint] + 1
  BY TipChild
<1>4. applyTransactions(b) /\ FreshCoins(b)
  BY <1>1, <1>3, CoreSuffices
<1>5. checkCanonicalContinuity(b) /\ applyBlockHeader(b)
  BY <1>0, <1>3 DEF checkCanonicalContinuity, applyBlockHeader, ChainInv, ChainTypeOK
<1>6. DistributionOK(TouchedBy(b), CoinsAfter(b))
  BY <1>0, <1>4, FreshCoinsReadable, TouchedAddresses, DistributionPasses
<1>7. InsertOrVerify(accounting[b], BlockFacts(b))
  BY DEF AccountingInv, InsertOrVerify
<1>8. prev[b] # NoBlock => BranchSound(prev[b])
  BY <1>0, <1>3 DEF BlocksInv, BlockStored, ChainInv, ChainTypeOK
<1>9. BranchSound(b)
  BY <1>2, <1>3, <1>8, BranchGrows
<1>10. Lineage[b].cumUTXO >= 0
  <2> DEFINE left == (Unspent \cup AddedBy(b)) \ SpentBy(b)
  <2>1. ValueOf(left) = ValueOf(Unspent) + CoinbaseTotal(b) - BlockFee(b) - ExcludedValue(b)
    BY <1>2, <1>4, ValueAfter
  <2>2. left \in SUBSET Output /\ Unspent \in SUBSET Output
    BY DEF Unspent, AddedBy
  <2>3. ValueOf(left) \in Nat /\ ValueOf(Unspent) \in Nat
    BY <2>2, ValueNat
  <2> HIDE DEF left
  <2>4. CoinbaseTotal(b) \in Nat /\ BlockFee(b) \in Nat /\ ExcludedValue(b) \in Nat
    BY <1>2, FactsTyped
  <2>5. CASE checkpoint = NoBlock
    <3>1. canonical = {}
      BY <1>0, <2>5 DEF ChainInv, CanonicalLinked
    <3>2. Unspent = {}
      BY <1>0, <3>1 DEF Unspent, CoinInv, CoinsOwned
    <3>3. ValueOf(Unspent) = 0
      BY <3>2, SumEmpty DEF ValueOf
    <3>4. Lineage[b].cumUTXO = CoinbaseTotal(b) - BlockFee(b) - ExcludedValue(b)
      BY <1>8, <1>9, <2>5, LineageGain
    <3>5. QED
      BY <2>1, <2>3, <2>4, <3>3, <3>4
  <2>6. CASE checkpoint # NoBlock
    <3>1. Lineage[checkpoint].cumUTXO = ValueOf(Unspent)
      BY <1>0, <1>3, <2>6, TipUnspent DEF ChainSupply, TipCoinsExact
    <3>2. Lineage[b].cumUTXO = Lineage[checkpoint].cumUTXO + CoinbaseTotal(b) - BlockFee(b)
                                 - ExcludedValue(b)
      BY <1>8, <1>9, <2>6, LineageGain
    <3>3. QED
      BY <2>1, <2>3, <2>4, <3>1, <3>2
  <2>7. QED
    BY <2>5, <2>6
<1>11. RollupAccepted(b)
  <2>1. CASE ParentRollup(b) # NoRow
    BY <1>8, <1>9, <1>10, <2>1, RollupPasses
  <2>2. CASE ParentRollup(b) = NoRow
    <3>1. ASSUME checkpoint # NoBlock PROVE ~genesisRollupExists
      <4>1. height[b] # 0
        BY <1>0, <1>3, <3>1, TreeAssumption DEF ChainInv, ChainTypeOK
      <4>2. rollup[checkpoint] = NoRow
        BY <2>2, <3>1, <4>1 DEF ParentRollup
      <4>3. QED
        BY <3>1, <4>2 DEF TipRow
    <3>2. QED
      BY <2>2, <3>1 DEF RollupAccepted
  <2>3. QED
    BY <2>1, <2>2
<1>12. QED
  BY <1>2, <1>4, <1>5, <1>6, <1>7, <1>11 DEF Accepts
\* A replay finds the rows of its block.
LEMMA ReplayAccepted ==
  ASSUME BranchRewardsFit, DatabaseInv, TipRow, DistributionExact, checkpoint # NoBlock
  PROVE  Accepts(checkpoint)
<1> USE DEF DatabaseInv
<1> DEFINE b == checkpoint
<1>0. ChainInv /\ CoinInv /\ AddressTypeOK
  BY DEF StoreInv
<1>1. /\ b \in canonical /\ b \in blocks /\ b \in Block /\ canonical \subseteq Block
      /\ LinkedChain(canonical) /\ \A c \in canonical : height[c] <= height[b]
  BY <1>0 DEF ChainInv, ChainTypeOK, CanonicalLinked
<1> HIDE DEF b
<1>2. /\ validateBlockShape(b) /\ IsInjective(txs[b]) /\ BranchSound(b)
      /\ prev[b] # NoBlock => BranchSound(prev[b])
  <2>1. BlockStored(b)
    BY <1>1 DEF BlocksInv
  <2>2. prev[b] # NoBlock => prev[b] \in blocks
    BY <1>1, <2>1, OwnBranch DEF BlockStored
  <2>3. QED
    BY <2>1, <2>2 DEF BlocksInv, BlockStored
<1>3. FeesAccepted(b) /\ CoinbaseAccepted(b)
  BY <1>1, <1>2, OwnBranch DEF BranchSound
<1>4. checkCanonicalContinuity(b) /\ applyBlockHeader(b)
  BY <1>1 DEF checkCanonicalContinuity, applyBlockHeader, LinkedChain, b
<1>5. applyTransactions(b)
  <2>1. ASSUME NEW i \in DOMAIN txs[b], NEW o \in inputs[txs[b][i]] PROVE checkPrevout(b, i, o)
    <3>1. txs[b][i] \in TxSet(b) /\ txs[b][i] \in Tx /\ i \in Int
      BY <1>1, TxPosition
    <3>2. o \in Output
      BY <3>1, BlockDataAssumption
    <3>3. utxo[o] # NoRow /\ utxo[o].spentBy = txs[b][i]
      BY <1>0, <1>1, <3>1, <3>2 DEF CoinInv, SpendsRecorded
    <3>4. ASSUME NEW j \in 1..(i - 1), o \in inputs[txs[b][j]] PROVE FALSE
      <4>1. j \in DOMAIN txs[b] /\ j # i
        BY <1>1, <3>1, BlockDataAssumption
      <4>2. txs[b][j] \in TxSet(b)
        BY <1>1, <4>1, TxPosition
      <4>3. utxo[o].spentBy = txs[b][j]
        BY <1>0, <1>1, <3>2, <3>4, <4>2 DEF CoinInv, SpendsRecorded
      <4>4. QED
        BY <1>2, <3>3, <4>1, <4>3 DEF IsInjective
    <3>5. QED
      BY <3>3, <3>4 DEF checkPrevout
  <2>2. \A o \in Output : AddsCoin(b, o) => utxo[o].created = b
    BY <1>0, <1>1 DEF CoinInv, CoinsCreated
  <2>3. QED
    BY <1>2, <1>3, <2>1, <2>2 DEF applyTransactions
<1>6. DistributionOK(TouchedBy(b), CoinsAfter(b))
  <2>1. CoinsAfter(b) = utxo
    BY <1>0, <1>1, ReplayKeepsCoins
  <2>2. ReadableCoins(utxo)
    BY <1>0, CoinInvReadable
  <2>3. QED
    BY <1>0, <1>1, <2>1, <2>2, TouchedAddresses, DistributionPasses
<1>7. InsertOrVerify(accounting[b], BlockFacts(b))
  BY <1>1 DEF AccountingInv, InsertOrVerify
<1>8. RollupAccepted(b)
  <2>1. CASE ParentRollup(b) # NoRow
    <3>1. Lineage[b].cumUTXO = ValueOf(CoinsAt(b))
      BY <1>1 DEF ChainSupply
    <3>2. ValueOf(CoinsAt(b)) \in Nat
      BY ValueNat DEF CoinsAt
    <3>3. Lineage[b].cumUTXO >= 0
      BY <3>1, <3>2
    <3>4. QED
      BY <1>1, <1>2, <2>1, <3>3, RollupPasses
  <2>2. CASE ParentRollup(b) = NoRow
    <3>1. ASSUME genesisRollupExists PROVE FALSE
      <4>1. rollup[b] # NoRow
        BY <3>1 DEF TipRow, b
      <4>2. \A c \in Ancestry[b] : rollup[c] # NoRow
        BY <1>1, <4>1 DEF RollupTableInv, RollupRowOK
      <4>3. CASE prev[b] # NoBlock
        <5>1. prev[b] \in Ancestry[b]
          BY <1>1, <4>3, OwnBranch
        <5>2. ParentRollup(b) # NoRow
          BY <4>2, <4>3, <5>1, NoRowAssumption DEF ParentRollup, ZeroRollup, RollupRow
        <5>3. QED
          BY <2>2, <5>2
      <4>4. CASE prev[b] = NoBlock
        <5>1. PICK g \in canonical : height[g] = 0
          BY <3>1 DEF genesisRollupExists
        <5>2. height[b] <= height[g] \/ prev[b] \in canonical
          BY <1>1, <5>1 DEF LinkedChain
        <5>3. height[b] = 0
          BY <1>1, <4>4, <5>1, <5>2, TreeAssumption
        <5>4. ParentRollup(b) # NoRow
          BY <5>3, NoRowAssumption DEF ParentRollup, ZeroRollup, RollupRow
        <5>5. QED
          BY <2>2, <5>4
      <4>5. QED
        BY <4>3, <4>4
    <3>2. QED
      BY <2>2, <3>1 DEF RollupAccepted
  <2>3. QED
    BY <2>1, <2>2
<1>9. QED
  BY <1>2, <1>3, <1>4, <1>5, <1>6, <1>7, <1>8 DEF Accepts, b

LEMMA DatabaseNeverWedged ==
  ASSUME HeightsByParent, BranchRewardsFit
  PROVE  DatabaseInv /\ TipRow /\ DistributionExact => NeverWedged
<1> SUFFICES ASSUME DatabaseInv, TipRow, DistributionExact PROVE NeverWedged
  OBVIOUS
<1>1. ASSUME NEW a \in canonical PROVE RollbackAccepted(a)
  <2>1. ReadableCoins(CoinsAfterRollback(Orphans(a)))
    BY RollbackCoinsReadable DEF DatabaseInv
  <2>2. TouchedByRollback(Orphans(a)) \in SUBSET Address
    BY TouchedAddresses
  <2>3. QED
    BY <2>1, <2>2, DistributionPasses DEF RollbackAccepted, AncestorFound, DatabaseInv, StoreInv
<1>2. QED
  BY <1>1, ChildAccepted, ReplayAccepted DEF NeverWedged

LEMMA StoreDatabase == Spec => []DatabaseInv
<1>1. Init => DatabaseInv
  BY InitTables DEF Init, DatabaseInv, ChainSupply
<1>2. DatabaseInv /\ [Next]_vars => DatabaseInv'
  <2> SUFFICES ASSUME DatabaseInv, [Next]_vars PROVE DatabaseInv'
    OBVIOUS
  <2> USE DEF DatabaseInv
  <2>1. ASSUME NEW b \in Block, ApplyBlock(b) PROVE DatabaseInv'
    <3>1. StoreInv' /\ BlocksInv'
      BY <2>1, ApplyKeepsStore, ApplyKeepsBlocks DEF StoreInv
    <3>2. AccountingInv' /\ RollupTableInv' /\ ChainSupply'
      BY <2>1, <3>1, ApplyKeepsFactRows, ApplyKeepsRollupRows, ApplyKeepsChainSupply
    <3>3. QED
      BY <3>1, <3>2
  <2>2. ASSUME NEW a \in Block, RollbackTo(a) PROVE DatabaseInv'
    <3>1. StoreInv' /\ ChainSupply'
      BY <2>2, RollbackKeepsStore, RollbackKeepsChainSupply
    <3>2. UNCHANGED <<blocks, accounting, rollup>>
      BY <2>2 DEF RollbackTo, supplyVars
    <3>3. BlocksInv' /\ AccountingInv' /\ RollupTableInv'
      BY <3>2 DEF BlocksInv, BlockStored, AccountingInv, RollupTableInv, RollupTypeOK, RollupRowOK
    <3>4. QED
      BY <3>1, <3>3
  <2>3. ASSUME UNCHANGED vars PROVE DatabaseInv'
    <3>1. StoreInv'
      <4>1. AddressCacheExact'
        <5> SUFFICES ASSUME NEW a \in Address PROVE addresses'[a] = recomputeAddress(a, utxo')
          BY DEF AddressCacheExact, recomputeAddress
        <5>1. QED
          BY <2>3 DEF StoreInv, AddressCacheExact, vars
      <4>2. ChainInv' /\ FiniteChain' /\ CoinInv' /\ AddressTypeOK'
        BY <2>3 DEF StoreInv, ChainInv, ChainTypeOK, BootstrapEmpty, CanonicalLinked, FiniteChain,
            CoinInv, CoinTypeOK, CoinsCreated, CoinsOwned, SpendsRecorded, SpendsOwned,
            AddressTypeOK, vars
      <4>3. QED
        BY <4>1, <4>2 DEF StoreInv
    <3>2. BlocksInv' /\ AccountingInv' /\ RollupTableInv' /\ ChainSupply'
      BY <2>3 DEF BlocksInv, BlockStored, AccountingInv, RollupTableInv, RollupTypeOK, RollupRowOK,
          ChainSupply, CoinsAt, vars
    <3>3. QED
      BY <3>1, <3>2
  <2>4. QED
    BY <2>1, <2>2, <2>3 DEF Next, RejectBlock, RejectRollback
<1>3. QED
  BY <1>1, <1>2, PTL DEF Spec

\* On a tree whose heights follow parent links and whose rewards fit, no
\* history of blocks, reorganisations and orphans wedges the store: it takes
\* every child of its tip that Core accepts, a replay of its tip and a
\* rollback to any canonical block, and no row an orphan left behind conflicts
\* with a later call (ApplyBlock, RollbackTo, insertOrVerifyIdempotent).
THEOREM StoreNeverWedged ==
  ASSUME HeightsByParent, BranchRewardsFit
  PROVE  Spec => []NeverWedged
<1>1. DatabaseInv /\ RollupLineage => TipRow
  BY DEF DatabaseInv, StoreInv, ChainInv, ChainTypeOK, RollupLineage, RollupCovered, TipRow,
         genesisRollupExists
<1>2. QED
  BY <1>1, DatabaseNeverWedged, StoreDatabase, RollupsExact, DistributionCorrect, PTL

\* Nor do the commands around it: an index that passed its preflights is not
\* wedged as long as no migration is applied or taken back beside it, whatever
\* was migrated, backfilled and interrupted before it started.
THEOREM IndexNeverWedged ==
  ASSUME "up" \notin BesideIndex, RootedInGenesis, HeightsByParent, BranchRewardsFit
  PROVE  UpgradeSpec => [](indexer = "on" /\ applied = Versions => NeverWedged)
<1>1. UpgradeInv /\ ChainSupply => DatabaseInv
  BY DEF UpgradeInv, DatabaseInv
<1>2. UpgradeInv /\ StartedWhole /\ indexer = "on" /\ applied = Versions
        => TipRow /\ DistributionExact
  BY DEF UpgradeInv, StoreInv, ChainInv, ChainTypeOK, StartedWhole, TipRow
<1>3. QED
  BY <1>1, <1>2, DatabaseNeverWedged, SupplyInvariant, PreflightsSuffice, PTL
=============================================================================
