------------------------------- MODULE Upgrade -------------------------------
(***************************************************************************)
(* The life of one database under the qoge-explorer commands: `migrate`    *)
(* adds and drops the tables that came after the chain itself, `index`     *)
(* writes them block by block once its preflights pass, and three          *)
(* backfill commands fill them for blocks that were indexed without them.  *)
(*                                                                         *)
(* Every command is its own process and may stop anywhere.  ApplyBlock and *)
(* RollbackTo are one transaction each, and so is every migration; the     *)
(* rollup and the distribution backfill are one READ COMMITTED transaction *)
(* of several statements, each of which sees what is committed when it     *)
(* runs; the accounting backfill commits block by block.  A table that     *)
(* does not exist is represented by its freshly created content.           *)
(***************************************************************************)
EXTENDS CanonicalStore

CONSTANT BesideIndex   \* commands the operator runs without stopping `index`

\* The usage texts ask for `index` to be stopped; nothing enforces it.
ASSUME OperatorAssumption == BesideIndex \subseteq {"up", "down", "accounting", "rollup"}

VARIABLES
  applied,    \* schema_migrations above the base schema
  indexer,    \* `index`: "off", "checked" after its first preflight, "on"
  backlog,    \* `backfill-accounting`: the listed blocks still to do
  build,      \* `backfill-supply-rollup`: its transaction
  rebuild     \* `backfill-address-distribution`: its transaction

upgradeVars == <<vars, applied, indexer, backlog, build, rebuild>>

\* 4 block_accounting, 5 block_supply_rollup, 6 an index, 7 distribution.
Versions == 4..7

EmptyBuckets == [k \in Bucket |-> [count |-> 0, balance |-> 0]]
NoRows == [b \in Block |-> NoRow]
NoBuild == [pc |-> "off", height |-> -1, staged |-> << >>, pending |-> {}]
NoRebuild == [pc |-> "off", tip |-> NoBlock, rows |-> EmptyBuckets]

UpgradeInit ==
  /\ Init
  /\ applied = {}
  /\ indexer = "off"
  /\ backlog = {}
  /\ build = NoBuild
  /\ rebuild = NoRebuild

-----------------------------------------------------------------------------
(* migrate: Up and Down commit one migration at a time and may be stopped  *)
(* after each, so every prefix of either is a sequence of these steps.     *)

MayRun(command) == indexer = "off" \/ command \in BesideIndex

Up ==
  /\ MayRun("up")
  /\ applied # Versions
  /\ applied' = applied \cup {Min(Versions \ applied)}
  /\ UNCHANGED <<vars, indexer, backlog, build, rebuild>>

\* DROP TABLE waits for the transactions that have read the table.
InUse(v) ==
  \/ v = 4 /\ build.pc \in {"stage", "verify", "insert", "coins", "totals", "commit"}
  \/ v = 5 /\ build.pc \in {"insert", "coins", "totals", "commit"}
  \/ v = 7 /\ rebuild.pc \in {"check", "publish"}

\* Wrong: the recorded versions are sorted in ascending order.
OldestApplied == Min(applied)

NewestApplied == Max(applied)

Down ==
  /\ MayRun("down")
  /\ \E v \in applied :
       /\ v = NewestApplied /\ ~InUse(v)
       /\ applied' = applied \ {v}
       /\ accounting' = IF v = 4 THEN NoRows ELSE accounting
       /\ rollup' = IF v = 5 THEN NoRows ELSE rollup
       /\ buckets' = IF v = 7 THEN EmptyBuckets ELSE buckets
       /\ anchor' = IF v = 7 THEN NoBlock ELSE anchor
  /\ UNCHANGED <<chainVars, utxo, addresses, indexer, backlog, build, rebuild>>

-----------------------------------------------------------------------------
(* index: two preflights, then the store's writers.                        *)

\* Wrong: the rollup preflight is not called.
AnyRollupCoverage == TRUE

\* The tip's row stands for the whole chain's.
VerifySupplyRollupCoverage ==
  checkpoint # NoBlock /\ 5 \in applied => rollup[checkpoint] # NoRow

\* Wrong: the distribution preflight is not called.
AnyDistributionCoverage == TRUE

\* The anchor stands for the buckets' content.
VerifyDistributionCoverage ==
  checkpoint # NoBlock /\ 7 \in applied => anchor = checkpoint

OthersAllowIndex ==
  /\ rebuild.pc = "off"
  /\ backlog # {} => "accounting" \in BesideIndex
  /\ build.pc # "off" => "rollup" \in BesideIndex

StartIndex ==
  /\ indexer = "off" /\ OthersAllowIndex
  /\ VerifySupplyRollupCoverage
  /\ indexer' = "checked"
  /\ UNCHANGED <<vars, applied, backlog, build, rebuild>>

EnterLoop ==
  /\ indexer = "checked"
  /\ VerifyDistributionCoverage
  /\ indexer' = "on"
  /\ UNCHANGED <<vars, applied, backlog, build, rebuild>>

\* A signal, a crash, a failed preflight or a halt.
StopIndex ==
  /\ indexer # "off"
  /\ indexer' = "off"
  /\ UNCHANGED <<vars, applied, backlog, build, rebuild>>

\* The indexer applies above its checkpoint and rolls back below it.  A block
\* needs all the tables; a rollup row that an open backfill has inserted
\* makes the call wait for the backfill to end.
IndexBlock(b) ==
  /\ indexer = "on" /\ Versions \subseteq applied
  /\ b # checkpoint /\ b \notin build.pending
  /\ ApplyBlock(b)
  /\ UNCHANGED <<applied, indexer, backlog, build, rebuild>>

IndexRollback(a) ==
  /\ indexer = "on" /\ 7 \in applied
  /\ a # checkpoint
  /\ RollbackTo(a)
  /\ UNCHANGED <<applied, indexer, backlog, build, rebuild>>

-----------------------------------------------------------------------------
(* backfill-accounting                                                     *)

\* VerifyNetworkIdentity: the canonical genesis is there (its hash is the
\* network's, the tree has no other).
VerifyNetworkIdentity == \E g \in canonical : height[g] = 0

\* Every block, canonical or not; the advisory lock allows one run.
BackfillAccounting ==
  /\ MayRun("accounting")
  /\ backlog = {}
  /\ VerifyNetworkIdentity
  /\ 4 \in applied
  /\ backlog' = blocks
  /\ UNCHANGED <<vars, applied, indexer, build, rebuild>>

\* Wrong: fees of every stored transaction, not of the block's occurrences.
FactsByTransaction(b) ==
  LET stored == UNION {Paying(c) : c \in blocks}
  IN  ComputeBlockFacts(height[b], SumFunctionOnSet([t \in Tx |-> Fee(t)], stored),
                        ValueOf(Outs(txs[b][1])))

\* The facts of one block, from its own occurrences in block_transactions.
BackfillFacts(b) ==
  LET occurrences == {txs[b][i] : i \in DOMAIN txs[b]}
      paying == {t \in occurrences : ~IsCoinbase(t)}
  IN  ComputeBlockFacts(height[b], SumFunctionOnSet([t \in Tx |-> Fee(t)], paying),
                        ValueOf(Outs(txs[b][1])))

\* A coinbase with outputs comes first, the facts add up, and a row that is
\* already there agrees.  The store records a fee for whatever it applies.
BackfillAccepted(b) ==
  LET facts == BackfillFacts(b)
  IN  /\ IsCoinbase(txs[b][1]) /\ Outs(txs[b][1]) # {}
      /\ RewardAccepted(height[b], facts.fee, facts.coinbase)
      /\ InsertOrVerify(accounting[b], facts)

\* In order of height; a block that is refused ends the run.
BackfillBlockAccounting(b) ==
  /\ b \in backlog /\ \A c \in backlog : height[b] <= height[c]
  /\ 4 \in applied
  /\ BackfillAccepted(b)
  /\ accounting' = [accounting EXCEPT ![b] = BackfillFacts(b)]
  /\ backlog' = backlog \ {b}
  /\ UNCHANGED <<chainVars, ledgerVars, rollup, applied, indexer, build, rebuild>>

StopAccounting ==
  /\ backlog # {}
  /\ backlog' = {}
  /\ UNCHANGED <<vars, applied, indexer, build, rebuild>>

-----------------------------------------------------------------------------
(* backfill-supply-rollup: one step per statement.  A check that fails, or *)
(* a crash, rolls everything back (StopBuild).                             *)

BackfillSupplyRollup ==
  /\ MayRun("rollup")
  /\ build.pc = "off"
  /\ VerifyNetworkIdentity
  /\ checkpoint # NoBlock
  /\ build' = [NoBuild EXCEPT !.pc = "shape", !.height = height[checkpoint]]
  /\ UNCHANGED <<vars, applied, indexer, backlog, rebuild>>

Statement(from, to, condition) ==
  /\ build.pc = from /\ condition
  /\ build' = [build EXCEPT !.pc = to]
  /\ UNCHANGED <<vars, applied, indexer, backlog, rebuild>>

ShapeHolds(h) ==
  LET heights == {height[b] : b \in canonical}
  IN  Cardinality(canonical) = h + 1 /\ Min(heights) = 0 /\ Max(heights) = h
CheckShape == Statement("shape", "ancestry", canonical # {} /\ ShapeHolds(build.height))

\* findCanonicalAncestryBreach finds none.
AncestryHolds ==
  \A b \in canonical :
    IF height[b] = 0 THEN prev[b] = NoBlock
    ELSE \E c \in canonical : height[c] = height[b] - 1 /\ prev[b] = c
CheckAncestry == Statement("ancestry", "complete", AncestryHolds)

\* Wrong: canonical blocks without accounting are not counted.
IncompleteSourceAccepted == TRUE

AccountingComplete == \A b \in canonical : accounting[b] # NoRow
CheckComplete == Statement("complete", "stage", 4 \in applied /\ AccountingComplete)

\* The canonical blocks joined to their accounting, and sums over them.
Joined == {b \in canonical : accounting[b] # NoRow}
Total(column, S) == SumFunctionOnSet([c \in Joined |-> accounting[c][column]], S)
TotalExcluded(S) == SumFunctionOnSet([c \in Joined |-> ExcludedValue(c)], S)

CumulativeRow(b, S) ==
  [ excluded     |-> ExcludedValue(b),
    cumSubsidy   |-> Total("subsidy", S),
    cumFee       |-> Total("fee", S),
    cumCoinbase  |-> Total("coinbase", S),
    cumUnclaimed |-> Total("unclaimed", S),
    cumExcluded  |-> TotalExcluded(S),
    cumUTXO      |-> Total("coinbase", S) - Total("fee", S) - TotalExcluded(S) ]

\* supplyRollupStagingSQL: a window over the canonical blocks by height.
Staged == [b \in Joined |-> CumulativeRow(b, {c \in Joined : height[c] <= height[b]})]
Stage ==
  /\ build.pc = "stage"
  /\ build' = [build EXCEPT !.pc = "verify", !.staged = Staged]
  /\ UNCHANGED <<vars, applied, indexer, backlog, rebuild>>

\* supplyRollupContradictionSQL counts none.
NoContradiction(rows) == \A b \in DOMAIN rows : InsertOrVerify(rollup[b], rows[b])
CheckContradictions ==
  Statement("verify", "insert", 5 \in applied /\ NoContradiction(build.staged))

\* ON CONFLICT DO NOTHING, under the table's CHECK constraints.
RowsFit(rows) == \A b \in DOMAIN rows : rows[b].cumUTXO >= 0 /\ Fits(rows[b].cumCoinbase)
InsertFromStaging ==
  /\ build.pc = "insert" /\ RowsFit(build.staged)
  /\ build' = [build EXCEPT !.pc = "coins",
                            !.pending = {b \in DOMAIN build.staged : rollup[b] = NoRow}]
  /\ UNCHANGED <<vars, applied, indexer, backlog, rebuild>>

\* The two independent cross-checks of the staged tip.
TopRow(rows) ==
  rows[CHOOSE b \in DOMAIN rows : \A c \in DOMAIN rows : height[c] <= height[b]]
CoinsMatch(rows) == TopRow(rows).cumUTXO = ValueOf(Unspent)
TotalsMatch(rows) ==
  /\ TopRow(rows).cumSubsidy = Total("subsidy", Joined)
  /\ TopRow(rows).cumFee = Total("fee", Joined)
  /\ TopRow(rows).cumCoinbase = Total("coinbase", Joined)
  /\ TopRow(rows).cumUnclaimed = Total("unclaimed", Joined)
CheckCoins ==
  Statement("coins", "totals", DOMAIN build.staged # {} /\ CoinsMatch(build.staged))
CheckTotals == Statement("totals", "commit", TotalsMatch(build.staged))

CommitBuild ==
  /\ build.pc = "commit"
  /\ rollup' = [b \in Block |-> IF b \in build.pending THEN build.staged[b] ELSE rollup[b]]
  /\ build' = NoBuild
  /\ UNCHANGED <<chainVars, ledgerVars, accounting, applied, indexer, backlog, rebuild>>

StopBuild ==
  /\ build.pc # "off"
  /\ build' = NoBuild
  /\ UNCHANGED <<vars, applied, indexer, backlog, rebuild>>

-----------------------------------------------------------------------------
(* backfill-address-distribution, always with `index` stopped.             *)

BackfillAddressDistribution ==
  /\ indexer = "off"
  /\ rebuild.pc = "off"
  /\ rebuild' = [NoRebuild EXCEPT !.pc = "rebuild", !.tip = checkpoint]
  /\ UNCHANGED <<vars, applied, indexer, backlog, build>>

\* The range join of the bucket definitions with the positive balances.
RangeJoin ==
  [k \in Bucket |->
     LET members == {a \in Address : /\ Balance(addresses[a]) > 0
                                     /\ InBucket(k, Balance(addresses[a]))}
     IN  [ count   |-> Cardinality(members),
           balance |-> SumFunctionOnSet([a \in Address |-> Balance(addresses[a])], members) ]]
RebuildBuckets ==
  /\ rebuild.pc = "rebuild" /\ 7 \in applied
  /\ rebuild' = [rebuild EXCEPT !.pc = "check", !.rows = RangeJoin]
  /\ UNCHANGED <<vars, applied, indexer, backlog, build>>

\* distributionCrossCheckSQL and the global scan: per bucket and in total.
ExactBuckets ==
  [k \in Bucket |-> [ count   |-> Cardinality(Members(k, Address, addresses)),
                      balance |-> Holdings(k, Address, addresses) ]]
Positive == {a \in Address : Balance(addresses[a]) > 0}
CheckRebuilt ==
  /\ rebuild.pc = "check"
  /\ rebuild.rows = ExactBuckets
  /\ SumFunction([k \in Bucket |-> rebuild.rows[k].count]) = Cardinality(Positive)
  /\ SumFunction([k \in Bucket |-> rebuild.rows[k].balance])
       = SumFunctionOnSet([a \in Address |-> Balance(addresses[a])], Positive)
  /\ rebuild' = [rebuild EXCEPT !.pc = "publish"]
  /\ UNCHANGED <<vars, applied, indexer, backlog, build>>

\* The state table's trigger refuses an anchor that is not canonical.
PublishBuckets ==
  /\ rebuild.pc = "publish"
  /\ rebuild.tip \in canonical \cup {NoBlock}
  /\ buckets' = rebuild.rows
  /\ anchor' = rebuild.tip
  /\ rebuild' = NoRebuild
  /\ UNCHANGED <<chainVars, utxo, addresses, supplyVars, applied, indexer, backlog, build>>

StopRebuild ==
  /\ rebuild.pc # "off"
  /\ rebuild' = NoRebuild
  /\ UNCHANGED <<vars, applied, indexer, backlog, build>>

-----------------------------------------------------------------------------
Migrate == Up \/ Down
Index == \/ StartIndex \/ EnterLoop \/ StopIndex
         \/ \E b \in Block : IndexBlock(b) \/ IndexRollback(b)
Accounting == \/ BackfillAccounting \/ StopAccounting
              \/ \E b \in Block : BackfillBlockAccounting(b)
Rollup == \/ BackfillSupplyRollup \/ CheckShape \/ CheckAncestry \/ CheckComplete
          \/ Stage \/ CheckContradictions \/ InsertFromStaging
          \/ CheckCoins \/ CheckTotals \/ CommitBuild \/ StopBuild
Rebuild == \/ BackfillAddressDistribution \/ RebuildBuckets \/ CheckRebuilt
           \/ PublishBuckets \/ StopRebuild

UpgradeNext == Migrate \/ Index \/ Accounting \/ Rollup \/ Rebuild
UpgradeSpec == UpgradeInit /\ [][UpgradeNext]_upgradeVars

-----------------------------------------------------------------------------
(* Properties                                                              *)

\* The tables keep their columns, migrations are applied in order, and a
\* missing table holds nothing.
UpgradeTypeOK ==
  /\ TypeOK
  /\ applied \subseteq Versions /\ \A v \in applied : 4..v \subseteq applied
  /\ indexer \in {"off", "checked", "on"}
  /\ backlog \subseteq blocks
  /\ DOMAIN build.staged \subseteq blocks /\ build.pending \subseteq DOMAIN build.staged
  /\ 4 \notin applied => accounting = NoRows
  /\ 5 \notin applied => rollup = NoRows
  /\ 7 \notin applied => buckets = EmptyBuckets /\ anchor = NoBlock

\* A running index works on tables that are equal to those of a database it
\* wrote from the start: both preflights look at one row each
\* (VerifySupplyRollupCoverage, VerifyDistributionCoverage), and that is
\* enough, whatever was migrated, backfilled and interrupted before.
StartedWhole ==
  indexer = "on" /\ applied = Versions =>
    /\ \A b \in canonical : accounting[b] # NoRow /\ rollup[b] # NoRow
    /\ DistributionExact

\* Buckets that are anchored at the checkpoint are the aggregation of the
\* address cache: sum(bucket.address_count) always equals the number of
\* positive balances (ApplyBlock, BackfillAddressDistribution, `migrate`).
BucketsSound ==
  7 \in applied /\ anchor = checkpoint => buckets = ExactBuckets

\* A published rollup row is the sum over the block's own ancestry, and its
\* ancestors have rows too, whether `index` or the backfill wrote it and
\* whatever ran beside them (applySupplyRollup, BackfillSupplyRollup).
Along(b, amount) == SumFunctionOnSet(amount, Ancestry[b])
Lineage ==
  [b \in Block |->
     LET coinbase == Along(b, [c \in Block |-> CoinbaseTotal(c)])
         fee      == Along(b, [c \in Block |-> BlockFee(c)])
         excluded == Along(b, [c \in Block |-> ExcludedValue(c)])
         subsidy  == Along(b, [c \in Block |-> BlockSubsidy(height[c])])
     IN  [ excluded |-> ExcludedValue(b), cumSubsidy |-> subsidy, cumFee |-> fee,
           cumCoinbase |-> coinbase, cumUnclaimed |-> subsidy + fee - coinbase,
           cumExcluded |-> excluded, cumUTXO |-> coinbase - fee - excluded ]]
RollupRowsExact ==
  \A b \in Block : rollup[b] # NoRow =>
    rollup[b] = Lineage[b] /\ \A c \in Ancestry[b] : rollup[c] # NoRow

\* The way out is always open: no order of commands, crashes and
\* reorganisations leaves rows a backfill would refuse.  The accounting
\* backfill accepts every block, and once the canonical chain has its
\* accounting every check of the rollup backfill passes, the constraints of
\* the table included, if nothing runs beside it (BackfillAccounting, BackfillSupplyRollup).
BackfillNeverStuck ==
  /\ \A b \in blocks : BackfillAccepted(b)
  /\ canonical # {} /\ AccountingComplete =>
       LET rows == Staged
       IN  /\ ShapeHolds(height[checkpoint]) /\ AncestryHolds
           /\ NoContradiction(rows) /\ RowsFit(rows)
           /\ CoinsMatch(rows) /\ TotalsMatch(rows)
=============================================================================
