--------------------------- MODULE CanonicalStore ----------------------------
(***************************************************************************)
(* internal/store: the confirmed index.  Both write operations, ApplyBlock *)
(* and RollbackTo, are one PostgreSQL transaction that first takes the row *)
(* lock on sync_state (lockCheckpoint), so calls of concurrent writers,    *)
(* and crashes in the middle of a call, leave the committed state as if    *)
(* each call had happened atomically or not at all: one action per call,   *)
(* and a rejected call changes nothing.                                    *)
(*                                                                         *)
(* A member of blocks stands for the immutable rows one ApplyBlock writes  *)
(* (blocks, block_transactions, transactions, inputs, outputs, witness,    *)
(* output_addresses, output_participants); they are functions of the hash. *)
(***************************************************************************)
EXTENDS ChainData, FiniteSetsExt

VARIABLES
  blocks,       \* block rows ever written, canonical or orphaned
  canonical,    \* the rows with blocks.canonical = true
  checkpoint,   \* sync_state('main').indexed_block_hash
  utxo,         \* utxo_state
  addresses,    \* addresses, the cached totals per address
  buckets,      \* address_balance_distribution
  anchor,       \* address_balance_distribution_state.indexed_block_hash
  accounting,   \* block_accounting
  rollup        \* block_supply_rollup

chainVars == <<blocks, canonical, checkpoint>>
ledgerVars == <<utxo, addresses, buckets, anchor>>
supplyVars == <<accounting, rollup>>
vars == <<blocks, canonical, checkpoint, utxo, addresses, buckets, anchor,
          accounting, rollup>>

Coin(b) == [created |-> b, spentBy |-> NoTx, spentIn |-> NoBlock]

Init ==
  /\ blocks = {}
  /\ canonical = {}
  /\ checkpoint = NoBlock
  /\ utxo = [o \in Output |-> NoRow]
  /\ addresses = [a \in Address |-> NoRow]
  /\ buckets = [k \in Bucket |-> [count |-> 0, balance |-> 0]]
  /\ anchor = NoBlock
  /\ accounting = [b \in Block |-> NoRow]
  /\ rollup = [b \in Block |-> NoRow]

-----------------------------------------------------------------------------
(* Definitions under the heading "wrong" vary the one they precede the way *)
(* a plausible mistake in the code would; no specification uses them.  A   *)
(* property is worth its run only if such a mistake violates it.           *)

(* The address cache and the balance distribution, recomputed for the      *)
(* touched addresses of one call.                                          *)

\* recomputeAddress: the totals of one address, from the coins that pay it.
recomputeAddress(a, coins) ==
  LET mine  == {o \in Output : dest[o] = a /\ coins[o] # NoRow}
      spent == {o \in mine : coins[o].spentBy # NoTx}
      txids == {creator[o] : o \in mine} \cup {coins[o].spentBy : o \in spent}
      seen  == {height[coins[o].created] : o \in mine}
      used  == {height[coins[o].spentIn] : o \in spent}
  IN  IF txids = {} THEN NoRow
      ELSE [ received |-> ValueOf(mine),
             sent     |-> ValueOf(spent),
             balance  |-> ValueOf(mine \ spent),
             txCount  |-> Cardinality(txids),
             first    |-> Min(seen),
             last     |-> Max(seen \cup used) ]

AddressesAfter(touched, coins) ==
  [a \in Address |-> IF a \in touched THEN recomputeAddress(a, coins) ELSE addresses[a]]

\* currentAddressBalance: zero when there is no row.
Balance(row) == IF row = NoRow THEN 0 ELSE row.balance

\* The addresses of S whose balance in cache falls into bucket k, and what
\* they hold together.
Members(k, S, cache) == {a \in S : bucketForBalance(Balance(cache[a])) = k}
Holdings(k, S, cache) ==
  SumFunctionOnSet([a \in Address |-> Balance(cache[a])], Members(k, S, cache))

\* Wrong: observe adds the new balance and forgets to leave the old bucket.
BucketsNeverLeft(touched, cache) ==
  [k \in Bucket |->
     [ count   |-> buckets[k].count + Cardinality(Members(k, touched, cache)),
       balance |-> buckets[k].balance + Holdings(k, touched, cache) ]]

\* distributionDelta.observe over every touched address, published by
\* applyDistributionDeltas: each leaves the bucket of its old balance and
\* enters the bucket of its new one.
BucketsAfter(touched, cache) ==
  [k \in Bucket |->
     [ count   |-> buckets[k].count - Cardinality(Members(k, touched, addresses))
                                    + Cardinality(Members(k, touched, cache)),
       balance |-> buckets[k].balance - Holdings(k, touched, addresses)
                                      + Holdings(k, touched, cache) ]]

\* ErrDistributionInvariant otherwise.
DistributionAccepted(new) == \A k \in Bucket : new[k].count >= 0 /\ new[k].balance >= 0

\* Wrong: the anchor only moves when some touched address changed bucket.
AnchorWithBucketsOnly(touched, coins, tip) ==
  /\ utxo' = coins
  /\ addresses' = AddressesAfter(touched, coins)
  /\ buckets' = BucketsAfter(touched, AddressesAfter(touched, coins))
  /\ anchor' = IF buckets' = buckets THEN anchor ELSE tip

\* One call's ledger update: the coins are given, caches and buckets follow,
\* and the anchor moves with the checkpoint.
DistributionOK(touched, coins) ==
  DistributionAccepted(BucketsAfter(touched, AddressesAfter(touched, coins)))
UpdateLedger(touched, coins, tip) ==
  /\ utxo' = coins
  /\ addresses' = AddressesAfter(touched, coins)
  /\ buckets' = BucketsAfter(touched, AddressesAfter(touched, coins))
  /\ anchor' = tip

-----------------------------------------------------------------------------
(* ApplyBlock                                                              *)

\* Wrong: the next height is taken for the next block of the chain.
ContinuityByHeight(b) ==
  \/ checkpoint = NoBlock
  \/ b = checkpoint
  \/ checkpoint # NoBlock /\ height[b] = height[checkpoint] + 1

\* checkCanonicalContinuity: the bootstrap block, an exact replay of the tip,
\* or the tip's immediate child.
checkCanonicalContinuity(b) ==
  \/ checkpoint = NoBlock
  \/ b = checkpoint
  \/ /\ checkpoint # NoBlock
     /\ height[b] = height[checkpoint] + 1
     /\ prev[b] = checkpoint

\* applyBlockHeader: a new row needs its parent's row (foreign key), and the
\* partial unique index allows one canonical row per height.  A known orphan
\* is promoted.
applyBlockHeader(b) ==
  /\ b \in blocks \/ prev[b] = NoBlock \/ prev[b] \in blocks
  /\ \A c \in canonical : height[c] = height[b] => c = b

\* checkPrevout for input o of the i-th transaction: the coin exists by then,
\* and nobody but this very transaction has spent it.
checkPrevout(b, i, o) ==
  LET t == txs[b][i]
      earlier == {txs[b][j] : j \in 1..(i - 1)}
  IN  /\ utxo[o] # NoRow \/ (creator[o] \in earlier /\ AddsCoin(b, o))
      /\ utxo[o] # NoRow => utxo[o].spentBy \in {NoTx, t}
      /\ \A s \in earlier : o \notin inputs[s]

\* applyTransaction over the whole block: distinct transactions, every prevout
\* available, sound fees, and no coin already created by another block.
applyTransactions(b) ==
  /\ IsInjective(txs[b])
  /\ \A i \in DOMAIN txs[b] : \A o \in inputs[txs[b][i]] : checkPrevout(b, i, o)
  /\ FeesAccepted(b)
  /\ \A o \in Output : AddsCoin(b, o) /\ utxo[o] # NoRow => utxo[o].created = b

\* The coins after applyOutput and markSpent: rows that exist are left as they
\* are, and only an unspent row is marked.
CoinsAfter(b) ==
  LET created == [o \in Output |-> IF AddsCoin(b, o) /\ utxo[o] = NoRow
                                   THEN Coin(b) ELSE utxo[o]]
  IN  [o \in Output |->
         IF SpendsCoin(b, o) /\ created[o].spentBy = NoTx
         THEN [created |-> created[o].created, spentBy |-> Spender(b, o), spentIn |-> b]
         ELSE created[o]]

\* Wrong: spending from an address does not touch it.
TouchedByOutputsOnly(b) == {dest[o] : o \in OutsOf(b)} \ {NoAddress}

\* Every address a block's outputs pay or its inputs spend from, whether or
\* not the output became a coin.
TouchedBy(b) ==
  {dest[o] : o \in OutsOf(b) \cup {x \in Output : SpendsCoin(b, x)}} \ {NoAddress}

\* Wrong: a plain INSERT, which an existing row makes fail.
InsertOnly(old, new) == old = NoRow

\* insertOrVerifyIdempotent on an immutable row.
InsertOrVerify(old, new) == old \in {NoRow, new}

ZeroRollup == [ excluded |-> 0, cumSubsidy |-> 0, cumFee |-> 0, cumCoinbase |-> 0,
                cumUnclaimed |-> 0, cumExcluded |-> 0, cumUTXO |-> 0 ]

\* Wrong: a block without a parent row starts from zeros wherever it is.
FabricatedParentRollup(b) ==
  IF prev[b] = NoBlock THEN ZeroRollup ELSE rollup[prev[b]]

\* The parent row applySupplyRollup starts from: zeros at genesis, else the
\* row of the previous hash, if there is one.
ParentRollup(b) ==
  IF height[b] = 0 THEN ZeroRollup
  ELSE IF prev[b] = NoBlock THEN NoRow ELSE rollup[prev[b]]

genesisRollupExists == \E g \in canonical : height[g] = 0 /\ rollup[g] # NoRow

\* The cumulative row: parent plus this block's facts, the coin set's value
\* derived from the other totals.
SupplyRollup(b) ==
  LET p == ParentRollup(b)
      f == BlockFacts(b)
  IN  [ excluded     |-> ExcludedValue(b),
        cumSubsidy   |-> p.cumSubsidy + f.subsidy,
        cumFee       |-> p.cumFee + f.fee,
        cumCoinbase  |-> p.cumCoinbase + f.coinbase,
        cumUnclaimed |-> p.cumUnclaimed + f.unclaimed,
        cumExcluded  |-> p.cumExcluded + ExcludedValue(b),
        cumUTXO      |-> p.cumCoinbase + f.coinbase - (p.cumFee + f.fee)
                           - (p.cumExcluded + ExcludedValue(b)) ]

RollupAccepted(b) ==
  IF ParentRollup(b) = NoRow
  THEN checkpoint = NoBlock \/ ~genesisRollupExists   \* else ErrRollupParentMissing
  ELSE LET r == SupplyRollup(b)
       IN  /\ \A c \in {"cumSubsidy", "cumFee", "cumCoinbase", "cumUnclaimed", "cumExcluded"} :
                 Fits(r[c])
           /\ r.cumUTXO >= 0
           /\ InsertOrVerify(rollup[b], r)

\* All the checks of ApplyBlock.
Accepts(b) ==
  /\ validateBlockShape(b)
  /\ checkCanonicalContinuity(b)
  /\ applyBlockHeader(b)
  /\ applyTransactions(b)
  /\ DistributionOK(TouchedBy(b), CoinsAfter(b))
  /\ CoinbaseAccepted(b)
  /\ InsertOrVerify(accounting[b], BlockFacts(b))
  /\ RollupAccepted(b)

ApplyBlock(b) ==
  /\ Accepts(b)
  /\ blocks' = blocks \cup {b}
  /\ canonical' = canonical \cup {b}
  /\ UpdateLedger(TouchedBy(b), CoinsAfter(b), b)
  /\ accounting' = [accounting EXCEPT ![b] = BlockFacts(b)]
  /\ rollup' = IF ParentRollup(b) = NoRow THEN rollup
               ELSE [rollup EXCEPT ![b] = SupplyRollup(b)]
  /\ checkpoint' = b

\* Any failed check rolls the transaction back.
RejectBlock(b) == ~Accepts(b) /\ UNCHANGED vars

-----------------------------------------------------------------------------
(* RollbackTo                                                              *)

\* Wrong: the ancestor is counted among its own orphans.
OrphansFromAncestor(a) == {b \in canonical : height[b] >= height[a]}

Orphans(a) == {b \in canonical : height[b] > height[a]}

\* Wrong: spends made by an orphan are not undone.
CoinsStillSpent(orphans) ==
  [o \in Output |-> IF utxo[o] # NoRow /\ utxo[o].created \in orphans
                    THEN NoRow ELSE utxo[o]]

\* Coins created by an orphan disappear, then spends made by an orphan are
\* undone.
CoinsAfterRollback(orphans) ==
  [o \in Output |->
     IF utxo[o] = NoRow THEN NoRow
     ELSE IF utxo[o].created \in orphans THEN NoRow
     ELSE IF utxo[o].spentIn \in orphans THEN Coin(utxo[o].created)
     ELSE utxo[o]]

TouchedByRollback(orphans) ==
  {dest[o] : o \in {x \in Output : /\ utxo[x] # NoRow
                                   /\ \/ utxo[x].created \in orphans
                                      \/ utxo[x].spentIn \in orphans}} \ {NoAddress}

\* Wrong: any known block will do as an ancestor, orphaned ones included.
AncestorKnown(a) == a \in blocks

AncestorFound(a) == a \in canonical
RollbackAccepted(a) ==
  /\ AncestorFound(a)
  /\ DistributionOK(TouchedByRollback(Orphans(a)), CoinsAfterRollback(Orphans(a)))

\* Wrong: a rollback also deletes the orphans' rollup rows.
RollbackDeletingRollups(a) ==
  /\ RollbackAccepted(a)
  /\ canonical' = canonical \ Orphans(a)
  /\ UpdateLedger(TouchedByRollback(Orphans(a)), CoinsAfterRollback(Orphans(a)), a)
  /\ checkpoint' = a
  /\ rollup' = [b \in Block |-> IF b \in Orphans(a) THEN NoRow ELSE rollup[b]]
  /\ UNCHANGED <<blocks, accounting>>

RollbackTo(a) ==
  /\ RollbackAccepted(a)
  /\ canonical' = canonical \ Orphans(a)
  /\ UpdateLedger(TouchedByRollback(Orphans(a)), CoinsAfterRollback(Orphans(a)), a)
  /\ checkpoint' = a
  /\ UNCHANGED <<blocks, supplyVars>>

\* ErrAncestorNotFound or a failed distribution delta.
RejectRollback(a) == ~RollbackAccepted(a) /\ UNCHANGED vars

Next == \E b \in Block : \/ ApplyBlock(b)
                         \/ RejectBlock(b)
                         \/ RollbackTo(b)
                         \/ RejectRollback(b)

Spec == Init /\ [][Next]_vars

-----------------------------------------------------------------------------
(* Properties                                                              *)

AddressRow == [received : Nat, sent : Nat, balance : Nat, txCount : Nat,
               first : Nat, last : Nat]
FactsRow == [subsidy : Nat, fee : Nat, coinbase : Nat, unclaimed : Nat]
RollupRow == [excluded : Nat, cumSubsidy : Nat, cumFee : Nat, cumCoinbase : Nat,
              cumUnclaimed : Nat, cumExcluded : Nat, cumUTXO : Nat]

\* A missing row is no row.
ASSUME NoRowAssumption == NoRow \notin AddressRow \cup FactsRow \cup RollupRow

ChainTypeOK ==
  /\ blocks \subseteq Block
  /\ canonical \subseteq blocks
  /\ checkpoint \in canonical \cup {NoBlock}
  /\ anchor \in canonical \cup {NoBlock}
CoinTypeOK == utxo \in [Output -> CoinRow \cup {NoRow}]

\* The committed tables have the columns and the non-negative amounts that
\* the migrations' CHECK constraints require, and only rows that exist are
\* canonical or referenced.
TypeOK ==
  /\ ChainTypeOK
  /\ CoinTypeOK
  /\ addresses \in [Address -> AddressRow \cup {NoRow}]
  /\ buckets \in [Bucket -> [count : Nat, balance : Nat]]
  /\ accounting \in [Block -> FactsRow \cup {NoRow}]
  /\ rollup \in [Block -> RollupRow \cup {NoRow}]

\* The canonical rows are one parent-linked chain that ends at the
\* checkpoint: one row per height, no gap, no stray row left canonical by a
\* rollback or a re-promotion (ApplyBlock, applyBlockHeader, RollbackTo).
CanonicalLinked ==
  /\ checkpoint = NoBlock <=> canonical = {}
  /\ LinkedChain(canonical)
  /\ \A b \in canonical :
        /\ height[b] <= height[checkpoint]
        /\ b = checkpoint \/ \E c \in canonical : prev[c] = b /\ height[c] = height[b] + 1

\* utxo_state is what a replay of the canonical chain from nothing yields,
\* however the store got there: a coin for every spendable output of a
\* canonical block, spent exactly when a canonical block spends it, with the
\* creating and the spending block on record (applyOutput, markSpent,
\* RollbackTo).
CoinOf(o) ==
  LET made == {b \in canonical : AddsCoin(b, o)}
      used == {b \in canonical : SpendsCoin(b, o)}
  IN  IF made = {} THEN NoRow
      ELSE [ created |-> CHOOSE b \in made : TRUE,
             spentBy |-> IF used = {} THEN NoTx ELSE Spender(CHOOSE b \in used : TRUE, o),
             spentIn |-> IF used = {} THEN NoBlock ELSE CHOOSE b \in used : TRUE ]
UtxoIsReplay == \A o \in Output : utxo[o] = CoinOf(o)

\* The cached row of every address, touched by the last call or not, equals a
\* recomputation from the current coins (recomputeAddress, TouchedBy).
AddressCacheExact == \A a \in Address : addresses[a] = recomputeAddress(a, utxo)

\* The incrementally maintained buckets equal a full aggregation of the
\* address cache, and they describe the checkpoint's state, at every
\* committed state (applyDistributionDeltas, setDistributionAnchor).
DistributionExact ==
  /\ anchor = checkpoint
  /\ \A k \in Bucket :
        buckets[k] = [ count   |-> Cardinality(Members(k, Address, addresses)),
                       balance |-> Holdings(k, Address, addresses) ]

\* The tip's rollup row, built by adding up blocks along parent links and
\* never looking at a coin, states the value of the actual coin set
\* (applySupplyRollup's UTXO algebra).
Unspent == {o \in Output : utxo[o] # NoRow /\ utxo[o].spentBy = NoTx}
SupplyMatchesCoins ==
  checkpoint # NoBlock /\ rollup[checkpoint] # NoRow
    => rollup[checkpoint].cumUTXO = ValueOf(Unspent)

\* Rollup coverage has no holes and no invented beginning: on a chain rooted in
\* genesis every canonical block has its row, on a chain bootstrapped elsewhere
\* none has; and a row, added up from its parent's when the block was first
\* applied, is what a recount from the facts of the canonical blocks up to it
\* gives, after any rollbacks and promotions (applySupplyRollup,
\* genesisRollupExists).  The coin total is SupplyMatchesCoins' part.
ChainTo(b) == {c \in canonical : height[c] <= height[b]}
SubsidyOf == [c \in Block |-> BlockFacts(c).subsidy]
FeeOf == [c \in Block |-> BlockFacts(c).fee]
CoinbaseOf == [c \in Block |-> BlockFacts(c).coinbase]
UnclaimedOf == [c \in Block |-> BlockFacts(c).unclaimed]
ExcludedOf == [c \in Block |-> ExcludedValue(c)]

RollupCovered ==
  \A b \in canonical : rollup[b] # NoRow <=> \E g \in canonical : height[g] = 0
RollupTotals ==
  \A b \in canonical : rollup[b] # NoRow =>
    /\ rollup[b].cumSubsidy = SumFunctionOnSet(SubsidyOf, ChainTo(b))
    /\ rollup[b].cumFee = SumFunctionOnSet(FeeOf, ChainTo(b))
    /\ rollup[b].cumCoinbase = SumFunctionOnSet(CoinbaseOf, ChainTo(b))
    /\ rollup[b].cumUnclaimed = SumFunctionOnSet(UnclaimedOf, ChainTo(b))
    /\ rollup[b].cumExcluded = SumFunctionOnSet(ExcludedOf, ChainTo(b))
RollupLineage == RollupCovered /\ RollupTotals

\* The closed form of the schedule, one product per halving era, is the sum of
\* the block subsidies at every height, the borders of eras and the heights
\* past the last halving included; and it is the total that ApplyBlock adds up
\* along parent links, on every branch (ScheduledSubsidyThroughHeight,
\* applySupplyRollup).
ScheduleExact ==
  /\ \A h \in 0..(HalvingInterval * (MaxHalvings + 1)) :
        ScheduledSubsidyThroughHeight(h) =
          SumFunctionOnSet([k \in 0..h |-> BlockSubsidy(k)], 0..h)
  /\ \A b \in blocks : rollup[b] # NoRow =>
        rollup[b].cumSubsidy = ScheduledSubsidyThroughHeight(height[b])

\* Rows of immutable tables are never changed or removed, not by a rollback
\* and not by the re-promotion of an orphan (insertOrVerifyIdempotent).
ImmutableRows ==
  [][ /\ blocks \subseteq blocks'
      /\ \A b \in Block : /\ accounting[b] # NoRow => accounting'[b] = accounting[b]
                          /\ rollup[b] # NoRow => rollup'[b] = rollup[b] ]_vars

\* A committed call that does not move the checkpoint, a replay of the tip or
\* a rollback to it, changes nothing at all: replays are idempotent.
ReplayIsNoop == [][checkpoint' # checkpoint]_vars

\* Core's rules for a block on top of its own ancestry, independent of what
\* the store has seen: the blocks the indexer can hand over.
CoreAccepts(b) ==
  LET below == Ancestry[b] \ {b}
  IN  /\ validateBlockShape(b) /\ IsInjective(txs[b])
      /\ FeesAccepted(b) /\ CoinbaseAccepted(b)
      /\ \A o \in OutsOf(b) : \A c \in below : o \notin OutsOf(c)
      /\ \A i \in DOMAIN txs[b] : \A o \in inputs[txs[b][i]] :
            /\ \/ \E c \in below : AddsCoin(c, o)
               \/ AddsCoin(b, o) /\ creator[o] \in {txs[b][j] : j \in 1..(i - 1)}
            /\ \A c \in below : ~SpendsCoin(c, o)
            /\ \A j \in 1..(i - 1) : o \notin inputs[txs[b][j]]
ConsensusValid(b) == \A c \in Ancestry[b] : CoreAccepts(c)

\* No history of reorganisations wedges the store: it takes every valid child
\* of its tip, a replay of its tip, and a rollback to any canonical block, and
\* never mistakes rows an orphan left behind for a conflict.
NeverWedged ==
  /\ \A b \in Block : ConsensusValid(b) /\ prev[b] = checkpoint => Accepts(b)
  /\ checkpoint # NoBlock => Accepts(checkpoint)
  /\ \A a \in canonical : RollbackAccepted(a)

\* The tables implement one chain that is extended and retracted: readers of
\* the canonical rows by height see exactly ChainLog's chain.
CanonicalAt(h) == CHOOSE b \in canonical : height[b] = h
Log == INSTANCE ChainLog
         WITH chain <- [h \in {height[b] : b \in canonical} |-> CanonicalAt(h)]
ImplementsChainLog == Log!Spec
=============================================================================
