# TLA+ models of the QOGE explorer

The explorer copies what Qogecoin Core knows into PostgreSQL and serves it. This
directory holds TLA+ models of the parts that carry its state, TLC configurations
that check them on small instances, and TLAPS proofs of the most important
results for every instance. `PROJECT.json` lists components, runs, the source
lines behind every definition, hazards, findings and theorems.

To check: `tlc -config X.cfg M` for each run in `PROJECT.json`, and `tlapm M.tla`
for each `*Proofs.tla`.

## 1. The system

| Part | State it keeps | Operations that change it | What makes it correct |
|---|---|---|---|
| Canonical store (`internal/store`) | block rows, `canonical` flag, `sync_state` checkpoint, `utxo_state`, `addresses`, distribution buckets and anchor, `block_accounting`, `block_supply_rollup` | `ApplyBlock`, `RollbackTo`, each one transaction under the row lock of `sync_state` | derived tables equal a replay of the canonical chain, whatever reorganisations happened; immutable rows stay; no valid block is ever refused |
| Monetary accounting (`internal/accounting`) | none | pure functions | subsidy, fees and coinbase add up; overflow and overclaims are refused |
| Indexer (`internal/indexer`) | none beyond the store's checkpoint | `SyncToTip`: reconcile, reorg, apply a range; `Run` repeats it | follows Core through any movement, never undoes too much, ends at Core's tip |
| Mempool synchronizer (`internal/mempool`) | `mempool_*` tables, anchor and generation | `refreshOnce`, `ReplaceSnapshot` | a snapshot belongs to its anchor; the cache becomes current |
| Mempool readers (`internal/query/mempool.go`) | none; the cursor is with the client | read-only snapshots | an answer is about one generation; its pages make up one list |
| Deployment observer (`internal/deployments`) and readers | `chain_deployments`, anchor, generation | `refreshOnce`, `ReplaceSnapshot` | "fresh" means: of the confirmed tip |
| Confirmed readers (`internal/query`) | none; the cursor is with the client | read-only snapshots | an answer is the truth about one branch; pages make up one list unless a reorganisation removed the cursor's block |
| Backfills, preflights (`internal/store/*backfill*`, `*preflight*`) | the same tables as the store | per-block accounting, rollup and distribution rebuilds | an upgraded database equals one that was always indexed by the new code |
| Migrations (`internal/store/migrate.go`) | `schema_migrations` | `Up`, `Down` | versions in order, checksums unchanged |
| Decoder, scripts (`internal/decode`, `internal/script`) | the resolver's cache of derived addresses, shared by two goroutines | decode a block or a transaction; look up, ask Core, keep | amounts are exact, scripts are classified as Core does, nothing incomplete gets through, no script or amount of Core's is refused, owners are those Core derives |
| RPC client, API, web, configuration, `main` | none | transport, rendering, wiring | |

Interaction. The indexer calls Core (`getblockcount`, `getblockhash`, `getblock`)
and the store. Mempool synchronizer and deployment observer read Core and the
store's checkpoint and write their own tables. Readers open one REPEATABLE READ
transaction per request. Indexer and mempool synchronizer share the address
resolver, and an error of the indexer ends the process of both; otherwise
everything meets in PostgreSQL, and Core moves on its own.

What is hard: Core may reorganise, retreat and grow again between any two RPC
calls; a pass may stop anywhere; the checkpoint a decision was based on may be
stale; a block may be applied, orphaned and applied again, and the same
transaction may sit in competing blocks; several caches are maintained by
differences, so that one error would stay for ever; a cursor may outlive the list
it points into; an answer may arrive incomplete; a script that the explorer
and Core read differently would stop the index at its block, and a key without an
address does. `PROJECT.json` lists these hazards at their source lines.

## 2. Modules

    BlockTree <- ChainLog                      what the index promises
        ^   ^--- ChainData <- CanonicalStore   the store, implements ChainLog
        |         (Subsidy,      ^       ^
        |      Distribution)   Upgrade   |     commands around the store
        |          ^---- Query <- Readers      requests beside the store's writers
      Core  <--- Indexer        (its store is ChainLog)
        ^------- MempoolSync
        ^------- DeploymentSync -> DeploymentInfo
    Script, Amount <- Decoder                  answers of Core become chain data

**BlockTree, ChainData.** The blocks Core can serve. A hash commits to its
content, so height, parent, transactions, inputs and outputs are constant
functions of identities. A transaction's inputs are a set of outpoints; witness
variants of a txid and the index of an input are abstracted. `NoSecondInclusion`
is Core's rule that a spent coin cannot be spent again, without which no index
could tell the two inclusions apart.

**Subsidy, Distribution.** `BlockSubsidy`, `ComputeBlockFacts`,
`ScheduledSubsidyThroughHeight`, and the eight balance buckets, as operators. `Fits` is the overflow check: the code refuses
exactly the sums that exceed an int64, so the model works on integers and refuses
what exceeds `MaxAmount`.

**CanonicalStore.** One action per call: `ApplyBlock`, `RollbackTo`, and a
rejection of each that changes nothing. Both calls take the lock on `sync_state`
first and commit once, so that an action is a whole call with every check and
every derived table. The accept conditions are the code's, in its order and under
its names (`validateBlockShape`, `checkCanonicalContinuity`, `applyBlockHeader`,
`checkPrevout`, ...).

**ChainLog.** The abstract promise: a function from heights to blocks that starts
with one root, is extended by a child of its top and retracted to one of its own
heights. `CanonicalStore` implements it (checked and proved), and `Indexer` uses
it in place of the store, so what is checked of the indexer holds for the store
beneath it.

**Core** (external). One active tip that may become any other known block at any
time, and the answers of `getblockcount` and `getblockhash` for it.

**Indexer.** One step per RPC or store call, so that everything else may happen
in between. `pc` names the call that comes next; the other fields of a pass are
the local variables of the Go functions. Errors that `Run` returns are values of
`pc` in `Halted`. `since` is the only history variable. Blocks decode and
`getblock` answers what it is asked, so fetching is not a step of its own; a call
that fails in transport ends the process (`Crash`). That blocks decode includes that
Core derives an address for every key in them: `Decoder` says what happens otherwise.

**MempoolSync, DeploymentSync.** `refreshOnce` in the same style. Core's mempool
changes with its tip and on its own, within what is consistent on that tip
(`Allowed`). The code compares its second readings after making all of them; the
model discards a refresh at the first one that differs, which nobody can observe.
`repeatsKey` are the transactions whose rows `insertCandidateTransactionBody`
cannot insert.

**DeploymentInfo.** The strict decoding of `getdeploymentinfo`, member by member:
what must be there, what Core leaves out in some stages, the ranges, and the rows
that result. `Garbled` are the answers with one member lost or out of range, except a
whole entry of `deployments`: the code does not know which deployments Core must
name, so it accepts such an answer and finds one row less (`Shortened`, which no
action uses and `DamageShows` is also about).

**Query, Readers.** `Query` says what each SELECT returns, as a function of the
tables it sees, and which SELECTs a request sends in which order (`Plan`).
`Readers` runs requests beside the unchanged actions of `CanonicalStore` and the
replacements of both caches: a statement is a step, the first one takes the
snapshot of the transaction (`View`), and cursors stay with the client across
anything. Rows that never change after they were written are represented by their
key, so what is modelled is exactly what a concurrent writer can change. Both
caches are refreshed from given contents; how they come about is MempoolSync's and
DeploymentSync's matter. `torn` remembers that a reorganisation removed the block
a cursor was taken from, the one case in which pages may mix branches.

**Script, Amount.** `Classify` with its tokenizer and every matcher on sequences
of bytes, and `DecodeAmount` and `Amount.String` on sequences of characters. The
order of the legacy matchers is moot (`MatchersExclusive` in `DecoderProofs`), and
`Classify` agrees with the Solver of `Decoder` on every script but those of
`ReservedReturn` (`ClassifyIsSolver`).
`DecodeAmount` inverts `Amount.String` (`AmountsReadBack`).

**Decoder.** `DecodeBlock` and `DecodeTransaction` on answers of Core. Core's own
reading of a script, its Solver, is external and stated on the elements the script
was built from, not on bytes, so that agreement of the two is a result. `TypeOf`
names the one script they do not agree about. Core derives an address for the keys
in `Derivable`, which are points of the curve, and for no other key, although the
classifier looks at size and prefix only. An answer may arrive with one member lost,
malformed or misplaced (`Damaged`), in a way the answer itself gives away; a lost
trailing output, witness or byte of a script is not of that kind. Decoding touches shared state only in the
resolver, whose two critical sections are steps, as is Core's answer between them.
The mempool synchronizer logs an error and tries again; an error of the indexer
cancels the synchronizer and ends the process, and with it the cache.

**Upgrade.** One database under the commands `migrate`, `index` and the three
backfills, around the unchanged actions of `CanonicalStore`. Migrations 1 to 3
are always there; 4 to 7 add derived tables and come and go, and a table that
does not exist is represented by its empty content. An indexed database without
them, which an older release leaves behind, is reached by indexing and migrating
down. Each command is a process that may stop after any step (`StopIndex`,
`StopAccounting`, `StopBuild`, `StopRebuild`; a check that fails ends there too).
The rollup and the distribution backfill are one READ COMMITTED transaction each:
one step per statement, each statement sees what is committed when it runs, and
the rows appear at commit. Three waits of PostgreSQL are guards: a second run of a
command is refused by its advisory lock, `DROP TABLE` waits for a transaction that
has read the table (`InUse`), and `ApplyBlock` waits for a rollup row that an open
backfill has inserted. `BesideIndex` says which commands the operator runs without
stopping `index`; nothing in the code enforces the usage texts. The distribution
backfill always runs with `index` stopped.

Definitions marked "Wrong" are plausible mistakes next to the definition
they would replace. No specification uses them; they show that the properties
can fail.

## 3. Runs

| Run | Checks | Instance |
|---|---|---|
| `canonical_store` | chain shape, coins, address cache, buckets and anchor, supply algebra, scheduled subsidy, rollup rows recounted, immutability, idempotence, no wedging, refinement of ChainLog | 16 blocks on three branches from genesis and one without, five invalid blocks, shared and conflicting transactions, balances on bucket bounds, subsidy down to zero |
| `indexer` | no false local damage, depth policy, exact fork point, success only on Core's chain, catch-up | 7 blocks, forks zero to three deep with a limit of 2, 3 moves of Core, one crash |
| `mempool_sync` | snapshot fits its anchor, cache settles | 4 blocks, 3 transactions (a parent, its child, a conflict), 2 moves of Core, 1 of the mempool, one failure |
| `deployment_sync` | fresh means exact, cache settles | two observers, 4 blocks, 2 moves, one failure or damaged answer; a deployment in four stages, one always active, one failed, one buried |
| `readers` | an answer is of one branch or one generation, integrity checks stay quiet, pages make up lists | 5 blocks (a fork, and a chain without genesis), one address touched three times in a block, pages of 2; 2 replacements of the caches, tied entry times |
| `decoder` | Core's answers pass the checks, damaged ones are not taken for others, owners are those Core derives, what is decoded fits the store, attempts add up | every pair of 30 script elements, cut pushes, multisig skeletons around each limit, templates; every single damage of `Damaged` to a block, a genesis block and a mempool transaction; a multisig output with one key off the curve, in the mempool and in a block; amounts with 2 decimals in 16 bits |
| `upgrade` | a started index has whole tables, buckets and rollup rows exact, backfills never locked out | 4 blocks with a fork, fees and a nulldata output; any order of commands, any number of them, each interrupted anywhere; rollup backfill and `migrate down` also beside a running index |
| `race_surfaces`, `mixed_judgment`, `mixed_candidate`, `repeated_key`, `migrate_live` | one documented promise each, violated | see Findings |

Why the bounds suffice. The store's state is a function of its chain plus the
orphans it has seen; the run visits every chain and every set of orphans of a
tree in which each kind of transition occurs, without a bound on the length of
the history. In the indexer, three moves of Core within one pass include leaving a branch and
returning to it; the real limit of 100 blocks only matters relative to the depth
of forks, and the tree has forks below, at and above the limit. A move bound
also says that Core settles, which the liveness properties are about. The upgrade
run has no bound but the tree: every history of commands is explored. Its genesis
block adds nothing to the value of the coins, so that only the completeness check
of the rollup backfill can notice that its accounting is missing. `migrate up`
beside a running index is left to `migrate_live`, where it breaks a promise.

One client is enough for the readers: clients change nothing. Two generations and
two full pages include a cursor that outlives its list, ties across a page border
and a last page that is exactly full, and the chain is reorganised any number of
times between any two statements. The script elements sit on both sides of every
limit of the classifier, each push opcode occurs complete and cut short, and every
data byte is `OP_CHECKMULTISIG`, so that a script may end with it inside a push.
Eight decimals and 64 bits would change the numbers in the amounts and nothing
about the checks, and `AmountsReadBack` holds for any: the largest amount, one
satoshi more and one digit too many occur.

Fairness. `WF(Step)` for every process: `Run` loops for ever and every call
returns or fails. `WF(Resume)`: a process that halted is started again, as `Run`'s
comment expects of its supervisor. Core, its mempool and the index owe nothing.
In `decoder`, strong fairness says that Core and the connection to it recover:
asking again and again brings an undamaged answer, and an address for a key in
`Derivable`. About any other key nothing is promised: `getdescriptorinfo` refuses it
for ever, and `AttemptsAddUp` is about transactions without such keys. A single
attempt owes nothing, which is why the resolver's cache matters.

Assumptions. Core is honest. In `mempool_sync`, Core does not return to exactly
the tip it has left (`MayReturn = FALSE`); it prefers the branch with the most
work and returns only if an operator makes it, and the code's comment on
`refreshOnce` says that this window stays open. `DeploymentSync` needs no such
assumption because it queries an explicit hash.

What the properties do not say. A store call is atomic because the code runs it as
one transaction and returns before the commit on every error; the models build on
that and do not check it. `ForkPointExact` is about passes during which Core holds
still; when it moves, `DepthPolicy` still binds and finding 4 shows what can happen.
`CatchesUp` and `SettlesCurrent` rest on every block and listed transaction being
decodable. `mempool_sync` has one synchronizer, as a process has: two publishing
beside each other are not explored.

## 4. Proofs

Every theorem holds for every tree of blocks, every number of clients and every
bound, under the assumptions declared with the constants. Each invariant was
checked by TLC before it was proved.

    BasicProofs                                sums, branches, finite sets in order
      ^   ^--- IndexerProofs                   (Indexer)
      |        CanonicalStoreProofs            chain, refinement, coins, caches, totals,
      |          ^   ^                           types, idempotence
      |          |   ReadersProofs              (Readers)
      |        UpgradeProofs                   (Upgrade), and what the store accepts
    DecoderProofs                              (Decoder, Script, Amount)
    MempoolSyncProofs, DeploymentSyncProofs

- `BasicProofs`: what the models' operators compute. A sum over a finite set
  splits, moves with one member and is bounded; `Ancestry[b]` is the branch that
  ends at `b`; `OrderBy`'s positions of a strict total order on a finite set are a
  bijection, and what is behind a row is the tail of the list. Induction is on
  heights and cardinalities, by a least counterexample (`Least`).
- `CanonicalStoreProofs`: `ChainCorrect`, the canonical rows are one linked chain
  ending at the checkpoint; `StoreImplementsChainLog`, the refinement; the linked
  chain is inductive together with the types, so the refinement mapping has one
  block per height. `CoinsCorrect`, `utxo_state` equals a replay: the inductive
  invariant says, coin by coin, who created and who spent it in terms of the
  canonical set, and that what a canonical block spends exists. `AddressCacheCorrect`, recomputing the touched addresses is
  enough because a coin that changed pays a touched address; `DistributionCorrect`,
  the differences `BucketsAfter` writes turn exact buckets of the old balances into
  exact buckets of the new ones, whatever address leaves or enters a bucket;
  `StoreTyped`; `RollupsExact`, rows exist exactly on chains from genesis, and the
  totals of each are the sums over the canonical blocks up to it, since a block joins
  only on top of the tip and a rollback removes only what is above; `ScheduleCorrect`; `SupplyCorrect`, the cumulative coin value at the tip
  is the value of the unspent coins, because what a block's outputs add and its
  inputs remove is what the coin set gains; `RowsImmutable`; `ReplaysIdempotent`,
  applying the block of the checkpoint again recomputes every table to what it is;
  `BucketsPartition`, eight ranges without gap or overlap at any scale.
- `IndexerProofs`: `PassesTyped` for any number of orchestrators on one database;
  for one, which is what production runs and the documentation demands
  (`OneWriter`): `IntegrityCorrect`, `DepthBounded`, `ForkPointCorrect`,
  `CaughtUpCorrect`. One invariant (`IInv`) says what every local variable of a
  pass still knows at each `pc` about the store, which nobody else changes; a
  second (`OInv`) what it still knows about Core, namely what Core has had active
  since the pass read it.
- `MempoolSyncProofs`: `SnapshotsTyped`, and `SnapshotsCorrect` while Core does not
  return to a tip it left (`~MayReturn`). The invariant carries a fact about
  time: an anchor seen is active or left, and what is left never returns, so a
  second sight of it vouches for everything between.
- `DeploymentSyncProofs`: `DamageShows`, an answer with one member lost or out of
  range is refused or yields the same rows, by cases over the members, and one that
  lost a whole deployment yields exactly the rows of the others;
  `DeploymentsTyped`; and `DeploymentsCorrect`, whose invariant follows the answer
  through the refresh.
- `ReadersProofs`: `GenerationsCorrect`, `AnswersCorrect`, `AlarmsStayQuiet`. The
  writers of `Readers` implement the store's specification, so its theorems hold
  beside any clients. The invariant says of an open transaction that its snapshot
  was committed at some time and each result so far is what the snapshot gives,
  and that snapshots stay true of a past state when the tables move on: orphaned
  blocks keep their rows, and published generations never change. `AnswersCorrect`
  then only has to show what one committed state answers. `AlarmsStayQuiet` has
  one hypothesis, `RewardsFit`: `checkSupplyRollupIdentities` adds subsidies and
  fees of a branch, a sum the store never checks for overflow.
  `ListsWhole`, `BlocksPaged`, `HistoriesPaged`: the pages of a client. The
  invariant (`PagesOK`) says that the pages so far begin one list and the cursor
  points behind the last row of them; a page is then the beginning of the rest
  of that list (`ListGoesOn`). For blocks and histories the rest may be read on
  another branch: two chains that share the cursor's block share everything
  below it (`SharedBelow`), which is why only the loss of that block, `torn`,
  mixes branches. A mempool cursor of another generation is refused before its
  page is read.
- `UpgradeProofs`, about every mix of index, migrations and backfills. The store
  alone writes the chain, the coins and the address cache (`StoreInv`); a row of
  the later tables is a function of its block (`AccountingInv`, `RollupTableInv`);
  what an open backfill has read stays true until it commits, because `DROP TABLE`
  waits for its locks (`BuildInv`, `RebuildInv`). From these, together `UpgradeInv`:
  `UpgradeTyped`, `RollupRowsCorrect`, `CommandsKeepStore` and
  `CommandsImplementChainLog` without any hypothesis; `BackfillsAccept`, that an
  interrupted upgrade can always be finished, with `RootedInGenesis` and
  `BranchRewardsFit`;
  `BucketsCorrect` and `PreflightsSuffice` if no migration is applied beside a
  running index (`"up" \notin BesideIndex`). Finding 5 shows that the last two are
  false without that hypothesis. `StoreNeverWedged` and `IndexNeverWedged` say
  what the store accepts: every child of the tip that Core accepts, a replay of
  the tip, a rollback to any canonical block. Rows that an orphan left behind are
  those the same block would write again, on whatever branch it comes back; and no
  total of a stored block overflows once `BranchRewardsFit`.
  Hypotheses about Core's tree: only genesis has no parent (`RootedInGenesis`); a
  block is one above its parent (`HeightsByParent`; Core's headers have no other
  height); subsidies and fees of a branch fit an int64 (`BranchRewardsFit`). The
  code checks that last sum with `addChecked` and refuses the block when it does
  not fit; the schedule pays about a thousandth of an int64 in all, so fees would
  have to turn every coin over hundreds of times before it bites. The instance of
  `canonical_store` satisfies all of them.
- `DecoderProofs`: `MatchersExclusive`, by the first byte of a script.
  `ClassifyIsSolver`: on the bytes of every script Core can hold (`Serialised`: any
  elements, the last one possibly cut short), `Classify` returns what Core's Solver
  makes of the elements (`CoreResult`), except that an OP_RETURN script of pushes with
  OP_RESERVED among them is nulldata there and unknown here. The argument is where each element begins in
  the bytes (`BytesLaid`): the tokenizer finds exactly the elements (`TokensLaid`),
  and each matcher's bytes fix the elements they can belong to (the lemmas named
  `...Shape`).
  `AmountsReadBack`: `DecodeAmount` inverts `Amount.String` on every amount an int64
  holds, for every number of decimals. The prover has no induction over digits and
  does not know that `10^(n+1)` is `10 * 10^n`, so a power of ten is what a one with
  zeros behind it reads as (`Power`; `SatoshisPerQOGE` is written that way too), and
  what the recursive functions of `Amount` compute is shown by looking at the first
  argument where it would fail.
  `DecodedFitsStore`: whichever damage of `Damaged` an answer took, what passes the
  checks has the shape the store demands. `DecodingAlone`: for every set of
  callers, answers, failures and retries, what a caller decodes in full is what its
  answer comes to when it is decoded alone. The invariant (`DecoderInv`) says that
  the cache holds only what Core derives, and of a job that each key of its answer
  is resolved to that or still to be asked about; hence `NoOwnerMadeUp`, a transaction
  decoded in full names only owners Core has addresses for. That leaves one answer without any
  concurrency: Core's answer passes every check (`CoreAnswerPasses`), a damaged one
  that still passes says of each member that is used what Core said (`DamagedSays`),
  and an answer that says so is decoded into what Core means (`ItemMeant`, by
  `ClassifyIsSolver` and `AmountsReadBack`). `ChecksPassCore` and
  `NothingIsPartial` follow. `ChecksPassCore` is about the checks alone: an answer that
  passes them still fails if Core has no address for one of its keys.

Assumptions that the proofs add to those TLC's instances suggest: what Core is
asked for is a list of transactions, each a list of inputs and a list of outputs
(`AskedAssumption`); Core has accepted them, so that their scripts are serialised
elements, their amounts lie in range and a coinbase input is alone, and a member that
is missing or empty is told from any other (`CoreAssumption`); rows and blocks
of a database are finite (`FiniteRowsAssumption`); Core counts heights from genesis
(`HeightAssumption`); the marker for a missing row is not a row (`NoRowAssumption`);
the text order of txids and of addresses is injective, as text is, and "no cursor" is
neither a height nor a cursor (`QueryAssumption`); a request is one of the operations
there are and a mempool a finite set of transactions with entry times
(`RequestsAssumption`, `PublishedAssumption`). TLC evaluates each of them in the
runs.

Only model-checked: liveness (`CatchesUp`, `SettlesCurrent`, `SettlesFresh`,
`AttemptsAddUp`), which the prover does not handle. Every other property of a passing
run is stated by a theorem.

## 5. Findings

1. `repeated_key` (code): a mempool transaction with a bare multisig output that
   lists one key twice makes every snapshot replacement fail while it is listed.
   The confirmed store removes such duplicates, the mempool store does not.
2. `race_surfaces`: Core retreats below the height asked for and has grown back
   when `classifyHashUnavailable` looks; the race ends `SyncToTip`, which the
   comment on `Run` excludes. The restarted process recovers (`CatchesUp`).
3. `mixed_judgment`: Core leaves and re-enters a branch between the bracketing
   reads of `diagnoseNonSequential`; a sound block is called contradictory.
4. `mixed_candidate`: the recheck in `reorg` re-reads only the candidate's own
   height, so a candidate found from two branches can pass and the rollback goes
   below the real fork point. Blocks that were shared are undone and applied
   again; the depth policy still holds.
5. `migrate_live`: the distribution preflight accepts a database without migration
   0007 and looks only once. If `migrate up` runs while that `index` waits for its
   next block, the block's differences go to empty buckets and the anchor moves to
   the tip; the buckets lack all older balances and every later preflight accepts
   them. Nothing asks the operator to stop `index` for `migrate`. The rollup table
   is safe in the same situation: `applySupplyRollup` refuses a block whose parent
   has no row, and `index` halts.

Observed while modelling, without a contradiction to any text:

- Two orchestrators on one database are documented as unsupported: a commit
  between the last check and `RollbackTo` makes the approved depth stale.
- Pages of blocks or of an address history whose cursor's block is reorganised
  away continue on the new branch. Positions never repeat, but rows of two
  branches may meet: the cursor is a position, not a snapshot.
- `pickRepresentativeWTxID` leaves the choice between two orphaned occurrences at
  one height to the order of rows; `Representatives` is therefore a set.
- Two goroutines may both miss the resolver's cache and both ask Core for one key,
  so "at most once" in its comment holds for each caller. The address is the same.
- A restart empties the resolver. After an error the indexer needs every key of a
  block answered in one go, which `AttemptsAddUp` therefore promises only for the
  mempool synchronizer, while the process lives.
- `isPushOnly` does not count OP_RESERVED (0x50) as a push, Core does. Core calls an
  OP_RETURN script with that opcode "nulldata" where the explorer says "unknown".
  Neither type has an address, so nothing is refused either way.
- `isPubKeyPush` looks at the size and the first byte of a key, and a bare multisig
  output may be made with keys that are no points of the curve. The resolver asks
  Core for `pkh(key)`, and `getdescriptorinfo` refuses such a key whenever it is
  asked. While a transaction with one is in the mempool the snapshot is not
  replaced, and the index stops at the block that carries one and again after every
  restart. What the decoder does with it is at least not wrong (`OwnersDerived`): it
  never stores the output with an owner missing. Nothing in the repository says how
  such outputs should be indexed.
- A lost trailing output, witness or byte of a script cannot be seen in the
  answer itself; the decoder does not recompute hashes.

## 6. Not modelled, and the plan

Not modelled, and why:

- HTTP API, web pages and search: stateless parsing and rendering around one
  request each; a search tries the readers one after the other.
- Transport, configuration, logging: a call that fails, and wiring.
- Address encodings and hash functions: Core computes them, the explorer copies
  what it is told. `IsUnspendable`, two comparisons on a script, is the constant
  set `unspendable`.
- Loading and checksums of migration files: they only refuse to start.
- An index that is not stopped while the distribution is rebuilt: the usage text
  demands that it is stopped because nothing protects against it.
- A Core that returns to the tip it left while a mempool is listed
  (`MayReturn`): the code's comment leaves this window open.

What the runs check and no theorem states is liveness.
