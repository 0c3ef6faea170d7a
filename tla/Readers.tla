------------------------------- MODULE Readers -------------------------------
(***************************************************************************)
(* internal/query at work: clients read the confirmed tables and the two   *)
(* Core-observed caches while the indexer extends and retracts the chain   *)
(* and the synchronizers replace the caches.  A request is a sequence of   *)
(* SELECTs; every one of them is a step, and writers commit in between.    *)
(* Clients page through lists by handing back the cursor they were given.  *)
(***************************************************************************)
EXTENDS CanonicalStore, Query

CONSTANTS
  Client,
  Requests,          \* the requests clients make: an operation and its argument
  published,         \* the mempool each refresh finds: entry time per txid
  observed,          \* the set of deployments each refresh finds
  coreTip,           \* Core's tip when a cache is refreshed
  MaxGenerations     \* how often the two caches are replaced, together

\* Clients ask for the operations there are, and a mempool is a finite set of
\* transactions that entered it at some time.
ASSUME RequestsAssumption == \A r \in Requests : r.op \in Operation
ASSUME PublishedAssumption ==
  \A g \in DOMAIN published :
    LET rows == published[g]
    IN  IsFiniteSet(DOMAIN rows) /\ DOMAIN rows \subseteq Tx /\ rows \in [DOMAIN rows -> Nat]

VARIABLES
  pool,        \* mempool_state and mempool_transactions
  deps,        \* deployment_state and chain_deployments
  client       \* every client's request

cacheVars == <<pool, deps>>
readersVars == <<vars, cacheVars, client>>

\* The committed tables, as far as operation op reads them.
CacheReads == {"MempoolOverview", "MempoolTransactionByTxID", "DeploymentOverview",
              "DeploymentByName"}
Tables(op) ==
  IF op \in CacheReads
  THEN [checkpoint |-> checkpoint, pool |-> pool, deps |-> deps]
  ELSE [ blocks |-> blocks, canonical |-> canonical, checkpoint |-> checkpoint, utxo |-> utxo,
         addresses |-> addresses, rollup |-> rollup ]

\* A client's request: the operation with its argument and cursor, the results
\* of the statements so far, the snapshot of its transaction while it is open,
\* the entries of all pages received, and whether a reorganisation removed the
\* last of them before the next page was asked for.
Idle == [ stage |-> "idle", op |-> "", arg |-> NoRow, before |-> NoCursor, got |-> << >>,
          snap |-> NoRow, pages |-> << >>, torn |-> FALSE ]

ReadersInit ==
  /\ Init
  /\ pool = [generation |-> 0, anchor |-> NoBlock, rows |-> << >>]
  /\ deps = [generation |-> 0, anchor |-> NoBlock, count |-> 0, rows |-> << >>]
  /\ client = [c \in Client |-> Idle]

-----------------------------------------------------------------------------
(* The writers                                                             *)

IndexerApplies(b) == ApplyBlock(b) /\ UNCHANGED <<cacheVars, client>>
IndexerRollsBack(a) == RollbackTo(a) /\ a # checkpoint /\ UNCHANGED <<cacheVars, client>>

MoreGenerations == pool.generation + deps.generation < MaxGenerations

\* mempool.Store.ReplaceSnapshot: the next generation, anchored at Core's tip.
ReplacePool ==
  LET generation == pool.generation + 1
  IN  /\ MoreGenerations /\ generation \in DOMAIN published
      /\ pool' = [generation |-> generation, anchor |-> coreTip, rows |-> published[generation]]
      /\ UNCHANGED <<vars, deps, client>>

\* deployments.Store.ReplaceSnapshot: every row carries the observation's time.
ReplaceDeployments ==
  LET generation == deps.generation + 1
      names == observed[generation]
  IN  /\ MoreGenerations /\ generation \in DOMAIN observed
      /\ deps' = [ generation |-> generation, anchor |-> coreTip, count |-> Cardinality(names),
                   rows |-> [n \in names |-> generation] ]
      /\ UNCHANGED <<vars, pool, client>>

-----------------------------------------------------------------------------
(* The readers                                                             *)

Paged == {"RecentBlocks", "AddressDetail", "MempoolOverview"}

\* The request after its next statement has run against db.
AfterStatement(q, db) ==
  LET got  == Append(q.got, Select(Plan(q.op)[Len(q.got) + 1], db, q, q.got))
      next == [q EXCEPT !.got = got, !.snap = NoRow]
  IN  IF CursorRefused(q, got) THEN [next EXCEPT !.stage = "refused"]
      ELSE IF ~Complete(q, got) THEN [next EXCEPT !.stage = "reading", !.snap = db]
      ELSE [next EXCEPT !.stage = "answered",
                        !.pages = IF q.op \in Paged THEN @ \o Last(got) ELSE @]

\* A new request.  readTx's REPEATABLE READ transaction takes its snapshot with
\* the first statement.
Begin(c, r) ==
  /\ client[c].stage # "reading"
  /\ client' = [client EXCEPT ![c] =
       AfterStatement([Idle EXCEPT !.op = r.op, !.arg = r.arg], Tables(r.op))]
  /\ UNCHANGED <<vars, cacheVars>>

\* The block the last entry of the pages is of.
LastBlock(q) == IF q.op = "RecentBlocks" THEN Last(q.pages) ELSE Last(q.pages).block
TornNow(q) == q.op \in {"RecentBlocks", "AddressDetail"} /\ LastBlock(q) \notin canonical

\* The next page of a list, by the cursor of the last answer; an error has none.
Follow(c) ==
  LET q == client[c]
  IN  /\ q.stage = "answered" /\ Last(q.got) # NoRow
      /\ NextCursor(q, q.got) # NoCursor
      /\ client' = [client EXCEPT ![c] =
           AfterStatement([q EXCEPT !.before = NextCursor(q, q.got), !.got = << >>,
                                    !.torn = @ \/ TornNow(q)], Tables(q.op))]
      /\ UNCHANGED <<vars, cacheVars>>

\* Wrong: READ COMMITTED, where each statement has a snapshot of its own.
ViewNow(c) == Tables(client[c].op)

\* What the later statements of a transaction see.
View(c) == client[c].snap
Fetch(c) ==
  /\ client[c].stage = "reading"
  /\ client' = [client EXCEPT ![c] = AfterStatement(@, View(c))]
  /\ UNCHANGED <<vars, cacheVars>>

ReadersNext ==
  \/ \E b \in Block : IndexerApplies(b) \/ IndexerRollsBack(b)
  \/ ReplacePool
  \/ ReplaceDeployments
  \/ \E c \in Client : Follow(c) \/ Fetch(c) \/ \E r \in Requests : Begin(c, r)

ReadersSpec == ReadersInit /\ [][ReadersNext]_readersVars

-----------------------------------------------------------------------------
(* Properties                                                              *)

Answered(q, op) == q.stage = "answered" /\ q.op = op /\ Last(q.got) # NoRow

\* What a replay of branch S from nothing yields.
CoinsOn(S) ==
  LET made(o) == {b \in S : AddsCoin(b, o)}
      used(o) == {b \in S : SpendsCoin(b, o)}
  IN  [o \in Output |->
         IF made(o) = {} THEN NoRow
         ELSE [ created |-> CHOOSE b \in made(o) : TRUE,
                spentBy |-> IF used(o) = {} THEN NoTx
                            ELSE Spender(CHOOSE b \in used(o) : TRUE, o),
                spentIn |-> IF used(o) = {} THEN NoBlock ELSE CHOOSE b \in used(o) : TRUE ]]
Tip(S) == IF S = {} THEN NoBlock ELSE CHOOSE b \in S : \A c \in S : height[c] <= height[b]
UnspentOn(S) == {o \in Output : CoinsOn(S)[o] # NoRow /\ CoinsOn(S)[o].spentBy = NoTx}
TotalsOn(S, a) == addressSummaryFrom([addresses |-> [x \in Address |-> recomputeAddress(x, CoinsOn(S))]], a)

\* The answer to q is what branch S, replayed from nothing, has to say.
FitsBranch(q, S) ==
  LET got == q.got
  IN  CASE q.op = "ExplorerOverview" ->
             got[1] = Tip(S) /\ got[2] = recentBlocksFrom(S, NoCursor)
        [] q.op = "AddressDetail" ->
             got[1] = TotalsOn(S, q.arg) /\ got[2] = addressHistoryFrom(S, q.arg, q.before)
        [] q.op = "TransactionByTxID" ->
             /\ \A o \in got[2] : o.canonical <=> o.block \in S
             /\ (\E o \in got[2] : o.block \in S) => \A v \in got[3] : v.block \in S
             /\ \A o \in Outs(q.arg) :
                  got[4][o] = IF CoinsOn(S)[o] = NoRow THEN "untracked"
                              ELSE IF CoinsOn(S)[o].spentBy = NoTx THEN "unspent" ELSE "spent"
        [] q.op = "SupplyOverview" ->
             /\ got[1] = Tip(S)
             /\ S # {} => /\ got[2].cumUTXO = ValueOf(UnspentOn(S))
                          /\ got[2].cumSubsidy = ScheduledSubsidyThroughHeight(height[Tip(S)])
        [] q.op = "RichListOverview" ->
             /\ got[1] = Tip(S)
             /\ \A i \in DOMAIN got[2] : got[2][i].balance = TotalsOn(S, got[2][i].address).balance
             /\ \A a \in Address : TotalsOn(S, a).balance > 0 /\ Len(got[2]) < RichListLimit
                                     => \E i \in DOMAIN got[2] : got[2][i].address = a
        [] q.op = "BlockByHeight" -> got[1].block \in S /\ height[got[1].block] = q.arg
        [] q.op = "BlockByHash" -> got[1].canonical <=> got[1].block \in S
        [] OTHER -> TRUE

\* Every answer about the confirmed chain, put together from several SELECTs
\* between which blocks were applied and rolled back, is the truth about one
\* branch: tip and blocks, totals and history, canonical flags and spent
\* outputs, supply and coin set never come from two (readTx, ExplorerOverview,
\* AddressDetail, transactionDetail, SupplyOverview, RichListOverview).
OneState ==
  \A c \in Client :
    LET q == client[c]
    IN  Answered(q, q.op) =>
          \E S \in SUBSET blocks : LinkedChain(S) /\ FitsBranch(q, S)

\* An answer about the mempool is about the generation it names: the row, its
\* in-mempool parents, the count and the page all belong to the snapshot that
\* was published under that number (MempoolOverview, mempoolTransactionDetail).
OneGeneration ==
  \A c \in Client :
    LET q   == client[c]
        got == q.got
    IN  /\ Answered(q, "MempoolTransactionByTxID") =>
             LET rows == published[got[2].generation]
             IN  /\ q.arg \in DOMAIN rows /\ got[1] = rows[q.arg]
                 /\ got[2].txCount = Cardinality(DOMAIN rows)
                 /\ got[4] = {u \in DOMAIN rows : \E o \in inputs[q.arg] : creator[o] = u}
        /\ Answered(q, "MempoolOverview") /\ got[1].generation > 0 =>
             got[3] = mempoolTxPageFrom(published[got[1].generation], q.before)

\* The pages a client has put together are, for the generation it walks, the
\* list from its first row on, nothing skipped and nothing twice, and no
\* cursor is left exactly when nothing is left; the cursor of a replaced
\* generation is refused (mempoolTxPageFrom, MempoolOverview).
WholeList ==
  \A c \in Client :
    LET q    == client[c]
        rows == published[q.got[1].generation]
    IN  Answered(q, "MempoolOverview") /\ q.got[1].generation > 0 =>
          /\ IsPrefix(q.pages, PoolList(rows, NoCursor))
          /\ NextCursor(q, q.got) = NoCursor => Len(q.pages) = Cardinality(DOMAIN rows)

\* The checks readers make of the rows they are given never fire, whatever
\* commits between two statements: supply identities hold on every branch, and
\* the deployment rows are those the state row counts and dates
\* (checkSupplyRollupIdentities, decodeDeploymentRow, DeploymentOverview).
NoIntegrityAlarm ==
  \A c \in Client :
    LET q   == client[c]
        got == q.got
    IN  /\ Answered(q, "SupplyOverview") /\ got[1] # NoBlock =>
             checkSupplyRollupIdentities(got[2])
        /\ Answered(q, "DeploymentOverview") /\ got[1].generation > 0 =>
             DeploymentsIntact(got[1], got[3])
        /\ Answered(q, "DeploymentByName") /\ got[1].generation > 0 =>
             got[3] = got[1].generation

\* Pages of blocks, read while the chain is reorganised, never repeat a height.
\* Unless a reorganisation removed the block a cursor was taken from, they are
\* one parent-linked run, and the last page ends at the root of the chain
\* (RecentBlocks, recentBlocksFrom).
BlockPages ==
  \A c \in Client :
    LET q == client[c]
        n == Len(q.pages)
    IN  Answered(q, "RecentBlocks") =>
          /\ \A i \in 1..(n - 1) : height[q.pages[i]] > height[q.pages[i + 1]]
          /\ ~q.torn => \A i \in 1..(n - 1) : prev[q.pages[i]] = q.pages[i + 1]
          /\ ~q.torn /\ n > 0 /\ NextCursor(q, q.got) = NoCursor => prev[q.pages[n]] = NoBlock

\* Pages of an address history list no position twice and, unless a
\* reorganisation removed the block the cursor was taken from, they are the
\* history of the branch their first entry is on, complete with the last page
\* (addressHistoryFrom).
HistoryPages ==
  \A c \in Client :
    LET q == client[c]
        n == Len(q.pages)
        all == History(Ancestry[q.pages[1].block], q.arg, NoCursor)
    IN  Answered(q, "AddressDetail") /\ n > 0 =>
          /\ \A i \in 1..(n - 1) :
                \/ height[q.pages[i].block] > height[q.pages[i + 1].block]
                \/ /\ height[q.pages[i].block] = height[q.pages[i + 1].block]
                   /\ textRank[q.pages[i].tx] > textRank[q.pages[i + 1].tx]
          /\ ~q.torn => IsPrefix(q.pages, all)
          /\ ~q.torn /\ NextCursor(q, q.got) = NoCursor => q.pages = all
=============================================================================
