-------------------------------- MODULE Query --------------------------------
(***************************************************************************)
(* internal/query: what every SELECT of the readers returns, as a function *)
(* of the committed tables db it runs against, and the plans of the        *)
(* requests that are made of several SELECTs.  Rows that never change      *)
(* after they are written (bodies, witnesses, inputs, scripts, headers)    *)
(* are represented by their key.                                           *)
(*                                                                         *)
(* db has the store's tables blocks, canonical, checkpoint, utxo,          *)
(* addresses and rollup, and the two caches                                *)
(*   pool   mempool_*: generation, anchor, entry time per cached txid      *)
(*   deps   deployment_state and chain_deployments: generation, anchor,    *)
(*          deployment_count, and per name the time it was checked at      *)
(***************************************************************************)
EXTENDS ChainData, SequencesExt

CONSTANTS
  PageSize,        \* the page size after clampPageSize
  RichListLimit,
  textRank,        \* the order of txids and of addresses as text
  NoCursor         \* no cursor: a first page, or nothing behind the page

ASSUME QueryAssumption ==
  /\ PageSize \in Nat \ {0} /\ RichListLimit \in Nat \ {0}
  /\ textRank \in [Tx \cup Address -> Nat]
  /\ \A x, y \in Tx : textRank[x] = textRank[y] => x = y
  /\ \A x, y \in Address : textRank[x] = textRank[y] => x = y
  /\ NoCursor \notin Nat \cup [tx : Tx, block : Block]
                  \cup [generation : Nat, time : Nat, tx : Tx]

\* ORDER BY a strict total order, by the position each row comes to have, and
\* LIMIT.
OrderBy(S, Before(_, _)) ==
  [i \in 1..Cardinality(S) |-> CHOOSE x \in S : Cardinality({y \in S : Before(y, x)}) = i - 1]
FirstRows(list, n) == SubSeq(list, 1, Min({Len(list), n}))

-----------------------------------------------------------------------------
(* The confirmed tables                                                    *)

\* sync_state: the tip's hash with its height, NoBlock while nothing is indexed.
statusFrom(db) == db.checkpoint

\* Wrong: the cursor's own row is read again.
BlocksFrom(S, before) == {b \in S : before = NoCursor \/ height[b] <= before}

\* recentBlocksFrom: canonical rows below the cursor, highest first.
BlocksBelow(S, before) == {b \in S : before = NoCursor \/ height[b] < before}
recentBlocksFrom(S, before) ==
  FirstRows(OrderBy(BlocksBelow(S, before), LAMBDA b, c : height[b] > height[c]), PageSize)
NextBeforeHeight(page) ==
  IF Len(page) = PageSize /\ height[Last(page)] > 0 THEN height[Last(page)] ELSE NoCursor

\* addressSummaryFrom: an address without a row has zero totals.
addressSummaryFrom(db, a) ==
  IF db.addresses[a] = NoRow
  THEN [received |-> 0, sent |-> 0, balance |-> 0, txCount |-> 0]
  ELSE [c \in {"received", "sent", "balance", "txCount"} |-> db.addresses[a][c]]

\* addressHistoryFrom: occurrences in canonical blocks of transactions that pay
\* the address or spend what was paid to it, coin or not.
TouchedTxs(b, a) == {t \in TxSet(b) : \E o \in Outs(t) \cup inputs[t] : dest[o] = a}
Touches(S, a) == UNION {{[tx |-> t, block |-> b] : t \in TouchedTxs(b, a)} : b \in S}

\* ORDER BY block_height DESC, txid DESC; e comes behind f.
Behind(e, f) ==
  \/ height[e.block] < height[f.block]
  \/ height[e.block] = height[f.block] /\ textRank[e.tx] < textRank[f.tx]

\* Wrong: the cursor is a height only.
BelowCursorHeight(e, before) == height[e.block] < height[before.block]

\* The row comparison with the cursor (height, txid).
BehindCursor(e, before) == Behind(e, before)
History(S, a, before) ==
  OrderBy({e \in Touches(S, a) : before = NoCursor \/ BehindCursor(e, before)},
          LAMBDA e, f : Behind(f, e))
addressHistoryFrom(S, a, before) == FirstRows(History(S, a, before), PageSize)
NextBeforeEntry(page) == IF Len(page) = PageSize THEN Last(page) ELSE NoCursor

\* transactionDetail, statement by statement.  The representative variant is
\* that of a canonical occurrence, else of a highest one; which of several is
\* left to the order of rows.
TransactionRow(db, t) == IF \E b \in db.blocks : t \in TxSet(b) THEN t ELSE NoRow
txOccurrences(db, t) ==
  {[block |-> b, canonical |-> b \in db.canonical] : b \in {c \in db.blocks : t \in TxSet(c)}}
Representatives(occurrences) ==
  LET best == {o \in occurrences : o.canonical \/ \A p \in occurrences : ~p.canonical}
  IN  {o \in best : \A p \in best : height[p.block] <= height[o.block]}
txOutputs(db, t) ==
  [o \in Outs(t) |-> IF db.utxo[o] = NoRow THEN "untracked"
                     ELSE IF db.utxo[o].spentBy = NoTx THEN "unspent" ELSE "spent"]

\* BlockByHeight and BlockByHash: the header, then its transactions in order.
BlockAtHeight(db, h) ==
  LET at == {b \in db.canonical : height[b] = h}
  IN  IF at = {} THEN NoRow ELSE [block |-> CHOOSE b \in at : TRUE, canonical |-> TRUE]
BlockOfHash(db, b) ==
  IF b \in db.blocks THEN [block |-> b, canonical |-> b \in db.canonical] ELSE NoRow

\* checkSupplyRollupIdentities: ErrSupplyIntegrity unless both hold without
\* an overflow.
checkSupplyRollupIdentities(r) ==
  /\ Fits(r.cumCoinbase + r.cumUnclaimed)
  /\ r.cumCoinbase + r.cumUnclaimed = r.cumSubsidy + r.cumFee
  /\ Fits(r.cumUTXO + r.cumFee + r.cumExcluded)
  /\ r.cumUTXO + r.cumFee + r.cumExcluded = r.cumCoinbase

\* richListEntriesFrom: positive balances, highest first, ties by address.
richListEntriesFrom(db) ==
  LET balance(a) == addressSummaryFrom(db, a).balance
      rich == OrderBy({a \in Address : balance(a) > 0},
                LAMBDA a, b : \/ balance(a) > balance(b)
                              \/ balance(a) = balance(b) /\ textRank[a] < textRank[b])
  IN  FirstRows([i \in DOMAIN rich |-> [address |-> rich[i], balance |-> balance(rich[i])]],
                RichListLimit)

-----------------------------------------------------------------------------
(* The caches                                                              *)

mempoolRow(db, t) == IF t \in DOMAIN db.pool.rows THEN db.pool.rows[t] ELSE NoRow
mempoolStateRow(db) ==
  [ generation |-> db.pool.generation, anchor |-> db.pool.anchor,
    txCount |-> Cardinality(DOMAIN db.pool.rows) ]
mempoolDependencies(db, t) ==
  {u \in DOMAIN db.pool.rows : \E o \in inputs[t] : creator[o] = u}

\* mempoolTxPageFrom: ORDER BY entry_time DESC, txid DESC; e comes behind f.
PoolEntries(rows) == {[tx |-> t, time |-> rows[t]] : t \in DOMAIN rows}
PoolBehind(e, f) ==
  e.time < f.time \/ (e.time = f.time /\ textRank[e.tx] < textRank[f.tx])
PoolList(rows, before) ==
  OrderBy({e \in PoolEntries(rows) : before = NoCursor \/ PoolBehind(e, before)},
          LAMBDA e, f : PoolBehind(f, e))
mempoolTxPageFrom(rows, before) == FirstRows(PoolList(rows, before), PageSize)
NextPoolCursor(generation, page) ==
  IF Len(page) = PageSize
  THEN [generation |-> generation, time |-> Last(page).time, tx |-> Last(page).tx]
  ELSE NoCursor

deploymentStateRow(db) ==
  [generation |-> db.deps.generation, anchor |-> db.deps.anchor, count |-> db.deps.count]
deploymentRows(db) == db.deps.rows
deploymentRow(db, n) == IF n \in DOMAIN db.deps.rows THEN db.deps.rows[n] ELSE NoRow

\* decodeDeploymentRow's checked_at = observed_at and the count of
\* DeploymentOverview: ErrDeploymentCacheIntegrity otherwise.
DeploymentsIntact(state, rows) ==
  /\ Cardinality(DOMAIN rows) = state.count
  /\ \A n \in DOMAIN rows : rows[n] = state.generation

-----------------------------------------------------------------------------
(* The requests, as the statements the code sends in their order.          *)

Operation == { "ExplorerOverview", "RecentBlocks", "AddressDetail", "TransactionByTxID",
               "BlockByHeight", "BlockByHash", "SupplyOverview", "RichListOverview",
               "MempoolOverview", "MempoolTransactionByTxID", "DeploymentOverview",
               "DeploymentByName" }
Plan(op) ==
  CASE op = "ExplorerOverview"         -> <<"status", "recentBlocks">>
    [] op = "RecentBlocks"             -> <<"recentBlocks">>
    [] op = "AddressDetail"            -> <<"summary", "history">>
    [] op = "TransactionByTxID"        -> <<"transaction", "occurrences", "variant", "outputs">>
    [] op = "BlockByHeight"            -> <<"blockAtHeight", "blockTxRefs">>
    [] op = "BlockByHash"              -> <<"blockOfHash", "blockTxRefs">>
    [] op = "SupplyOverview"           -> <<"status", "rollup">>
    [] op = "RichListOverview"         -> <<"status", "richList">>
    [] op = "MempoolOverview"          -> <<"mempoolState", "status", "mempoolPage">>
    [] op = "MempoolTransactionByTxID" -> <<"mempoolRow", "mempoolState", "status", "dependencies">>
    [] op = "DeploymentOverview"       -> <<"deploymentState", "status", "deployments">>
    [] op = "DeploymentByName"         -> <<"deploymentState", "status", "deployment">>

\* One statement of request q against db; got are the results of the
\* statements before it.
Select(statement, db, q, got) ==
  CASE statement = "status"          -> statusFrom(db)
    [] statement = "recentBlocks"    -> recentBlocksFrom(db.canonical, q.before)
    [] statement = "summary"         -> addressSummaryFrom(db, q.arg)
    [] statement = "history"         -> addressHistoryFrom(db.canonical, q.arg, q.before)
    [] statement = "transaction"     -> TransactionRow(db, q.arg)
    [] statement = "occurrences"     -> txOccurrences(db, q.arg)
    [] statement = "variant"         -> Representatives(got[2])
    [] statement = "outputs"         -> txOutputs(db, q.arg)
    [] statement = "blockAtHeight"   -> BlockAtHeight(db, q.arg)
    [] statement = "blockOfHash"     -> BlockOfHash(db, q.arg)
    [] statement = "blockTxRefs"     -> txs[got[1].block]
    [] statement = "rollup"          -> db.rollup[got[1]]
    [] statement = "richList"        -> richListEntriesFrom(db)
    [] statement = "mempoolRow"      -> mempoolRow(db, q.arg)
    [] statement = "mempoolState"    -> mempoolStateRow(db)
    [] statement = "mempoolPage"     -> mempoolTxPageFrom(db.pool.rows, q.before)
    [] statement = "dependencies"    -> mempoolDependencies(db, q.arg)
    [] statement = "deploymentState" -> deploymentStateRow(db)
    [] statement = "deployments"     -> deploymentRows(db)
    [] statement = "deployment"      -> deploymentRow(db, q.arg)

\* Wrong: a cursor is honoured whatever generation it is from.
CursorHonoured(q, got) == FALSE

\* MempoolOverview refuses the cursor of another generation:
\* ErrMempoolGenerationChanged.
CursorRefused(q, got) ==
  /\ q.op = "MempoolOverview" /\ q.before # NoCursor
  /\ Len(got) = 2 /\ q.before.generation # got[1].generation

\* The request ends: all statements are done, the object does not exist
\* (ErrNotFound, ErrSupplyRollupUnavailable), nothing is indexed yet
\* (zeroSupplyOverview), or no deployments were ever observed.
Complete(q, got) ==
  \/ Len(got) = Len(Plan(q.op))
  \/ Last(got) = NoRow
  \/ q.op = "SupplyOverview" /\ got[1] = NoBlock
  \/ q.op \in {"DeploymentOverview", "DeploymentByName"} /\ Len(got) = 2 /\ got[1].generation = 0

\* The cursor for the page behind, from a complete answer.
NextCursor(q, got) ==
  CASE q.op = "RecentBlocks"    -> NextBeforeHeight(Last(got))
    [] q.op = "AddressDetail"   -> NextBeforeEntry(Last(got))
    [] q.op = "MempoolOverview" -> NextPoolCursor(got[1].generation, Last(got))
    [] OTHER                    -> NoCursor
=============================================================================
