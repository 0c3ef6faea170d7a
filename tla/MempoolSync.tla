---------------------------- MODULE MempoolSync ------------------------------
(***************************************************************************)
(* internal/mempool: refreshOnce copies Core's mempool into the mempool_*  *)
(* tables while Core, its mempool and the confirmed index move on.  Every  *)
(* RPC call, every read of the confirmed checkpoint and the replacement of *)
(* the snapshot (one PostgreSQL transaction under the lock of the          *)
(* mempool_state row) is a step of its own.                                *)
(*                                                                         *)
(* Transaction bodies decode and answer the request, so that a fetch       *)
(* either finds the transaction in the mempool or not; the generation      *)
(* counter is left to MempoolReader.                                       *)
(***************************************************************************)
EXTENDS Core

CONSTANTS
  Tx,              \* transactions that Core has seen unconfirmed
  carries,         \* the transactions of Tx that a block confirms
  parents,         \* the transactions of Tx whose outputs one spends
  conflicts,       \* the transactions of Tx that spend a coin it spends
  repeatsKey,      \* those with a bare multisig output that lists a key twice
  Writer,          \* synchronizers on the database; production has one
  NoSnapshot,
  MayReturn,       \* may Core return to a tip it has left?
  MaxPoolMoves,    \* how often the mempool changes before it settles
  MaxFailures      \* how many refreshes an error or a restart cuts short

ASSUME MempoolAssumption ==
  /\ carries \in [Block -> SUBSET Tx]
  /\ parents \in [Tx -> SUBSET Tx]
  /\ conflicts \in [Tx -> SUBSET Tx]
  /\ repeatsKey \subseteq Tx
  /\ MayReturn \in BOOLEAN
  /\ MaxPoolMoves \in Nat /\ MaxFailures \in Nat

VARIABLES
  left,         \* the tips Core has left
  pool,         \* Core's mempool
  poolMoves,
  checkpoint,   \* the confirmed index: store.Tip
  run,          \* the local variables of every writer's refreshOnce
  failures,
  cache         \* the mempool_* tables and the anchor in mempool_state

envVars == <<active, moves, left, pool, poolMoves, checkpoint>>
vars == <<active, moves, left, pool, poolMoves, checkpoint, run, failures, cache>>

-----------------------------------------------------------------------------
(* Core's mempool and the confirmed index, which the synchronizer only     *)
(* observes.                                                               *)

Confirmed(b) == UNION {carries[c] : c \in Ancestry[b]}

\* A mempool that Core may hold on top of block b: unconfirmed, without double
\* spends, closed under parents.
Allowed(S, b) ==
  /\ S \cap Confirmed(b) = {}
  /\ \A t \in S : /\ parents[t] \subseteq S \cup Confirmed(b)
                  /\ conflicts[t] \cap (S \cup Confirmed(b)) = {}

\* Connecting and disconnecting blocks updates the mempool in the same step.
\* Core prefers the branch with the most work, so it comes back to exactly the
\* tip it has left only when its operator makes it (invalidateblock).
CoreMoves ==
  \E b \in Block, S \in SUBSET Tx :
    /\ Activate(b)
    /\ MayReturn \/ b \notin left
    /\ left' = left \cup {active}
    /\ Allowed(S, b)
    /\ pool' = S
    /\ UNCHANGED <<poolMoves, checkpoint, run, failures, cache>>

\* A transaction arrives, is replaced, expires ...
PoolMoves ==
  /\ poolMoves < MaxPoolMoves
  /\ poolMoves' = poolMoves + 1
  /\ \E S \in SUBSET Tx : Allowed(S, active) /\ S # pool /\ pool' = S
  /\ UNCHANGED <<active, moves, left, checkpoint, run, failures, cache>>

\* The confirmed index takes a block on top of its tip or falls back to an
\* ancestor, as ChainLog allows.
IndexMoves ==
  /\ \E b \in Block :
       /\ \/ prev[b] = checkpoint
          \/ checkpoint # NoBlock /\ b \in Ancestry[checkpoint] \ {checkpoint}
       /\ checkpoint' = b
  /\ UNCHANGED <<active, moves, left, pool, poolMoves, run, failures, cache>>

-----------------------------------------------------------------------------
(* refreshOnce                                                             *)

\* Between two refreshes.  tip is the checkpoint read first, height and hash
\* Core's tip as read last, listed the mempool as listed, todo the entries not
\* fetched yet.
Idle == [pc |-> "idle", tip |-> NoBlock, height |-> 0, hash |-> NoBlock,
         listed |-> {}, todo |-> {}]

Init ==
  /\ CoreInit
  /\ left = {}
  /\ \E S \in SUBSET Tx : Allowed(S, active) /\ pool = S
  /\ poolMoves = 0
  /\ checkpoint = NoBlock
  /\ run = [w \in Writer |-> Idle]
  /\ failures = 0
  /\ cache = NoSnapshot

At(w, p) == run[w].pc = p
Becomes(w, r) == run' = [run EXCEPT ![w] = r] /\ UNCHANGED <<envVars, failures, cache>>

ReadCheckpoint(w) ==
  At(w, "idle") /\ Becomes(w, [Idle EXCEPT !.pc = "count", !.tip = checkpoint])

\* coreTip: getblockcount, then getbestblockhash.
ReadCount(w) ==
  At(w, "count") /\ Becomes(w, [run[w] EXCEPT !.pc = "best", !.height = GetBlockCount])

\* Wrong: an index as high as Core is taken to be at its tip.
SameHeight(b, h, hash) == b # NoBlock /\ height[b] = h

\* The confirmed checkpoint and Core's tip as read, height and hash.
SameTip(b, h, hash) == b # NoBlock /\ height[b] = h /\ b = hash

ReadBest(w) ==
  LET r == run[w]
  IN  /\ At(w, "best")
      /\ Becomes(w, IF SameTip(r.tip, r.height, active)
                    THEN [r EXCEPT !.pc = "list", !.hash = active]
                    ELSE Idle)                          \* ErrConfirmedIndexBehind

\* getrawmempool true.
ListMempool(w) ==
  /\ At(w, "list")
  /\ Becomes(w, [run[w] EXCEPT !.pc = IF pool = {} THEN "countAgain" ELSE "fetch",
                               !.listed = pool, !.todo = pool])

\* fetchAndDecode, one transaction: gone or confirmed meanwhile discards the
\* candidate (ErrMempoolRace).
Fetch(w) ==
  /\ At(w, "fetch")
  /\ \E t \in run[w].todo :
       LET r == [run[w] EXCEPT !.todo = @ \ {t}]
       IN  Becomes(w, IF t \notin pool THEN Idle
                      ELSE IF r.todo = {} THEN [r EXCEPT !.pc = "countAgain"]
                      ELSE r)

\* coreTip again, then the checkpoint.  Each reading must equal the first one;
\* a different one discards the candidate (ErrMempoolRace).
ReadCountAgain(w) ==
  LET r == run[w]
  IN  /\ At(w, "countAgain")
      /\ Becomes(w, IF GetBlockCount = r.height THEN [r EXCEPT !.pc = "bestAgain"] ELSE Idle)

\* Wrong: the height is taken for the tip.
TrustHeight(w) ==
  At(w, "bestAgain") /\ Becomes(w, [run[w] EXCEPT !.pc = "tipAgain"])

ReadBestAgain(w) ==
  LET r == run[w]
  IN  /\ At(w, "bestAgain")
      /\ Becomes(w, IF active = r.hash THEN [r EXCEPT !.pc = "tipAgain"] ELSE Idle)

ReadCheckpointAgain(w) ==
  LET r == run[w]
  IN  /\ At(w, "tipAgain")
      /\ Becomes(w, IF checkpoint = r.tip THEN [r EXCEPT !.pc = "publish"] ELSE Idle)

Candidate(r) == [height |-> r.height, hash |-> r.hash, rows |-> r.listed]

\* Candidate.validate: a dependency, a parent that was listed with the
\* transaction, is in the candidate.
validate(r) ==
  LET rows == r.listed \ r.todo
  IN  \A t \in rows : parents[t] \cap r.listed \subseteq rows \ {t}

\* insertCandidateTransactionBody: one participant row per listed key, under
\* the primary key (txid, vout_index, address).
InsertsAccepted(rows) == rows \cap repeatsKey = {}

\* Wrong: an unchanged set of transactions is not worth a replacement.
PublishChanges(w) ==
  /\ At(w, "publish")
  /\ cache' = IF cache # NoSnapshot /\ cache.rows = run[w].listed THEN cache
              ELSE Candidate(run[w])
  /\ run' = [run EXCEPT ![w] = Idle]
  /\ UNCHANGED <<envVars, failures>>

\* Store.ReplaceSnapshot: all rows of the old snapshot go, all rows of the new
\* one come, the anchor moves with them; a refused row rolls all of it back.
ReplaceSnapshot(w) ==
  /\ At(w, "publish")
  /\ cache' = IF validate(run[w]) /\ InsertsAccepted(run[w].listed)
              THEN Candidate(run[w]) ELSE cache
  /\ run' = [run EXCEPT ![w] = Idle]
  /\ UNCHANGED <<envVars, failures>>

Step(w) ==
  \/ ReadCheckpoint(w) \/ ReadCount(w) \/ ReadBest(w) \/ ListMempool(w) \/ Fetch(w)
  \/ ReadCountAgain(w) \/ ReadBestAgain(w) \/ ReadCheckpointAgain(w)
  \/ ReplaceSnapshot(w)

\* A call failed, or the process restarted: Run tries again at the next poll,
\* and the last snapshot stays.
Fail(w) ==
  /\ failures < MaxFailures
  /\ ~At(w, "idle")
  /\ failures' = failures + 1
  /\ run' = [run EXCEPT ![w] = Idle]
  /\ UNCHANGED <<envVars, cache>>

Next == \/ CoreMoves \/ PoolMoves \/ IndexMoves
        \/ \E w \in Writer : Step(w) \/ Fail(w)

\* Run polls for ever; Core and the index owe nothing.
Fairness == \A w \in Writer : WF_vars(Step(w))
Spec == Init /\ [][Next]_vars /\ Fairness

-----------------------------------------------------------------------------
(* Properties                                                              *)

Refresh == [ pc : {"idle", "count", "best", "list", "fetch", "countAgain", "bestAgain",
                   "tipAgain", "publish"},
             tip : Block \cup {NoBlock}, height : Nat, hash : Block \cup {NoBlock},
             listed : SUBSET Tx, todo : SUBSET Tx ]
Snapshot == [height : Nat, hash : Block, rows : SUBSET Tx]

\* Every variable is in its range, Core's mempool fits Core's tip, and a
\* refresh past its first comparison is anchored at the checkpoint it read.
TypeOK ==
  /\ active \in Block /\ moves \in 0..MaxMoves /\ left \subseteq Block
  /\ pool \subseteq Tx /\ Allowed(pool, active) /\ poolMoves \in 0..MaxPoolMoves
  /\ checkpoint \in Block \cup {NoBlock}
  /\ run \in [Writer -> Refresh]
  /\ \A w \in Writer : run[w].pc \notin {"idle", "count", "best"} => run[w].hash = run[w].tip
  /\ failures \in 0..MaxFailures
  /\ cache \in Snapshot \cup {NoSnapshot}

\* Whatever moved while it was taken, a published snapshot is a mempool Core
\* could hold on top of its anchor: none of its rows is confirmed there, no
\* two of them conflict, no parent is missing; and the anchor's height is the
\* height of its hash, although the two were read in separate calls.  A reader
\* whose confirmed tip is the anchor ("fresh") may combine the two
\* (refreshOnce, coreTip, fetchAndDecode).
SnapshotOfAnchor ==
  cache # NoSnapshot => /\ Allowed(cache.rows, cache.hash)
                        /\ cache.height = height[cache.hash]

\* If the confirmed index stays at Core's tip, the cache comes to hold Core's
\* settled mempool, anchored there, and keeps it: no race, failure or late
\* publication of another synchronizer leaves an outdated snapshot in place
\* for good (Run, refreshOnce).
Current == cache # NoSnapshot /\ cache.hash = active /\ cache.rows = pool
SettlesCurrent == <>[](checkpoint = active) => <>[]Current
=============================================================================
