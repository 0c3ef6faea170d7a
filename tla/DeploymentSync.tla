--------------------------- MODULE DeploymentSync ----------------------------
(***************************************************************************)
(* internal/deployments: refreshOnce copies Core's BIP9 deployment states  *)
(* into chain_deployments while Core and the confirmed index move on, and  *)
(* internal/query reads them back next to the confirmed checkpoint.  Every *)
(* RPC call, every read of the checkpoint and the replacement of the       *)
(* snapshot (one PostgreSQL transaction) is a step of its own.             *)
(*                                                                         *)
(* Core's answer for a block is a function of the block; on its way it may *)
(* lose or garble a member.                                                *)
(***************************************************************************)
EXTENDS Core, DeploymentInfo

CONSTANTS
  Writer,          \* observers on the database; production has one
  NoSnapshot,
  deploymentInfo,  \* what Core answers for each block
  MaxFailures      \* how many refreshes an error, a restart or a garbled
                   \* answer may cut short

ASSUME DeploymentAssumption ==
  /\ MaxFailures \in Nat
  /\ \A b \in Block : IsAnswer(deploymentInfo[b], DOMAIN deploymentInfo[b].deployments)

VARIABLES
  checkpoint,   \* the confirmed index: store.Tip
  run,          \* the local variables of every writer's refreshOnce
  failures,
  cache         \* chain_deployments and the anchor in deployment_state

envVars == <<active, moves, checkpoint>>
vars == <<active, moves, checkpoint, run, failures, cache>>

\* Between two refreshes.  tip is the checkpoint read first, height Core's
\* height read last, info the rows decoded from Core's answer.
Idle == [pc |-> "idle", tip |-> NoBlock, height |-> 0, info |-> {}]

Init ==
  /\ CoreInit
  /\ checkpoint = NoBlock
  /\ run = [w \in Writer |-> Idle]
  /\ failures = 0
  /\ cache = NoSnapshot

At(w, p) == run[w].pc = p
Becomes(w, r) == run' = [run EXCEPT ![w] = r] /\ UNCHANGED <<envVars, failures, cache>>

ReadCheckpoint(w) ==
  At(w, "idle") /\ Becomes(w, [Idle EXCEPT !.pc = "count", !.tip = checkpoint])

\* coreTip: getblockcount, then getblockhash of that height, which fails when
\* Core has retreated in between.
ReadCount(w) ==
  At(w, "count") /\ Becomes(w, [run[w] EXCEPT !.pc = "hash", !.height = GetBlockCount])

\* The checkpoint is at height h and the hash Core has there is its hash.
SameTip(b, h) == b # NoBlock /\ height[b] = h /\ HashKnown(h) /\ GetBlockHash(h) = b

ReadHash(w) ==
  LET r == run[w]
  IN  /\ At(w, "hash")
      /\ Becomes(w, IF SameTip(r.tip, r.height) THEN [r EXCEPT !.pc = "query"]
                    ELSE Idle)                     \* ErrConfirmedIndexNotReady

\* The answer passes the strict decoding and names the block asked for.
Accepted(info, b) == InfoSound(info) /\ info.hash = b /\ info.height = height[b]
AfterAnswer(r, info) ==
  IF Accepted(info, r.tip) THEN [r EXCEPT !.pc = "countAgain", !.info = Rows(info)] ELSE Idle

\* getdeploymentinfo for the checkpoint's own hash.
GetDeploymentInfo(w) ==
  At(w, "query") /\ Becomes(w, AfterAnswer(run[w], deploymentInfo[run[w].tip]))

\* The same, and the answer arrives damaged.
GetGarbledInfo(w) ==
  /\ failures < MaxFailures
  /\ At(w, "query")
  /\ \E r \in {AfterAnswer(run[w], info) : info \in Garbled(deploymentInfo[run[w].tip])} :
        run' = [run EXCEPT ![w] = r]
  /\ failures' = failures + 1
  /\ UNCHANGED <<envVars, cache>>

\* coreTip again, then the checkpoint.  Each reading must equal the first one;
\* a different one discards the candidate (ErrDeploymentRace).
ReadCountAgain(w) ==
  LET r == run[w]
  IN  /\ At(w, "countAgain")
      /\ Becomes(w, IF GetBlockCount = r.height THEN [r EXCEPT !.pc = "hashAgain"] ELSE Idle)

ReadHashAgain(w) ==
  LET r == run[w]
  IN  /\ At(w, "hashAgain")
      /\ Becomes(w, IF SameTip(r.tip, r.height) THEN [r EXCEPT !.pc = "tipAgain"] ELSE Idle)

ReadCheckpointAgain(w) ==
  LET r == run[w]
  IN  /\ At(w, "tipAgain")
      /\ Becomes(w, IF checkpoint = r.tip THEN [r EXCEPT !.pc = "publish"] ELSE Idle)

\* Wrong: a snapshot of a block that is not above the last one is dropped.
PublishHigher(w) ==
  LET r == run[w]
  IN  /\ At(w, "publish")
      /\ cache' = IF cache = NoSnapshot \/ r.height > cache.height
                  THEN [height |-> r.height, hash |-> r.tip, info |-> r.info] ELSE cache
      /\ run' = [run EXCEPT ![w] = Idle]
      /\ UNCHANGED <<envVars, failures>>

\* Store.ReplaceSnapshot: rows and anchor are replaced together.  What
\* Candidate.validate checks before, the decoding has checked already.
ReplaceSnapshot(w) ==
  LET r == run[w]
  IN  /\ At(w, "publish")
      /\ cache' = [height |-> r.height, hash |-> r.tip, info |-> r.info]
      /\ run' = [run EXCEPT ![w] = Idle]
      /\ UNCHANGED <<envVars, failures>>

Step(w) ==
  \/ ReadCheckpoint(w) \/ ReadCount(w) \/ ReadHash(w) \/ GetDeploymentInfo(w)
  \/ ReadCountAgain(w) \/ ReadHashAgain(w) \/ ReadCheckpointAgain(w)
  \/ ReplaceSnapshot(w)

\* A call failed, or the process restarted: Run tries again at the next poll,
\* and the last snapshot stays.
Fail(w) ==
  /\ failures < MaxFailures
  /\ ~At(w, "idle")
  /\ failures' = failures + 1
  /\ run' = [run EXCEPT ![w] = Idle]
  /\ UNCHANGED <<envVars, cache>>

\* The confirmed index takes a block on top of its tip or falls back to an
\* ancestor, as ChainLog allows.
IndexMoves ==
  /\ \E b \in Block :
       /\ \/ prev[b] = checkpoint
          \/ checkpoint # NoBlock /\ b \in Ancestry[checkpoint] \ {checkpoint}
       /\ checkpoint' = b
  /\ UNCHANGED <<active, moves, run, failures, cache>>

Next == \/ \E b \in Block : Activate(b) /\ UNCHANGED <<checkpoint, run, failures, cache>>
        \/ IndexMoves
        \/ \E w \in Writer : Step(w) \/ GetGarbledInfo(w) \/ Fail(w)

\* Run polls for ever; Core and the index owe nothing.
Fairness == \A w \in Writer : WF_vars(Step(w))
Spec == Init /\ [][Next]_vars /\ Fairness

-----------------------------------------------------------------------------
(* Properties                                                              *)

\* deploymentStateFrom and DeploymentOverview, one REPEATABLE READ snapshot.
Status ==
  IF cache = NoSnapshot THEN "uninitialized"
  ELSE IF checkpoint # NoBlock /\ cache.height = height[checkpoint] /\ cache.hash = checkpoint
       THEN "fresh" ELSE "stale"

Refresh == [ pc : {"idle", "count", "hash", "query", "countAgain", "hashAgain", "tipAgain",
                   "publish"},
             tip : Block \cup {NoBlock}, height : Nat, info : SUBSET DeploymentRow ]
Snapshot == [height : Nat, hash : Block, info : SUBSET DeploymentRow]

\* Every variable is in its range.
TypeOK ==
  /\ active \in Block /\ moves \in 0..MaxMoves
  /\ checkpoint \in Block \cup {NoBlock}
  /\ run \in [Writer -> Refresh] /\ failures \in 0..MaxFailures
  /\ cache \in Snapshot \cup {NoSnapshot}

\* A reader who is told "fresh" sees the deployments as of the confirmed tip
\* it sees beside them, name by name with status and height, whatever Core, the
\* index, several observers and failures did while they were fetched, a Core
\* that left the tip and came back and an answer that arrived damaged included
\* (refreshOnce, DecodeDeploymentInfo, deploymentStateFrom).
FreshIsExact == Status = "fresh" => cache.info = Rows(deploymentInfo[checkpoint])

\* If the confirmed index stays at Core's tip, the cache becomes and stays
\* fresh: no race, failure or late publication of another observer leaves an
\* outdated snapshot in place for good, and in no stage of a deployment is
\* Core's answer refused (Run, refreshOnce, decodeBIP9Deployment).
SettlesFresh == <>[](checkpoint = active) => <>[](Status = "fresh")
=============================================================================
