------------------------------ MODULE Indexer --------------------------------
(***************************************************************************)
(* internal/indexer: SyncToTip follows Core's active branch into the       *)
(* store.  Every RPC call and every store call is a step of its own, so    *)
(* Core may move, another writer on the same database may commit, and the  *)
(* process may die between any two of them.  The store is ChainLog, which  *)
(* CanonicalStore implements: ApplyBlock extends the chain, RollbackTo     *)
(* retracts it.                                                            *)
(*                                                                         *)
(* Core is honest, and its blocks are assumed to decode (Decoder names the *)
(* keys that would not): getblock returns the content of the hash asked    *)
(* for, so fetching and decoding are not steps.  A call                    *)
(* that fails in transport ends Run and the process, which is Crash.       *)
(***************************************************************************)
EXTENDS Core, FiniteSets, FiniteSetsExt

CONSTANTS
  Writer,                   \* running orchestrators; production has one
  MaxAutomaticReorgDepth,
  MaxCrashes

ASSUME IndexerAssumption == MaxAutomaticReorgDepth \in Nat /\ MaxCrashes \in Nat

VARIABLES
  chain,     \* the store's canonical blocks by height
  run,       \* the local variables of every writer's SyncToTip
  crashes

Log == INSTANCE ChainLog

vars == <<active, moves, chain, run, crashes>>

\* Errors that end a pass; Run returns them and the process exits.
Halted == {"ErrReorgTooDeep", "ErrLocalChainGap", "ErrAncestorNotFound",
           "ErrTipAfterRollback", "ErrHashUnavailable", "ErrContradictoryBlock",
           "ErrUnexplained"}
Working == {"reconcile", "count", "compare", "search", "searchCore", "recheck",
            "recheckLocal", "rollback", "verify", "sync", "target", "confirm",
            "hash1", "hash2", "apply", "diagnose", "diagnoseTip", "diagnoseParent",
            "diagnoseAgain", "classify"}

\* A new process: local is the checkpoint read last, target Core's height read
\* last, at the height worked on, hash the hash read for it, parent the parent
\* read by a diagnosis.  since is no variable of the code: it records how often
\* Core had moved when the pass last read its checkpoint.
Start == [pc |-> "reconcile", local |-> NoBlock, target |-> 0, at |-> 0,
          hash |-> NoBlock, parent |-> NoBlock, since |-> 0]

Init ==
  /\ CoreInit
  /\ chain = Log!EmptyChain
  /\ run = [w \in Writer |-> Start]
  /\ crashes = 0

-----------------------------------------------------------------------------
(* The store, as the indexer calls it.                                     *)

Tip == IF DOMAIN chain = {} THEN NoBlock ELSE chain[Max(DOMAIN chain)]
Height(b) == IF b = NoBlock THEN -1 ELSE height[b]

\* checkCanonicalContinuity; Core's blocks pass the store's other checks
\* (CanonicalStore's NeverWedged).
ApplyBlock(b) ==
  \/ b = Tip /\ UNCHANGED chain
  \/ Log!Bootstrap(b)
  \/ Log!Extend(b)
Sequential(b) == Tip = NoBlock \/ b = Tip \/ (prev[b] = Tip /\ height[b] = height[Tip] + 1)

InChain(b) == \E h \in DOMAIN chain : chain[h] = b

-----------------------------------------------------------------------------
(* Where a pass goes next.                                                 *)

At(w, p) == run[w].pc = p
Goto(r, p) == [r EXCEPT !.pc = p]
\* A function has returned, its local variables are gone.
Return(p) == [Start EXCEPT !.pc = p]
\* One step of writer w that leaves Core and the store alone.
Becomes(w, r) == run' = [run EXCEPT ![w] = r] /\ UNCHANGED <<coreVars, chain, crashes>>

\* Wrong: a moved chain is retried from the sync target, not reconciled.
RetryTarget == Return("sync")

\* ErrRemoteChainMoved: syncToTipLocked starts over with reconcile.
Restarted == Start

\* GetBlockHash(h): what to do with the answer, or classifyHashUnavailable.
AskHash(w, h, answered(_)) ==
  Becomes(w, IF HashKnown(h) THEN answered(GetBlockHash(h))
             ELSE [run[w] EXCEPT !.pc = "classify", !.at = h])

\* classifyHashUnavailable: a second read of the height tells a retreat from
\* a failure.
Classify(w) ==
  /\ At(w, "classify")
  /\ Becomes(w, IF GetBlockCount < run[w].at THEN Restarted
                ELSE Return("ErrHashUnavailable"))

-----------------------------------------------------------------------------
(* reconcile and reorg                                                     *)

\* Wrong: the search starts below the highest height both chains have.
SearchBelow(r) ==
  LET top == Min({height[r.local], r.target}) - 1
  IN  IF height[r.local] - top > MaxAutomaticReorgDepth THEN Return("ErrReorgTooDeep")
      ELSE [r EXCEPT !.pc = "search", !.at = top]

\* The beginning of reorg: refuse what must be too deep, else walk down.
Search(r) ==
  LET top == Min({height[r.local], r.target})
  IN  IF height[r.local] - top > MaxAutomaticReorgDepth THEN Return("ErrReorgTooDeep")
      ELSE [r EXCEPT !.pc = "search", !.at = top]

Reconcile(w) ==
  /\ At(w, "reconcile")
  /\ Becomes(w, [run[w] EXCEPT !.pc = IF Tip = NoBlock THEN "sync" ELSE "count",
                               !.local = Tip, !.since = moves])

ReconcileCount(w) ==
  LET r == [run[w] EXCEPT !.target = GetBlockCount]
  IN  /\ At(w, "count")
      /\ Becomes(w, IF height[r.local] <= r.target THEN Goto(r, "compare") ELSE Search(r))

ReconcileCompare(w) ==
  LET r == run[w]
      answered(hash) == IF hash = r.local THEN Return("sync") ELSE Search(r)
  IN  At(w, "compare") /\ AskHash(w, height[r.local], answered)

\* CanonicalBlockHash at the height of the walk.
SearchLocal(w) ==
  LET r == run[w]
  IN  /\ At(w, "search")
      /\ Becomes(w, IF r.at \in DOMAIN chain
                    THEN [r EXCEPT !.pc = "searchCore", !.hash = chain[r.at]]
                    ELSE Return("ErrLocalChainGap"))

\* Wrong: the walk stops one block too low.
FloorTooLow(r) == Max({0, height[r.local] - MaxAutomaticReorgDepth - 1})
Floor(r) == Max({0, height[r.local] - MaxAutomaticReorgDepth})

SearchCore(w) ==
  LET r == run[w]
      answered(hash) ==
        IF hash = r.hash THEN Goto(r, "recheck")
        ELSE IF r.at - 1 >= Floor(r) THEN [r EXCEPT !.pc = "search", !.at = r.at - 1]
        ELSE Return("ErrReorgTooDeep")
  IN  At(w, "searchCore") /\ AskHash(w, r.at, answered)

Recheck(w) ==
  LET r == run[w]
      answered(hash) == IF hash = r.hash THEN Goto(r, "recheckLocal") ELSE Restarted
  IN  At(w, "recheck") /\ AskHash(w, r.at, answered)

RecheckLocal(w) ==
  /\ At(w, "recheckLocal")
  /\ Becomes(w, IF Tip = run[w].local THEN Goto(run[w], "rollback") ELSE Restarted)

\* Wrong: the ancestor goes too.
RollbackBelow(w) ==
  /\ At(w, "rollback")
  /\ Log!Retract(Max({0, run[w].at - 1}))
  /\ run' = [run EXCEPT ![w].pc = "verify"]
  /\ UNCHANGED <<coreVars, crashes>>

RollbackTo(w) ==
  /\ At(w, "rollback")
  /\ IF InChain(run[w].hash)
     THEN Log!Retract(run[w].at) /\ run' = [run EXCEPT ![w].pc = "verify"]
     ELSE run' = [run EXCEPT ![w] = Return("ErrAncestorNotFound")] /\ UNCHANGED chain
  /\ UNCHANGED <<coreVars, crashes>>

VerifyRollback(w) ==
  /\ At(w, "verify")
  /\ Becomes(w, Return(IF Tip = run[w].hash THEN "sync" ELSE "ErrTipAfterRollback"))

-----------------------------------------------------------------------------
(* Forward sync                                                            *)

SyncTip(w) == At(w, "sync") /\ Becomes(w, [run[w] EXCEPT !.pc = "target", !.local = Tip])

\* Wrong: a pass that is as high as Core is taken to be on its branch.
SyncTargetByHeight(w) ==
  LET r == [run[w] EXCEPT !.target = GetBlockCount]
      h == Height(r.local)
  IN  /\ At(w, "target")
      /\ Becomes(w, IF h > r.target THEN Restarted
                    ELSE IF h = r.target THEN Return("done")
                    ELSE [r EXCEPT !.pc = "hash1", !.at = h + 1])

SyncTarget(w) ==
  LET r == [run[w] EXCEPT !.target = GetBlockCount]
      h == Height(r.local)
  IN  /\ At(w, "target")
      /\ Becomes(w, IF h > r.target THEN Restarted
                    ELSE IF h = r.target THEN Goto(r, "confirm")
                    ELSE [r EXCEPT !.pc = "hash1", !.at = h + 1])

ConfirmCaughtUp(w) ==
  LET r == run[w]
      answered(hash) == IF hash = r.local THEN Return("done") ELSE Restarted
  IN  At(w, "confirm") /\ AskHash(w, Height(r.local), answered)

\* applyHeight: the hash, the block it names, and the hash again.
ApplyHash1(w) ==
  LET r == run[w]
      answered(hash) == [r EXCEPT !.pc = "hash2", !.hash = hash]
  IN  At(w, "hash1") /\ AskHash(w, r.at, answered)

ApplyHash2(w) ==
  LET r == run[w]
      answered(hash) == IF hash = r.hash THEN Goto(r, "apply") ELSE Restarted
  IN  At(w, "hash2") /\ AskHash(w, r.at, answered)

\* Store.ApplyBlock, and applyRange's next height or the end of the range.
Apply(w) ==
  LET r == run[w]
      next == IF r.at < r.target THEN [r EXCEPT !.pc = "hash1", !.at = r.at + 1]
              ELSE Restarted
  IN  /\ At(w, "apply")
      /\ IF Sequential(r.hash)
         THEN ApplyBlock(r.hash) /\ run' = [run EXCEPT ![w] = next]
         ELSE run' = [run EXCEPT ![w].pc = "diagnose"] /\ UNCHANGED chain
      /\ UNCHANGED <<coreVars, crashes>>

\* The poll interval of Run has passed.
Poll(w) == At(w, "done") /\ Becomes(w, Restarted)

-----------------------------------------------------------------------------
(* diagnoseNonSequential                                                   *)

Diagnose(w) ==
  LET r == run[w]
      answered(hash) == IF hash = r.hash THEN Goto(r, "diagnoseTip") ELSE Restarted
  IN  At(w, "diagnose") /\ AskHash(w, r.at, answered)

DiagnoseTip(w) ==
  LET r == run[w]
  IN  /\ At(w, "diagnoseTip")
      /\ Becomes(w, IF Height(Tip) # r.at - 1 THEN Restarted
                    ELSE [r EXCEPT !.pc = "diagnoseParent", !.local = Tip])

DiagnoseParent(w) ==
  LET r == run[w]
      answered(hash) == [r EXCEPT !.pc = "diagnoseAgain", !.parent = hash]
  IN  At(w, "diagnoseParent") /\ AskHash(w, r.at - 1, answered)

DiagnoseAgain(w) ==
  LET r == run[w]
      answered(hash) ==
        IF hash # r.hash \/ r.parent # r.local THEN Restarted
        ELSE IF prev[r.hash] # r.local THEN Return("ErrContradictoryBlock")
        ELSE Return("ErrUnexplained")
  IN  At(w, "diagnoseAgain") /\ AskHash(w, r.at, answered)

-----------------------------------------------------------------------------
\* One step of writer w, in the order of the code.
Step(w) ==
  \/ Reconcile(w) \/ ReconcileCount(w) \/ ReconcileCompare(w)
  \/ SearchLocal(w) \/ SearchCore(w) \/ Recheck(w) \/ RecheckLocal(w)
  \/ RollbackTo(w) \/ VerifyRollback(w)
  \/ SyncTip(w) \/ SyncTarget(w) \/ ConfirmCaughtUp(w)
  \/ ApplyHash1(w) \/ ApplyHash2(w) \/ Apply(w) \/ Poll(w)
  \/ Diagnose(w) \/ DiagnoseTip(w) \/ DiagnoseParent(w) \/ DiagnoseAgain(w)
  \/ Classify(w)

\* The supervisor starts a process that has halted; Store.Tip is all it
\* resumes from.
Resume(w) == run[w].pc \in Halted /\ Becomes(w, Start)

\* The process dies between two calls: a kill, a cancelled context, a call
\* that failed in transport.
Crash(w) ==
  /\ crashes < MaxCrashes
  /\ run[w].pc \notin Halted
  /\ crashes' = crashes + 1
  /\ run' = [run EXCEPT ![w] = Start]
  /\ UNCHANGED <<coreVars, chain>>

Next ==
  \/ \E b \in Block : Activate(b) /\ UNCHANGED <<chain, run, crashes>>
  \/ \E w \in Writer : Step(w) \/ Resume(w) \/ Crash(w)

\* A process that runs keeps running and a halted one is started again; Core
\* owes nothing.
Fairness == \A w \in Writer : WF_vars(Step(w)) /\ WF_vars(Resume(w))
Spec == Init /\ [][Next]_vars /\ Fairness

-----------------------------------------------------------------------------
(* Properties                                                              *)

Pass == [ pc : Working \cup Halted \cup {"done"}, local : Block \cup {NoBlock},
          target : Nat, at : Nat, hash : Block \cup {NoBlock},
          parent : Block \cup {NoBlock}, since : Nat ]

\* The store's chain holds blocks at their heights and every pass has its
\* variables in range; in particular no walk goes below height zero.
TypeOK ==
  /\ active \in Block /\ moves \in 0..MaxMoves /\ crashes \in 0..MaxCrashes
  /\ \A h \in DOMAIN chain : chain[h] \in Block /\ height[chain[h]] = h
  /\ run \in [Writer -> Pass]

\* With one orchestrator, Core moving and crashes never look like damage to
\* the local database: no gap, no vanished ancestor, no wrong tip after a
\* rollback, no rejection that reads cannot explain (reorg,
\* diagnoseNonSequential).
LocalIntegrity ==
  \A w \in Writer : run[w].pc \notin {"ErrLocalChainGap", "ErrAncestorNotFound",
                                      "ErrTipAfterRollback", "ErrUnexplained"}

\* No rollback undoes more than MaxAutomaticReorgDepth blocks, counted from
\* the tip it really starts at (the depth policy of reorg).
Cut == Cardinality(DOMAIN chain) - Cardinality(DOMAIN chain')
DepthPolicy == [][Cut <= MaxAutomaticReorgDepth]_vars

\* If Core has not moved since the pass read its checkpoint, a rollback lands
\* on the highest block the store and Core share: no shared block is undone,
\* no stale one stays (reorg's walk).
ForkPointExact ==
  [][\A w \in Writer :
        At(w, "rollback") /\ run'[w].pc = "verify" /\ run[w].since = moves
          => \A h \in DOMAIN chain : h \in DOMAIN chain' <=> OnActiveChain(chain[h])]_vars

\* SyncToTip reports success only in a moment when the store's tip is on
\* Core's active chain (confirmCaughtUp).
CaughtUpOnCore ==
  [][\A w \in Writer : ~At(w, "done") /\ run'[w].pc = "done"
        => Tip # NoBlock /\ OnActiveChain(Tip)]_vars

\* Once Core settles, the store reaches Core's tip and stays there, whatever
\* moves, crashes and spurious halts came before; unless Core settled on a
\* branch that leaves the store's chain deeper than the policy allows
\* (SyncToTip, Run).
Refused == Cardinality({h \in DOMAIN chain : ~OnActiveChain(chain[h])}) > MaxAutomaticReorgDepth
CatchesUp == <>[](Tip = active) \/ <>[]Refused

\* The documented promise of Run: a chain-moved race is retried inside
\* SyncToTip and never surfaced.  An honest Core that merely moves makes no
\* pass fail, except for the depth policy.
RaceNeverSurfaces ==
  \A w \in Writer : run[w].pc \in Halted => run[w].pc = "ErrReorgTooDeep"

\* The documented promise of diagnoseNonSequential: reorganisations during
\* the diagnosis cannot produce a terminal judgment from a mixed snapshot.
NoMixedJudgment == \A w \in Writer : run[w].pc # "ErrContradictoryBlock"

\* The documented promise of reorg's recheck: a candidate that mixes two Core
\* branches is discarded.  A candidate that passes the recheck is where the
\* store's chain leaves Core's active chain.
CandidateIsForkPoint ==
  [][\A w \in Writer :
        At(w, "recheck") /\ run'[w].pc = "recheckLocal"
          => run[w].at + 1 \notin DOMAIN chain \/ ~OnActiveChain(chain[run[w].at + 1])]_vars
=============================================================================
