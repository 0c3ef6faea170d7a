-------------------------- MODULE MempoolSyncProofs --------------------------
(***************************************************************************)
(* MempoolSync's invariants, for every block tree, mempool policy, number  *)
(* of synchronizers and bounds.  SnapshotOfAnchor rests on a fact about    *)
(* time: the tip that a refresh has seen is the active one or one that     *)
(* Core has left.  If Core does not come back to a tip it has left, a      *)
(* second sight of it means that Core was there all the time, and that the *)
(* mempool listed meanwhile fits it.  If it may come back, types and       *)
(* anchors are right all the same.                                         *)
(***************************************************************************)
EXTENDS MempoolSync, TLAPS

Listed == {"fetch", "countAgain", "bestAgain"}
Confirmable == {"tipAgain", "publish"}
Past == {"list"} \cup Listed \cup Confirmable

\* What a refresh knows: once anchored, its anchor is a tip that Core has or
\* has had, at its height; what it listed fits the anchor if Core is still
\* there, and for certain after Core was seen there again.
Good(r) ==
  /\ r.pc \in Past => /\ r.hash = r.tip
                      /\ r.hash \in left \cup {active}
                      /\ r.height = height[r.hash]
  /\ ~MayReturn => /\ r.pc \in Listed /\ r.hash = active => Allowed(r.listed, r.hash)
                   /\ r.pc \in Confirmable => Allowed(r.listed, r.hash)

Gone == ~MayReturn => active \notin left
Anchored == ~MayReturn => SnapshotOfAnchor
IInv == TypeOK /\ Gone /\ (\A w \in Writer : Good(run[w])) /\ Anchored

-----------------------------------------------------------------------------
\* A synchronizer that is between two refreshes.
LEMMA IdleFits == Idle \in Refresh /\ Idle.pc = "idle" /\ Good(Idle)
BY TreeAssumption DEF Idle, Refresh, Good, Past, Listed, Confirmable

\* Init establishes the invariant.
LEMMA InitKeeps == Init => IInv
<1> SUFFICES ASSUME Init PROVE IInv
  OBVIOUS
<1>1. TypeOK
  BY IdleFits, MovesAssumption, MempoolAssumption DEF Init, CoreInit, TypeOK
<1>2. Gone /\ (\A w \in Writer : Good(run[w])) /\ Anchored
  BY IdleFits DEF Init, Gone, Anchored, SnapshotOfAnchor
<1> QED BY <1>1, <1>2 DEF IInv

\* A step of one refresh that replaces its variables by a record that fits.
LEMMA BecomesKeeps ==
  ASSUME IInv, NEW w \in Writer, NEW r \in Refresh, Becomes(w, r), Good(r)
  PROVE  IInv'
<1>0. /\ run' = [run EXCEPT ![w] = r] /\ run \in [Writer -> Refresh]
      /\ UNCHANGED <<active, moves, left, pool, poolMoves, checkpoint, failures, cache>>
  BY DEF Becomes, envVars, IInv, TypeOK
<1>1. \A v \in Writer : run'[v].pc \notin {"idle", "count", "best"} => run'[v].hash = run'[v].tip
  BY <1>0 DEF IInv, TypeOK, Good, Past, Listed, Confirmable, Refresh
<1>2. Allowed(pool, active)'
  BY <1>0 DEF Allowed, Confirmed, IInv, TypeOK
<1>3. TypeOK'
  BY <1>0, <1>1, <1>2 DEF IInv, TypeOK
<1>4. ASSUME NEW v \in Writer PROVE Good(run[v])'
  <2>1. Good(run'[v])
    BY <1>0 DEF IInv
  <2> QED BY <1>0, <2>1 DEF Good, Allowed, Confirmed
<1>5. Gone' /\ Anchored'
  BY <1>0 DEF IInv, Gone, Anchored, SnapshotOfAnchor, Allowed, Confirmed
<1> QED BY <1>3, <1>4, <1>5 DEF IInv

\* Every call of refreshOnce keeps the invariant.
LEMMA StepKeeps ==
  ASSUME IInv, NEW w \in Writer, Step(w) PROVE IInv'
<1> DEFINE r == run[w]
<1> USE DEF At
<1>0. r \in Refresh /\ Good(r)
  BY DEF IInv, TypeOK
<1>a. Idle \in Refresh /\ Good(Idle)
  BY IdleFits
<1>b. GetBlockCount \in Nat /\ active \in Block /\ pool \subseteq Tx /\ Allowed(pool, active)
  BY TreeAssumption DEF GetBlockCount, IInv, TypeOK
<1>1. CASE ReadCheckpoint(w)
  <2> DEFINE n == [Idle EXCEPT !.pc = "count", !.tip = checkpoint]
  <2>1. n \in Refresh /\ n.pc = "count"
    BY DEF IInv, TypeOK, Idle, Refresh
  <2>2. Good(n)
    BY <2>1 DEF Good, Past, Listed, Confirmable
  <2>3. Becomes(w, n)
    BY <1>1 DEF ReadCheckpoint
  <2> QED BY <2>1, <2>2, <2>3, BecomesKeeps
<1>2. CASE ReadCount(w)
  <2> DEFINE n == [r EXCEPT !.pc = "best", !.height = GetBlockCount]
  <2>1. n \in Refresh /\ n.pc = "best"
    BY <1>0, <1>b DEF Refresh
  <2>2. Good(n)
    BY <2>1 DEF Good, Past, Listed, Confirmable
  <2>3. Becomes(w, n)
    BY <1>2 DEF ReadCount
  <2> QED BY <2>1, <2>2, <2>3, BecomesKeeps
<1>3. CASE ReadBest(w)
  <2>1. CASE SameTip(r.tip, r.height, active)
    <3> DEFINE n == [r EXCEPT !.pc = "list", !.hash = active]
    <3>1. n \in Refresh /\ n.pc = "list" /\ n.hash = active /\ n.tip = active
              /\ n.height = height[n.hash]
      BY <1>0, <1>b, <2>1 DEF Refresh, SameTip
    <3>2. Good(n)
      BY <3>1 DEF Good, Past, Listed, Confirmable
    <3>3. Becomes(w, n)
      BY <1>3, <2>1 DEF ReadBest
    <3> QED BY <3>1, <3>2, <3>3, BecomesKeeps
  <2>2. CASE ~SameTip(r.tip, r.height, active)
    BY <1>3, <1>a, <2>2, BecomesKeeps DEF ReadBest
  <2> QED BY <2>1, <2>2
<1>4. CASE ListMempool(w)
  <2> DEFINE n == [r EXCEPT !.pc = IF pool = {} THEN "countAgain" ELSE "fetch",
                            !.listed = pool, !.todo = pool]
  <2>1. /\ n \in Refresh /\ n.pc \in Listed /\ n.listed = pool
        /\ n.hash = r.hash /\ n.tip = r.tip /\ n.height = r.height
    BY <1>0, <1>b DEF Refresh, Listed
  <2>2. Good(n)
    BY <1>0, <1>b, <1>4, <2>1 DEF Good, Past, Listed, Confirmable, ListMempool
  <2>3. Becomes(w, n)
    BY <1>4 DEF ListMempool
  <2> QED BY <2>1, <2>2, <2>3, BecomesKeeps
<1>5. CASE Fetch(w)
  <2>1. PICK t \in r.todo :
          LET s == [r EXCEPT !.todo = @ \ {t}]
          IN  Becomes(w, IF t \notin pool THEN Idle
                         ELSE IF s.todo = {} THEN [s EXCEPT !.pc = "countAgain"] ELSE s)
    BY <1>5 DEF Fetch
  <2> DEFINE s == [r EXCEPT !.todo = @ \ {t}]
             n == [s EXCEPT !.pc = "countAgain"]
  <2>2. /\ s \in Refresh /\ s.pc = "fetch" /\ s.listed = r.listed
        /\ s.hash = r.hash /\ s.tip = r.tip /\ s.height = r.height
    BY <1>0, <1>5 DEF Refresh, Fetch
  <2>3. /\ n \in Refresh /\ n.pc = "countAgain" /\ n.listed = r.listed
        /\ n.hash = r.hash /\ n.tip = r.tip /\ n.height = r.height
    BY <2>2 DEF Refresh
  <2>4. Good(s) /\ Good(n)
    BY <1>0, <1>5, <2>2, <2>3 DEF Good, Past, Listed, Confirmable, Fetch
  <2>5. Becomes(w, Idle) \/ Becomes(w, s) \/ Becomes(w, n)
    BY <2>1
  <2> QED BY <1>a, <2>2, <2>3, <2>4, <2>5, BecomesKeeps
<1>6. ASSUME NEW p \in {"bestAgain", "tipAgain", "publish"},
             r.pc \in {"countAgain", "bestAgain", "tipAgain"},
             p = "bestAgain" => r.pc \in Listed,
             p \in Confirmable => r.pc \in Confirmable \/ (r.pc \in Listed /\ r.hash = active),
             Becomes(w, [r EXCEPT !.pc = p]) \/ Becomes(w, Idle)
      PROVE  IInv'
  <2> DEFINE n == [r EXCEPT !.pc = p]
  <2>1. /\ n \in Refresh /\ n.pc = p /\ n.listed = r.listed
        /\ n.hash = r.hash /\ n.tip = r.tip /\ n.height = r.height
    BY <1>0, <1>6 DEF Refresh
  <2>2. Good(n)
    BY <1>0, <1>6, <2>1 DEF Good, Past, Listed, Confirmable
  <2> QED BY <1>a, <1>6, <2>1, <2>2, BecomesKeeps
<1>7. CASE ReadCountAgain(w)
  BY <1>6, <1>7 DEF ReadCountAgain, Listed, Confirmable
<1>8. CASE ReadBestAgain(w)
  BY <1>a, <1>6, <1>8, BecomesKeeps DEF ReadBestAgain, Listed, Confirmable
<1>9. CASE ReadCheckpointAgain(w)
  BY <1>6, <1>9 DEF ReadCheckpointAgain, Listed, Confirmable
<1>10. CASE ReplaceSnapshot(w)
  <2> DEFINE c == Candidate(r)
  <2>1. /\ r.hash \in Block /\ r.height = height[r.hash]
        /\ ~MayReturn => Allowed(r.listed, r.hash)
    BY <1>0, <1>10 DEF ReplaceSnapshot, Good, Past, Listed, Confirmable, IInv, TypeOK
  <2>2. /\ c \in Snapshot /\ c.height = height[c.hash]
        /\ ~MayReturn => Allowed(c.rows, c.hash)
    BY <1>0, <2>1 DEF Candidate, Snapshot, Refresh
  <2>3. cache' = c \/ cache' = cache
    BY <1>10 DEF ReplaceSnapshot
  <2>4. /\ run' = [run EXCEPT ![w] = Idle] /\ run \in [Writer -> Refresh]
        /\ UNCHANGED <<active, moves, left, pool, poolMoves, checkpoint, failures>>
    BY <1>10 DEF ReplaceSnapshot, envVars, IInv, TypeOK
  <2>5. Allowed(pool, active)'
    BY <1>b, <2>4 DEF Allowed, Confirmed
  <2>6. TypeOK'
    BY <1>a, <2>2, <2>3, <2>4, <2>5, IdleFits DEF IInv, TypeOK
  <2>7. ASSUME NEW v \in Writer PROVE Good(run[v])'
    <3>1. Good(run'[v])
      BY <1>a, <2>4 DEF IInv
    <3> QED BY <2>4, <3>1 DEF Good, Allowed, Confirmed
  <2>8. Gone' /\ Anchored'
    <3>1. ~MayReturn /\ cache' # NoSnapshot
            => Allowed(cache'.rows, cache'.hash) /\ cache'.height = height[cache'.hash]
      BY <2>2, <2>3 DEF IInv, Anchored, SnapshotOfAnchor
    <3> QED BY <2>4, <3>1 DEF IInv, Gone, Anchored, SnapshotOfAnchor, Allowed, Confirmed
  <2> QED BY <2>6, <2>7, <2>8 DEF IInv
<1> QED
  BY <1>1, <1>2, <1>3, <1>4, <1>5, <1>7, <1>8, <1>9, <1>10 DEF Step

\* Core, its mempool, the index and failures keep the invariant; Core because
\* the tip it moves to is none that a refresh has seen.
LEMMA NextKeeps == IInv /\ [Next]_vars => IInv'
<1> SUFFICES ASSUME IInv, [Next]_vars PROVE IInv'
  OBVIOUS
<1>1. CASE CoreMoves
  <2>1. PICK b \in Block, S \in SUBSET Tx :
          /\ Activate(b) /\ (~MayReturn => b \notin left) /\ left' = left \cup {active}
          /\ Allowed(S, b) /\ pool' = S
          /\ UNCHANGED <<poolMoves, checkpoint, run, failures, cache>>
    BY <1>1 DEF CoreMoves
  <2>2. active' = b /\ b # active /\ moves' \in 0..MaxMoves
    BY <2>1, MovesAssumption DEF Activate, IInv, TypeOK
  <2>3. Allowed(pool, active)'
    BY <2>1, <2>2 DEF Allowed, Confirmed
  <2>4. TypeOK'
    BY <2>1, <2>2, <2>3 DEF IInv, TypeOK
  <2>5. ASSUME NEW v \in Writer PROVE Good(run[v])'
    <3>1. Good(run[v]) /\ run'[v] = run[v]
      BY <2>1 DEF IInv
    <3>2. run[v].pc \in Past => run[v].hash \in left' /\ (~MayReturn => run[v].hash # b)
      BY <2>1, <2>2, <3>1 DEF Good
    <3> QED BY <2>1, <2>2, <3>1, <3>2 DEF Good, Past, Listed, Confirmable, Allowed, Confirmed
  <2>6. Gone' /\ Anchored'
    BY <2>1, <2>2 DEF IInv, Gone, Anchored, SnapshotOfAnchor, Allowed, Confirmed
  <2> QED BY <2>4, <2>5, <2>6 DEF IInv
<1>2. ASSUME TypeOK', UNCHANGED <<active, left, run, cache>> PROVE IInv'
  <2>1. \A v \in Writer : Good(run[v])'
    BY <1>2 DEF IInv, Good, Allowed, Confirmed
  <2> QED BY <1>2, <2>1 DEF IInv, Gone, Anchored, SnapshotOfAnchor, Allowed, Confirmed
<1>3. CASE PoolMoves
  <2>1. Allowed(pool, active)' /\ pool' \subseteq Tx
    BY <1>3 DEF PoolMoves, Allowed, Confirmed
  <2>2. poolMoves' \in 0..MaxPoolMoves
    BY <1>3, MempoolAssumption DEF PoolMoves, IInv, TypeOK
  <2>3. TypeOK'
    BY <1>3, <2>1, <2>2 DEF PoolMoves, IInv, TypeOK
  <2> QED BY <1>2, <1>3, <2>3 DEF PoolMoves
<1>4. CASE IndexMoves
  <2>1. Allowed(pool, active)'
    BY <1>4 DEF IndexMoves, IInv, TypeOK, Allowed, Confirmed
  <2>2. TypeOK'
    BY <1>4, <2>1 DEF IndexMoves, IInv, TypeOK
  <2> QED BY <1>2, <1>4, <2>2 DEF IndexMoves
<1>5. ASSUME NEW w \in Writer, Fail(w) PROVE IInv'
  <2>0. /\ run' = [run EXCEPT ![w] = Idle] /\ run \in [Writer -> Refresh]
        /\ failures' \in 0..MaxFailures
        /\ UNCHANGED <<active, moves, left, pool, poolMoves, checkpoint, cache>>
    BY <1>5, MempoolAssumption DEF Fail, envVars, IInv, TypeOK
  <2>1. Allowed(pool, active)'
    BY <2>0 DEF IInv, TypeOK, Allowed, Confirmed
  <2>2. TypeOK'
    BY <2>0, <2>1, IdleFits DEF IInv, TypeOK
  <2>3. ASSUME NEW v \in Writer PROVE Good(run[v])'
    <3>1. Good(run'[v])
      BY <2>0, IdleFits DEF IInv
    <3> QED BY <2>0, <3>1 DEF Good, Allowed, Confirmed
  <2> QED BY <2>0, <2>2, <2>3 DEF IInv, Gone, Anchored, SnapshotOfAnchor, Allowed, Confirmed
<1>6. CASE UNCHANGED vars
  <2>1. TypeOK'
    BY <1>6 DEF vars, IInv, TypeOK, Allowed, Confirmed
  <2> QED BY <1>2, <1>6, <2>1 DEF vars
<1> QED BY <1>1, <1>3, <1>4, <1>5, <1>6, StepKeeps DEF Next

\* For any tree, mempool policy and number of synchronizers, and although Core
\* may return to a tip it has left: every variable stays in its range, Core's
\* mempool fits its tip, and a refresh past its first comparison is anchored at
\* the checkpoint it read.
THEOREM SnapshotsTyped == Spec => []TypeOK
<1>1. IInv => TypeOK
  BY DEF IInv
<1> QED BY InitKeeps, NextKeeps, <1>1, PTL DEF Spec

\* If Core does not come back to a tip it has left, then for every number of
\* synchronizers and whatever moves between the calls of refreshOnce, a
\* published snapshot is a mempool that Core could hold on the snapshot's
\* anchor, and the anchor's height is that of its hash.
THEOREM SnapshotsCorrect ==
  ASSUME ~MayReturn PROVE Spec => []SnapshotOfAnchor
<1>1. IInv => SnapshotOfAnchor
  BY DEF IInv, Anchored
<1> QED BY InitKeeps, NextKeeps, <1>1, PTL DEF Spec
=============================================================================
