------------------------ MODULE DeploymentSyncProofs -------------------------
(***************************************************************************)
(* DeploymentSync's invariants, for every block tree, any number of        *)
(* observers and any bounds.  Neither is inductive alone: what a refresh   *)
(* may publish is decided several calls earlier, so the invariant follows  *)
(* the tip and the answer through the refresh.  That a damaged answer is   *)
(* refused or still right is a lemma about the decoding alone.             *)
(***************************************************************************)
EXTENDS DeploymentSync, TLAPS

\* A refresh past its first comparison has a block for its checkpoint, one past
\* its query has the rows of Core's answer for that block; and so has the
\* cache.
Anchored ==
  \A w \in Writer :
    /\ run[w].pc \notin {"idle", "count", "hash"} => run[w].tip \in Block
    /\ run[w].pc \in {"countAgain", "hashAgain", "tipAgain", "publish"}
         => run[w].info = Rows(deploymentInfo[run[w].tip])
CacheExact == cache # NoSnapshot => cache.info = Rows(deploymentInfo[cache.hash])
IInv == TypeOK /\ Anchored /\ CacheExact

-----------------------------------------------------------------------------
\* A step of one refresh that replaces its variables by a record that fits.
LEMMA BecomesKeeps ==
  ASSUME IInv, NEW w \in Writer, NEW r \in Refresh, Becomes(w, r),
         r.pc \notin {"idle", "count", "hash"} => r.tip \in Block,
         r.pc \in {"countAgain", "hashAgain", "tipAgain", "publish"}
           => r.info = Rows(deploymentInfo[r.tip])
  PROVE  IInv'
<1>1. TypeOK'
  BY DEF IInv, TypeOK, Becomes, envVars
<1>2. Anchored'
  BY DEF IInv, TypeOK, Anchored, Becomes
<1>3. CacheExact'
  BY DEF IInv, CacheExact, Becomes
<1> QED BY <1>1, <1>2, <1>3 DEF IInv

\* An observer that is between two refreshes.
LEMMA IdleFits == Idle \in Refresh
BY TreeAssumption DEF Idle, Refresh

\* The rows of an accepted answer are rows of the table.
LEMMA RowsFit ==
  ASSUME NEW info, InfoSound(info) PROVE Rows(info) \subseteq DeploymentRow
<1> SUFFICES ASSUME NEW n \in BIP9Names(info)
             PROVE  [name |-> n, status |-> info.deployments[n].bip9.status,
                     since |-> SinceHeight(info.deployments[n].bip9)] \in DeploymentRow
  BY DEF Rows
<1>1. n \in DeploymentName /\ DeploymentSound(info.deployments[n])
  BY DEF InfoSound, BIP9Names
<1>2. BIP9Sound(info.deployments[n])
  BY <1>1 DEF DeploymentSound, BIP9Names
<1>3. /\ info.deployments[n].bip9.status \in validBIP9Statuses
      /\ SinceHeight(info.deployments[n].bip9) \in Nat
  BY <1>2 DEF BIP9Sound, SinceSound, Required, SinceHeight
<1> QED BY <1>1, <1>3 DEF DeploymentRow

\* A refresh that has an answer with the right rows, or that gave up.
LEMMA AnswerFits ==
  ASSUME NEW r \in Refresh, NEW info, r.tip \in Block,
         Accepted(info, r.tip) => Rows(info) = Rows(deploymentInfo[r.tip])
  PROVE  LET n == AfterAnswer(r, info)
         IN  /\ n \in Refresh
             /\ n.pc \notin {"idle", "count", "hash"} => n.tip \in Block
             /\ n.pc \in {"countAgain", "hashAgain", "tipAgain", "publish"}
                  => n.info = Rows(deploymentInfo[n.tip])
<1>1. CASE Accepted(info, r.tip)
  <2> DEFINE n == [r EXCEPT !.pc = "countAgain", !.info = Rows(info)]
  <2>1. Rows(info) \in SUBSET DeploymentRow
    BY <1>1, RowsFit DEF Accepted
  <2>2. AfterAnswer(r, info) = n
    BY <1>1 DEF AfterAnswer
  <2>3. n \in Refresh /\ n.tip = r.tip /\ n.info = Rows(info)
    BY <2>1 DEF Refresh
  <2> QED BY <1>1, <2>2, <2>3
<1>2. CASE ~Accepted(info, r.tip)
  BY <1>2, IdleFits DEF AfterAnswer, Idle
<1> QED BY <1>1, <1>2

\* Damage to a bip9 object that decodeBIP9Deployment still accepts leaves
\* status and height as they were.
LEMMA BIP9DamageShows ==
  ASSUME NEW d, NEW b \in RawBIP9, NEW g \in GarbledBIP9(b), d.bip9 = g, BIP9Sound(d)
  PROVE  g.status = b.status /\ g.since = b.since
<1>1. g.status \in validBIP9Statuses /\ g.since \in Nat /\ g.since # Null
  BY DEF BIP9Sound, SinceSound, Required
<1>2. Null \notin validBIP9Statuses /\ "none" \notin validBIP9Statuses
  BY NullAssumption DEF validBIP9Statuses
<1>3. DOMAIN b = {"status", "status_next", "since", "bit", "start_time", "timeout",
                  "min_activation_height", "statistics", "signalling"}
  BY DEF RawBIP9
<1>4. CASE g \in Without(b, DOMAIN b)
  <2>1. PICK m \in DOMAIN b : g = [b EXCEPT ![m] = Null]
    BY <1>4 DEF Without
  <2>2. \A k \in DOMAIN b : g[k] = IF k = m THEN Null ELSE b[k]
    BY <2>1
  <2> QED BY <1>1, <1>2, <1>3, <2>2
<1>5. CASE g \notin Without(b, DOMAIN b)
  <2>1. \/ g = [b EXCEPT !.since = -1]
        \/ g = [b EXCEPT !.bit = 29]
        \/ g = [b EXCEPT !.status = "none"]
        \/ g = [b EXCEPT !.min_activation_height = -1]
        \/ g = [b EXCEPT !.signalling = {"#", "?"}]
        \/ \E s \in GarbledStatistics(b.statistics) : g = [b EXCEPT !.statistics = s]
    BY <1>5 DEF GarbledBIP9
  <2> QED BY <1>1, <1>2, <1>3, <2>1 DEF RawBIP9
<1> QED BY <1>4, <1>5

\* The same for a whole deployment: it stays a bip9 deployment with its status
\* and height, or stays none.
LEMMA DeploymentDamageShows ==
  ASSUME NEW d \in RawDeployment, NEW g \in GarbledDeployment(d), DeploymentSound(g)
  PROVE  /\ g.type = "bip9" <=> d.type = "bip9"
         /\ g.type = "bip9" => /\ g.bip9.status = d.bip9.status
                               /\ g.bip9.since = d.bip9.since
<1>1. g.type \in {"buried", "bip9"} /\ (g.type = "bip9" => BIP9Sound(g) /\ g.bip9 # Null)
  BY DEF DeploymentSound, BIP9Sound
<1>2. Null \notin {"buried", "bip9"} /\ "none" \notin {"buried", "bip9"}
  BY NullAssumption
<1>3. CASE g \in Without(d, {"type", "active", "height", "bip9"})
  <2>1. \/ g = [d EXCEPT !.type = Null] \/ g = [d EXCEPT !.active = Null]
        \/ g = [d EXCEPT !.height = Null] \/ g = [d EXCEPT !.bip9 = Null]
    BY <1>3 DEF Without
  <2> QED BY <1>1, <1>2, <2>1 DEF RawDeployment
<1>4. CASE g \in {[d EXCEPT !.type = "none"], [d EXCEPT !.height = -1]}
  BY <1>1, <1>2, <1>4 DEF RawDeployment
<1>5. ASSUME d.bip9 # Null, NEW b \in GarbledBIP9(d.bip9), g = [d EXCEPT !.bip9 = b]
      PROVE  /\ g.type = d.type
             /\ g.type = "bip9" => /\ g.bip9.status = d.bip9.status
                                   /\ g.bip9.since = d.bip9.since
  <2>1. g.type = d.type /\ g.bip9 = b /\ d.bip9 \in RawBIP9
    BY <1>5 DEF RawDeployment
  <2> QED BY <1>1, <2>1, BIP9DamageShows
<1> QED
  <2>1. \/ g \in Without(d, {"type", "active", "height", "bip9"})
        \/ g \in {[d EXCEPT !.type = "none"], [d EXCEPT !.height = -1]}
        \/ d.bip9 # Null /\ \E b \in GarbledBIP9(d.bip9) : g = [d EXCEPT !.bip9 = b]
    BY DEF GarbledDeployment
  <2> QED BY <2>1, <1>3, <1>4, <1>5

\* If a member of an answer is garbled, or one is lost that is not a whole
\* deployment, DecodeDeploymentInfo refuses it or finds the rows Core meant.
LEMMA GarblingShows ==
  ASSUME NEW b \in Block, NEW g \in Garbled(deploymentInfo[b]), Accepted(g, b)
  PROVE  /\ Rows(g) = Rows(deploymentInfo[b])
         /\ DOMAIN g.deployments = DOMAIN deploymentInfo[b].deployments
<1> DEFINE info == deploymentInfo[b]
           D == info.deployments
<1>1. /\ info \in [hash : {info.hash}, height : Nat, deployments : {D}]
      /\ D \in [DOMAIN D -> RawDeployment]
  BY DeploymentAssumption DEF IsAnswer
<1>2. InfoSound(g) /\ g.deployments # Null
  BY DEF Accepted, InfoSound
<1>3. CASE g.deployments = D
  BY <1>3 DEF Rows, BIP9Names
<1>4. ASSUME NEW n \in DOMAIN D, NEW d \in GarbledDeployment(D[n]),
             g = [info EXCEPT !.deployments[n] = d]
      PROVE  Rows(g) = Rows(info) /\ DOMAIN g.deployments = DOMAIN D
  <2>1. g.deployments = [D EXCEPT ![n] = d]
    BY <1>1, <1>4
  <2>2. /\ DOMAIN g.deployments = DOMAIN D
        /\ g.deployments[n] = d
        /\ \A k \in DOMAIN D \ {n} : g.deployments[k] = D[k]
    BY <1>1, <2>1
  <2>3. DeploymentSound(d) /\ D[n] \in RawDeployment
    BY <1>1, <1>2, <2>2 DEF InfoSound
  <2>4. /\ d.type = "bip9" <=> D[n].type = "bip9"
        /\ d.type = "bip9" => d.bip9.status = D[n].bip9.status /\ d.bip9.since = D[n].bip9.since
    BY <2>3, DeploymentDamageShows
  <2>5. BIP9Names(g) = BIP9Names(info)
    BY <2>2, <2>4 DEF BIP9Names
  <2>6. \A k \in BIP9Names(info) :
           /\ g.deployments[k].bip9.status = D[k].bip9.status
           /\ SinceHeight(g.deployments[k].bip9) = SinceHeight(D[k].bip9)
    BY <2>2, <2>4 DEF BIP9Names, SinceHeight
  <2> QED BY <2>2, <2>5, <2>6 DEF Rows
<1> QED
  <2>1. \/ \E m \in {"hash", "height", "deployments"} : g = [info EXCEPT ![m] = Null]
        \/ \E h : g = [info EXCEPT !.height = h]
        \/ \E n \in DOMAIN D : \E d \in GarbledDeployment(D[n]) :
              g = [info EXCEPT !.deployments[n] = d]
    BY DEF Garbled, Without
  <2>2. CASE \E m \in {"hash", "height", "deployments"} : g = [info EXCEPT ![m] = Null]
    <3>1. g.deployments = D \/ g.deployments = Null
      BY <1>1, <2>2
    <3> QED BY <3>1, <1>2, <1>3
  <2>3. CASE \E h : g = [info EXCEPT !.height = h]
    <3>1. g.deployments = D
      BY <1>1, <2>3
    <3> QED BY <3>1, <1>3
  <2> QED BY <2>1, <2>2, <2>3, <1>4

\* Whatever single member of an answer is lost or garbled, a whole deployment
\* included, DecodeDeploymentInfo refuses it or finds, of the rows Core meant,
\* exactly those of the deployments that are still there: none is altered and
\* none made up.  Only the loss of a whole deployment goes unnoticed.
THEOREM DamageShows ==
  ASSUME NEW b \in Block, NEW g \in Garbled(deploymentInfo[b]) \cup Shortened(deploymentInfo[b]),
         Accepted(g, b)
  PROVE  /\ Rows(g) = {r \in Rows(deploymentInfo[b]) : r.name \in DOMAIN g.deployments}
         /\ g \in Garbled(deploymentInfo[b]) => Rows(g) = Rows(deploymentInfo[b])
<1> DEFINE info == deploymentInfo[b]
           D == info.deployments
<1>1. CASE g \in Garbled(info)
  <2>1. Rows(g) = Rows(info) /\ DOMAIN g.deployments = DOMAIN D
    BY <1>1, GarblingShows
  <2>2. \A r \in Rows(info) : r.name \in DOMAIN D
    BY DEF Rows, BIP9Names
  <2> QED BY <2>1, <2>2
<1>2. ASSUME NEW n \in DOMAIN D,
             g = [info EXCEPT !.deployments = [k \in DOMAIN D \ {n} |-> D[k]]]
      PROVE  Rows(g) = {r \in Rows(info) : r.name \in DOMAIN g.deployments}
  <2>1. info \in [hash : {info.hash}, height : Nat, deployments : {D}]
    BY DeploymentAssumption DEF IsAnswer
  <2>2. g.deployments = [k \in DOMAIN D \ {n} |-> D[k]]
    BY <1>2, <2>1
  <2>3. /\ DOMAIN g.deployments = DOMAIN D \ {n}
        /\ \A k \in DOMAIN D \ {n} : g.deployments[k] = D[k]
    BY <2>2
  <2>4. BIP9Names(g) = BIP9Names(info) \ {n}
    BY <2>3 DEF BIP9Names
  <2> QED BY <2>3, <2>4 DEF Rows, BIP9Names
<1>3. Shortened(info) = {[info EXCEPT !.deployments = [k \in DOMAIN D \ {n} |-> D[k]]] : n \in DOMAIN D}
  BY DEF Shortened
<1>4. CASE g \in Shortened(info) /\ g \notin Garbled(info)
  BY <1>2, <1>3, <1>4
<1> QED
  BY <1>1, <1>4

\* Init establishes the invariant.
LEMMA InitKeeps == Init => IInv
BY IdleFits, MovesAssumption, DeploymentAssumption
   DEF Init, CoreInit, IInv, TypeOK, Anchored, CacheExact, Idle

\* Every call of refreshOnce keeps the invariant.
LEMMA StepKeeps ==
  ASSUME IInv, NEW w \in Writer, Step(w) PROVE IInv'
<1> DEFINE r == run[w]
<1> USE DEF At
<1>0. r \in Refresh
  BY DEF IInv, TypeOK
<1>a. Idle \in Refresh /\ Idle.pc = "idle"
  BY IdleFits DEF Idle
<1>b. GetBlockCount \in Nat
  BY TreeAssumption DEF GetBlockCount, IInv, TypeOK
<1>1. CASE ReadCheckpoint(w)
  <2> DEFINE n == [Idle EXCEPT !.pc = "count", !.tip = checkpoint]
  <2>1. n \in Refresh /\ n.pc = "count"
    BY DEF IInv, TypeOK, Idle, Refresh
  <2>2. Becomes(w, n)
    BY <1>1 DEF ReadCheckpoint
  <2> QED BY <2>1, <2>2, BecomesKeeps
<1>2. CASE ReadCount(w)
  <2> DEFINE n == [r EXCEPT !.pc = "hash", !.height = GetBlockCount]
  <2>1. n \in Refresh /\ n.pc = "hash"
    BY <1>0, <1>b DEF Refresh
  <2>2. Becomes(w, n)
    BY <1>2 DEF ReadCount
  <2> QED BY <2>1, <2>2, BecomesKeeps
<1>3. CASE ReadHash(w)
  <2>1. CASE SameTip(r.tip, r.height)
    <3> DEFINE n == [r EXCEPT !.pc = "query"]
    <3>1. n \in Refresh /\ n.pc = "query" /\ n.tip \in Block
      BY <1>0, <2>1 DEF Refresh, SameTip
    <3>2. Becomes(w, n)
      BY <1>3, <2>1 DEF ReadHash
    <3> QED BY <3>1, <3>2, BecomesKeeps
  <2>2. CASE ~SameTip(r.tip, r.height)
    BY <1>3, <1>a, <2>2, BecomesKeeps DEF ReadHash
  <2> QED BY <2>1, <2>2
<1>4. CASE GetDeploymentInfo(w)
  <2> DEFINE n == AfterAnswer(r, deploymentInfo[r.tip])
  <2>1. r.tip \in Block
    BY <1>4 DEF GetDeploymentInfo, IInv, Anchored
  <2>2. Becomes(w, n)
    BY <1>4 DEF GetDeploymentInfo
  <2>3. /\ n \in Refresh
        /\ n.pc \notin {"idle", "count", "hash"} => n.tip \in Block
        /\ n.pc \in {"countAgain", "hashAgain", "tipAgain", "publish"}
             => n.info = Rows(deploymentInfo[n.tip])
    BY <1>0, <2>1, AnswerFits
  <2> HIDE DEF n
  <2> QED BY <2>2, <2>3, BecomesKeeps
<1>5. ASSUME NEW p \in {"hashAgain", "tipAgain", "publish"},
             r.pc \in {"countAgain", "hashAgain", "tipAgain"},
             Becomes(w, [r EXCEPT !.pc = p]) \/ Becomes(w, Idle)
      PROVE  IInv'
  <2> DEFINE n == [r EXCEPT !.pc = p]
  <2>1. n \in Refresh /\ n.info = Rows(deploymentInfo[n.tip]) /\ n.tip \in Block
    BY <1>0, <1>5 DEF Refresh, IInv, Anchored
  <2> QED BY <1>a, <1>5, <2>1, BecomesKeeps
<1>6. CASE ReadCountAgain(w)
  BY <1>5, <1>6 DEF ReadCountAgain
<1>7. CASE ReadHashAgain(w)
  BY <1>5, <1>7 DEF ReadHashAgain
<1>8. CASE ReadCheckpointAgain(w)
  BY <1>5, <1>8 DEF ReadCheckpointAgain
<1>9. CASE ReplaceSnapshot(w)
  <2>1. r.tip \in Block /\ r.info = Rows(deploymentInfo[r.tip])
    BY <1>9 DEF ReplaceSnapshot, IInv, Anchored
  <2>2. cache' \in Snapshot /\ cache'.info = Rows(deploymentInfo[cache'.hash])
    BY <1>0, <1>9, <2>1 DEF ReplaceSnapshot, Snapshot, Refresh
  <2>3. run' = [run EXCEPT ![w] = Idle] /\ UNCHANGED <<envVars, failures>>
    BY <1>9 DEF ReplaceSnapshot
  <2>4. TypeOK' /\ Anchored'
    BY <1>a, <2>2, <2>3 DEF IInv, TypeOK, Anchored, envVars
  <2> QED BY <2>2, <2>4 DEF IInv, CacheExact
<1> QED
  BY <1>1, <1>2, <1>3, <1>4, <1>6, <1>7, <1>8, <1>9 DEF Step

\* A garbled answer keeps the invariant.
LEMMA GarbledKeeps ==
  ASSUME IInv, NEW w \in Writer, GetGarbledInfo(w) PROVE IInv'
<1> DEFINE r == run[w]
<1>1. r \in Refresh /\ r.tip \in Block
  BY DEF GetGarbledInfo, At, IInv, TypeOK, Anchored
<1>2. PICK info \in Garbled(deploymentInfo[r.tip]) :
        run' = [run EXCEPT ![w] = AfterAnswer(r, info)]
  BY DEF GetGarbledInfo
<1> DEFINE n == AfterAnswer(r, info)
<1>3. Accepted(info, r.tip) => Rows(info) = Rows(deploymentInfo[r.tip])
  BY <1>1, <1>2, GarblingShows
<1>4. /\ n \in Refresh
      /\ n.pc \notin {"idle", "count", "hash"} => n.tip \in Block
      /\ n.pc \in {"countAgain", "hashAgain", "tipAgain", "publish"}
           => n.info = Rows(deploymentInfo[n.tip])
  BY <1>1, <1>3, AnswerFits
<1>5. run' = [run EXCEPT ![w] = n]
  BY <1>2
<1> HIDE DEF n
<1>6. /\ UNCHANGED <<active, moves, checkpoint, cache>>
      /\ failures' \in 0..MaxFailures
  BY DeploymentAssumption DEF GetGarbledInfo, envVars, IInv, TypeOK
<1>7. TypeOK'
  BY <1>4, <1>5, <1>6 DEF IInv, TypeOK
<1>8. Anchored'
  BY <1>4, <1>5 DEF IInv, TypeOK, Anchored
<1>9. CacheExact'
  BY <1>6 DEF IInv, CacheExact
<1> QED BY <1>7, <1>8, <1>9 DEF IInv

\* Core, the index and failures keep the invariant.
LEMMA NextKeeps == IInv /\ [Next]_vars => IInv'
<1> SUFFICES ASSUME IInv, [Next]_vars PROVE IInv'
  OBVIOUS
<1>1. CASE \E b \in Block : Activate(b) /\ UNCHANGED <<checkpoint, run, failures, cache>>
  BY <1>1, MovesAssumption DEF Activate, IInv, TypeOK, Anchored, CacheExact
<1>2. CASE IndexMoves
  BY <1>2 DEF IndexMoves, IInv, TypeOK, Anchored, CacheExact
<1>3. ASSUME NEW w \in Writer, Fail(w) PROVE IInv'
  <2>1. Idle \in Refresh /\ Idle.pc = "idle"
    BY IdleFits DEF Idle
  <2>2. TypeOK'
    BY <1>3, <2>1, DeploymentAssumption DEF Fail, IInv, TypeOK, envVars
  <2>3. Anchored' /\ CacheExact'
    BY <1>3, <2>1 DEF Fail, IInv, TypeOK, Anchored, CacheExact
  <2> QED BY <2>2, <2>3 DEF IInv
<1>4. CASE UNCHANGED vars
  BY <1>4 DEF vars, IInv, TypeOK, Anchored, CacheExact
<1> QED BY <1>1, <1>2, <1>3, <1>4, StepKeeps, GarbledKeeps DEF Next

\* For every number of observers and every content of Core's answers, each
\* variable stays in its range; no damaged answer brings a row out of range
\* into a refresh or into the tables.
THEOREM DeploymentsTyped == Spec => []TypeOK
<1>1. IInv => TypeOK
  BY DEF IInv
<1> QED BY InitKeeps, NextKeeps, <1>1, PTL DEF Spec

\* For every number of observers, every content of Core's answers, and whatever
\* Core, the index, failures and damage to an answer do between the calls of
\* refreshOnce, a snapshot that deploymentStateFrom calls fresh holds the
\* deployments of the confirmed tip.
THEOREM DeploymentsCorrect == Spec => []FreshIsExact
<1>1. IInv => FreshIsExact
  BY DEF IInv, CacheExact, FreshIsExact, Status
<1> QED BY InitKeeps, NextKeeps, <1>1, PTL DEF Spec
=============================================================================
