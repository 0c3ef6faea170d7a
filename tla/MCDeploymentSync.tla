-------------------------- MODULE MCDeploymentSync ---------------------------
(***************************************************************************)
(* Tips of equal and of different heights, on two branches.  One           *)
(* deployment goes through its stages with the blocks; others are always   *)
(* active, over and buried.                                                *)
(*                                                                         *)
(*      g -- a1 -- a2                                                      *)
(*       \-- b1                                                            *)
(***************************************************************************)
EXTENDS DeploymentSync

MCBlock == {"g", "a1", "a2", "b1"}
MCHeight == [b \in MCBlock |-> CASE b = "g" -> 0 [] b \in {"a1", "b1"} -> 1 [] b = "a2" -> 2]
MCPrev == [b \in MCBlock |-> CASE b = "g" -> NoBlock
                               [] b \in {"a1", "b1"} -> "g"
                               [] b = "a2" -> "a1"]

BIP9(status, next, since, bit, statistics) ==
  [status |-> status, status_next |-> next, since |-> since, bit |-> bit,
   start_time |-> 5, timeout |-> 9, min_activation_height |-> 0,
   statistics |-> statistics, signalling |-> IF statistics = Null THEN Null ELSE {"#", "-"}]
Statistics(elapsed, count, threshold) ==
  [period |-> 2, elapsed |-> elapsed, count |-> count, threshold |-> threshold]
Deployment(bip9) ==
  [type |-> "bip9", active |-> bip9.status_next = "active", bip9 |-> bip9,
   height |-> IF bip9.status_next = "active" THEN 0 ELSE Null]
Buried == [type |-> "buried", active |-> TRUE, height |-> 0, bip9 |-> Null]

\* The stage of p2qpk at each block: signalling has not begun, the last block of
\* a period that reached its threshold, the first one of the period after it,
\* and a period nobody has signalled in.
Stage(b) ==
  CASE b = "g"  -> BIP9("defined", "started", 0, Null, Null)
    [] b = "a1" -> BIP9("started", "locked_in", 1, 28, Statistics(2, 2, 2))
    [] b = "a2" -> BIP9("locked_in", "active", 2, 28, Statistics(1, 0, Null))
    [] b = "b1" -> BIP9("started", "failed", 1, 0, Statistics(1, 0, 1))
Answer(b) ==
  [hash |-> b, height |-> MCHeight[b],
   deployments |->
     [p2qpk |-> Deployment(Stage(b)),
      taproot |-> Deployment([BIP9("active", "active", 0, Null, Null) EXCEPT !.start_time = -1]),
      testdummy |-> Deployment(BIP9("failed", "failed", 0, Null, Null)),
      segwit |-> Buried]]
AnswerData == [g |-> Answer("g"), a1 |-> Answer("a1"), a2 |-> Answer("a2"), b1 |-> Answer("b1")]
MCDeploymentInfo == AnswerData
=============================================================================
