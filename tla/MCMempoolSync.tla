--------------------------- MODULE MCMempoolSync -----------------------------
(***************************************************************************)
(* Three tips, two of the same height, and three transactions: 2 spends an *)
(* output of 1, and 3 conflicts with 1.                                    *)
(*                                                                         *)
(*      g -- a1 -- a2     a1 confirms 1, a2 confirms 2                     *)
(*       \-- b1           b1 confirms nothing                              *)
(***************************************************************************)
EXTENDS MempoolSync

MCBlock == {"g", "a1", "a2", "b1"}
MCHeight == [b \in MCBlock |-> CASE b = "g" -> 0 [] b \in {"a1", "b1"} -> 1 [] b = "a2" -> 2]
MCPrev == [b \in MCBlock |-> CASE b = "g" -> NoBlock
                               [] b \in {"a1", "b1"} -> "g"
                               [] b = "a2" -> "a1"]
MCTx == 1..3
MCCarries == [b \in MCBlock |-> CASE b = "a1" -> {1} [] b = "a2" -> {2} [] OTHER -> {}]
MCParents == [t \in MCTx |-> IF t = 2 THEN {1} ELSE {}]
MCConflicts == [t \in MCTx |-> CASE t = 1 -> {3} [] t = 3 -> {1} [] OTHER -> {}]
=============================================================================
