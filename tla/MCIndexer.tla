------------------------------ MODULE MCIndexer ------------------------------
(***************************************************************************)
(* A block tree for Indexer with branches that leave each other zero to    *)
(* three blocks below their tips.                                          *)
(*                                                                         *)
(*      g -- a1 -- a2 -- a3                                                *)
(*      |     \--- c2                                                      *)
(*      \--- b1 -- b2                                                      *)
(***************************************************************************)
EXTENDS Indexer

MCBlock == {"g", "a1", "a2", "a3", "b1", "b2", "c2"}
MCHeight == [b \in MCBlock |-> CASE b = "g" -> 0
                                 [] b \in {"a1", "b1"} -> 1
                                 [] b \in {"a2", "b2", "c2"} -> 2
                                 [] b = "a3" -> 3]
MCPrev == [b \in MCBlock |-> CASE b = "g" -> NoBlock
                               [] b \in {"a1", "b1"} -> "g"
                               [] b \in {"a2", "c2"} -> "a1"
                               [] b = "b2" -> "b1"
                               [] b = "a3" -> "a2"]
=============================================================================
