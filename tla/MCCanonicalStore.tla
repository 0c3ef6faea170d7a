-------------------------- MODULE MCCanonicalStore ---------------------------
(***************************************************************************)
(* A small block tree for CanonicalStore.                                  *)
(*                                                                         *)
(*      g -- a1 -- a2 -- a3        s5 -- s6    (a chain without genesis)   *)
(*      |     |     \--- z3!                                               *)
(*      |     |\-- c2 -- c3        !  not valid on its own ancestry:       *)
(*      |      \-- y2!                z3 spends a spent coin, y2 claims    *)
(*      \--- b1 -- b2 -- e3           too much, x2 spends a missing coin,  *)
(*            |\    \--- d3!          n2 pays out more than it spends, d3  *)
(*            | \- x2!                repeats the coinbase of b1           *)
(*             \-- n2!                                                     *)
(*                                                                         *)
(* Transaction t1 is carried by both a2 and c2; t2 (in a2) and t3 (in c3)  *)
(* spend the same multisig coin; t2 spends an output of its own block; t1  *)
(* leaves a fee that a2 claims and c2 does not, and a nulldata output.     *)
(***************************************************************************)
EXTENDS CanonicalStore, TLC

MCBlock == {"g", "a1", "a2", "a3", "b1", "b2", "c2", "c3",
            "d3", "e3", "n2", "x2", "y2", "z3", "s5", "s6"}
MCAddress == {"A", "B"}

MCHeight == [b \in MCBlock |->
  CASE b = "g" -> 0
    [] b \in {"a1", "b1"} -> 1
    [] b \in {"a2", "b2", "c2", "n2", "x2", "y2"} -> 2
    [] b \in {"a3", "c3", "d3", "e3", "z3"} -> 3
    [] b = "s5" -> 5
    [] b = "s6" -> 6]

MCPrev == [b \in MCBlock |->
  CASE b \in {"g", "s5"} -> NoBlock
    [] b \in {"a1", "b1"} -> "g"
    [] b \in {"a2", "c2", "y2"} -> "a1"
    [] b \in {"b2", "n2", "x2"} -> "b1"
    [] b \in {"d3", "e3"} -> "b2"
    [] b \in {"a3", "z3"} -> "a2"
    [] b = "c3" -> "c2"
    [] b = "s6" -> "s5"]

\* Every block's coinbase transaction is named after the block.
MCTx == MCBlock \cup {"t1", "t2", "t3", "t4", "t5", "t6", "t7"}

MCTxs == [b \in MCBlock |->
  CASE b = "a2" -> <<b, "t1", "t2">>
    [] b \in {"c2", "x2"} -> <<b, "t1">>
    [] b \in {"c3", "z3"} -> <<b, "t3">>
    [] b = "a3" -> <<b, "t4">>
    [] b = "b2" -> <<b, "t5">>
    [] b = "n2" -> <<b, "t7">>
    [] b = "s6" -> <<b, "t6">>
    [] b = "d3" -> <<"b1">>
    [] OTHER -> <<b>>]

MCInputs == [t \in MCTx |->
  CASE t = "t1" -> {<<"a1", 0>>}
    [] t = "t2" -> {<<"t1", 1>>}
    [] t = "t3" -> {<<"t1", 0>>, <<"t1", 1>>}
    [] t = "t4" -> {<<"t2", 0>>, <<"a2", 0>>}
    [] t \in {"t5", "t7"} -> {<<"b1", 0>>}
    [] t = "t6" -> {<<"s5", 0>>}
    [] OTHER -> {}]

\* Outpoints with their values; subsidies are 16, 16, 8, 8, 4, 4, 0.
MCValue ==
  <<"g", 0>> :> 16 @@ <<"a1", 0>> :> 16 @@ <<"b1", 0>> :> 15 @@
  <<"a2", 0>> :> 9 @@ <<"c2", 0>> :> 8 @@ <<"x2", 0>> :> 8 @@ <<"y2", 0>> :> 9 @@
  <<"b2", 0>> :> 13 @@ <<"n2", 0>> :> 8 @@ <<"d3", 0>> :> 8 @@ <<"e3", 0>> :> 8 @@
  <<"a3", 0>> :> 8 @@ <<"c3", 0>> :> 8 @@ <<"z3", 0>> :> 8 @@
  <<"s5", 0>> :> 4 @@ <<"s6", 0>> :> 0 @@
  <<"t1", 0>> :> 1 @@ <<"t1", 1>> :> 12 @@ <<"t1", 2>> :> 2 @@
  <<"t2", 0>> :> 12 @@ <<"t3", 0>> :> 13 @@ <<"t4", 0>> :> 21 @@ <<"t6", 0>> :> 4 @@
  <<"t5", 0>> :> 10 @@ <<"t7", 0>> :> 16

MCOutput == DOMAIN MCValue
MCCreator == [o \in MCOutput |-> o[1]]
MCUnspendable == {<<"t1", 2>>}
MCDest == [o \in MCOutput |->
  CASE o \in {<<"t1", 1>>, <<"t1", 2>>, <<"s6", 0>>} -> NoAddress
    [] o[1] \in {"b1", "c2", "t1", "t3", "t6"} -> "B"
    [] OTHER -> "A"]
=============================================================================
