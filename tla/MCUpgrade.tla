------------------------------ MODULE MCUpgrade ------------------------------
(***************************************************************************)
(* A small tree for Upgrade:                                               *)
(*                                                                         *)
(*      g -- a1 -- a2                                                      *)
(*            \--- d2                                                      *)
(*                                                                         *)
(* a2 carries t1, which leaves a fee and a nulldata output, and t2, which  *)
(* spends t1.  d2 leaves a part of its reward unclaimed and only pays an   *)
(* address that nobody has paid before it; the genesis block adds nothing  *)
(* to the value of the coins.                                              *)
(***************************************************************************)
EXTENDS Upgrade, TLC

MCBlock == {"g", "a1", "a2", "d2"}
MCAddress == {"A", "B"}

MCHeight == [b \in Block |-> CASE b = "g" -> 0 [] b = "a1" -> 1 [] OTHER -> 2]
MCPrev == [b \in Block |->
  CASE b = "g" -> NoBlock [] b = "a1" -> "g" [] OTHER -> "a1"]

\* Every block's coinbase transaction is named after the block.
MCTx == Block \cup {"t1", "t2"}
MCTxs == [b \in Block |->
  IF b = "a2" THEN <<b, "t1", "t2">> ELSE <<b>>]
MCInputs == [t \in MCTx |->
  CASE t = "t1" -> {<<"a1", 0>>} [] t = "t2" -> {<<"t1", 1>>} [] OTHER -> {}]

\* Outpoints with their values; subsidies are 16, 16, 8.
MCValue ==
  <<"g", 0>> :> 16 @@ <<"a1", 0>> :> 16 @@ <<"a2", 0>> :> 9 @@
  <<"d2", 0>> :> 7 @@ <<"t1", 0>> :> 1 @@ <<"t1", 1>> :> 12 @@ <<"t1", 2>> :> 2 @@
  <<"t2", 0>> :> 12
MCOutput == DOMAIN MCValue
MCCreator == [o \in MCOutput |-> o[1]]
MCUnspendable == {<<"t1", 2>>}
MCDest == [o \in MCOutput |->
  CASE o \in {<<"t1", 1>>, <<"t1", 2>>} -> NoAddress
    [] o \in {<<"d2", 0>>, <<"t1", 0>>} -> "B"
    [] OTHER -> "A"]
=============================================================================
