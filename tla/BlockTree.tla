------------------------------ MODULE BlockTree ------------------------------
(***************************************************************************)
(* The tree of blocks Core knows.  A hash commits to a block's height and  *)
(* parent, so both are constant functions of it.                           *)
(***************************************************************************)
EXTENDS Integers

CONSTANTS
  Block,      \* block hashes
  NoBlock,    \* the empty hash
  height,     \* chain.Block.Height
  prev        \* chain.Block.PreviousHash, NoBlock when empty

ASSUME TreeAssumption ==
  /\ NoBlock \notin Block
  /\ height \in [Block -> Nat]
  /\ prev \in [Block -> Block \cup {NoBlock}]

\* The branch that ends with a block.
Ancestry[b \in Block] == {b} \cup (IF prev[b] = NoBlock THEN {} ELSE Ancestry[prev[b]])
=============================================================================
