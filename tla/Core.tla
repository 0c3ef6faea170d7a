-------------------------------- MODULE Core ---------------------------------
(***************************************************************************)
(* Qogecoin Core as its RPC clients see it: a node that always has one     *)
(* active branch, may switch to any other block it knows between any two   *)
(* calls (a new block, a reorganisation, a retreat to a shorter branch),   *)
(* and answers every call from the branch that is active then.  External:  *)
(* modelled from how internal/indexer uses getblockcount and getblockhash. *)
(***************************************************************************)
EXTENDS BlockTree

CONSTANT MaxMoves    \* how often Core moves before it settles
ASSUME MovesAssumption == MaxMoves \in Nat

\* Core counts heights from a genesis block.
ASSUME HeightAssumption ==
  \A b \in Block : height[b] = IF prev[b] = NoBlock THEN 0 ELSE height[prev[b]] + 1

VARIABLES active,    \* the active tip
          moves      \* moves so far
coreVars == <<active, moves>>

CoreInit == active \in Block /\ moves = 0

Activate(b) ==
  /\ moves < MaxMoves
  /\ b # active
  /\ active' = b
  /\ moves' = moves + 1

\* getblockcount; getblockhash fails above the active tip.
GetBlockCount == height[active]
HashKnown(h) == h \in 0..GetBlockCount
GetBlockHash(h) == CHOOSE b \in Ancestry[active] : height[b] = h
OnActiveChain(b) == b \in Ancestry[active]
=============================================================================
