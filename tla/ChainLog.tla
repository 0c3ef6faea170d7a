------------------------------ MODULE ChainLog -------------------------------
(***************************************************************************)
(* What the confirmed index promises its readers, without any table: one   *)
(* chain, a block for every height from its root to its tip, that starts   *)
(* with one root, grows by one child of its tip at a time, and is cut back *)
(* to one of its own blocks.  A reader who asks for the block at a height  *)
(* (CanonicalBlockHash) reads chain[height].                               *)
(***************************************************************************)
EXTENDS BlockTree

VARIABLE chain   \* a function from heights to blocks

EmptyChain == [h \in {} |-> NoBlock]
Heights == DOMAIN chain
IsTop(h) == h \in Heights /\ \A g \in Heights : g <= h

Init == chain = EmptyChain

Bootstrap(b) ==
  /\ Heights = {}
  /\ prev[b] = NoBlock
  /\ chain' = [h \in {height[b]} |-> b]

Extend(b) ==
  /\ IsTop(height[b] - 1)
  /\ prev[b] = chain[height[b] - 1]
  /\ chain' = [h \in Heights \cup {height[b]} |-> IF h = height[b] THEN b ELSE chain[h]]

Retract(top) ==
  /\ top \in Heights
  /\ chain' = [h \in {g \in Heights : g <= top} |-> chain[h]]

Next == \/ \E b \in Block : Bootstrap(b) \/ Extend(b)
        \/ \E top \in Heights : Retract(top)

Spec == Init /\ [][Next]_chain
=============================================================================
