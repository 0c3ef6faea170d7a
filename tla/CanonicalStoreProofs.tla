------------------------ MODULE CanonicalStoreProofs -------------------------
(***************************************************************************)
(* For every block tree: the canonical rows form one chain ending at the   *)
(* checkpoint, what a reader sees by height is ChainLog, utxo_state is the *)
(* replay of the canonical chain, the address cache and the balance        *)
(* distribution are exact, the rollup rows cover whole chains and add up   *)
(* to the coins and to the subsidy schedule, rows stay as they were        *)
(* written, and replays change nothing.                                    *)
(***************************************************************************)
EXTENDS CanonicalStore, BasicProofs

\* Before the first block there is no row at all, so the bootstrap block's
\* foreign key forces it to have no parent.
BootstrapEmpty == checkpoint = NoBlock => blocks = {}

ChainInv == /\ ChainTypeOK
            /\ BootstrapEmpty
            /\ CanonicalLinked

\* A first block, or the child of the tip, keeps the canonical rows linked;
\* so does the replay of the tip (ApplyBlock).
LEMMA ApplyKeepsChain ==
  ASSUME ChainInv, NEW b \in Block, ApplyBlock(b)
  PROVE  ChainInv'
<1> USE TreeAssumption
<1>1. /\ blocks' = blocks \cup {b}
      /\ canonical' = canonical \cup {b}
      /\ checkpoint' = b /\ anchor' = b
      /\ checkCanonicalContinuity(b)
      /\ applyBlockHeader(b)
  BY DEF ApplyBlock, Accepts, UpdateLedger
<1>2. ChainTypeOK' /\ BootstrapEmpty'
  BY <1>1 DEF ChainInv, ChainTypeOK, BootstrapEmpty
<1>3. CASE checkpoint = NoBlock
  <2>1. canonical = {} /\ prev[b] = NoBlock
    BY <1>1, <1>3 DEF ChainInv, BootstrapEmpty, CanonicalLinked, applyBlockHeader
  <2>2. QED
    BY <1>1, <1>2, <2>1 DEF ChainInv, CanonicalLinked, LinkedChain
<1>4. CASE checkpoint # NoBlock /\ b = checkpoint
  <2>1. canonical' = canonical /\ checkpoint' = checkpoint
    BY <1>1, <1>4 DEF ChainInv, ChainTypeOK
  <2>2. QED
    BY <1>2, <2>1 DEF ChainInv, CanonicalLinked, LinkedChain
<1>5. CASE checkpoint # NoBlock /\ b # checkpoint
  <2>1. height[b] = height[checkpoint] + 1 /\ prev[b] = checkpoint
    BY <1>1, <1>5 DEF checkCanonicalContinuity
  <2>2. checkpoint \in canonical /\ canonical \subseteq Block
    BY <1>5 DEF ChainInv, ChainTypeOK
  <2>3. \A c \in canonical : height[c] < height[b] /\ height[c] \in Nat
    BY <2>1, <2>2 DEF ChainInv, CanonicalLinked
  <2>4. LinkedChain(canonical)'
    BY <1>1, <2>1, <2>2, <2>3 DEF ChainInv, CanonicalLinked, LinkedChain
  <2>5. ASSUME NEW c \in canonical'
        PROVE  /\ height[c] <= height[checkpoint']
               /\ c = checkpoint' \/ \E d \in canonical' : prev[d] = c /\ height[d] = height[c] + 1
    <3>1. CASE c = b
      BY <1>1, <3>1
    <3>2. CASE c = checkpoint
      BY <1>1, <2>1, <2>2, <2>3, <3>2
    <3>3. CASE c \in canonical /\ c # checkpoint
      <4>1. PICK d \in canonical : prev[d] = c /\ height[d] = height[c] + 1
        BY <3>3 DEF ChainInv, CanonicalLinked
      <4>2. d \in canonical' /\ height[c] <= height[checkpoint']
        BY <1>1, <2>3, <3>3
      <4>3. QED
        BY <4>1, <4>2
    <3>4. QED
      BY <1>1, <3>1, <3>2, <3>3
  <2>6. QED
    BY <1>1, <1>2, <2>4, <2>5 DEF ChainInv, CanonicalLinked
<1>6. QED
  BY <1>3, <1>4, <1>5

\* Cutting the rows above a canonical ancestor leaves a chain that ends at it
\* (RollbackTo).
LEMMA RollbackKeepsChain ==
  ASSUME ChainInv, NEW a \in Block, RollbackTo(a)
  PROVE  ChainInv'
<1> USE TreeAssumption
<1>1. /\ a \in canonical
      /\ blocks' = blocks
      /\ canonical' = {b \in canonical : height[b] <= height[a]}
      /\ checkpoint' = a /\ anchor' = a
  BY DEF RollbackTo, RollbackAccepted, AncestorFound, UpdateLedger, Orphans,
         ChainInv, ChainTypeOK
<1>2. canonical \subseteq Block /\ checkpoint \in canonical
  BY <1>1 DEF ChainInv, ChainTypeOK, CanonicalLinked
<1>3. ChainTypeOK' /\ BootstrapEmpty'
  BY <1>1 DEF ChainInv, ChainTypeOK, BootstrapEmpty
<1>4. LinkedChain(canonical)'
  BY <1>1, <1>2 DEF ChainInv, CanonicalLinked, LinkedChain
<1>5. ASSUME NEW b \in canonical', b # a
      PROVE  \E c \in canonical' : prev[c] = b /\ height[c] = height[b] + 1
  <2>1. height[b] < height[a] /\ b # checkpoint
    BY <1>1, <1>2, <1>5 DEF ChainInv, CanonicalLinked, LinkedChain
  <2>2. PICK c \in canonical : prev[c] = b /\ height[c] = height[b] + 1
    BY <1>1, <1>5, <2>1 DEF ChainInv, CanonicalLinked
  <2>3. c \in canonical'
    BY <1>1, <1>2, <2>1, <2>2
  <2>4. QED
    BY <2>2, <2>3
<1>6. QED
  BY <1>1, <1>3, <1>4, <1>5 DEF ChainInv, CanonicalLinked

\* Whatever blocks Core serves and whatever the callers ask for, in any
\* order, the store's canonical rows are one parent-linked chain ending at
\* the checkpoint, and the distribution anchor names one of them.
THEOREM ChainCorrect == Spec => [](ChainTypeOK /\ CanonicalLinked)
<1>1. Init => ChainInv
  BY DEF Init, ChainInv, ChainTypeOK, BootstrapEmpty, CanonicalLinked, LinkedChain
<1>2. ChainInv /\ [Next]_vars => ChainInv'
  <2> SUFFICES ASSUME ChainInv, [Next]_vars PROVE ChainInv'
    OBVIOUS
  <2>1. CASE UNCHANGED vars
    BY <2>1 DEF vars, ChainInv, ChainTypeOK, BootstrapEmpty, CanonicalLinked
  <2>2. ASSUME NEW b \in Block, ApplyBlock(b) PROVE ChainInv'
    BY <2>2, ApplyKeepsChain
  <2>3. ASSUME NEW a \in Block, RollbackTo(a) PROVE ChainInv'
    BY <2>3, RollbackKeepsChain
  <2>4. QED
    BY <2>1, <2>2, <2>3 DEF Next, RejectBlock, RejectRollback
<1>3. ChainInv => ChainTypeOK /\ CanonicalLinked
  BY DEF ChainInv
<1>4. QED
  BY <1>1, <1>2, <1>3, PTL DEF Spec

\* The chain is finite at any time.
FiniteChain == IsFiniteSet(canonical)

LEMMA ApplyKeepsFinite ==
  ASSUME FiniteChain, NEW b \in Block, ApplyBlock(b)
  PROVE  FiniteChain'
BY FS_AddElement DEF ApplyBlock, FiniteChain

LEMMA RollbackKeepsFinite ==
  ASSUME FiniteChain, NEW a \in Block, RollbackTo(a)
  PROVE  FiniteChain'
<1>1. canonical' \in SUBSET canonical
  BY DEF RollbackTo
<1>2. QED
  BY <1>1, FS_Subset DEF FiniteChain

LEMMA ChainFinite == Spec => []FiniteChain
<1>1. Init => FiniteChain
  BY FS_EmptySet DEF Init, FiniteChain
<1>2. FiniteChain /\ [Next]_vars => FiniteChain'
  <2> SUFFICES ASSUME FiniteChain, [Next]_vars PROVE FiniteChain'
    OBVIOUS
  <2>1. CASE UNCHANGED vars
    BY <2>1 DEF vars, FiniteChain
  <2>2. QED
    BY <2>1, ApplyKeepsFinite, RollbackKeepsFinite DEF Next, RejectBlock, RejectRollback
<1>3. QED
  BY <1>1, <1>2, PTL DEF Spec

\* On a linked chain, the branch of a block is what is not above it.
LEMMA BranchIsBelow ==
  ASSUME NEW S, S \subseteq Block, LinkedChain(S)
  PROVE  \A x \in S : Ancestry[x] = {b \in S : height[b] <= height[x]}
<1> DEFINE Low(x) == {b \in S : height[b] <= height[x]}
           Bad == {h \in Nat : \E x \in S : height[x] = h /\ Ancestry[x] # Low(x)}
<1>1. \A x \in S : height[x] \in Nat /\ x \in Block
  BY TreeAssumption
<1>2. ASSUME NEW x \in S, \A y \in S : height[y] < height[x] => Ancestry[y] = Low(y)
      PROVE  Ancestry[x] = Low(x)
  <2>1. Ancestry[x] = {x} \cup (IF prev[x] = NoBlock THEN {} ELSE Ancestry[prev[x]])
    BY AncestryIs
  <2>2. CASE prev[x] = NoBlock
    <3>1. NoBlock \notin S
      BY TreeAssumption
    <3>2. \A c \in S : height[x] <= height[c]
      BY <2>2, <3>1 DEF LinkedChain
    <3>3. \A c \in S : height[c] <= height[x] <=> c = x
      BY <1>1, <3>2 DEF LinkedChain
    <3>4. QED
      BY <2>1, <2>2, <3>3
  <2>3. CASE prev[x] # NoBlock
    <3> DEFINE p == prev[x]
    <3>1. p \in S /\ height[x] = height[p] + 1
      BY <2>3 DEF LinkedChain
    <3>2. Ancestry[p] = Low(p)
      BY <1>1, <1>2, <3>1
    <3>3. ASSUME NEW c \in S PROVE height[c] <= height[x] <=> c = x \/ height[c] <= height[p]
      <4>1. height[c] \in Nat /\ height[x] \in Nat /\ height[p] \in Nat
        BY <1>1, <3>1
      <4>2. height[c] = height[x] => c = x
        BY DEF LinkedChain
      <4> HIDE DEF p
      <4>3. QED
        BY <3>1, <4>1, <4>2
    <3>4. QED
      BY <2>1, <2>3, <3>2, <3>3
  <2>4. QED
    BY <2>2, <2>3
<1>3. Bad = {}
  <2> SUFFICES ASSUME Bad # {} PROVE FALSE
    OBVIOUS
  <2>1. Bad \subseteq Nat
    OBVIOUS
  <2> HIDE DEF Bad
  <2>2. PICK h \in Bad : \A k \in Bad : h <= k
    BY <2>1, Least
  <2>3. PICK x \in S : height[x] = h /\ Ancestry[x] # Low(x)
    BY DEF Bad
  <2>4. ASSUME NEW y \in S, height[y] < height[x] PROVE Ancestry[y] = Low(y)
    <3>1. height[y] \notin Bad
      BY <1>1, <2>2, <2>3, <2>4
    <3>2. QED
      BY <1>1, <3>1 DEF Bad
  <2>5. QED
    BY <1>2, <2>3, <2>4
<1>4. QED
  BY <1>1, <1>3

-----------------------------------------------------------------------------
(* The refinement of ChainLog                                              *)

ByHeight == [h \in {height[b] : b \in canonical} |-> CanonicalAt(h)]

\* The unique canonical index: reading by height finds the row.
LEMMA ReadByHeight ==
  ASSUME NEW S \in SUBSET Block, LinkedChain(S), NEW b \in S
  PROVE  (CHOOSE c \in S : height[c] = height[b]) = b
BY DEF LinkedChain

\* One committed ApplyBlock is a bootstrap, an extension or a stutter.
LEMMA ApplyRefines ==
  ASSUME ChainInv, NEW b \in Block, ApplyBlock(b)
  PROVE  [Log!Next]_ByHeight
<1> USE TreeAssumption
<1>1. /\ canonical' = canonical \cup {b} /\ canonical \subseteq Block
      /\ checkCanonicalContinuity(b) /\ applyBlockHeader(b)
      /\ checkpoint \in canonical \cup {NoBlock}
      /\ LinkedChain(canonical)
  BY DEF ApplyBlock, Accepts, ChainInv, ChainTypeOK, CanonicalLinked
<1>2. LinkedChain(canonical')
  BY ApplyKeepsChain DEF ChainInv, CanonicalLinked
<1>3. CASE checkpoint = NoBlock
  <2>1. canonical = {} /\ prev[b] = NoBlock
    BY <1>1, <1>3 DEF ChainInv, BootstrapEmpty, CanonicalLinked, applyBlockHeader
  <2>2. DOMAIN ByHeight = {}
    BY <2>1 DEF ByHeight
  <2>3. ByHeight' = [h \in {height[b]} |-> b]
    BY <1>1, <2>1 DEF ByHeight, CanonicalAt
  <2>4. Log!Bootstrap(b)
    BY <2>1, <2>2, <2>3 DEF Log!Bootstrap, Log!Heights, ByHeight
  <2>5. QED
    BY <2>4 DEF Log!Next
<1>4. CASE checkpoint # NoBlock /\ b = checkpoint
  <2>1. canonical' = canonical
    BY <1>1, <1>4
  <2>2. QED
    BY <2>1 DEF ByHeight, CanonicalAt
<1>5. CASE checkpoint # NoBlock /\ b # checkpoint
  <2>1. height[b] = height[checkpoint] + 1 /\ prev[b] = checkpoint /\ checkpoint \in canonical
    BY <1>1, <1>5 DEF checkCanonicalContinuity
  <2>2. \A c \in canonical : height[c] <= height[checkpoint]
    BY DEF ChainInv, CanonicalLinked
  <2> DEFINE top == height[b] - 1
             H == {height[c] : c \in canonical}
  <2>3. top = height[checkpoint] /\ top \in H /\ \A g \in H : g <= top
    <3>1. height[checkpoint] \in Nat
      BY <1>1, <2>1
    <3>2. top = height[checkpoint]
      BY <2>1, <3>1
    <3>3. height[checkpoint] \in H /\ \A g \in H : g <= height[checkpoint]
      BY <2>1, <2>2
    <3>4. QED
      BY <3>2, <3>3
  <2>4. ByHeight[top] = checkpoint
    BY <1>1, <2>1, <2>3, ReadByHeight DEF ByHeight, CanonicalAt
  <2>5. ASSUME NEW h \in H PROVE (CHOOSE c \in canonical' : height[c] = h) = ByHeight[h] /\ h # height[b]
    <3>1. PICK c \in canonical : height[c] = h
      OBVIOUS
    <3>2. (CHOOSE d \in canonical : height[d] = h) = c
      BY <1>1, <3>1, ReadByHeight
    <3>3. (CHOOSE d \in canonical' : height[d] = h) = c
      BY <1>1, <1>2, <3>1, ReadByHeight
    <3>4. h # height[b]
      BY <1>1, <2>1, <2>2, <3>1
    <3>5. QED
      BY <3>2, <3>3, <3>4 DEF ByHeight, CanonicalAt
  <2>6. (CHOOSE c \in canonical' : height[c] = height[b]) = b
    BY <1>1, <1>2, ReadByHeight
  <2>7. ByHeight' = [h \in H \cup {height[b]} |-> IF h = height[b] THEN b ELSE ByHeight[h]]
    <3>1. {height[c] : c \in canonical'} = H \cup {height[b]}
      BY <1>1
    <3>2. ByHeight' = [h \in H \cup {height[b]} |-> CHOOSE c \in canonical' : height[c] = h]
      BY <3>1 DEF ByHeight, CanonicalAt
    <3> DEFINE read(h) == CHOOSE c \in canonical' : height[c] = h
               want(h) == IF h = height[b] THEN b ELSE ByHeight[h]
    <3>3. \A h \in H \cup {height[b]} : read(h) = want(h)
      <4>1. ASSUME NEW h \in H PROVE read(h) = want(h)
        <5>1. read(h) = ByHeight[h] /\ h # height[b]
          BY <2>5
        <5>2. QED
          BY <5>1
      <4>2. read(height[b]) = want(height[b])
        BY <2>6
      <4>3. QED
        <5> HIDE DEF read, want, H
        <5>1. QED
          BY <4>1, <4>2
    <3>4. [h \in H \cup {height[b]} |-> read(h)] = [h \in H \cup {height[b]} |-> want(h)]
      <4> HIDE DEF read, want, H
      <4>1. QED
        BY <3>3
    <3>5. QED
      BY <3>2, <3>4
  <2>8. Log!Extend(b)
    BY <2>1, <2>3, <2>4, <2>7 DEF Log!Extend, Log!IsTop, Log!Heights, ByHeight
  <2>9. QED
    BY <2>8 DEF Log!Next
<1>6. QED
  BY <1>3, <1>4, <1>5

\* One committed RollbackTo cuts the chain at the ancestor's height.
LEMMA RollbackRefines ==
  ASSUME ChainInv, NEW a \in Block, RollbackTo(a)
  PROVE  Log!Next
<1> USE TreeAssumption
<1>1. /\ a \in canonical /\ canonical \subseteq Block /\ LinkedChain(canonical)
      /\ canonical' = {b \in canonical : height[b] <= height[a]}
  BY DEF RollbackTo, RollbackAccepted, AncestorFound, Orphans, ChainInv, ChainTypeOK,
         CanonicalLinked
<1>2. LinkedChain(canonical')
  BY RollbackKeepsChain DEF ChainInv, CanonicalLinked
<1> DEFINE H == {height[c] : c \in canonical}
           K == {g \in H : g <= height[a]}
<1>3. {height[c] : c \in canonical'} = K
  BY <1>1
<1>4. ASSUME NEW h \in K PROVE (CHOOSE c \in canonical' : height[c] = h) = ByHeight[h]
  <2>1. PICK c \in canonical : height[c] = h /\ c \in canonical'
    BY <1>1
  <2>2. (CHOOSE d \in canonical : height[d] = h) = c
    BY <1>1, <2>1, ReadByHeight
  <2>3. (CHOOSE d \in canonical' : height[d] = h) = c
    BY <1>1, <1>2, <2>1, ReadByHeight
  <2>4. QED
    BY <2>2, <2>3 DEF ByHeight, CanonicalAt
<1>5. ByHeight' = [h \in K |-> ByHeight[h]]
  <2>1. ByHeight' = [h \in K |-> CHOOSE c \in canonical' : height[c] = h]
    BY <1>3 DEF ByHeight, CanonicalAt
  <2> DEFINE read(h) == CHOOSE c \in canonical' : height[c] = h
  <2>2. \A h \in K : read(h) = ByHeight[h]
    BY <1>4
  <2>3. [h \in K |-> read(h)] = [h \in K |-> ByHeight[h]]
    <3> HIDE DEF read, K
    <3>1. QED
      BY <2>2
  <2>4. QED
    BY <2>1, <2>3
<1>6. height[a] \in H
  BY <1>1
<1>7. Log!Retract(height[a]) /\ height[a] \in Log!Heights
  BY <1>5, <1>6 DEF Log!Retract, Log!Heights, ByHeight
<1>8. QED
  BY <1>7 DEF Log!Next

\* What readers see by height is one chain that is started once, extended by
\* children of its tip and cut back to its own blocks, and nothing else
\* (CanonicalBlockHash over ApplyBlock and RollbackTo).
THEOREM StoreImplementsChainLog == Spec => ImplementsChainLog
<1>1. Init => ChainInv /\ Log!Init
  BY DEF Init, ChainInv, ChainTypeOK, BootstrapEmpty, CanonicalLinked, LinkedChain,
         Log!Init, Log!EmptyChain
<1>2. ChainInv /\ [Next]_vars => ChainInv' /\ [Log!Next]_ByHeight
  <2> SUFFICES ASSUME ChainInv, [Next]_vars PROVE ChainInv' /\ [Log!Next]_ByHeight
    OBVIOUS
  <2>1. CASE UNCHANGED vars
    BY <2>1 DEF vars, ChainInv, ChainTypeOK, BootstrapEmpty, CanonicalLinked,
                ByHeight, CanonicalAt
  <2>2. ASSUME NEW b \in Block, ApplyBlock(b) PROVE ChainInv' /\ [Log!Next]_ByHeight
    BY <2>2, ApplyKeepsChain, ApplyRefines
  <2>3. ASSUME NEW a \in Block, RollbackTo(a) PROVE ChainInv' /\ [Log!Next]_ByHeight
    BY <2>3, RollbackKeepsChain, RollbackRefines
  <2>4. QED
    BY <2>1, <2>2, <2>3 DEF Next, RejectBlock, RejectRollback
<1>3. QED
  BY <1>1, <1>2, PTL DEF Spec, ImplementsChainLog, Log!Spec, ByHeight

-----------------------------------------------------------------------------
(* The coins.  UtxoIsReplay says what the table is; CoinInv says it row by *)
(* row, in both directions, and adds the one fact a rollback needs: a coin *)
(* is never spent below the block that created it.                         *)

\* Every spendable output of a canonical block has its row.
CoinsCreated ==
  \A b \in canonical, o \in Output :
    AddsCoin(b, o) => utxo[o] # NoRow /\ utxo[o].created = b

\* Every row belongs to a spendable output of a canonical block.
CoinsOwned ==
  \A o \in Output : utxo[o] # NoRow =>
    utxo[o].created \in canonical /\ AddsCoin(utxo[o].created, o)

\* Every input of a canonical transaction is recorded as a spend.
SpendsRecorded ==
  \A b \in canonical, o \in Output : \A t \in TxSet(b) :
    o \in inputs[t] => /\ utxo[o] # NoRow
                       /\ utxo[o].spentBy = t
                       /\ utxo[o].spentIn = b

\* Every recorded spend is an input of a canonical transaction, at or above
\* the block that created the coin.
SpendsOwned ==
  \A o \in Output : utxo[o] # NoRow =>
    \/ utxo[o].spentBy = NoTx /\ utxo[o].spentIn = NoBlock
    \/ /\ utxo[o].spentIn \in canonical
       /\ utxo[o].spentBy \in TxSet(utxo[o].spentIn)
       /\ o \in inputs[utxo[o].spentBy]
       /\ height[utxo[o].created] <= height[utxo[o].spentIn]

CoinInv == /\ CoinTypeOK
           /\ CoinsCreated
           /\ CoinsOwned
           /\ SpendsRecorded
           /\ SpendsOwned

\* A block's transactions are transactions, at some position of it.
LEMMA TxPosition ==
  ASSUME NEW b \in Block
  PROVE  /\ TxSet(b) \subseteq Tx
         /\ \A t \in TxSet(b) : \E i \in DOMAIN txs[b] : txs[b][i] = t
         /\ \A i \in DOMAIN txs[b] : txs[b][i] \in TxSet(b)
         /\ DOMAIN txs[b] \subseteq Int
BY BlockDataAssumption DEF TxSet, Range

\* checkPrevout lets one transaction of a block, at most, spend an output,
\* so the spender of an output is whoever has it as an input.
LEMMA OneSpender ==
  ASSUME NEW b \in Block, applyTransactions(b),
         NEW t \in TxSet(b), NEW o \in Output, o \in inputs[t]
  PROVE  SpendsCoin(b, o) /\ Spender(b, o) = t
<1>1. ASSUME NEW s \in TxSet(b), o \in inputs[s] PROVE s = t
  <2>1. PICK i \in DOMAIN txs[b] : txs[b][i] = s
    BY TxPosition
  <2>2. PICK j \in DOMAIN txs[b] : txs[b][j] = t
    BY TxPosition
  <2>3. i \in Int /\ j \in Int /\ i >= 1 /\ j >= 1
    BY BlockDataAssumption
  <2>4. ~ (i < j)
    BY <1>1, <2>1, <2>2, <2>3 DEF applyTransactions, checkPrevout
  <2>5. ~ (j < i)
    BY <1>1, <2>1, <2>2, <2>3 DEF applyTransactions, checkPrevout
  <2>6. QED
    BY <2>1, <2>2, <2>3, <2>4, <2>5
<1>2. QED
  BY <1>1 DEF SpendsCoin, Spender

\* Re-applying the tip finds every row it would write and every spend it
\* would mark.
LEMMA ReplayKeepsCoins ==
  ASSUME ChainInv, CoinInv, NEW b \in canonical
  PROVE  CoinsAfter(b) = utxo
<1> USE TreeAssumption, IdentityAssumption
<1>1. b \in Block /\ utxo \in [Output -> CoinRow \cup {NoRow}]
  BY DEF ChainInv, ChainTypeOK, CoinInv, CoinTypeOK
<1>2. \A o \in Output : AddsCoin(b, o) => utxo[o] # NoRow
  BY DEF CoinInv, CoinsCreated
<1>3. ASSUME NEW o \in Output, SpendsCoin(b, o) PROVE utxo[o].spentBy # NoTx
  <2>1. PICK t \in TxSet(b) : o \in inputs[t]
    BY <1>3 DEF SpendsCoin
  <2>2. t \in Tx
    BY <1>1, TxPosition
  <2>3. QED
    BY <2>1, <2>2 DEF CoinInv, SpendsRecorded
<1>4. CoinsAfter(b) = [o \in Output |-> utxo[o]]
  BY <1>2, <1>3 DEF CoinsAfter
<1>5. QED
  BY <1>1, <1>4

\* A block above the tip finds none of its coins, and the coins it spends
\* unspent: an earlier canonical spender would be the same transaction in two
\* blocks of one chain.
LEMMA FreshPrevouts ==
  ASSUME ChainInv, CoinInv, NEW b \in Block, b \notin canonical, ApplyBlock(b)
  PROVE  /\ \A o \in Output : AddsCoin(b, o) => utxo[o] = NoRow
         /\ \A o \in Output : SpendsCoin(b, o) =>
              \/ utxo[o] # NoRow /\ utxo[o].spentBy = NoTx
              \/ utxo[o] = NoRow /\ AddsCoin(b, o)
<1> USE TreeAssumption, IdentityAssumption
<1>1. applyTransactions(b) /\ canonical' = canonical \cup {b} /\ canonical' \subseteq Block
  BY DEF ApplyBlock, Accepts, ChainInv, ChainTypeOK
<1>2. \A o \in Output : AddsCoin(b, o) => utxo[o] = NoRow
  BY <1>1 DEF applyTransactions, CoinInv, CoinsOwned
<1>3. ASSUME NEW o \in Output, SpendsCoin(b, o)
      PROVE  \/ utxo[o] # NoRow /\ utxo[o].spentBy = NoTx
             \/ utxo[o] = NoRow /\ AddsCoin(b, o)
  <2>1. PICK t \in TxSet(b) : o \in inputs[t]
    BY <1>3 DEF SpendsCoin
  <2>2. PICK i \in DOMAIN txs[b] : txs[b][i] = t
    BY TxPosition
  <2>3. /\ utxo[o] # NoRow \/ AddsCoin(b, o)
        /\ utxo[o] # NoRow => utxo[o].spentBy \in {NoTx, t}
    BY <1>1, <2>1, <2>2 DEF applyTransactions, checkPrevout
  <2>4. ASSUME utxo[o] # NoRow, utxo[o].spentBy = t PROVE FALSE
    <3> DEFINE c == utxo[o].spentIn
    <3>1. c \in canonical /\ t \in TxSet(c)
      BY <1>1, <2>1, <2>4, TxPosition DEF CoinInv, SpendsOwned
    <3>2. LinkedChain(canonical')
      <4>1. ChainInv'
        BY ApplyKeepsChain
      <4>2. QED
        BY <4>1 DEF ChainInv, CanonicalLinked
    <3>3. t \in Paying(b) \cap Paying(c)
      BY <2>1, <3>1 DEF Paying, IsCoinbase
    <3>4. b = c
      BY <1>1, <3>1, <3>2, <3>3, NoSecondInclusion
    <3>5. QED
      BY <3>1, <3>4
  <2>5. QED
    BY <2>3, <2>4
<1>4. QED
  BY <1>2, <1>3

\* ApplyBlock writes a coin per spendable output and marks what it spends.
LEMMA CoinsWritten ==
  ASSUME ChainInv, CoinInv, NEW b \in Block, b \notin canonical, ApplyBlock(b)
  PROVE  \A o \in Output :
           utxo'[o] =
             IF SpendsCoin(b, o)
             THEN [ created |-> IF utxo[o] = NoRow THEN b ELSE utxo[o].created,
                    spentBy |-> Spender(b, o), spentIn |-> b ]
             ELSE IF AddsCoin(b, o) THEN Coin(b) ELSE utxo[o]
<1>1. utxo' = CoinsAfter(b)
  BY DEF ApplyBlock, UpdateLedger
<1>2. QED
  BY <1>1, FreshPrevouts DEF CoinsAfter, Coin

\* So the table stays the replay of the chain.
LEMMA ApplyKeepsCoins ==
  ASSUME ChainInv, CoinInv, NEW b \in Block, ApplyBlock(b)
  PROVE  CoinInv'
<1> USE TreeAssumption, IdentityAssumption
<1>1. /\ utxo' = CoinsAfter(b)
      /\ canonical' = canonical \cup {b}
      /\ canonical \subseteq Block
      /\ applyTransactions(b)
  BY DEF ApplyBlock, Accepts, UpdateLedger, ChainInv, ChainTypeOK
<1>2. CASE b \in canonical
  <2>1. utxo' = utxo /\ canonical' = canonical
    BY <1>1, <1>2, ReplayKeepsCoins
  <2>2. QED
    BY <2>1 DEF CoinInv, CoinTypeOK, CoinsCreated, CoinsOwned, SpendsRecorded, SpendsOwned
<1>3. CASE b \notin canonical
  <2>1. utxo \in [Output -> CoinRow \cup {NoRow}]
    BY DEF CoinInv, CoinTypeOK
  <2>2. \A o \in Output :
          utxo'[o] =
            IF SpendsCoin(b, o)
            THEN [ created |-> IF utxo[o] = NoRow THEN b ELSE utxo[o].created,
                   spentBy |-> Spender(b, o), spentIn |-> b ]
            ELSE IF AddsCoin(b, o) THEN Coin(b) ELSE utxo[o]
    BY <1>3, CoinsWritten
  <2>3. \A o \in Output : SpendsCoin(b, o) =>
          Spender(b, o) \in TxSet(b) /\ Spender(b, o) \in Tx /\ o \in inputs[Spender(b, o)]
    BY <1>1, TxPosition DEF SpendsCoin, Spender
  <2>4. ASSUME NEW o \in Output, SpendsCoin(b, o)
         PROVE  /\ utxo'[o] \in CoinRow
                /\ utxo'[o].created = IF utxo[o] = NoRow THEN b ELSE utxo[o].created
                /\ utxo'[o].spentBy = Spender(b, o)
                /\ utxo'[o].spentIn = b
    <3> DEFINE from == IF utxo[o] = NoRow THEN b ELSE utxo[o].created
    <3>1. utxo'[o] = [created |-> from, spentBy |-> Spender(b, o), spentIn |-> b]
      BY <2>2, <2>4
    <3>2. from \in Block /\ Spender(b, o) \in Tx
      BY <2>1, <2>3, <2>4 DEF CoinRow
    <3>3. QED
      BY <3>1, <3>2 DEF CoinRow
  <2>5. ASSUME NEW o \in Output, ~SpendsCoin(b, o), AddsCoin(b, o)
         PROVE  utxo'[o] \in CoinRow /\ utxo'[o].created = b
    <3>1. utxo'[o] = [created |-> b, spentBy |-> NoTx, spentIn |-> NoBlock]
      BY <2>2, <2>5 DEF Coin
    <3>2. QED
      BY <3>1 DEF CoinRow
  <2>6. \A o \in Output : ~SpendsCoin(b, o) /\ ~AddsCoin(b, o) => utxo'[o] = utxo[o]
    BY <2>2
  <2>7. CoinTypeOK'
    <3>1. \A o \in Output : utxo'[o] \in CoinRow \cup {NoRow}
      BY <2>1, <2>4, <2>5, <2>6
    <3>2. utxo' = [o \in Output |-> utxo'[o]]
      BY <1>1 DEF CoinsAfter
    <3>3. QED
      BY <3>1, <3>2 DEF CoinTypeOK
  <2>8. CoinsCreated'
    <3> SUFFICES ASSUME NEW c \in canonical', NEW o \in Output, AddsCoin(c, o)
                 PROVE  utxo'[o] # NoRow /\ utxo'[o].created = c
      BY DEF CoinsCreated
    <3>1. CASE c = b
      BY <1>3, <2>4, <2>5, <3>1, FreshPrevouts
    <3>2. CASE c \in canonical
      <4>1. utxo[o] # NoRow /\ utxo[o].created = c /\ ~AddsCoin(b, o)
        BY <1>3, <3>2, FreshPrevouts DEF CoinInv, CoinsCreated
      <4>2. QED
        BY <2>4, <2>6, <4>1
    <3>3. QED
      BY <1>1, <3>1, <3>2
  <2>9. CoinsOwned'
    <3> SUFFICES ASSUME NEW o \in Output, utxo'[o] # NoRow
                 PROVE  utxo'[o].created \in canonical' /\ AddsCoin(utxo'[o].created, o)
      BY DEF CoinsOwned
    <3>1. CASE utxo[o] # NoRow
      <4>1. utxo[o].created \in canonical /\ AddsCoin(utxo[o].created, o) /\ ~AddsCoin(b, o)
        BY <1>3, <3>1, FreshPrevouts DEF CoinInv, CoinsOwned
      <4>2. utxo'[o].created = utxo[o].created
        BY <2>4, <2>6, <3>1, <4>1
      <4>3. QED
        BY <1>1, <4>1, <4>2
    <3>2. CASE utxo[o] = NoRow
      <4>1. AddsCoin(b, o)
        BY <1>3, <2>6, <3>2, FreshPrevouts
      <4>2. utxo'[o].created = b
        BY <2>4, <2>5, <3>2, <4>1
      <4>3. QED
        BY <1>1, <4>1, <4>2
    <3>3. QED
      BY <3>1, <3>2
  <2>10. SpendsRecorded'
    <3> SUFFICES ASSUME NEW c \in canonical', NEW o \in Output, NEW t \in TxSet(c), o \in inputs[t]
                 PROVE  utxo'[o] # NoRow /\ utxo'[o].spentBy = t /\ utxo'[o].spentIn = c
      BY DEF SpendsRecorded
    <3>1. CASE c = b
      <4>1. SpendsCoin(b, o) /\ Spender(b, o) = t
        BY <1>1, <3>1, OneSpender
      <4>2. QED
        BY <2>4, <3>1, <4>1
    <3>2. CASE c \in canonical
      <4>1. utxo[o] # NoRow /\ utxo[o].spentBy = t /\ utxo[o].spentIn = c /\ t \in Tx
        BY <1>1, <3>2, TxPosition DEF CoinInv, SpendsRecorded
      <4>2. ~SpendsCoin(b, o) /\ ~AddsCoin(b, o)
        BY <1>3, <4>1, FreshPrevouts
      <4>3. QED
        BY <2>2, <4>1, <4>2
    <3>3. QED
      BY <1>1, <3>1, <3>2
  <2>11. SpendsOwned'
    <3> SUFFICES ASSUME NEW o \in Output, utxo'[o] # NoRow
                 PROVE  \/ utxo'[o].spentBy = NoTx /\ utxo'[o].spentIn = NoBlock
                        \/ /\ utxo'[o].spentIn \in canonical'
                           /\ utxo'[o].spentBy \in TxSet(utxo'[o].spentIn)
                           /\ o \in inputs[utxo'[o].spentBy]
                           /\ height[utxo'[o].created] <= height[utxo'[o].spentIn]
      BY DEF SpendsOwned
    <3>1. CASE SpendsCoin(b, o)
      <4>1. utxo'[o].spentIn = b /\ utxo'[o].spentBy = Spender(b, o)
        BY <2>4, <3>1
      <4>2. height[utxo'[o].created] <= height[b]
        <5>1. ChainInv' /\ checkpoint' = b
          BY ApplyKeepsChain DEF ApplyBlock
        <5>2. utxo'[o].created \in canonical'
          BY <2>9 DEF CoinsOwned
        <5>3. QED
          BY <5>1, <5>2 DEF ChainInv, CanonicalLinked
      <4>3. QED
        BY <1>1, <2>3, <3>1, <4>1, <4>2
    <3>2. CASE ~SpendsCoin(b, o) /\ AddsCoin(b, o)
      <4>1. utxo'[o] = [created |-> b, spentBy |-> NoTx, spentIn |-> NoBlock]
        BY <2>2, <3>2 DEF Coin
      <4>2. QED
        BY <4>1
    <3>3. CASE ~SpendsCoin(b, o) /\ ~AddsCoin(b, o)
      BY <1>1, <2>2, <3>3 DEF CoinInv, SpendsOwned
    <3>4. QED
      BY <3>1, <3>2, <3>3
  <2>12. QED
    BY <2>7, <2>8, <2>9, <2>10, <2>11 DEF CoinInv
<1>4. QED
  BY <1>2, <1>3

\* RollbackTo undoes exactly the coins and the spends of the orphans: a spend
\* that stays was made at or below the ancestor, so its coin stays too.
LEMMA RollbackKeepsCoins ==
  ASSUME ChainInv, CoinInv, NEW a \in Block, RollbackTo(a)
  PROVE  CoinInv'
<1> USE TreeAssumption, IdentityAssumption
<1> DEFINE gone == Orphans(a)
<1>1. /\ utxo' = CoinsAfterRollback(gone)
      /\ canonical' = canonical \ gone
      /\ canonical \subseteq Block
      /\ utxo \in [Output -> CoinRow \cup {NoRow}]
  BY DEF RollbackTo, UpdateLedger, ChainInv, ChainTypeOK, CoinInv, CoinTypeOK
<1>2. NoBlock \notin gone /\ gone \subseteq canonical
  BY <1>1 DEF Orphans
<1> HIDE DEF gone
<1>3. ASSUME NEW o \in Output, utxo[o] = NoRow \/ utxo[o].created \in gone
      PROVE  utxo'[o] = NoRow
  BY <1>1, <1>3 DEF CoinsAfterRollback
<1>4. ASSUME NEW o \in Output, utxo[o] # NoRow, utxo[o].created \notin gone,
             utxo[o].spentIn \in gone
      PROVE  /\ utxo'[o] \in CoinRow
             /\ utxo'[o].created = utxo[o].created
             /\ utxo'[o].spentBy = NoTx /\ utxo'[o].spentIn = NoBlock
  <2>1. utxo'[o] = [created |-> utxo[o].created, spentBy |-> NoTx, spentIn |-> NoBlock]
    BY <1>1, <1>4 DEF CoinsAfterRollback, Coin
  <2>2. QED
    BY <1>1, <1>4, <2>1 DEF CoinRow
<1>5. ASSUME NEW o \in Output, utxo[o] # NoRow, utxo[o].created \notin gone,
             utxo[o].spentIn \notin gone
      PROVE  utxo'[o] = utxo[o]
  BY <1>1, <1>5 DEF CoinsAfterRollback
<1>6. CoinTypeOK'
  <2>1. \A o \in Output : utxo'[o] \in CoinRow \cup {NoRow}
    BY <1>1, <1>3, <1>4, <1>5
  <2>2. utxo' = [o \in Output |-> utxo'[o]]
    BY <1>1 DEF CoinsAfterRollback
  <2>3. QED
    BY <2>1, <2>2 DEF CoinTypeOK
<1>7. CoinsCreated'
  BY <1>1, <1>4, <1>5 DEF CoinInv, CoinsCreated
<1>8. CoinsOwned'
  BY <1>1, <1>3, <1>4, <1>5 DEF CoinInv, CoinsOwned
<1>9. SpendsRecorded'
  <2> SUFFICES ASSUME NEW b \in canonical', NEW o \in Output, NEW t \in TxSet(b), o \in inputs[t]
               PROVE  utxo'[o] # NoRow /\ utxo'[o].spentBy = t /\ utxo'[o].spentIn = b
    BY DEF SpendsRecorded
  <2>1. utxo[o] # NoRow /\ utxo[o].spentBy = t /\ utxo[o].spentIn = b
    BY <1>1 DEF CoinInv, SpendsRecorded
  <2>2. b \in Block /\ b # NoBlock /\ utxo[o].created \in canonical
    BY <1>1, <2>1 DEF CoinInv, CoinsOwned
  <2>3. height[utxo[o].created] <= height[b]
    BY <2>1, <2>2 DEF CoinInv, SpendsOwned
  <2>4. utxo[o].created \notin gone
    <3>1. ~ (height[b] > height[a])
      BY <1>1 DEF gone, Orphans
    <3>2. ~ (height[utxo[o].created] > height[a])
      BY <1>1, <2>2, <2>3, <3>1, BlockDataAssumption
    <3>3. QED
      BY <3>2 DEF gone, Orphans
  <2>5. QED
    BY <1>1, <1>5, <2>1, <2>4
<1>10. SpendsOwned'
  <2> SUFFICES ASSUME NEW o \in Output, utxo'[o] # NoRow
               PROVE  \/ utxo'[o].spentBy = NoTx /\ utxo'[o].spentIn = NoBlock
                      \/ /\ utxo'[o].spentIn \in canonical'
                         /\ utxo'[o].spentBy \in TxSet(utxo'[o].spentIn)
                         /\ o \in inputs[utxo'[o].spentBy]
                         /\ height[utxo'[o].created] <= height[utxo'[o].spentIn]
    BY DEF SpendsOwned
  <2>1. utxo[o] # NoRow /\ utxo[o].created \notin gone
    BY <1>3
  <2>2. CASE utxo[o].spentIn \in gone
    BY <1>4, <2>1, <2>2
  <2>3. CASE utxo[o].spentIn \notin gone
    BY <1>1, <1>5, <2>1, <2>3 DEF CoinInv, SpendsOwned
  <2>4. QED
    BY <2>2, <2>3
<1>11. QED
  BY <1>6, <1>7, <1>8, <1>9, <1>10 DEF CoinInv

\* The row-by-row invariant determines the table.
LEMMA CoinInvIsReplay ==
  ASSUME ChainInv, CoinInv
  PROVE  UtxoIsReplay
<1> USE TreeAssumption, IdentityAssumption
<1> SUFFICES ASSUME NEW o \in Output PROVE utxo[o] = CoinOf(o)
  BY DEF UtxoIsReplay
<1> DEFINE made == {b \in canonical : AddsCoin(b, o)}
           used == {b \in canonical : SpendsCoin(b, o)}
<1>1. utxo[o] \in CoinRow \cup {NoRow} /\ canonical \subseteq Block
  BY DEF ChainInv, ChainTypeOK, CoinInv, CoinTypeOK
<1>2. \A b \in made : utxo[o] # NoRow /\ b = utxo[o].created
  BY DEF CoinInv, CoinsCreated
<1>3. utxo[o] # NoRow => utxo[o].created \in made
  BY DEF CoinInv, CoinsOwned
<1>4. ASSUME NEW b \in used
      PROVE  utxo[o] # NoRow /\ b = utxo[o].spentIn /\ Spender(b, o) = utxo[o].spentBy
  <2>1. \A t \in TxSet(b) : o \in inputs[t] =>
          utxo[o] # NoRow /\ t = utxo[o].spentBy /\ b = utxo[o].spentIn
    BY DEF CoinInv, SpendsRecorded
  <2>2. \E t \in TxSet(b) : o \in inputs[t]
    BY DEF SpendsCoin
  <2>3. QED
    BY <2>1, <2>2 DEF Spender
<1>5. CASE utxo[o] = NoRow
  BY <1>2, <1>5 DEF CoinOf
<1>6. CASE utxo[o] # NoRow
  <2>1. (CHOOSE b \in made : TRUE) = utxo[o].created /\ made # {}
    BY <1>2, <1>3, <1>6
  <2>2. CASE used = {}
    <3>1. utxo[o].spentBy = NoTx /\ utxo[o].spentIn = NoBlock
      BY <1>6, <2>2 DEF CoinInv, SpendsOwned, SpendsCoin
    <3>2. QED
      BY <1>1, <1>6, <2>1, <2>2, <3>1 DEF CoinOf, CoinRow
  <2>3. CASE used # {}
    <3>1. (CHOOSE b \in used : TRUE) \in used
      BY <2>3
    <3>2. QED
      BY <1>1, <1>4, <1>6, <2>1, <2>3, <3>1 DEF CoinOf, CoinRow
  <2>4. QED
    BY <2>2, <2>3
<1>7. QED
  BY <1>5, <1>6

\* The chain and its coins together are inductive.
LEMMA CoinsInvariant == Spec => [](ChainInv /\ CoinInv)
<1>1. Init => ChainInv /\ CoinInv
  BY DEF Init, ChainInv, ChainTypeOK, BootstrapEmpty, CanonicalLinked, LinkedChain,
         CoinInv, CoinTypeOK, CoinsCreated, CoinsOwned, SpendsRecorded, SpendsOwned
<1>2. ChainInv /\ CoinInv /\ [Next]_vars => (ChainInv /\ CoinInv)'
  <2> SUFFICES ASSUME ChainInv, CoinInv, [Next]_vars PROVE (ChainInv /\ CoinInv)'
    OBVIOUS
  <2>1. CASE UNCHANGED vars
    BY <2>1 DEF vars, ChainInv, ChainTypeOK, BootstrapEmpty, CanonicalLinked,
                CoinInv, CoinTypeOK, CoinsCreated, CoinsOwned, SpendsRecorded, SpendsOwned
  <2>2. ASSUME NEW b \in Block, ApplyBlock(b) PROVE (ChainInv /\ CoinInv)'
    BY <2>2, ApplyKeepsChain, ApplyKeepsCoins
  <2>3. ASSUME NEW a \in Block, RollbackTo(a) PROVE (ChainInv /\ CoinInv)'
    BY <2>3, RollbackKeepsChain, RollbackKeepsCoins
  <2>4. QED
    BY <2>1, <2>2, <2>3 DEF Next, RejectBlock, RejectRollback
<1>3. QED
  BY <1>1, <1>2, PTL DEF Spec

\* After any sequence of committed calls, on any block tree, utxo_state is
\* what replaying the canonical chain from nothing yields (ApplyBlock,
\* markSpent, RollbackTo).
THEOREM CoinsCorrect == Spec => []UtxoIsReplay
<1>1. ChainInv /\ CoinInv => UtxoIsReplay
  BY CoinInvIsReplay
<1>2. QED
  BY <1>1, CoinsInvariant, PTL

-----------------------------------------------------------------------------
(* The address cache                                                       *)

\* recomputeAddress reads nothing but the coins that pay the address.
LEMMA RecomputeReadsOwnCoins ==
  ASSUME NEW a \in Address, NEW old, NEW new,
         \A o \in Output : dest[o] = a => old[o] = new[o]
  PROVE  recomputeAddress(a, old) = recomputeAddress(a, new)
<1> DEFINE mine(c) == {o \in Output : dest[o] = a /\ c[o] # NoRow}
           spent(c) == {o \in mine(c) : c[o].spentBy # NoTx}
           txids(c) == {creator[o] : o \in mine(c)} \cup {c[o].spentBy : o \in spent(c)}
           seen(c) == {height[c[o].created] : o \in mine(c)}
           used(c) == {height[c[o].spentIn] : o \in spent(c)}
<1>1. mine(old) = mine(new)
  OBVIOUS
<1>2. spent(old) = spent(new)
  BY <1>1
<1>3. txids(old) = txids(new)
  BY <1>1, <1>2
<1>4. seen(old) = seen(new) /\ used(old) = used(new)
  BY <1>1, <1>2
<1>5. QED
  BY <1>1, <1>2, <1>3, <1>4 DEF recomputeAddress

\* A call that leaves the coins of every untouched address alone, and
\* recomputes the touched ones, keeps the cache exact (UpdateLedger).
LEMMA LedgerKeepsCache ==
  ASSUME AddressCacheExact, NEW touched, NEW coins, NEW tip,
         UpdateLedger(touched, coins, tip),
         \A o \in Output : utxo[o] = coins[o] \/ dest[o] \in touched \cup {NoAddress}
  PROVE  AddressCacheExact'
<1> SUFFICES ASSUME NEW a \in Address PROVE addresses'[a] = recomputeAddress(a, coins)
  BY DEF AddressCacheExact, UpdateLedger
<1>1. CASE a \in touched
  BY <1>1 DEF UpdateLedger, AddressesAfter
<1>2. CASE a \notin touched
  <2>1. \A o \in Output : dest[o] = a => utxo[o] = coins[o]
    BY <1>2, IdentityAssumption
  <2>2. recomputeAddress(a, utxo) = recomputeAddress(a, coins)
    BY <2>1, RecomputeReadsOwnCoins
  <2>3. QED
    BY <1>2, <2>2 DEF UpdateLedger, AddressesAfter, AddressCacheExact
<1>3. QED
  BY <1>1, <1>2

LEMMA ApplyKeepsCache ==
  ASSUME AddressCacheExact, NEW b \in Block, ApplyBlock(b)
  PROVE  AddressCacheExact'
<1>1. \A o \in Output : utxo[o] = CoinsAfter(b)[o]
                          \/ dest[o] \in TouchedBy(b) \cup {NoAddress}
  BY DEF CoinsAfter, TouchedBy, AddsCoin, OutsOf
<1>2. QED
  BY <1>1, LedgerKeepsCache DEF ApplyBlock

LEMMA RollbackKeepsCache ==
  ASSUME AddressCacheExact, NEW a \in Block, RollbackTo(a)
  PROVE  AddressCacheExact'
<1>1. \A o \in Output : utxo[o] = CoinsAfterRollback(Orphans(a))[o]
                          \/ dest[o] \in TouchedByRollback(Orphans(a)) \cup {NoAddress}
  BY DEF CoinsAfterRollback, TouchedByRollback
<1>2. QED
  BY <1>1, LedgerKeepsCache DEF RollbackTo

\* An empty database has no address to cache.
LEMMA InitCache == Init => AddressCacheExact
<1> SUFFICES ASSUME Init, NEW a \in Address PROVE recomputeAddress(a, utxo) = NoRow
  BY DEF Init, AddressCacheExact
<1> DEFINE mine == {o \in Output : dest[o] = a /\ utxo[o] # NoRow}
           spent == {o \in mine : utxo[o].spentBy # NoTx}
<1>1. mine = {} /\ spent = {}
  BY DEF Init
<1>2. {creator[o] : o \in mine} \cup {utxo[o].spentBy : o \in spent} = {}
  BY <1>1
<1>3. QED
  BY <1>2 DEF recomputeAddress

\* The cached row of every address is what a recomputation from the current
\* coins would write, whichever calls touched it (ApplyBlock and RollbackTo
\* recompute every address a changed coin pays).
THEOREM AddressCacheCorrect == Spec => []AddressCacheExact
<1>1. Init => AddressCacheExact
  BY InitCache
<1>2. AddressCacheExact /\ [Next]_vars => AddressCacheExact'
  <2> SUFFICES ASSUME AddressCacheExact, [Next]_vars PROVE AddressCacheExact'
    OBVIOUS
  <2>1. CASE UNCHANGED vars
    BY <2>1 DEF vars, AddressCacheExact
  <2>2. QED
    BY <2>1, ApplyKeepsCache, RollbackKeepsCache DEF Next, RejectBlock, RejectRollback
<1>3. QED
  BY <1>1, <1>2, PTL DEF Spec

-----------------------------------------------------------------------------
(* The distribution                                                        *)

\* What a coin row must be for recomputeAddress to read it.
ReadableCoins(coins) ==
  \A o \in Output : coins[o] # NoRow =>
    /\ coins[o].created \in Block
    /\ coins[o].spentBy # NoTx => coins[o].spentIn \in Block

\* recomputeAddress writes non-negative totals.
LEMMA RecomputeTyped ==
  ASSUME NEW a \in Address, NEW coins, ReadableCoins(coins)
  PROVE  recomputeAddress(a, coins) \in AddressRow \cup {NoRow}
<1> DEFINE mine == {o \in Output : dest[o] = a /\ coins[o] # NoRow}
           spent == {o \in mine : coins[o].spentBy # NoTx}
           txids == {creator[o] : o \in mine} \cup {coins[o].spentBy : o \in spent}
           seen == {height[coins[o].created] : o \in mine}
           used == {height[coins[o].spentIn] : o \in spent}
<1> USE TreeAssumption, BlockDataAssumption, FiniteRowsAssumption
<1>1. IsFiniteSet(mine) /\ IsFiniteSet(spent) /\ IsFiniteSet(mine \ spent)
  BY FS_Subset
<1>2. IsFiniteSet(txids)
  <2> DEFINE made == {creator[o] : o \in mine}
             took == {coins[o].spentBy : o \in spent}
             by == [o \in Output |-> coins[o].spentBy]
  <2>1. /\ \A y \in made : \E o \in mine : y = creator[o]
        /\ \A y \in took : \E o \in spent : y = by[o]
    OBVIOUS
  <2> HIDE DEF mine, spent, made, took, by
  <2>2. IsFiniteSet(made) /\ IsFiniteSet(took)
    BY <1>1, <2>1, FiniteImage
  <2>3. QED
    BY <2>2, FS_Union DEF made, took
<1>3. IsFiniteSet(seen) /\ IsFiniteSet(used) /\ IsFiniteSet(seen \cup used)
  <2> DEFINE at == [o \in Output |-> height[coins[o].created]]
             in == [o \in Output |-> height[coins[o].spentIn]]
  <2>1. /\ \A y \in seen : \E o \in mine : y = at[o]
        /\ \A y \in used : \E o \in spent : y = in[o]
    OBVIOUS
  <2> HIDE DEF mine, spent, seen, used, at, in
  <2>2. IsFiniteSet(seen) /\ IsFiniteSet(used)
    BY <1>1, <2>1, FiniteImage
  <2>3. QED
    BY <2>2, FS_Union
<1>4. /\ seen \subseteq Nat /\ used \subseteq Nat /\ seen \subseteq Int
      /\ seen \cup used \subseteq Int
  BY DEF ReadableCoins
<1>5. CASE txids = {}
  BY <1>5 DEF recomputeAddress
<1>6. CASE txids # {}
  <2>1. mine # {}
    BY <1>6
  <2>2. seen # {} /\ seen \cup used # {}
    <3>1. PICK o : o \in mine
      BY <2>1
    <3>2. height[coins[o].created] \in seen
      BY <3>1
    <3>3. QED
      BY <3>2
  <2>3. Min(seen) \in Nat
    <3> HIDE DEF seen
    <3>1. \E x \in seen : \A y \in seen : x <= y
      BY <1>3, <1>4, <2>2, FiniteHasEnds
    <3>2. QED
      BY <1>4, <3>1 DEF Min
  <2>4. Max(seen \cup used) \in Nat
    <3> HIDE DEF seen, used
    <3>1. \E x \in seen \cup used : \A y \in seen \cup used : x >= y
      BY <1>3, <1>4, <2>2, FiniteHasEnds
    <3>2. QED
      BY <1>4, <3>1 DEF Max
  <2>5. ValueOf(mine) \in Nat /\ ValueOf(spent) \in Nat /\ ValueOf(mine \ spent) \in Nat
    BY <1>1, SumNat DEF ValueOf
  <2>6. Cardinality(txids) \in Nat
    BY <1>2, FS_CardinalityType
  <2>7. recomputeAddress(a, coins) =
          [ received |-> ValueOf(mine), sent |-> ValueOf(spent),
            balance |-> ValueOf(mine \ spent), txCount |-> Cardinality(txids),
            first |-> Min(seen), last |-> Max(seen \cup used) ]
    BY <1>6 DEF recomputeAddress
  <2> HIDE DEF mine, spent, txids, seen, used
  <2>8. QED
    BY <2>3, <2>4, <2>5, <2>6, <2>7 DEF AddressRow
<1>7. QED
  BY <1>5, <1>6

\* Two caches that differ on the touched addresses only: what a bucket holds
\* is what it held, without what the touched addresses brought it before, and
\* with what they bring it now (distributionDelta.observe).
LEMMA DeltaExact ==
  ASSUME NEW touched \in SUBSET Address, NEW old, NEW new, NEW k \in Bucket,
         \A a \in Address \ touched : new[a] = old[a],
         \A a \in Address : Balance(old[a]) \in Nat /\ Balance(new[a]) \in Nat
  PROVE  /\ Cardinality(Members(k, Address, new)) \in Nat
         /\ Holdings(k, Address, new) \in Nat
         /\ Cardinality(Members(k, Address, new)) =
              Cardinality(Members(k, Address, old)) - Cardinality(Members(k, touched, old))
                                                    + Cardinality(Members(k, touched, new))
         /\ Holdings(k, Address, new) =
              Holdings(k, Address, old) - Holdings(k, touched, old) + Holdings(k, touched, new)
<1> DEFINE rest == Address \ touched
           before == [a \in Address |-> Balance(old[a])]
           after == [a \in Address |-> Balance(new[a])]
           M(S, c) == Members(k, S, c)
<1>1. /\ M(rest, new) = M(rest, old)
      /\ M(Address, old) = M(touched, old) \cup M(rest, old)
      /\ M(Address, new) = M(touched, new) \cup M(rest, old)
      /\ M(touched, old) \cap M(rest, old) = {}
      /\ M(touched, new) \cap M(rest, old) = {}
  BY DEF Members
<1>2. /\ M(Address, new) \in SUBSET Address /\ M(Address, old) \in SUBSET Address
      /\ M(touched, new) \in SUBSET Address /\ M(touched, old) \in SUBSET Address
      /\ M(rest, old) \in SUBSET Address
  BY DEF Members
<1>3. \A S \in SUBSET Address : IsFiniteSet(S) /\ Cardinality(S) \in Nat
  BY FiniteRowsAssumption, FS_Subset, FS_CardinalityType
<1>4. \A a \in Address : before[a] \in Nat /\ after[a] \in Nat /\ before[a] \in Int /\ after[a] \in Int
  OBVIOUS
<1>5. /\ Holdings(k, Address, old) = SumFunctionOnSet(before, M(Address, old))
      /\ Holdings(k, Address, new) = SumFunctionOnSet(after, M(Address, new))
      /\ Holdings(k, touched, old) = SumFunctionOnSet(before, M(touched, old))
      /\ Holdings(k, touched, new) = SumFunctionOnSet(after, M(touched, new))
  BY DEF Holdings
<1>6. SumFunctionOnSet(after, M(rest, old)) = SumFunctionOnSet(before, M(rest, old))
  <2>1. \A a \in M(rest, old) : after[a] = before[a]
    BY DEF Members
  <2> HIDE DEF after, before
  <2>2. QED
    BY <1>2, <1>3, <2>1, SumSame
<1> HIDE DEF M, before, after, rest
<1> DEFINE O(S) == SumFunctionOnSet(before, S)
           N(S) == SumFunctionOnSet(after, S)
<1>7. /\ Cardinality(M(Address, old)) = Cardinality(M(touched, old)) + Cardinality(M(rest, old))
      /\ O(M(Address, old)) = O(M(touched, old)) + O(M(rest, old))
  <2> DEFINE whole == M(Address, old)
             hit == M(touched, old)
             kept == M(rest, old)
  <2>1. /\ IsFiniteSet(whole) /\ \A a \in whole : before[a] \in Int
        /\ whole = hit \cup kept /\ hit \cap kept = {}
    BY <1>1, <1>2, <1>3, <1>4
  <2> HIDE DEF whole, hit, kept
  <2>2. /\ Cardinality(whole) = Cardinality(hit) + Cardinality(kept)
        /\ SumFunctionOnSet(before, whole) = SumFunctionOnSet(before, hit) + SumFunctionOnSet(before, kept)
    <3>1. IsFiniteSet(hit) /\ IsFiniteSet(kept) /\ \A a \in hit \cup kept : before[a] \in Int
      BY <2>1, FS_Subset
    <3>2. SumFunctionOnSet(before, hit \cup kept) =
            SumFunctionOnSet(before, hit) + SumFunctionOnSet(before, kept)
      BY ONLY <2>1, <3>1, SumDisjoint
    <3>3. Cardinality(hit \cup kept) = Cardinality(hit) + Cardinality(kept)
      BY <2>1, <3>1, CountDisjoint
    <3>4. QED
      BY <2>1, <3>2, <3>3
  <2>3. QED
    BY <2>2 DEF whole, hit, kept
<1>8. /\ Cardinality(M(Address, new)) = Cardinality(M(touched, new)) + Cardinality(M(rest, old))
      /\ N(M(Address, new)) = N(M(touched, new)) + N(M(rest, old))
  <2> DEFINE whole == M(Address, new)
             hit == M(touched, new)
             kept == M(rest, old)
  <2>1. /\ IsFiniteSet(whole) /\ \A a \in whole : after[a] \in Int
        /\ whole = hit \cup kept /\ hit \cap kept = {}
    BY <1>1, <1>2, <1>3, <1>4
  <2> HIDE DEF whole, hit, kept
  <2>2. /\ Cardinality(whole) = Cardinality(hit) + Cardinality(kept)
        /\ SumFunctionOnSet(after, whole) = SumFunctionOnSet(after, hit) + SumFunctionOnSet(after, kept)
    <3>1. IsFiniteSet(hit) /\ IsFiniteSet(kept) /\ \A a \in hit \cup kept : after[a] \in Int
      BY <2>1, FS_Subset
    <3>2. SumFunctionOnSet(after, hit \cup kept) =
            SumFunctionOnSet(after, hit) + SumFunctionOnSet(after, kept)
      BY ONLY <2>1, <3>1, SumDisjoint
    <3>3. Cardinality(hit \cup kept) = Cardinality(hit) + Cardinality(kept)
      BY <2>1, <3>1, CountDisjoint
    <3>4. QED
      BY <2>1, <3>2, <3>3
  <2>3. QED
    BY <2>2 DEF whole, hit, kept
<1>9. /\ N(M(Address, new)) \in Nat /\ O(M(touched, old)) \in Nat /\ N(M(touched, new)) \in Nat
       /\ O(M(rest, old)) \in Nat
  BY <1>2, <1>3, <1>4, SumNat
<1>10. Holdings(k, Address, new) =
              Holdings(k, Address, old) - Holdings(k, touched, old) + Holdings(k, touched, new)
  BY <1>5, <1>6, <1>7, <1>8, <1>9
<1>11. QED
  BY <1>2, <1>3, <1>5, <1>7, <1>8, <1>9, <1>10 DEF M

\* A ledger update keeps the distribution exact (UpdateLedger).
LEMMA LedgerKeepsDistribution ==
  ASSUME DistributionExact, NEW touched \in SUBSET Address, NEW coins, NEW tip,
         UpdateLedger(touched, coins, tip), checkpoint' = tip,
         \A a \in Address : Balance(addresses[a]) \in Nat /\ Balance(addresses'[a]) \in Nat
  PROVE  DistributionExact'
<1>1. /\ addresses' = AddressesAfter(touched, coins)
      /\ buckets' = BucketsAfter(touched, addresses')
      /\ anchor' = tip
  BY DEF UpdateLedger
<1>2. \A a \in Address \ touched : addresses'[a] = addresses[a]
  BY <1>1 DEF AddressesAfter
<1>3. ASSUME NEW k \in Bucket
      PROVE  buckets'[k] = [ count   |-> Cardinality(Members(k, Address, addresses')),
                             balance |-> Holdings(k, Address, addresses') ]
  <2>1. buckets[k] = [ count   |-> Cardinality(Members(k, Address, addresses)),
                       balance |-> Holdings(k, Address, addresses) ]
    BY DEF DistributionExact
  <2>2. buckets'[k] =
          [ count   |-> buckets[k].count - Cardinality(Members(k, touched, addresses))
                                         + Cardinality(Members(k, touched, addresses')),
            balance |-> buckets[k].balance - Holdings(k, touched, addresses)
                                           + Holdings(k, touched, addresses') ]
    BY <1>1 DEF BucketsAfter
  <2>3. QED
    BY <1>2, <2>1, <2>2, DeltaExact
<1>4. QED
  BY <1>1, <1>3 DEF DistributionExact, Members, Holdings

\* The coins can always be read.
LEMMA CoinInvReadable == ChainInv /\ CoinInv => ReadableCoins(utxo)
BY TreeAssumption DEF ChainInv, ChainTypeOK, CoinInv, CoinTypeOK, CoinRow, SpendsOwned,
                      ReadableCoins

LEMMA CoinsReadable == Spec => []ReadableCoins(utxo)
BY CoinInvReadable, CoinsInvariant, PTL

AddressTypeOK == addresses \in [Address -> AddressRow \cup {NoRow}]

\* The cached totals are never negative.
LEMMA LedgerKeepsTypes ==
  ASSUME AddressCacheExact', ReadableCoins(utxo)', NEW touched, NEW coins,
         addresses' = AddressesAfter(touched, coins)
  PROVE  AddressTypeOK'
<1>1. addresses' = [a \in Address |-> addresses'[a]]
  BY DEF AddressesAfter
<1>2. ASSUME NEW a \in Address PROVE addresses'[a] \in AddressRow \cup {NoRow}
  <2>1. addresses'[a] = recomputeAddress(a, utxo')
    BY DEF AddressCacheExact, recomputeAddress
  <2>2. ReadableCoins(utxo')
    BY DEF ReadableCoins
  <2>3. QED
    BY <2>1, <2>2, RecomputeTyped
<1>3. QED
  BY <1>1, <1>2 DEF AddressTypeOK

LEMMA AddressesTyped == Spec => []AddressTypeOK
<1>1. Init => AddressTypeOK
  BY DEF Init, AddressTypeOK
<1>2. AddressTypeOK /\ AddressCacheExact' /\ ReadableCoins(utxo)' /\ [Next]_vars => AddressTypeOK'
  <2> SUFFICES ASSUME AddressTypeOK, AddressCacheExact', ReadableCoins(utxo)', [Next]_vars
               PROVE  AddressTypeOK'
    OBVIOUS
  <2>1. CASE UNCHANGED vars
    BY <2>1 DEF vars, AddressTypeOK
  <2>2. QED
    BY <2>1, LedgerKeepsTypes
       DEF Next, ApplyBlock, RollbackTo, UpdateLedger, RejectBlock, RejectRollback
<1>3. QED
  BY <1>1, <1>2, AddressCacheCorrect, CoinsReadable, PTL DEF Spec

LEMMA TouchedAddresses ==
  /\ \A b \in Block : TouchedBy(b) \in SUBSET Address
  /\ \A orphans : TouchedByRollback(orphans) \in SUBSET Address
BY BlockDataAssumption DEF TouchedBy, OutsOf, TouchedByRollback

LEMMA ApplyKeepsDistribution ==
  ASSUME DistributionExact, AddressTypeOK, AddressTypeOK', NEW b \in Block, ApplyBlock(b)
  PROVE  DistributionExact'
<1>1. \A a \in Address : Balance(addresses[a]) \in Nat /\ Balance(addresses'[a]) \in Nat
  BY DEF AddressTypeOK, Balance, AddressRow
<1>2. UpdateLedger(TouchedBy(b), CoinsAfter(b), b) /\ checkpoint' = b
  BY DEF ApplyBlock
<1>3. QED
  BY <1>1, <1>2, TouchedAddresses, LedgerKeepsDistribution

LEMMA RollbackKeepsDistribution ==
  ASSUME DistributionExact, AddressTypeOK, AddressTypeOK', NEW a \in Block, RollbackTo(a)
  PROVE  DistributionExact'
<1> DEFINE touched == TouchedByRollback(Orphans(a))
<1>1. \A x \in Address : Balance(addresses[x]) \in Nat /\ Balance(addresses'[x]) \in Nat
  BY DEF AddressTypeOK, Balance, AddressRow
<1>2. touched \in SUBSET Address
  BY TouchedAddresses
<1>3. UpdateLedger(touched, CoinsAfterRollback(Orphans(a)), a) /\ checkpoint' = a
  BY DEF RollbackTo
<1> HIDE DEF touched
<1>4. QED
  BY <1>1, <1>2, <1>3, LedgerKeepsDistribution

\* On an exact distribution no delta leaves a negative count or balance.
LEMMA DistributionPasses ==
  ASSUME DistributionExact, AddressTypeOK, NEW touched \in SUBSET Address,
         NEW coins, ReadableCoins(coins)
  PROVE  DistributionOK(touched, coins)
<1> DEFINE new == AddressesAfter(touched, coins)
<1>1. \A a \in Address : Balance(addresses[a]) \in Nat /\ Balance(new[a]) \in Nat
  BY RecomputeTyped DEF AddressTypeOK, AddressesAfter, Balance, AddressRow
<1>2. \A a \in Address \ touched : new[a] = addresses[a]
  BY DEF AddressesAfter
<1> HIDE DEF new
<1>3. ASSUME NEW k \in Bucket
      PROVE  BucketsAfter(touched, new)[k].count >= 0 /\ BucketsAfter(touched, new)[k].balance >= 0
  <2>1. buckets[k] = [ count   |-> Cardinality(Members(k, Address, addresses)),
                       balance |-> Holdings(k, Address, addresses) ]
    BY DEF DistributionExact
  <2>2. BucketsAfter(touched, new)[k] =
          [ count   |-> buckets[k].count - Cardinality(Members(k, touched, addresses))
                                         + Cardinality(Members(k, touched, new)),
            balance |-> buckets[k].balance - Holdings(k, touched, addresses)
                                           + Holdings(k, touched, new) ]
    BY DEF BucketsAfter
  <2>3. QED
    BY <1>1, <1>2, <2>1, <2>2, DeltaExact
<1>4. QED
  BY <1>3 DEF DistributionOK, DistributionAccepted, new

\* Every call leaves the distribution table equal to a full aggregation of
\* the address cache, and its anchor at the checkpoint: the differences that
\* observe adds up neither miss an address nor count one twice
\* (applyDistributionDeltas).
THEOREM DistributionCorrect == Spec => []DistributionExact
<1>1. Init => DistributionExact
  <2> SUFFICES ASSUME Init, NEW k \in Bucket
               PROVE  /\ Cardinality(Members(k, Address, addresses)) = 0
                      /\ Holdings(k, Address, addresses) = 0
    BY DEF Init, DistributionExact
  <2>1. Members(k, Address, addresses) = {}
    BY DEF Init, Members, Balance, bucketForBalance, Bucket, NoBucket
  <2>2. QED
    BY <2>1, SumEmpty, FS_EmptySet DEF Holdings
<1>2. DistributionExact /\ AddressTypeOK /\ AddressTypeOK' /\ [Next]_vars => DistributionExact'
  <2> SUFFICES ASSUME DistributionExact, AddressTypeOK, AddressTypeOK', [Next]_vars
               PROVE  DistributionExact'
    OBVIOUS
  <2>1. CASE UNCHANGED vars
    BY <2>1 DEF vars, DistributionExact, Members, Holdings
  <2>2. QED
    BY <2>1, ApplyKeepsDistribution, RollbackKeepsDistribution
       DEF Next, RejectBlock, RejectRollback
<1>3. QED
  BY <1>1, <1>2, AddressesTyped, PTL DEF Spec

-----------------------------------------------------------------------------
(* Immutable rows                                                          *)

RowsInv == DOMAIN accounting = Block /\ DOMAIN rollup = Block

\* No committed call removes a block row or changes an accounting or a rollup
\* row once it is written (insertOrVerifyIdempotent; RollbackTo).
THEOREM RowsImmutable == Spec => ImmutableRows
<1> DEFINE Kept == /\ blocks \subseteq blocks'
                   /\ \A b \in Block : /\ accounting[b] # NoRow => accounting'[b] = accounting[b]
                                       /\ rollup[b] # NoRow => rollup'[b] = rollup[b]
<1>1. Init => RowsInv
  BY DEF Init, RowsInv
<1>2. RowsInv /\ [Next]_vars => RowsInv' /\ [Kept]_vars
  <2> SUFFICES ASSUME RowsInv, [Next]_vars PROVE RowsInv' /\ (Kept \/ UNCHANGED vars)
    OBVIOUS
  <2>1. CASE UNCHANGED vars
    BY <2>1 DEF vars, RowsInv
  <2>2. ASSUME NEW b \in Block, ApplyBlock(b) PROVE RowsInv' /\ Kept
    <3>1. /\ accounting[b] \in {NoRow, BlockFacts(b)}
          /\ accounting' = [accounting EXCEPT ![b] = BlockFacts(b)]
          /\ blocks' = blocks \cup {b}
      BY <2>2 DEF ApplyBlock, Accepts, InsertOrVerify
    <3>2. \/ rollup' = rollup
          \/ /\ rollup[b] \in {NoRow, SupplyRollup(b)}
             /\ rollup' = [rollup EXCEPT ![b] = SupplyRollup(b)]
      BY <2>2 DEF ApplyBlock, Accepts, RollupAccepted, InsertOrVerify
    <3>3. QED
      BY <3>1, <3>2 DEF RowsInv
  <2>3. ASSUME NEW a \in Block, RollbackTo(a) PROVE RowsInv' /\ Kept
    BY <2>3 DEF RollbackTo, RowsInv, supplyVars
  <2>4. QED
    BY <2>1, <2>2, <2>3 DEF Next, RejectBlock, RejectRollback
<1>3. QED
  BY <1>1, <1>2, PTL DEF Spec, ImmutableRows

-----------------------------------------------------------------------------
(* The money of one block                                                  *)

LEMMA PowerOfTwo ==
  ASSUME NEW n \in Nat
  PROVE  2^n \in Nat \ {0}
<1>1. IsFiniteSet(1..n) /\ Cardinality(1..n) = n
  BY FS_Interval
<1>2. IsFiniteSet(SUBSET (1..n)) /\ Cardinality(SUBSET (1..n)) = 2^n
  BY <1>1, FS_SUBSET
<1>3. SUBSET (1..n) # {}
  OBVIOUS
<1>4. QED
  BY <1>2, <1>3, FS_CardinalityType, FS_EmptySet

LEMMA SubsidyNat ==
  ASSUME NEW h \in Nat
  PROVE  BlockSubsidy(h) \in Nat
<1>1. Halvings(h) \in Nat
  BY ScheduleAssumption DEF Halvings
<1>2. 2^Halvings(h) \in Nat \ {0}
  BY <1>1, PowerOfTwo
<1> DEFINE d == 2^Halvings(h)
<1>3. InitialSubsidy \div d \in Nat
  <2> HIDE DEF d
  <2>1. d \in Nat \ {0}
    BY <1>2 DEF d
  <2>2. QED
    BY <2>1, ScheduleAssumption
<1>4. QED
  BY <1>3 DEF BlockSubsidy

LEMMA ValueNat ==
  ASSUME NEW S \in SUBSET Output
  PROVE  ValueOf(S) \in Nat /\ ValueOf(S) \in Int
<1>1. IsFiniteSet(S) /\ \A o \in S : value[o] \in Nat
  BY FiniteRowsAssumption, BlockDataAssumption, FS_Subset
<1>2. QED
  BY <1>1, SumNat DEF ValueOf

LEMMA BlockTxsFinite ==
  ASSUME NEW b \in Block
  PROVE  /\ IsFiniteSet(TxSet(b)) /\ IsFiniteSet(Paying(b))
         /\ TxSet(b) \subseteq Tx /\ Paying(b) \subseteq TxSet(b)
<1>1. DOMAIN txs[b] = 1..Len(txs[b]) /\ Len(txs[b]) \in Nat
  BY BlockDataAssumption
<1>2. IsFiniteSet(DOMAIN txs[b])
  BY <1>1, FS_Interval
<1>3. \A t \in TxSet(b) : \E i \in DOMAIN txs[b] : t = txs[b][i]
  BY TxPosition
<1>4. IsFiniteSet(TxSet(b))
  BY <1>2, <1>3, FiniteImage
<1>5. QED
  BY <1>4, TxPosition, FS_Subset DEF Paying

\* ComputeBlockFacts returns non-negative amounts for a block whose fees and
\* coinbase were accepted.
LEMMA FactsTyped ==
  ASSUME NEW b \in Block, FeesAccepted(b), CoinbaseAccepted(b)
  PROVE  /\ BlockFee(b) \in Nat /\ CoinbaseTotal(b) \in Nat /\ ExcludedValue(b) \in Nat
         /\ BlockFacts(b) \in FactsRow
<1>1. CoinbaseTotal(b) \in Nat /\ ExcludedValue(b) \in Nat
  BY ValueNat DEF CoinbaseTotal, ExcludedValue, ExcludedOutputs, OutsOf, Outs
<1>2. BlockSubsidy(height[b]) \in Nat
  BY TreeAssumption, SubsidyNat
<1>3. BlockFee(b) \in Nat
  <2> DEFINE fees == [t \in Tx |-> Fee(t)]
  <2>1. ASSUME NEW t \in Paying(b) PROVE fees[t] \in Nat
    <3>1. t \in Tx /\ inputs[t] \in SUBSET Output /\ Outs(t) \in SUBSET Output
      BY BlockTxsFinite, BlockDataAssumption DEF Outs
    <3>2. ValueOf(inputs[t]) \in Int /\ ValueOf(Outs(t)) \in Int
      BY <3>1, ValueNat
    <3>3. Fee(t) >= 0
      BY DEF FeesAccepted
    <3>4. QED
      BY <3>1, <3>2, <3>3 DEF Fee
  <2>2. IsFiniteSet(Paying(b))
    BY BlockTxsFinite
  <2>3. SumFunctionOnSet(fees, Paying(b)) \in Nat
    <3> HIDE DEF fees
    <3> QED BY <2>1, <2>2, SumNat
  <2>4. QED
    BY <2>3 DEF BlockFee
<1>4. QED
  BY <1>1, <1>2, <1>3 DEF CoinbaseAccepted, RewardAccepted, BlockFacts, ComputeBlockFacts, FactsRow

AddedBy(b) == {o \in Output : AddsCoin(b, o)}
SpentBy(b) == {o \in Output : SpendsCoin(b, o)}

\* The coins a block adds are worth its coinbase and its payments, less what
\* never becomes a coin; the coins it spends are worth its payments and its
\* fees.  So the algebra of applySupplyRollup, which adds up coinbases, fees
\* and excluded outputs, follows the coins.
LEMMA BlockBalance ==
  ASSUME NEW b \in Block, validateBlockShape(b), applyTransactions(b)
  PROVE  ValueOf(AddedBy(b)) - ValueOf(SpentBy(b))
           = CoinbaseTotal(b) - BlockFee(b) - ExcludedValue(b)
<1> DEFINE paid == [t \in Tx |-> ValueOf(Outs(t))]
           took == [t \in Tx |-> ValueOf(inputs[t])]
           fees == [t \in Tx |-> Fee(t)]
           first == txs[b][1]
<1>1. /\ IsFiniteSet(TxSet(b)) /\ IsFiniteSet(Paying(b)) /\ IsFiniteSet(Output)
      /\ TxSet(b) \subseteq Tx /\ Paying(b) \subseteq TxSet(b)
      /\ \A o \in Output : value[o] \in Int
  BY BlockTxsFinite, FiniteRowsAssumption, BlockDataAssumption
<1>2. \A t \in Tx : paid[t] \in Int /\ took[t] \in Int /\ fees[t] = took[t] - paid[t]
  BY ValueNat, BlockDataAssumption DEF Outs, Fee
<1>3. ValueOf(OutsOf(b)) = SumFunctionOnSet(paid, TxSet(b))
  <2> DEFINE part == [t \in Tx |-> Outs(t)]
  <2>1. UNION {part[t] : t \in TxSet(b)} = OutsOf(b)
    <3>1. \A t \in TxSet(b) : part[t] = Outs(t)
      BY <1>1
    <3> HIDE DEF part
    <3>2. QED
      BY <3>1 DEF Outs, OutsOf
  <2>2. /\ \A t \in TxSet(b) : part[t] \subseteq Output
        /\ \A s, t \in TxSet(b) : s # t => part[s] \cap part[t] = {}
        /\ \A t \in TxSet(b) : paid[t] = SumFunctionOnSet(value, part[t])
    BY <1>1 DEF Outs, ValueOf
  <2> HIDE DEF part, paid
  <2>3. SumFunctionOnSet(value, UNION {part[t] : t \in TxSet(b)}) = SumFunctionOnSet(paid, TxSet(b))
    BY <1>1, <2>2, SumParts
  <2>4. QED
    BY <2>1, <2>3 DEF ValueOf
<1>4. ValueOf(SpentBy(b)) = SumFunctionOnSet(took, Paying(b))
  <2>1. UNION {inputs[t] : t \in Paying(b)} = SpentBy(b)
    <3>1. \A t \in TxSet(b) : inputs[t] \subseteq Output
      BY <1>1, BlockDataAssumption
    <3>2. QED
      BY <3>1 DEF SpentBy, SpendsCoin, Paying, IsCoinbase
  <2>2. ASSUME NEW s \in Paying(b), NEW t \in Paying(b), s # t PROVE inputs[s] \cap inputs[t] = {}
    <3> SUFFICES ASSUME NEW o \in inputs[s], o \in inputs[t] PROVE FALSE
      OBVIOUS
    <3>1. o \in Output /\ s \in TxSet(b) /\ t \in TxSet(b)
      BY <1>1, BlockDataAssumption
    <3>2. Spender(b, o) = s /\ Spender(b, o) = t
      BY <3>1, OneSpender
    <3>3. QED
      BY <2>2, <3>2
  <2>3. /\ \A t \in Paying(b) : inputs[t] \subseteq Output
        /\ \A t \in Paying(b) : took[t] = SumFunctionOnSet(value, inputs[t])
    BY <1>1, BlockDataAssumption DEF ValueOf
  <2> HIDE DEF took
  <2>4. SumFunctionOnSet(value, UNION {inputs[t] : t \in Paying(b)}) = SumFunctionOnSet(took, Paying(b))
    BY <1>1, <2>2, <2>3, SumParts
  <2>5. QED
    BY <2>1, <2>4 DEF ValueOf
<1>5. SumFunctionOnSet(paid, TxSet(b)) = CoinbaseTotal(b) + SumFunctionOnSet(paid, Paying(b))
  <2>1. 1 \in DOMAIN txs[b] /\ first \in TxSet(b)
    <3>1. txs[b] \in Seq(Tx) /\ txs[b] # << >>
      BY BlockDataAssumption DEF validateBlockShape
    <3>2. 1 \in DOMAIN txs[b]
      BY <3>1
    <3>3. QED
      BY <3>2, TxPosition
  <2>2. TxSet(b) \ {first} = Paying(b)
    BY <2>1, TxPosition DEF Paying, validateBlockShape
  <2>3. paid[first] = CoinbaseTotal(b)
    BY <1>1, <2>1 DEF CoinbaseTotal
  <2> HIDE DEF paid, first
  <2>4. SumFunctionOnSet(paid, TxSet(b)) = paid[first] + SumFunctionOnSet(paid, TxSet(b) \ {first})
    BY <1>1, <1>2, <2>1, SumRemove
  <2>5. QED
    BY <2>2, <2>3, <2>4
<1>6. BlockFee(b) = SumFunctionOnSet(took, Paying(b)) - SumFunctionOnSet(paid, Paying(b))
  <2> HIDE DEF took, paid, fees
  <2>1. SumFunctionOnSet(fees, Paying(b)) =
          SumFunctionOnSet(took, Paying(b)) - SumFunctionOnSet(paid, Paying(b))
    BY <1>1, <1>2, SumMinus
  <2>2. QED
    BY <2>1 DEF BlockFee, fees
<1>7. ValueOf(AddedBy(b)) = ValueOf(OutsOf(b)) - ExcludedValue(b)
  <2>1. AddedBy(b) = OutsOf(b) \ ExcludedOutputs(b)
    BY DEF AddedBy, AddsCoin, OutsOf, ExcludedOutputs
  <2>2. /\ IsFiniteSet(OutsOf(b)) /\ ExcludedOutputs(b) \in SUBSET OutsOf(b)
        /\ \A o \in OutsOf(b) : value[o] \in Int
    BY <1>1, FS_Subset DEF OutsOf, ExcludedOutputs
  <2>3. QED
    BY <2>1, <2>2, SumWithout DEF ValueOf, ExcludedValue
<1>8. /\ SumFunctionOnSet(took, Paying(b)) \in Int /\ SumFunctionOnSet(paid, Paying(b)) \in Int
      /\ CoinbaseTotal(b) \in Int /\ ExcludedValue(b) \in Int
  <2>1. CoinbaseTotal(b) \in Int /\ ExcludedValue(b) \in Int
    BY ValueNat DEF CoinbaseTotal, ExcludedValue, ExcludedOutputs, OutsOf, Outs
  <2> HIDE DEF took, paid
  <2>2. QED
    BY <1>1, <1>2, <2>1, SumInt
<1>9. QED
  <2> HIDE DEF took, paid
  <2> QED BY <1>3, <1>4, <1>5, <1>6, <1>7, <1>8

-----------------------------------------------------------------------------
(* The rollup rows                                                         *)

FactsInv ==
  /\ accounting \in [Block -> FactsRow \cup {NoRow}]
  /\ \A b \in blocks : accounting[b] = BlockFacts(b) /\ BlockFacts(b) \in FactsRow

RollupTypeOK == rollup \in [Block -> RollupRow \cup {NoRow}]

\* Every row, an orphan's too, is still the sum it was written as: its
\* parent's row is there and has not changed.
RollupGrounded(b) ==
  /\ b \in blocks
  /\ ParentRollup(b) # NoRow
  /\ rollup[b] = SupplyRollup(b)
  /\ height[b] # 0 => prev[b] \in Block /\ height[b] = height[prev[b]] + 1
RollupRecurrence == \A b \in Block : rollup[b] # NoRow => RollupGrounded(b)

RollupInv == FactsInv /\ RollupTypeOK /\ RollupRecurrence /\ RollupCovered

\* The coins the canonical chain had when b was its tip.
CoinsAt(b) == {o \in Output : /\ utxo[o] # NoRow
                              /\ height[utxo[o].created] <= height[b]
                              /\ \/ utxo[o].spentBy = NoTx
                                 \/ height[utxo[o].spentIn] > height[b]}

\* SupplyMatchesCoins for every canonical block and not the tip alone: a
\* rollback makes any of them the tip.
SupplyInv == \A b \in canonical : rollup[b] # NoRow => rollup[b].cumUTXO = ValueOf(CoinsAt(b))

\* The parent row a new row starts from is a row, and adds up to a row
\* (applySupplyRollup).
LEMMA RollupRowTyped ==
  ASSUME RollupTypeOK, NEW b \in Block, ParentRollup(b) # NoRow,
         FeesAccepted(b), CoinbaseAccepted(b), SupplyRollup(b).cumUTXO >= 0
  PROVE  SupplyRollup(b) \in RollupRow
<1>1. ParentRollup(b) \in RollupRow
  BY TreeAssumption DEF ParentRollup, RollupTypeOK, ZeroRollup, RollupRow
<1>2. BlockFacts(b) \in FactsRow /\ ExcludedValue(b) \in Nat
  BY FactsTyped
<1>3. QED
  BY <1>1, <1>2 DEF SupplyRollup, RollupRow, FactsRow

\* Where ApplyBlock finds its parent row, on a chain the block extends.
LEMMA ParentOnChain ==
  ASSUME ChainInv, NEW b \in Block, ApplyBlock(b), height[b] # 0, ParentRollup(b) # NoRow
  PROVE  prev[b] \in canonical /\ height[b] = height[prev[b]] + 1
<1> USE TreeAssumption
<1>1. prev[b] # NoBlock
  BY DEF ParentRollup
<1>2. checkCanonicalContinuity(b) /\ applyBlockHeader(b)
  BY DEF ApplyBlock, Accepts
<1>3. CASE checkpoint = NoBlock
  BY <1>1, <1>2, <1>3 DEF ChainInv, BootstrapEmpty, CanonicalLinked, applyBlockHeader, ChainTypeOK
<1>4. CASE checkpoint # NoBlock /\ b = checkpoint
  BY <1>1, <1>4 DEF ChainInv, ChainTypeOK, CanonicalLinked, LinkedChain
<1>5. CASE checkpoint # NoBlock /\ b # checkpoint
  BY <1>2, <1>5 DEF checkCanonicalContinuity, ChainInv, ChainTypeOK
<1>6. QED
  BY <1>3, <1>4, <1>5

\* ApplyBlock writes one row, or finds it, or writes none, and leaves the
\* others alone.
LEMMA RowsWritten ==
  ASSUME RollupTypeOK, NEW b \in Block, ApplyBlock(b)
  PROVE  /\ RollupTypeOK'
         /\ \A c \in Block : c # b => rollup'[c] = rollup[c]
         /\ \A c \in Block : rollup[c] # NoRow => rollup'[c] = rollup[c]
         /\ ParentRollup(b) = NoRow => rollup' = rollup
         /\ ParentRollup(b) # NoRow => /\ rollup'[b] = SupplyRollup(b)
                                       /\ rollup'[b] # NoRow
                                       /\ rollup[b] \in {NoRow, SupplyRollup(b)}
<1>1. RollupAccepted(b) /\ FeesAccepted(b) /\ CoinbaseAccepted(b)
  BY DEF ApplyBlock, Accepts, applyTransactions
<1>2. CASE ParentRollup(b) = NoRow
  BY <1>2 DEF ApplyBlock, RollupTypeOK
<1>3. CASE ParentRollup(b) # NoRow
  <2>1. rollup' = [rollup EXCEPT ![b] = SupplyRollup(b)]
    BY <1>3 DEF ApplyBlock
  <2>2. SupplyRollup(b).cumUTXO >= 0 /\ rollup[b] \in {NoRow, SupplyRollup(b)}
    BY <1>1, <1>3 DEF RollupAccepted, InsertOrVerify
  <2>3. SupplyRollup(b) \in RollupRow /\ SupplyRollup(b) # NoRow
    BY <1>1, <1>3, <2>2, RollupRowTyped, NoRowAssumption
  <2>4. QED
    BY <1>3, <2>1, <2>2, <2>3 DEF RollupTypeOK
<1>4. QED
  BY <1>2, <1>3

\* Rows stay the sums they were written as (insertOrVerifyIdempotent).
LEMMA ApplyKeepsRecurrence ==
  ASSUME ChainInv, RollupTypeOK, RollupRecurrence, NEW b \in Block, ApplyBlock(b)
  PROVE  RollupRecurrence'
<1> USE TreeAssumption
<1>1. blocks' = blocks \cup {b}
  BY DEF ApplyBlock
<1>2. ASSUME NEW c \in Block, ParentRollup(c) # NoRow
      PROVE  ParentRollup(c)' = ParentRollup(c) /\ SupplyRollup(c)' = SupplyRollup(c)
  <2>1. ParentRollup(c)' = ParentRollup(c)
    BY <1>2, RowsWritten DEF ParentRollup
  <2>2. QED
    BY <2>1 DEF SupplyRollup
<1>3. ASSUME NEW c \in Block, rollup[c] # NoRow PROVE RollupGrounded(c)'
  <2>1. rollup'[c] = rollup[c] /\ RollupGrounded(c)
    BY <1>3, RowsWritten DEF RollupRecurrence
  <2>2. QED
    BY <1>1, <1>2, <2>1 DEF RollupGrounded
<1>4. ASSUME rollup[b] = NoRow, rollup'[b] # NoRow PROVE RollupGrounded(b)'
  <2>1. ParentRollup(b) # NoRow
    BY <1>4, RowsWritten
  <2>2. rollup'[b] = SupplyRollup(b)
    BY <2>1, RowsWritten
  <2>3. height[b] # 0 => prev[b] \in Block /\ height[b] = height[prev[b]] + 1
    BY <2>1, ParentOnChain DEF ChainInv, ChainTypeOK
  <2>4. QED
    BY <1>1, <1>2, <2>1, <2>2, <2>3 DEF RollupGrounded
<1>5. QED
  BY <1>3, <1>4, RowsWritten DEF RollupRecurrence

\* Coverage without holes survives a block (the missing-parent policy).
LEMMA ApplyKeepsLineage ==
  ASSUME ChainInv, RollupTypeOK, RollupRecurrence, RollupCovered, NEW b \in Block, ApplyBlock(b)
  PROVE  RollupCovered'
<1> USE TreeAssumption
<1>1. /\ canonical' = canonical \cup {b} /\ canonical \subseteq Block
      /\ checkCanonicalContinuity(b) /\ applyBlockHeader(b)
  BY DEF ApplyBlock, Accepts, ChainInv, ChainTypeOK
<1>2. ASSUME ParentRollup(b) = NoRow PROVE rollup'[b] = NoRow
  BY <1>2, RowsWritten DEF RollupRecurrence, RollupGrounded
<1>3. height[b] = 0 => ParentRollup(b) # NoRow
  BY NoRowAssumption DEF ParentRollup, ZeroRollup, RollupRow
<1>4. ASSUME height[b] # 0, ParentRollup(b) # NoRow
      PROVE  \E g \in canonical : height[g] = 0
  <2>1. prev[b] \in canonical /\ rollup[prev[b]] # NoRow
    BY <1>4, ParentOnChain DEF ParentRollup
  <2>2. QED
    BY <2>1 DEF RollupCovered
<1>5. rollup'[b] # NoRow <=> \E g \in canonical' : height[g] = 0
  <2>1. ASSUME rollup'[b] # NoRow PROVE \E g \in canonical' : height[g] = 0
    BY <1>1, <1>2, <1>4, <2>1
  <2>2. ASSUME NEW g \in canonical', height[g] = 0 PROVE rollup'[b] # NoRow
    <3>1. CASE height[b] = 0
      BY <1>3, <3>1, RowsWritten
    <3>2. CASE height[b] # 0 /\ b \in canonical
      BY <1>1, <2>2, <3>2, RowsWritten DEF RollupCovered
    <3>3. CASE height[b] # 0 /\ b \notin canonical
      <4>1. checkpoint # NoBlock /\ b # checkpoint
        BY <1>1, <2>2, <3>3 DEF ChainInv, ChainTypeOK, CanonicalLinked
      <4>2. prev[b] = checkpoint /\ checkpoint \in canonical /\ g \in canonical
        BY <1>1, <2>2, <3>3, <4>1 DEF checkCanonicalContinuity, ChainInv, ChainTypeOK
      <4>3. rollup[checkpoint] # NoRow
        BY <2>2, <4>2 DEF RollupCovered
      <4>4. ParentRollup(b) # NoRow
        BY <3>3, <4>1, <4>2, <4>3 DEF ParentRollup
      <4>5. QED
        BY <4>4, RowsWritten
    <3>4. QED
      BY <3>1, <3>2, <3>3
  <2>3. QED
    BY <2>1, <2>2
<1>6. ASSUME NEW c \in canonical, c # b
      PROVE  rollup'[c] # NoRow <=> \E g \in canonical' : height[g] = 0
  <2>1. rollup'[c] = rollup[c]
    BY <1>1, <1>6, RowsWritten
  <2>2. ASSUME height[b] = 0 PROVE \E g \in canonical : height[g] = 0
    BY <1>1, <1>6, <2>2 DEF checkCanonicalContinuity, ChainInv, ChainTypeOK, CanonicalLinked
  <2>3. QED
    BY <1>1, <2>1, <2>2 DEF RollupCovered
<1>7. QED
  BY <1>1, <1>5, <1>6 DEF RollupCovered

LEMMA ApplyKeepsFacts ==
  ASSUME FactsInv, NEW b \in Block, ApplyBlock(b)
  PROVE  FactsInv'
<1>1. /\ accounting' = [accounting EXCEPT ![b] = BlockFacts(b)]
      /\ blocks' = blocks \cup {b}
      /\ FeesAccepted(b) /\ CoinbaseAccepted(b)
  BY DEF ApplyBlock, Accepts, applyTransactions
<1>2. BlockFacts(b) \in FactsRow
  BY <1>1, FactsTyped
<1>3. QED
  BY <1>1, <1>2 DEF FactsInv

\* A rollback keeps the rows, and the chain keeps its root.
LEMMA RollbackKeepsRollup ==
  ASSUME ChainInv, RollupInv, NEW a \in Block, RollbackTo(a)
  PROVE  RollupInv'
<1> USE TreeAssumption
<1>1. /\ a \in canonical /\ canonical \subseteq Block
      /\ canonical' = {b \in canonical : height[b] <= height[a]}
      /\ UNCHANGED <<blocks, accounting, rollup>>
  BY DEF RollbackTo, RollbackAccepted, AncestorFound, Orphans, ChainInv, ChainTypeOK, supplyVars
<1>2. FactsInv' /\ RollupTypeOK' /\ RollupRecurrence'
  BY <1>1 DEF RollupInv, FactsInv, RollupTypeOK, RollupRecurrence, RollupGrounded,
              ParentRollup, SupplyRollup
<1>3. \A g \in canonical : height[g] = 0 => g \in canonical'
  BY <1>1
<1>4. RollupCovered'
  BY <1>1, <1>3 DEF RollupInv, RollupCovered
<1>5. QED
  BY <1>2, <1>4 DEF RollupInv

LEMMA RollupsInvariant == Spec => []RollupInv
<1>1. Init => RollupInv
  BY DEF Init, RollupInv, FactsInv, RollupTypeOK, RollupRecurrence, RollupCovered
<1>2. ChainInv /\ RollupInv /\ [Next]_vars => RollupInv'
  <2> SUFFICES ASSUME ChainInv, RollupInv, [Next]_vars PROVE RollupInv'
    OBVIOUS
  <2>1. CASE UNCHANGED vars
    BY <2>1 DEF vars, RollupInv, FactsInv, RollupTypeOK, RollupRecurrence, RollupGrounded,
                ParentRollup, SupplyRollup, RollupCovered
  <2>2. ASSUME NEW b \in Block, ApplyBlock(b) PROVE RollupInv'
    BY <2>2, ApplyKeepsFacts, RowsWritten, ApplyKeepsRecurrence, ApplyKeepsLineage DEF RollupInv
  <2>3. ASSUME NEW a \in Block, RollbackTo(a) PROVE RollupInv'
    BY <2>3, RollbackKeepsRollup
  <2>4. QED
    BY <2>1, <2>2, <2>3 DEF Next, RejectBlock, RejectRollback
<1>3. QED
  BY <1>1, <1>2, CoinsInvariant, PTL DEF Spec

BucketTypeOK == buckets \in [Bucket -> [count : Nat, balance : Nat]]

\* No bucket is ever negative, so ErrDistributionInvariant stays a guard
\* against damage from outside.
LEMMA BucketsTyped == Spec => []BucketTypeOK
<1> DEFINE AllTyped == \A k \in Bucket : buckets[k] \in [count : Nat, balance : Nat]
<1>1. AddressTypeOK /\ DistributionExact => AllTyped
  <2> SUFFICES ASSUME AddressTypeOK, DistributionExact, NEW k \in Bucket
               PROVE  buckets[k] \in [count : Nat, balance : Nat]
    OBVIOUS
  <2>1. \A a \in Address : Balance(addresses[a]) \in Nat
    BY DEF AddressTypeOK, Balance, AddressRow
  <2>2. {} \in SUBSET Address
    OBVIOUS
  <2> DEFINE n == Cardinality(Members(k, Address, addresses))
             v == Holdings(k, Address, addresses)
  <2>3. n \in Nat /\ v \in Nat
    BY <2>1, <2>2, DeltaExact
  <2>4. buckets[k] = [count |-> n, balance |-> v]
    BY DEF DistributionExact
  <2> HIDE DEF n, v
  <2>5. QED
    BY <2>3, <2>4
<1>2. Init => BucketTypeOK
  BY DEF Init, BucketTypeOK
<1>3. BucketTypeOK /\ AllTyped' /\ [Next]_vars => BucketTypeOK'
  <2> SUFFICES ASSUME BucketTypeOK, AllTyped', [Next]_vars PROVE BucketTypeOK'
    OBVIOUS
  <2>1. CASE UNCHANGED vars
    BY <2>1 DEF vars, BucketTypeOK
  <2>2. ASSUME NEW touched, NEW cache, buckets' = BucketsAfter(touched, cache) PROVE BucketTypeOK'
    <3>1. buckets' = [k \in Bucket |-> buckets'[k]]
      BY <2>2 DEF BucketsAfter
    <3>2. QED
      BY <3>1 DEF BucketTypeOK
  <2>3. QED
    BY <2>1, <2>2 DEF Next, ApplyBlock, RollbackTo, UpdateLedger, RejectBlock, RejectRollback
<1>4. QED
  BY <1>1, <1>2, <1>3, AddressesTyped, DistributionCorrect, PTL DEF Spec

\* Every committed state of the store fits its tables: non-negative amounts,
\* counts and balances, and references to rows that exist.
THEOREM StoreTyped == Spec => []TypeOK
<1>1. ChainInv /\ CoinInv /\ AddressTypeOK /\ BucketTypeOK /\ RollupInv => TypeOK
  BY DEF ChainInv, CoinInv, AddressTypeOK, BucketTypeOK, RollupInv, FactsInv, RollupTypeOK, TypeOK
<1>2. QED
  BY <1>1, CoinsInvariant, AddressesTyped, BucketsTyped, RollupsInvariant, PTL

-----------------------------------------------------------------------------
(* The supply                                                              *)

\* At the tip, every coin that is not spent.
TipCoinsExact == checkpoint # NoBlock => CoinsAt(checkpoint) = Unspent

LEMMA TipCoins ==
  ASSUME ChainInv, CoinInv
  PROVE  TipCoinsExact
<1> SUFFICES ASSUME checkpoint # NoBlock PROVE CoinsAt(checkpoint) = Unspent
  BY DEF TipCoinsExact
<1> USE TreeAssumption
<1>1. checkpoint \in canonical /\ canonical \subseteq Block
  BY DEF ChainInv, ChainTypeOK
<1>2. \A b \in canonical : height[b] <= height[checkpoint] /\ height[b] \in Nat /\ height[checkpoint] \in Nat
  BY <1>1 DEF ChainInv, CanonicalLinked
<1>3. \A o \in Output : utxo[o] # NoRow => utxo[o].created \in canonical
  BY DEF CoinInv, CoinsOwned
<1>4. \A o \in Output : utxo[o] # NoRow /\ utxo[o].spentBy # NoTx => utxo[o].spentIn \in canonical
  BY DEF CoinInv, SpendsOwned
<1>5. QED
  BY <1>2, <1>3, <1>4 DEF CoinsAt, Unspent

\* None of the coins a block adds is there, and what it spends is unspent.
FreshCoins(b) ==
  /\ \A o \in Output : AddsCoin(b, o) => utxo[o] = NoRow
  /\ \A o \in Output : SpendsCoin(b, o) =>
       \/ utxo[o] # NoRow /\ utxo[o].spentBy = NoTx
       \/ utxo[o] = NoRow /\ AddsCoin(b, o)

\* The tip's coins with those a block adds and without those it spends, in
\* value.
LEMMA ValueAfter ==
  ASSUME NEW b \in Block, validateBlockShape(b), applyTransactions(b), CoinbaseAccepted(b),
         FreshCoins(b)
  PROVE  ValueOf((Unspent \cup AddedBy(b)) \ SpentBy(b))
           = ValueOf(Unspent) + CoinbaseTotal(b) - BlockFee(b) - ExcludedValue(b)
<1> DEFINE pool == Unspent \cup AddedBy(b)
<1>1. Unspent \cap AddedBy(b) = {} /\ SpentBy(b) \subseteq pool
  BY DEF FreshCoins, Unspent, AddedBy, SpentBy
<1>2. pool \subseteq Output /\ Unspent \subseteq Output /\ AddedBy(b) \subseteq Output
  BY DEF Unspent, AddedBy
<1>3. /\ IsFiniteSet(pool) /\ IsFiniteSet(Unspent) /\ IsFiniteSet(AddedBy(b))
      /\ \A o \in pool : value[o] \in Int
  BY <1>2, FiniteRowsAssumption, BlockDataAssumption, FS_Subset
<1>4. ValueOf(pool) = ValueOf(Unspent) + ValueOf(AddedBy(b))
  BY <1>1, <1>3, SumDisjoint DEF ValueOf
<1>5. ValueOf(pool \ SpentBy(b)) = ValueOf(pool) - ValueOf(SpentBy(b))
  <2> HIDE DEF pool
  <2> QED BY <1>1, <1>3, SumWithout DEF ValueOf
<1>6. ValueOf(AddedBy(b)) - ValueOf(SpentBy(b)) = CoinbaseTotal(b) - BlockFee(b) - ExcludedValue(b)
  BY BlockBalance
<1>7. /\ ValueOf(Unspent) \in Int /\ ValueOf(AddedBy(b)) \in Int /\ ValueOf(SpentBy(b)) \in Int
      /\ CoinbaseTotal(b) \in Int /\ BlockFee(b) \in Int /\ ExcludedValue(b) \in Int
  BY <1>1, <1>2, ValueNat, FactsTyped DEF applyTransactions
<1> HIDE DEF pool
<1>8. QED
  <2>1. ValueOf(pool \ SpentBy(b)) = ValueOf(Unspent) + CoinbaseTotal(b) - BlockFee(b)
                                       - ExcludedValue(b)
    BY <1>4, <1>5, <1>6, <1>7
  <2>2. QED
    BY <2>1 DEF pool

\* What the block does to the coins of the tip, in value.
LEMMA ApplyMovesValue ==
  ASSUME ChainInv, CoinInv, NEW b \in Block, b \notin canonical, ApplyBlock(b)
  PROVE  ValueOf(Unspent') = ValueOf(Unspent) + CoinbaseTotal(b) - BlockFee(b) - ExcludedValue(b)
<1> USE TreeAssumption, IdentityAssumption
<1> DEFINE left == (Unspent \cup AddedBy(b)) \ SpentBy(b)
<1>1. Unspent' = left
  <2>1. \A o \in Output : SpendsCoin(b, o) => Spender(b, o) # NoTx
    BY TxPosition DEF SpendsCoin, Spender
  <2>2. ASSUME NEW o \in Output PROVE o \in Unspent' <=> o \in left
    <3>1. CASE SpendsCoin(b, o)
      <4> DEFINE from == IF utxo[o] = NoRow THEN b ELSE utxo[o].created
      <4>1. utxo'[o] = [created |-> from, spentBy |-> Spender(b, o), spentIn |-> b]
        BY <3>1, CoinsWritten
      <4> HIDE DEF from
      <4>2. utxo'[o].spentBy # NoTx
        BY <2>1, <3>1, <4>1
      <4>3. QED
        BY <3>1, <4>2 DEF Unspent, SpentBy
    <3>2. CASE ~SpendsCoin(b, o) /\ AddsCoin(b, o)
      <4>1. utxo'[o] = Coin(b)
        BY <3>2, CoinsWritten
      <4>2. Coin(b) \in CoinRow /\ Coin(b).spentBy = NoTx
        BY DEF Coin, CoinRow
      <4>3. QED
        BY <3>2, <4>1, <4>2 DEF Unspent, SpentBy, AddedBy
    <3>3. CASE ~SpendsCoin(b, o) /\ ~AddsCoin(b, o)
      BY <3>3, CoinsWritten DEF Unspent, SpentBy, AddedBy
    <3>4. QED
      BY <3>1, <3>2, <3>3
  <2>3. Unspent' \subseteq Output /\ left \subseteq Output
    BY DEF Unspent, AddedBy
  <2>4. QED
    BY <2>2, <2>3
<1>2. FreshCoins(b)
  BY FreshPrevouts DEF FreshCoins
<1>3. QED
  BY <1>1, <1>2, ValueAfter DEF ApplyBlock, Accepts

\* A row carries the UTXO algebra in it.
LEMMA RowAlgebra ==
  ASSUME FactsInv, RollupTypeOK, RollupRecurrence, NEW b \in Block, rollup[b] # NoRow
  PROVE  /\ rollup[b] \in RollupRow
         /\ rollup[b].cumUTXO = rollup[b].cumCoinbase - rollup[b].cumFee - rollup[b].cumExcluded
<1>1. rollup[b] = SupplyRollup(b) /\ rollup[b] \in RollupRow
  BY DEF RollupRecurrence, RollupGrounded, RollupTypeOK
<1> DEFINE p == ParentRollup(b)
           f == BlockFacts(b)
           x == ExcludedValue(b)
<1>2. /\ SupplyRollup(b).cumCoinbase = p.cumCoinbase + f.coinbase
      /\ SupplyRollup(b).cumFee = p.cumFee + f.fee
      /\ SupplyRollup(b).cumExcluded = p.cumExcluded + x
      /\ SupplyRollup(b).cumUTXO =
           p.cumCoinbase + f.coinbase - (p.cumFee + f.fee) - (p.cumExcluded + x)
  BY DEF SupplyRollup
<1>3. p \in RollupRow /\ f \in FactsRow /\ x \in Nat
  <2>1. b \in blocks /\ ParentRollup(b) # NoRow
    BY DEF RollupRecurrence, RollupGrounded
  <2>2. x \in Nat
    BY ValueNat DEF ExcludedValue, ExcludedOutputs, OutsOf
  <2>3. p \in RollupRow
    BY <2>1, TreeAssumption DEF ParentRollup, RollupTypeOK, ZeroRollup, RollupRow
  <2>4. QED
    BY <2>1, <2>2, <2>3 DEF FactsInv
<1> HIDE DEF p, f, x
<1>4. QED
  BY <1>1, <1>2, <1>3 DEF RollupRow, FactsRow

\* Blocks above b change nothing of what the chain had at b.
LEMMA LowerCoinsKept ==
  ASSUME ChainInv, CoinInv, NEW b \in Block, b \notin canonical, ApplyBlock(b), NEW c \in canonical
  PROVE  CoinsAt(c)' = CoinsAt(c)
<1> USE TreeAssumption, IdentityAssumption
<1>1. c \in Block /\ height[c] < height[b] /\ height[c] \in Nat /\ height[b] \in Nat
  <2>1. checkpoint # NoBlock /\ b # checkpoint /\ checkpoint \in Block /\ c \in Block
    BY DEF ChainInv, ChainTypeOK, CanonicalLinked
  <2>2. height[b] = height[checkpoint] + 1
    BY <2>1 DEF ApplyBlock, Accepts, checkCanonicalContinuity
  <2>3. QED
    BY <2>1, <2>2 DEF ChainInv, CanonicalLinked
<1>2. ASSUME NEW o \in Output PROVE o \in CoinsAt(c)' <=> o \in CoinsAt(c)
  <2>1. CASE SpendsCoin(b, o)
    <3> DEFINE from == IF utxo[o] = NoRow THEN b ELSE utxo[o].created
               spender == Spender(b, o)
    <3>1. utxo'[o] = [created |-> from, spentBy |-> spender, spentIn |-> b]
      BY <2>1, CoinsWritten
    <3>2. spender # NoTx
      BY <2>1, TxPosition DEF SpendsCoin, Spender
    <3>3. utxo[o] # NoRow => utxo[o].spentBy = NoTx
      BY <2>1, FreshPrevouts
    <3>4. utxo[o] = NoRow => from = b
      OBVIOUS
    <3> HIDE DEF from, spender
    <3>5. /\ utxo'[o].created = from /\ utxo'[o].spentIn = b
          /\ utxo'[o].spentBy = spender
      BY <3>1
    <3>6. utxo'[o] # NoRow
      <4>1. CoinInv'
        BY ApplyKeepsCoins
      <4>2. b \in canonical'
        BY DEF ApplyBlock
      <4>3. QED
        BY <2>1, <4>1, <4>2 DEF CoinInv, SpendsRecorded, SpendsCoin
    <3>7. CASE utxo[o] = NoRow
      BY <1>1, <3>2, <3>4, <3>5, <3>6, <3>7 DEF CoinsAt
    <3>8. CASE utxo[o] # NoRow
      <4>1. from = utxo[o].created
        BY <3>8 DEF from
      <4>2. QED
        BY <1>1, <3>3, <3>5, <3>6, <3>8, <4>1 DEF CoinsAt
    <3>9. QED
      BY <3>7, <3>8
  <2>2. CASE ~SpendsCoin(b, o) /\ AddsCoin(b, o)
    <3>1. utxo'[o] = Coin(b) /\ utxo[o] = NoRow
      BY <2>2, CoinsWritten, FreshPrevouts
    <3>2. utxo'[o].created = b
      BY <3>1 DEF Coin
    <3>3. QED
      BY <1>1, <3>1, <3>2 DEF CoinsAt
  <2>3. CASE ~SpendsCoin(b, o) /\ ~AddsCoin(b, o)
    BY <2>3, CoinsWritten DEF CoinsAt
  <2>4. QED
    BY <2>1, <2>2, <2>3
<1>3. QED
  BY <1>2 DEF CoinsAt

\* Nor does cutting the chain above it.
LEMMA RollbackKeepsLowerCoins ==
  ASSUME ChainInv, CoinInv, NEW a \in Block, RollbackTo(a), NEW c \in canonical'
  PROVE  CoinsAt(c)' = CoinsAt(c)
<1> USE TreeAssumption, IdentityAssumption
<1>1. /\ utxo' = CoinsAfterRollback(Orphans(a))
      /\ c \in canonical /\ height[c] <= height[a] /\ height[c] \in Nat /\ height[a] \in Nat
      /\ canonical \subseteq Block
  BY DEF RollbackTo, UpdateLedger, Orphans, ChainInv, ChainTypeOK
<1>2. \A d \in Orphans(a) : height[d] > height[c]
  BY <1>1 DEF Orphans
<1>3. ASSUME NEW o \in Output PROVE o \in CoinsAt(c)' <=> o \in CoinsAt(c)
  <2>1. utxo[o] # NoRow => height[utxo[o].created] \in Nat
    BY <1>1 DEF CoinInv, CoinsOwned
  <2>2. CASE utxo[o] = NoRow
    <3>1. utxo'[o] = NoRow
      BY <1>1, <2>2 DEF CoinsAfterRollback
    <3>2. QED
      BY <2>2, <3>1 DEF CoinsAt
  <2>3. CASE utxo[o] # NoRow /\ utxo[o].created \in Orphans(a)
    <3>1. utxo'[o] = NoRow
      BY <1>1, <2>3 DEF CoinsAfterRollback
    <3>2. height[utxo[o].created] > height[c]
      BY <1>2, <2>3
    <3>3. QED
      BY <1>1, <2>1, <2>3, <3>1, <3>2 DEF CoinsAt
  <2>4. CASE utxo[o] # NoRow /\ utxo[o].created \notin Orphans(a) /\ utxo[o].spentIn \in Orphans(a)
    <3>1. utxo'[o] = [created |-> utxo[o].created, spentBy |-> NoTx, spentIn |-> NoBlock]
      BY <1>1, <2>4 DEF CoinsAfterRollback, Coin
    <3>2. utxo'[o] # NoRow
      <4>1. utxo[o].created \in Block
        BY <1>1, <2>4 DEF CoinInv, CoinsOwned
      <4>2. QED
        BY <3>1, <4>1 DEF CoinRow
    <3>3. utxo'[o].created = utxo[o].created /\ utxo'[o].spentBy = NoTx
      BY <3>1
    <3>4. height[utxo[o].spentIn] > height[c]
      BY <1>2, <2>4
    <3>5. QED
      BY <2>4, <3>2, <3>3, <3>4 DEF CoinsAt
  <2>5. CASE utxo[o] # NoRow /\ utxo[o].created \notin Orphans(a) /\ utxo[o].spentIn \notin Orphans(a)
    <3>1. utxo'[o] = utxo[o]
      BY <1>1, <2>5 DEF CoinsAfterRollback
    <3>2. QED
      BY <3>1 DEF CoinsAt
  <2>6. QED
    BY <2>2, <2>3, <2>4, <2>5
<1>4. QED
  BY <1>3 DEF CoinsAt

\* A replayed tip finds its row, or has none to find.
LEMMA ReplayKeepsRows ==
  ASSUME ChainInv, RollupInv, NEW b \in canonical, ApplyBlock(b)
  PROVE  canonical' = canonical /\ rollup' = rollup
<1>1. canonical' = canonical /\ b \in Block
  BY DEF ApplyBlock, ChainInv, ChainTypeOK
<1>2. RollupTypeOK /\ RollupTypeOK' /\ RollupCovered /\ RollupCovered'
  BY <1>1, RowsWritten, ApplyKeepsLineage DEF RollupInv
<1>3. ASSUME NEW c \in Block PROVE rollup'[c] = rollup[c]
  <2>1. CASE c # b \/ rollup[c] # NoRow
    BY <1>1, <1>2, <2>1, RowsWritten
  <2>2. CASE c = b /\ rollup[b] = NoRow
    BY <1>1, <1>2, <2>2 DEF RollupCovered
  <2>3. QED
    BY <2>1, <2>2
<1>4. QED
  BY <1>1, <1>2, <1>3 DEF RollupTypeOK

\* The facts of accepted blocks are numbers, so their sums are.
ColumnsTyped(S) ==
  \A c \in S : /\ SubsidyOf[c] \in Int /\ FeeOf[c] \in Int /\ CoinbaseOf[c] \in Int
               /\ UnclaimedOf[c] \in Int /\ ExcludedOf[c] \in Int

\* What a block adds to a column: its own fact on top of its parent's total.
LEMMA ColumnGrows ==
  ASSUME NEW S, IsFiniteSet(S), NEW f, NEW b, b \notin S,
         \A c \in S \cup {b} : f[c] \in Int,
         NEW p, p = SumFunctionOnSet(f, S)
  PROVE  p + f[b] = SumFunctionOnSet(f, S \cup {b})
<1>1. SumFunctionOnSet(f, S \cup {b}) = f[b] + p
  BY SumAdd
<1>2. f[b] \in Int /\ p \in Int
  BY SumInt
<1>3. QED
  BY <1>1, <1>2

\* The blocks below a canonical block stay, and the new block is on top of
\* those of the tip (ApplyBlock).
LEMMA ApplyExtendsBranch ==
  ASSUME ChainInv, NEW b \in Block, b \notin canonical, ApplyBlock(b)
  PROVE  /\ \A c \in canonical : ChainTo(c)' = ChainTo(c)
         /\ canonical = {} => ChainTo(b)' = {b}
         /\ canonical # {} => /\ checkpoint \in canonical /\ prev[b] = checkpoint
                              /\ height[b] = height[checkpoint] + 1
                              /\ ChainTo(b)' = ChainTo(checkpoint) \cup {b}
                              /\ b \notin ChainTo(checkpoint)
<1> USE TreeAssumption
<1>1. canonical' = canonical \cup {b} /\ canonical \subseteq Block /\ height[b] \in Nat
  BY DEF ApplyBlock, ChainInv, ChainTypeOK
<1>2. CASE canonical = {}
  BY <1>1, <1>2 DEF ChainTo
<1>3. CASE canonical # {}
  <2>1. checkpoint # NoBlock /\ checkpoint \in canonical /\ b # checkpoint
    BY <1>3 DEF ChainInv, ChainTypeOK, CanonicalLinked
  <2>2. prev[b] = checkpoint /\ height[b] = height[checkpoint] + 1
    BY <2>1 DEF ApplyBlock, Accepts, checkCanonicalContinuity
  <2>3. \A c \in canonical : height[c] <= height[checkpoint] /\ height[c] \in Nat
    BY <1>1 DEF ChainInv, CanonicalLinked
  <2>4. QED
    BY <1>1, <2>1, <2>2, <2>3 DEF ChainTo
<1>4. QED
  BY <1>2, <1>3

\* The new row's totals are those of the branch it ends (applySupplyRollup).
RowTotals(b) ==
  /\ rollup[b].cumSubsidy = SumFunctionOnSet(SubsidyOf, ChainTo(b))
  /\ rollup[b].cumFee = SumFunctionOnSet(FeeOf, ChainTo(b))
  /\ rollup[b].cumCoinbase = SumFunctionOnSet(CoinbaseOf, ChainTo(b))
  /\ rollup[b].cumUnclaimed = SumFunctionOnSet(UnclaimedOf, ChainTo(b))
  /\ rollup[b].cumExcluded = SumFunctionOnSet(ExcludedOf, ChainTo(b))

LEMMA NewRowTotals ==
  ASSUME ChainInv, FiniteChain, RollupInv, RollupTotals,
         NEW b \in Block, b \notin canonical, ApplyBlock(b), rollup'[b] # NoRow
  PROVE  RowTotals(b)'
<1> USE TreeAssumption
<1> DEFINE p == ParentRollup(b)
           S == ChainTo(b)' \ {b}
<1>1. p # NoRow /\ rollup'[b] = SupplyRollup(b)
  <2>1. CASE p = NoRow
    <3>1. rollup[b] # NoRow
      BY <2>1, RowsWritten DEF RollupInv
    <3>2. QED
      BY <2>1, <3>1 DEF RollupInv, RollupRecurrence, RollupGrounded
  <2>2. QED
    BY <2>1, RowsWritten DEF RollupInv
<1>2. /\ rollup'[b].cumSubsidy = p.cumSubsidy + SubsidyOf[b]
      /\ rollup'[b].cumFee = p.cumFee + FeeOf[b]
      /\ rollup'[b].cumCoinbase = p.cumCoinbase + CoinbaseOf[b]
      /\ rollup'[b].cumUnclaimed = p.cumUnclaimed + UnclaimedOf[b]
      /\ rollup'[b].cumExcluded = p.cumExcluded + ExcludedOf[b]
  BY <1>1 DEF SupplyRollup, SubsidyOf, FeeOf, CoinbaseOf, UnclaimedOf, ExcludedOf
<1>3. /\ b \notin S /\ IsFiniteSet(S) /\ ChainTo(b)' = S \cup {b} /\ S \subseteq canonical
  <2>1. canonical' = canonical \cup {b}
    BY DEF ApplyBlock
  <2>2. b \in ChainTo(b)' /\ S \subseteq canonical
    BY <2>1 DEF ChainTo
  <2>3. QED
    BY <2>2, FS_Subset DEF FiniteChain
<1>4. ColumnsTyped(S \cup {b})
  <2>1. FactsInv' /\ S \cup {b} \subseteq blocks' /\ blocks' \subseteq Block
    BY <1>3, ApplyKeepsFacts DEF RollupInv, ApplyBlock, ChainInv, ChainTypeOK
  <2>2. \A c \in S \cup {b} : BlockFacts(c) \in FactsRow /\ ExcludedValue(c) \in Nat /\ c \in Block
    BY <2>1, ValueNat DEF FactsInv, ExcludedValue, ExcludedOutputs, OutsOf
  <2>3. QED
    BY <2>2 DEF ColumnsTyped, FactsRow, SubsidyOf, FeeOf, CoinbaseOf, UnclaimedOf, ExcludedOf
<1>5. /\ p.cumSubsidy = SumFunctionOnSet(SubsidyOf, S)
      /\ p.cumFee = SumFunctionOnSet(FeeOf, S)
      /\ p.cumCoinbase = SumFunctionOnSet(CoinbaseOf, S)
      /\ p.cumUnclaimed = SumFunctionOnSet(UnclaimedOf, S)
      /\ p.cumExcluded = SumFunctionOnSet(ExcludedOf, S)
  <2>1. CASE height[b] = 0
    <3>1. S = {}
      <4>1. CASE canonical = {}
        BY <4>1, ApplyExtendsBranch
      <4>2. CASE canonical # {}
        <5>1. height[b] = height[checkpoint] + 1 /\ checkpoint \in Block
          BY <4>2, ApplyExtendsBranch DEF ChainInv, ChainTypeOK
        <5>2. QED
          BY <2>1, <5>1
      <4>3. QED
        BY <4>1, <4>2
    <3>2. p = ZeroRollup
      BY <2>1 DEF ParentRollup
    <3>3. QED
      BY <3>1, <3>2, SumEmpty DEF ZeroRollup
  <2>2. CASE height[b] # 0
    <3>1. prev[b] \in canonical /\ p = rollup[prev[b]]
      BY <1>1, <2>2, ParentOnChain DEF ParentRollup
    <3>2. prev[b] = checkpoint /\ S = ChainTo(checkpoint)
      BY <3>1, ApplyExtendsBranch
    <3>3. QED
      BY <1>1, <3>1, <3>2 DEF RollupTotals
  <2>3. QED
    BY <2>1, <2>2
<1> HIDE DEF p, S
<1>6. QED
  <2>1. rollup'[b].cumSubsidy = SumFunctionOnSet(SubsidyOf, S \cup {b})
    BY <1>2, <1>3, <1>4, <1>5, ColumnGrows DEF ColumnsTyped
  <2>2. rollup'[b].cumFee = SumFunctionOnSet(FeeOf, S \cup {b})
    BY <1>2, <1>3, <1>4, <1>5, ColumnGrows DEF ColumnsTyped
  <2>3. rollup'[b].cumCoinbase = SumFunctionOnSet(CoinbaseOf, S \cup {b})
    BY <1>2, <1>3, <1>4, <1>5, ColumnGrows DEF ColumnsTyped
  <2>4. rollup'[b].cumUnclaimed = SumFunctionOnSet(UnclaimedOf, S \cup {b})
    BY <1>2, <1>3, <1>4, <1>5, ColumnGrows DEF ColumnsTyped
  <2>5. rollup'[b].cumExcluded = SumFunctionOnSet(ExcludedOf, S \cup {b})
    BY <1>2, <1>3, <1>4, <1>5, ColumnGrows DEF ColumnsTyped
  <2>6. QED
    BY <1>3, <2>1, <2>2, <2>3, <2>4, <2>5
       DEF RowTotals, SubsidyOf, FeeOf, CoinbaseOf, UnclaimedOf, ExcludedOf

LEMMA ApplyKeepsTotals ==
  ASSUME ChainInv, FiniteChain, RollupInv, RollupTotals, NEW b \in Block, ApplyBlock(b)
  PROVE  RollupTotals'
<1>1. CASE b \in canonical
  BY <1>1, ReplayKeepsRows DEF RollupTotals, ChainTo
<1>2. CASE b \notin canonical
  <2> SUFFICES ASSUME NEW c \in canonical', rollup'[c] # NoRow PROVE RowTotals(c)'
    BY DEF RollupTotals, RowTotals
  <2>1. CASE c = b
    BY <1>2, <2>1, NewRowTotals
  <2>2. CASE c # b
    <3>1. c \in canonical /\ c \in Block
      BY <2>2 DEF ApplyBlock, ChainInv, ChainTypeOK
    <3>2. rollup'[c] = rollup[c] /\ ChainTo(c)' = ChainTo(c)
      BY <1>2, <2>2, <3>1, RowsWritten, ApplyExtendsBranch DEF RollupInv
    <3>3. RowTotals(c)
      BY <3>1, <3>2 DEF RollupTotals, RowTotals
    <3>4. QED
      BY <3>2, <3>3 DEF RowTotals, SubsidyOf, FeeOf, CoinbaseOf, UnclaimedOf, ExcludedOf
  <2>3. QED
    BY <2>1, <2>2
<1>3. QED
  BY <1>1, <1>2

\* A rollback keeps the rows, and all blocks below a block it keeps.
LEMMA RollbackKeepsTotals ==
  ASSUME ChainInv, RollupTotals, NEW a \in Block, RollbackTo(a)
  PROVE  RollupTotals'
<1> USE TreeAssumption
<1>1. /\ a \in canonical /\ canonical \subseteq Block
      /\ canonical' = {b \in canonical : height[b] <= height[a]}
      /\ UNCHANGED <<blocks, accounting, rollup>>
  BY DEF RollbackTo, RollbackAccepted, AncestorFound, Orphans, ChainInv, ChainTypeOK, supplyVars
<1> SUFFICES ASSUME NEW c \in canonical', rollup'[c] # NoRow PROVE RowTotals(c)'
  BY DEF RollupTotals, RowTotals
<1>2. ChainTo(c)' = ChainTo(c)
  BY <1>1 DEF ChainTo
<1>3. RowTotals(c)
  BY <1>1 DEF RollupTotals, RowTotals
<1>4. QED
  BY <1>1, <1>2, <1>3 DEF RowTotals, SubsidyOf, FeeOf, CoinbaseOf, UnclaimedOf, ExcludedOf

\* On a chain rooted in genesis every canonical block has its rollup row, on
\* one bootstrapped elsewhere none has; and the totals in a row, written once
\* from the parent's row, are the sums of the facts of all canonical blocks up
\* to it, whatever was rolled back, orphaned and promoted before
\* (applySupplyRollup).
THEOREM RollupsExact == Spec => []RollupLineage
<1>1. Init => RollupTotals
  BY DEF Init, RollupTotals
<1>2. ChainInv /\ FiniteChain /\ RollupInv /\ RollupTotals /\ [Next]_vars => RollupTotals'
  <2> SUFFICES ASSUME ChainInv, FiniteChain, RollupInv, RollupTotals, [Next]_vars
               PROVE  RollupTotals'
    OBVIOUS
  <2>1. CASE UNCHANGED vars
    BY <2>1 DEF vars, RollupTotals, ChainTo
  <2>2. ASSUME NEW b \in Block, ApplyBlock(b) PROVE RollupTotals'
    BY <2>2, ApplyKeepsTotals
  <2>3. ASSUME NEW a \in Block, RollbackTo(a) PROVE RollupTotals'
    BY <2>3, RollbackKeepsTotals
  <2>4. QED
    BY <2>1, <2>2, <2>3 DEF Next, RejectBlock, RejectRollback
<1>3. RollupInv /\ RollupTotals => RollupLineage
  BY DEF RollupInv, RollupLineage
<1>4. QED
  BY <1>1, <1>2, <1>3, CoinsInvariant, ChainFinite, RollupsInvariant, PTL DEF Spec

\* One more block: its row is worth the coins of its parent's row and what
\* the block does to them.
LEMMA ApplyKeepsSupply ==
  ASSUME ChainInv, CoinInv, RollupInv, SupplyInv, TipCoinsExact', NEW b \in Block, ApplyBlock(b)
  PROVE  SupplyInv'
<1> USE TreeAssumption
<1>1. /\ FactsInv /\ RollupTypeOK /\ RollupRecurrence /\ canonical \subseteq Block
      /\ canonical' = canonical \cup {b} /\ checkpoint' = b
      /\ FeesAccepted(b) /\ CoinbaseAccepted(b)
  BY DEF RollupInv, ChainInv, ChainTypeOK, ApplyBlock, Accepts, applyTransactions
<1>2. CASE b \in canonical
  <2>1. utxo' = utxo /\ rollup' = rollup /\ canonical' = canonical
    BY <1>2, ReplayKeepsCoins, ReplayKeepsRows DEF ApplyBlock, UpdateLedger
  <2>2. QED
    BY <2>1 DEF SupplyInv, CoinsAt
<1>3. CASE b \notin canonical
  <2>1. ASSUME NEW c \in canonical, rollup'[c] # NoRow PROVE rollup'[c].cumUTXO = ValueOf(CoinsAt(c)')
    <3>1. rollup'[c] = rollup[c]
      BY <1>1, <1>3, RowsWritten
    <3>2. CoinsAt(c)' = CoinsAt(c)
      BY <1>3, LowerCoinsKept
    <3>3. QED
      BY <2>1, <3>1, <3>2 DEF SupplyInv
  <2>2. ASSUME rollup'[b] # NoRow PROVE rollup'[b].cumUTXO = ValueOf(CoinsAt(b)')
    <3> DEFINE p == ParentRollup(b)
               f == BlockFacts(b)
               x == ExcludedValue(b)
    <3>1. p # NoRow
      BY <1>1, <2>2, RowsWritten DEF RollupRecurrence, RollupGrounded
    <3>2. rollup'[b] = SupplyRollup(b)
      BY <1>1, <3>1, RowsWritten
    <3>3. SupplyRollup(b).cumUTXO =
            p.cumCoinbase + f.coinbase - (p.cumFee + f.fee) - (p.cumExcluded + x)
      BY DEF SupplyRollup
    <3>4. /\ f.coinbase = CoinbaseTotal(b) /\ f.fee = BlockFee(b)
          /\ CoinbaseTotal(b) \in Int /\ BlockFee(b) \in Int /\ x \in Int
      <4>1. f.coinbase = CoinbaseTotal(b) /\ f.fee = BlockFee(b)
        BY DEF BlockFacts, ComputeBlockFacts
      <4>2. QED
        BY <1>1, <4>1, FactsTyped
    <3>5. /\ p \in RollupRow
          /\ p.cumUTXO = p.cumCoinbase - p.cumFee - p.cumExcluded
          /\ p.cumUTXO = ValueOf(Unspent)
      <4>1. CASE height[b] = 0
        <5>1. canonical = {}
          BY <1>1, <1>3, <4>1 DEF ApplyBlock, Accepts, checkCanonicalContinuity, ChainInv,
                                  ChainTypeOK, CanonicalLinked
        <5>2. Unspent = {}
          BY <5>1 DEF Unspent, CoinInv, CoinsOwned
        <5>3. ValueOf(Unspent) = 0
          BY <5>2, SumEmpty DEF ValueOf
        <5>4. QED
          BY <4>1, <5>3 DEF ParentRollup, ZeroRollup, RollupRow
      <4>2. CASE height[b] # 0
        <5>1. prev[b] \in canonical
          BY <3>1, <4>2, ParentOnChain
        <5>2. checkpoint # NoBlock /\ prev[b] = checkpoint
          BY <1>3, <5>1 DEF ApplyBlock, Accepts, checkCanonicalContinuity, ChainInv,
                            ChainTypeOK, CanonicalLinked
        <5>3. p = rollup[checkpoint] /\ checkpoint \in Block /\ checkpoint \in canonical
          BY <1>1, <4>2, <5>1, <5>2 DEF ParentRollup
        <5>4. rollup[checkpoint].cumUTXO = ValueOf(Unspent)
          BY <3>1, <5>2, <5>3, TipCoins DEF SupplyInv, TipCoinsExact
        <5> HIDE DEF p
        <5>5. QED
          BY <1>1, <3>1, <5>3, <5>4, RowAlgebra
      <4>3. QED
        BY <4>1, <4>2
    <3>6. ValueOf(CoinsAt(b)') = ValueOf(Unspent) + CoinbaseTotal(b) - BlockFee(b) - ExcludedValue(b)
      <4>1. CoinsAt(b)' = Unspent'
        BY <1>1 DEF TipCoinsExact
      <4>2. QED
        BY <1>3, <4>1, ApplyMovesValue
    <3> HIDE DEF p, f, x
    <3>7. QED
      BY <3>2, <3>3, <3>4, <3>5, <3>6 DEF RollupRow, x
  <2>3. QED
    BY <1>1, <2>1, <2>2 DEF SupplyInv
<1>4. QED
  BY <1>2, <1>3

\* The tip's rollup row, built by adding coinbases, fees and exclusions along
\* parent links, states the value of the actual coin set, after any history
\* of blocks and reorganisations (applySupplyRollup).
THEOREM SupplyCorrect == Spec => []SupplyMatchesCoins
<1>1. ChainInv /\ CoinInv => TipCoinsExact
  BY TipCoins
<1>2. Init => SupplyInv
  BY DEF Init, SupplyInv
<1>3. /\ ChainInv /\ CoinInv /\ RollupInv /\ SupplyInv /\ TipCoinsExact'
      /\ [Next]_vars
      => SupplyInv'
  <2> SUFFICES ASSUME ChainInv, CoinInv, RollupInv, SupplyInv, TipCoinsExact', [Next]_vars
               PROVE  SupplyInv'
    OBVIOUS
  <2>1. CASE UNCHANGED vars
    BY <2>1 DEF vars, SupplyInv, CoinsAt
  <2>2. ASSUME NEW b \in Block, ApplyBlock(b) PROVE SupplyInv'
    BY <2>2, ApplyKeepsSupply
  <2>3. ASSUME NEW a \in Block, RollbackTo(a) PROVE SupplyInv'
    <3>1. rollup' = rollup /\ canonical' \subseteq canonical
      BY <2>3 DEF RollbackTo, supplyVars
    <3>2. \A c \in canonical' : CoinsAt(c)' = CoinsAt(c)
      BY <2>3, RollbackKeepsLowerCoins
    <3>3. ASSUME NEW c \in canonical', rollup'[c] # NoRow
          PROVE  rollup'[c].cumUTXO = ValueOf(CoinsAt(c)')
      BY <3>1, <3>2, <3>3 DEF SupplyInv
    <3>4. QED
      BY <3>3 DEF SupplyInv
  <2>4. QED
    BY <2>1, <2>2, <2>3 DEF Next, RejectBlock, RejectRollback
<1>4. ChainInv /\ SupplyInv /\ TipCoinsExact => SupplyMatchesCoins
  BY DEF ChainInv, ChainTypeOK, SupplyInv, TipCoinsExact, SupplyMatchesCoins
<1>5. QED
  BY <1>1, <1>2, <1>3, <1>4, CoinsInvariant, RollupsInvariant, PTL DEF Spec

-----------------------------------------------------------------------------
(* The schedule                                                            *)

\* The heights of an era are an interval of HalvingInterval heights.
LEMMA EraOfHeight ==
  ASSUME NEW k \in Nat, NEW e \in Nat
  PROVE  /\ Halvings(k) \in Nat
         /\ Halvings(k) = e <=> e * HalvingInterval <= k /\ k < (e + 1) * HalvingInterval
<1> DEFINE H == HalvingInterval
           q == k \div H
           r == k % H
<1>1. H \in Nat \ {0}
  BY ScheduleAssumption
<1>2. q \in Nat /\ r \in Nat /\ r < H /\ k = H * q + r
  <2> HIDE DEF H
  <2> QED BY <1>1
<1>3. Halvings(k) = q
  BY DEF Halvings
<1> HIDE DEF H, q, r
<1>4. ASSUME q < e PROVE H * (q + 1) <= H * e
  BY <1>1, <1>2, <1>4
<1>5. ASSUME e < q PROVE H * (e + 1) <= H * q
  BY <1>1, <1>2, <1>5
<1>6. q = e <=> e * H <= k /\ k < (e + 1) * H
  BY <1>1, <1>2, <1>4, <1>5
<1>7. QED
  BY <1>2, <1>3, <1>6 DEF H

\* What the blocks of one era up to height h pay together.
LEMMA EraTotal ==
  ASSUME NEW h \in Nat, NEW e \in ErasBegun(h)
  PROVE  /\ {k \in 0..h : Halvings(k) = e} \subseteq 0..h
         /\ SumFunctionOnSet([k \in 0..h |-> BlockSubsidy(k)], {k \in 0..h : Halvings(k) = e})
              = (InitialSubsidy \div 2^e) * BlocksInEra(h, e)
<1> DEFINE H == HalvingInterval
           era == {k \in 0..h : Halvings(k) = e}
           top == IF h < (e + 1) * H - 1 THEN h ELSE (e + 1) * H - 1
           from == e * H
           c == InitialSubsidy \div 2^e
           f == [k \in 0..h |-> BlockSubsidy(k)]
<1>1. /\ H \in Nat \ {0} /\ MaxHalvings \in Nat
      /\ e \in Nat /\ e < MaxHalvings /\ from <= h /\ from \in Nat /\ (e + 1) * H = from + H
  BY ScheduleAssumption DEF ErasBegun
<1>2. \A k \in 0..h : k \in Nat /\ (Halvings(k) = e <=> from <= k /\ k < (e + 1) * H)
  BY <1>1, EraOfHeight
<1>3. top \in Int /\ from \in Int /\ from <= top /\ top - from + 1 = BlocksInEra(h, e)
  <2> HIDE DEF from, H
  <2>1. top \in Int /\ from <= top
    BY <1>1
  <2>2. BlocksInEra(h, e) = IF h < (e + 1) * H - 1 THEN h - from + 1 ELSE H
    BY DEF BlocksInEra, H, from
  <2>3. QED
    BY <1>1, <2>1, <2>2
<1>4. era = from..top
  <2> HIDE DEF from, H
  <2>1. \A k \in Int : k \in from..top <=> k \in 0..h /\ from <= k /\ k < (e + 1) * H
    BY <1>1
  <2>2. QED
    BY <1>1, <1>2, <2>1
<1>5. IsFiniteSet(era) /\ Cardinality(era) = BlocksInEra(h, e)
  <2> HIDE DEF from, top, era
  <2> QED BY <1>3, <1>4, FS_Interval
<1>6. \A k \in era : f[k] = c
  BY <1>1 DEF BlockSubsidy
<1>7. c \in Int
  <2>1. 2^e \in Nat \ {0}
    BY <1>1, PowerOfTwo
  <2> DEFINE d == 2^e
  <2> HIDE DEF d
  <2>2. d \in Nat \ {0}
    BY <2>1 DEF d
  <2>3. InitialSubsidy \div d \in Int
    BY <2>2, ScheduleAssumption
  <2>4. QED
    BY <2>3 DEF d
<1>8. SumFunctionOnSet(f, era) = c * Cardinality(era)
  <2> HIDE DEF f, era, c
  <2> QED BY <1>5, <1>6, <1>7, SumConstant
<1>9. QED
  BY <1>5, <1>8

\* The closed form of the schedule, one product per halving era, is the sum
\* of the block subsidies (ScheduledSubsidyThroughHeight).
LEMMA ClosedForm ==
  ASSUME NEW h \in Nat
  PROVE  ScheduledSubsidyThroughHeight(h) =
           SumFunctionOnSet([k \in 0..h |-> BlockSubsidy(k)], 0..h)
<1> DEFINE f == [k \in 0..h |-> BlockSubsidy(k)]
           E == ErasBegun(h)
           era == [e \in E |-> {k \in 0..h : Halvings(k) = e}]
           g == [e \in E |-> (InitialSubsidy \div 2^e) * BlocksInEra(h, e)]
           paid == UNION {era[e] : e \in E}
           late == (0..h) \ paid
<1>1. IsFiniteSet(0..h) /\ IsFiniteSet(E) /\ E \subseteq Nat
  <2>1. MaxHalvings \in Nat /\ E \in SUBSET (0..(MaxHalvings - 1))
    BY ScheduleAssumption DEF ErasBegun
  <2>2. IsFiniteSet(0..h) /\ IsFiniteSet(0..(MaxHalvings - 1))
    BY <2>1, FS_Interval
  <2>3. E \subseteq Nat
    BY <2>1
  <2> HIDE DEF E
  <2>4. QED
    BY <2>1, <2>2, <2>3, FS_Subset
<1>2. \A k \in 0..h : f[k] \in Int
  BY SubsidyNat
<1>3. /\ \A e \in E : era[e] \subseteq 0..h
      /\ \A d, e \in E : d # e => era[d] \cap era[e] = {}
  OBVIOUS
<1>4. \A e \in E : g[e] = SumFunctionOnSet(f, era[e])
  BY EraTotal
<1>5. SumFunctionOnSet(f, paid) = SumFunctionOnSet(g, E)
  <2> DEFINE all == 0..h
  <2>1. /\ IsFiniteSet(E) /\ IsFiniteSet(all)
        /\ \A k \in all : f[k] \in Int
        /\ \A e \in E : era[e] \subseteq all
    BY <1>1, <1>2, <1>3
  <2> HIDE DEF f, g, era, E, all
  <2>2. SumFunctionOnSet(f, UNION {era[e] : e \in E}) = SumFunctionOnSet(g, E)
    BY <1>3, <1>4, <2>1, SumParts
  <2>3. QED
    BY <2>2
<1>6. \A k \in late : f[k] = 0
  <2> SUFFICES ASSUME NEW k \in 0..h, k \notin paid PROVE BlockSubsidy(k) = 0
    OBVIOUS
  <2>1. Halvings(k) \in Nat /\ Halvings(k) * HalvingInterval <= k
    BY EraOfHeight
  <2>2. Halvings(k) * HalvingInterval <= h
    <3>1. Halvings(k) * HalvingInterval \in Nat
      BY <2>1, ScheduleAssumption
    <3>2. QED
      BY <2>1, <3>1
  <2>3. ASSUME Halvings(k) < MaxHalvings PROVE FALSE
    <3>1. Halvings(k) \in E
      BY <2>1, <2>2, <2>3, ScheduleAssumption DEF ErasBegun
    <3>2. k \in era[Halvings(k)]
      BY <3>1
    <3>3. QED
      BY <3>1, <3>2
  <2>4. QED
    BY <2>1, <2>3, ScheduleAssumption DEF BlockSubsidy
<1>7. paid \in SUBSET (0..h) /\ IsFiniteSet(late) /\ late \subseteq 0..h
  BY <1>1, <1>3, FS_Difference
<1>8. SumFunctionOnSet(f, late) = 0
  <2> HIDE DEF f, late
  <2> QED BY <1>6, <1>7, SumZero
<1>9. /\ SumFunctionOnSet(f, late) = SumFunctionOnSet(f, 0..h) - SumFunctionOnSet(f, paid)
      /\ SumFunctionOnSet(f, paid) \in Int /\ SumFunctionOnSet(f, 0..h) \in Int
  <2>1. late = (0..h) \ paid
    OBVIOUS
  <2> HIDE DEF f, paid, late
  <2>2. QED
    BY <1>1, <1>2, <1>7, <2>1, SumWithout, SumInt
<1>10. SumFunctionOnSet(f, 0..h) = SumFunctionOnSet(g, E)
  <2> HIDE DEF f, paid, late, g, E
  <2> QED BY <1>5, <1>8, <1>9
<1>11. QED
  BY <1>10 DEF ScheduledSubsidyThroughHeight

\* So one more height adds one more subsidy.
LEMMA ScheduleStep ==
  /\ ScheduledSubsidyThroughHeight(0) = BlockSubsidy(0)
  /\ \A h \in Nat \ {0} : ScheduledSubsidyThroughHeight(h) =
                            ScheduledSubsidyThroughHeight(h - 1) + BlockSubsidy(h)
<1> DEFINE f(h) == [k \in 0..h |-> BlockSubsidy(k)]
<1>1. ASSUME NEW h \in Nat PROVE IsFiniteSet(0..h) /\ \A k \in 0..h : f(h)[k] \in Int
  BY FS_Interval, SubsidyNat
<1>2. ASSUME NEW h \in Nat
      PROVE  SumFunctionOnSet(f(h), 0..h) = f(h)[h] + SumFunctionOnSet(f(h), (0..h) \ {h})
  <2>1. h \in 0..h
    OBVIOUS
  <2> HIDE DEF f
  <2>2. QED
    BY <1>1, <2>1, SumRemove
<1>3. ScheduledSubsidyThroughHeight(0) = BlockSubsidy(0)
  <2>1. (0..0) \ {0} = {} /\ f(0)[0] = BlockSubsidy(0) /\ BlockSubsidy(0) \in Nat
    BY SubsidyNat
  <2>2. SumFunctionOnSet(f(0), {}) = 0
    BY SumEmpty
  <2>3. SumFunctionOnSet(f(0), 0..0) = BlockSubsidy(0)
    <3>1. SumFunctionOnSet(f(0), 0..0) = f(0)[0] + SumFunctionOnSet(f(0), (0..0) \ {0})
      BY <1>2
    <3>2. SumFunctionOnSet(f(0), (0..0) \ {0}) = 0
      BY <2>1, <2>2
    <3> HIDE DEF f
    <3>3. QED
      BY <2>1, <3>1, <3>2
  <2>4. QED
    BY <2>3, ClosedForm
<1>4. ASSUME NEW h \in Nat \ {0}
      PROVE  ScheduledSubsidyThroughHeight(h) = ScheduledSubsidyThroughHeight(h - 1) + BlockSubsidy(h)
  <2> DEFINE g == h - 1
  <2>1. g \in Nat /\ (0..h) \ {h} = 0..g /\ f(h)[h] = BlockSubsidy(h) /\ BlockSubsidy(h) \in Int
    BY SubsidyNat
  <2>2. \A k \in 0..g : f(h)[k] = f(g)[k]
    OBVIOUS
  <2> HIDE DEF f, g
  <2>3. SumFunctionOnSet(f(h), 0..g) = SumFunctionOnSet(f(g), 0..g)
    BY <1>1, <2>1, <2>2, SumSame
  <2>4. SumFunctionOnSet(f(g), 0..g) \in Int
    BY <1>1, <2>1, SumInt
  <2>5. SumFunctionOnSet(f(h), 0..h) = BlockSubsidy(h) + SumFunctionOnSet(f(g), 0..g)
    BY <1>2, <2>1, <2>3
  <2>6. /\ ScheduledSubsidyThroughHeight(h) = SumFunctionOnSet(f(h), 0..h)
        /\ ScheduledSubsidyThroughHeight(g) = SumFunctionOnSet(f(g), 0..g)
    BY <2>1, ClosedForm DEF f
  <2>7. ScheduledSubsidyThroughHeight(h) = ScheduledSubsidyThroughHeight(g) + BlockSubsidy(h)
    BY <2>1, <2>4, <2>5, <2>6
  <2>8. QED
    BY <2>7 DEF g
<1>5. QED
  BY <1>3, <1>4

SubsidyInv == \A b \in Block : rollup[b] # NoRow =>
  rollup[b].cumSubsidy = ScheduledSubsidyThroughHeight(height[b])

\* At every height the closed form is the sum of the block subsidies, and the
\* rollup rows of all branches carry it (ScheduledSubsidyThroughHeight,
\* applySupplyRollup).
THEOREM ScheduleCorrect == Spec => []ScheduleExact
<1> USE TreeAssumption
<1>1. Init => SubsidyInv
  BY DEF Init, SubsidyInv
<1>2. ChainInv /\ RollupInv /\ SubsidyInv /\ [Next]_vars => SubsidyInv'
  <2> SUFFICES ASSUME ChainInv, RollupInv, SubsidyInv, [Next]_vars PROVE SubsidyInv'
    OBVIOUS
  <2>1. CASE UNCHANGED vars
    BY <2>1 DEF vars, SubsidyInv
  <2>2. ASSUME NEW b \in Block, ApplyBlock(b) PROVE SubsidyInv'
    <3>1. RollupTypeOK
      BY DEF RollupInv
    <3>2. ASSUME NEW c \in Block, rollup[c] # NoRow
          PROVE  rollup'[c].cumSubsidy = ScheduledSubsidyThroughHeight(height[c])
      BY <2>2, <3>1, <3>2, RowsWritten DEF SubsidyInv
    <3>3. ASSUME rollup[b] = NoRow, rollup'[b] # NoRow
          PROVE  rollup'[b].cumSubsidy = ScheduledSubsidyThroughHeight(height[b])
      <4>1. ParentRollup(b) # NoRow
        BY <2>2, <3>1, <3>3, RowsWritten
      <4>2. rollup'[b].cumSubsidy = ParentRollup(b).cumSubsidy + BlockSubsidy(height[b])
        <5>1. rollup'[b] = SupplyRollup(b)
          BY <2>2, <3>1, <4>1, RowsWritten
        <5>2. BlockFacts(b).subsidy = BlockSubsidy(height[b])
          BY DEF BlockFacts, ComputeBlockFacts
        <5>3. SupplyRollup(b).cumSubsidy = ParentRollup(b).cumSubsidy + BlockFacts(b).subsidy
          BY DEF SupplyRollup
        <5>4. QED
          BY <5>1, <5>2, <5>3
      <4>3. height[b] \in Nat /\ BlockSubsidy(height[b]) \in Nat
        BY SubsidyNat
      <4>4. CASE height[b] = 0
        BY <4>2, <4>3, <4>4, ScheduleStep DEF ParentRollup, ZeroRollup
      <4>5. CASE height[b] # 0
        <5>1. prev[b] \in Block /\ height[prev[b]] = height[b] - 1
          BY <2>2, <4>1, <4>3, <4>5, ParentOnChain DEF ChainInv, ChainTypeOK
        <5>2. ParentRollup(b) = rollup[prev[b]] /\ rollup[prev[b]] # NoRow
          BY <4>1, <4>5, <5>1 DEF ParentRollup
        <5>3. ParentRollup(b).cumSubsidy = ScheduledSubsidyThroughHeight(height[b] - 1)
          BY <5>1, <5>2 DEF SubsidyInv
        <5>4. QED
          BY <4>2, <4>3, <4>5, <5>3, ScheduleStep
      <4>6. QED
        BY <4>4, <4>5
    <3>4. \A c \in Block : c # b => rollup'[c] = rollup[c]
      BY <2>2, <3>1, RowsWritten
    <3>5. QED
      BY <3>2, <3>3, <3>4 DEF SubsidyInv
  <2>3. ASSUME NEW a \in Block, RollbackTo(a) PROVE SubsidyInv'
    BY <2>3 DEF RollbackTo, supplyVars, SubsidyInv
  <2>4. QED
    BY <2>1, <2>2, <2>3 DEF Next, RejectBlock, RejectRollback
<1>3. ChainInv /\ SubsidyInv => ScheduleExact
  <2>1. \A h \in 0..(HalvingInterval * (MaxHalvings + 1)) : h \in Nat
    OBVIOUS
  <2>2. QED
    BY <2>1, ClosedForm DEF ScheduleExact, SubsidyInv, ChainInv, ChainTypeOK
<1>4. QED
  BY <1>1, <1>2, <1>3, CoinsInvariant, RollupsInvariant, PTL DEF Spec

-----------------------------------------------------------------------------
(* Idempotence                                                             *)

\* A ledger update that leaves the coins as they are writes what is there.
LEMMA LedgerUnchanged ==
  ASSUME AddressTypeOK, AddressCacheExact, BucketTypeOK, DistributionExact, DistributionExact',
         NEW touched, NEW tip, UpdateLedger(touched, utxo, tip), tip = checkpoint
  PROVE  UNCHANGED ledgerVars
<1>1. utxo' = utxo /\ anchor' = anchor
  BY DEF UpdateLedger, DistributionExact
<1>2. addresses' = addresses
  <2>1. addresses' = [a \in Address |-> IF a \in touched THEN recomputeAddress(a, utxo) ELSE addresses[a]]
    BY DEF UpdateLedger, AddressesAfter
  <2>2. \A a \in Address : addresses'[a] = addresses[a]
    BY <2>1 DEF AddressCacheExact
  <2>3. QED
    BY <2>1, <2>2 DEF AddressTypeOK
<1>3. buckets' = buckets
  <2>1. \A k \in Bucket : buckets'[k] = buckets[k]
    BY <1>2 DEF DistributionExact, Members, Holdings
  <2>2. buckets' = [k \in Bucket |-> buckets'[k]]
    BY DEF UpdateLedger, BucketsAfter
  <2>3. QED
    BY <2>1, <2>2 DEF BucketTypeOK
<1>4. QED
  BY <1>1, <1>2, <1>3 DEF ledgerVars

\* A committed call that leaves the checkpoint where it is, the replay of the
\* tip after a lost acknowledgement or a rollback to the tip, changes no row
\* of any table (ApplyBlock, RollbackTo).
THEOREM ReplaysIdempotent == Spec => ReplayIsNoop
<1> DEFINE Inv == /\ ChainInv /\ CoinInv /\ RollupInv /\ AddressTypeOK /\ AddressCacheExact
                  /\ BucketTypeOK /\ DistributionExact
<1>1. Inv /\ DistributionExact' /\ [Next]_vars => [checkpoint' # checkpoint]_vars
  <2> SUFFICES ASSUME Inv, DistributionExact', Next, checkpoint' = checkpoint PROVE UNCHANGED vars
    OBVIOUS
  <2> USE TreeAssumption
  <2>1. ASSUME NEW b \in Block, ApplyBlock(b) PROVE UNCHANGED vars
    <3>1. b = checkpoint /\ b \in canonical /\ canonical \subseteq blocks
      BY <2>1 DEF ApplyBlock, ChainInv, ChainTypeOK
    <3>2. canonical' = canonical /\ rollup' = rollup /\ blocks' = blocks
      BY <2>1, <3>1, ReplayKeepsRows DEF ApplyBlock
    <3>3. UpdateLedger(TouchedBy(b), utxo, b)
      BY <2>1, <3>1, ReplayKeepsCoins DEF ApplyBlock
    <3>4. UNCHANGED ledgerVars
      BY <3>1, <3>3, LedgerUnchanged
    <3>5. accounting' = accounting
      <4>1. accounting[b] = BlockFacts(b) /\ accounting \in [Block -> FactsRow \cup {NoRow}]
        BY <3>1 DEF RollupInv, FactsInv
      <4>2. accounting' = [accounting EXCEPT ![b] = BlockFacts(b)]
        BY <2>1 DEF ApplyBlock
      <4>3. QED
        BY <4>1, <4>2
    <3>6. QED
      BY <3>2, <3>4, <3>5 DEF vars, ledgerVars
  <2>2. ASSUME NEW a \in Block, RollbackTo(a) PROVE UNCHANGED vars
    <3>1. a = checkpoint
      BY <2>2 DEF RollbackTo
    <3>2. Orphans(a) = {}
      BY <3>1 DEF Orphans, ChainInv, ChainTypeOK, CanonicalLinked
    <3>3. CoinsAfterRollback({}) = utxo
      BY DEF CoinsAfterRollback, CoinInv, CoinTypeOK
    <3>4. UpdateLedger(TouchedByRollback({}), utxo, a)
      BY <2>2, <3>2, <3>3 DEF RollbackTo
    <3>5. UNCHANGED ledgerVars
      BY <3>1, <3>4, LedgerUnchanged
    <3>6. QED
      BY <2>2, <3>2, <3>5 DEF RollbackTo, vars, ledgerVars, supplyVars
  <2>3. QED
    BY <2>1, <2>2 DEF Next, RejectBlock, RejectRollback
<1>2. QED
  BY <1>1, CoinsInvariant, RollupsInvariant, AddressesTyped, AddressCacheCorrect, BucketsTyped,
     DistributionCorrect, PTL DEF Spec, ReplayIsNoop

-----------------------------------------------------------------------------
(* The balance buckets                                                     *)

\* Whatever the scale, every positive balance lies in exactly one of the
\* eight buckets and bucketForBalance finds it; a zero balance lies in none
\* (distributionBuckets, bucketForBalance).
THEOREM BucketsPartition ==
  ASSUME NEW balance \in Nat
  PROVE  /\ balance = 0 => bucketForBalance(balance) = NoBucket
         /\ balance > 0 => /\ bucketForBalance(balance) \in Bucket
                           /\ \A k \in Bucket : InBucket(k, balance)
                                                  <=> k = bucketForBalance(balance)
<1> DEFINE s == SatoshisPerQOGE
<1> USE ScaleAssumption
<1>1. CASE balance = 0
  BY <1>1 DEF bucketForBalance
<1>2. CASE balance > 0
  <2>1. /\ InBucket(1, balance) <=> balance < s
        /\ InBucket(2, balance) <=> s <= balance /\ balance < 10 * s
        /\ InBucket(3, balance) <=> 10 * s <= balance /\ balance < 100 * s
        /\ InBucket(4, balance) <=> 100 * s <= balance /\ balance < 1000 * s
        /\ InBucket(5, balance) <=> 1000 * s <= balance /\ balance < 10000 * s
        /\ InBucket(6, balance) <=> 10000 * s <= balance /\ balance < 100000 * s
        /\ InBucket(7, balance) <=> 100000 * s <= balance /\ balance < 1000000 * s
        /\ InBucket(8, balance) <=> 1000000 * s <= balance
    BY <1>2 DEF InBucket, minSatoshis, maxSatoshis
  <2>2. \A k \in Bucket : k \in {1, 2, 3, 4, 5, 6, 7, 8}
    BY DEF Bucket
  <2>3. \E k \in Bucket : /\ InBucket(k, balance)
                          /\ \A j \in Bucket : InBucket(j, balance) => j = k
    BY <2>1, <2>2 DEF Bucket
  <2>4. PICK k \in Bucket : /\ InBucket(k, balance)
                            /\ \A j \in Bucket : InBucket(j, balance) => j = k
    BY <2>3
  <2>5. bucketForBalance(balance) = k
    BY <1>2, <2>4 DEF bucketForBalance, Bucket
  <2>6. QED
    BY <1>2, <2>4, <2>5
<1>3. QED
  BY <1>1, <1>2
=============================================================================
