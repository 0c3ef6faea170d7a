---------------------------- MODULE IndexerProofs ----------------------------
(***************************************************************************)
(* Indexer's safety properties, for every block tree, depth policy and     *)
(* bound.  Type correctness holds for any number of writers; what a pass   *)
(* knows about the store while it works holds for one writer, the          *)
(* production set-up, because nobody else moves the store's tip.           *)
(***************************************************************************)
EXTENDS Indexer, BasicProofs

-----------------------------------------------------------------------------
(* The branch of a block.                                                  *)

\* A branch has one block at every height up to its tip's, none above, and
\* holds the parents of its blocks.
LEMMA BranchShape ==
  ASSUME NEW b \in Block
  PROVE  /\ Ancestry[b] \subseteq Block
         /\ b \in Ancestry[b]
         /\ \A c \in Ancestry[b] : height[c] \in 0..height[b]
         /\ \A c \in Ancestry[b] : prev[c] # NoBlock => prev[c] \in Ancestry[b]
         /\ \A h \in 0..height[b] : \E c \in Ancestry[b] : height[c] = h
         /\ \A c, d \in Ancestry[b] : height[c] = height[d] => c = d
<1> DEFINE P(x) == /\ Ancestry[x] \subseteq Block
                   /\ x \in Ancestry[x]
                   /\ \A c \in Ancestry[x] : height[c] \in 0..height[x]
                   /\ \A c \in Ancestry[x] : prev[c] # NoBlock => prev[c] \in Ancestry[x]
                   /\ \A h \in 0..height[x] : \E c \in Ancestry[x] : height[c] = h
                   /\ \A c, d \in Ancestry[x] : height[c] = height[d] => c = d
           Bad == {height[x] : x \in {y \in Block : ~P(y)}}
<1> SUFFICES ASSUME ~P(b) PROVE FALSE
  OBVIOUS
<1>1. Bad \subseteq Nat /\ Bad # {}
  BY TreeAssumption
<1>2. PICK n \in Bad : \A m \in Bad : n <= m
  <2> HIDE DEF Bad
  <2> QED BY <1>1, Least
<1>3. PICK x \in Block : ~P(x) /\ height[x] = n
  BY <1>2
<1>4. Ancestry[x] = {x} \cup (IF prev[x] = NoBlock THEN {} ELSE Ancestry[prev[x]])
  BY AncestryIs
<1>5. height[x] = IF prev[x] = NoBlock THEN 0 ELSE height[prev[x]] + 1
  BY HeightAssumption
<1>6. CASE prev[x] = NoBlock
  BY <1>3, <1>4, <1>5, <1>6
<1>7. CASE prev[x] # NoBlock
  <2> DEFINE p == prev[x]
  <2>1. p \in Block /\ height[p] \in Nat /\ height[x] = height[p] + 1 /\ height[x] \in Nat
    BY <1>5, <1>7, TreeAssumption
  <2>2. P(p)
    <3> SUFFICES ASSUME ~P(p) PROVE FALSE
      OBVIOUS
    <3>1. height[p] \in Bad
      BY <2>1
    <3> QED BY <1>2, <1>3, <2>1, <3>1
  <2>3. Ancestry[x] = {x} \cup Ancestry[p]
    BY <1>4, <1>7
  <2> HIDE DEF p
  <2>4. /\ Ancestry[x] \subseteq Block /\ x \in Ancestry[x]
        /\ \A c \in Ancestry[x] : height[c] \in 0..height[x]
    BY <2>1, <2>2, <2>3
  <2>5. \A c \in Ancestry[x] : prev[c] # NoBlock => prev[c] \in Ancestry[x]
    BY <2>1, <2>2, <2>3 DEF p
  <2>6. ASSUME NEW h \in 0..height[x] PROVE \E c \in Ancestry[x] : height[c] = h
    <3>1. h = height[x] \/ h \in 0..height[p]
      BY <2>1
    <3> QED BY <2>2, <2>3, <3>1
  <2>7. ASSUME NEW c \in Ancestry[x], NEW d \in Ancestry[x], height[c] = height[d]
        PROVE  c = d
    <3>1. \A e \in Ancestry[p] : height[e] # height[x]
      BY <2>1, <2>2
    <3> QED BY <2>2, <2>3, <2>7, <3>1
  <2> QED BY <1>3, <2>4, <2>5, <2>6, <2>7
<1> QED BY <1>6, <1>7

-----------------------------------------------------------------------------
(* The inductive invariants.                                               *)

\* One branch from a genesis block on, by height.
Linked(c) ==
  /\ \E n \in Nat \cup {-1} : DOMAIN c = 0..n
  /\ c = [h \in DOMAIN c |-> c[h]]
  /\ \A h \in DOMAIN c : /\ c[h] \in Block /\ height[c[h]] = h
                         /\ h > 0 => prev[c[h]] = c[h - 1]
Top(c) == IF DOMAIN c = {} THEN NoBlock ELSE c[Max(DOMAIN c)]

Walking == {"search", "searchCore", "recheck", "recheckLocal", "rollback"}
Found == {"recheck", "recheckLocal", "rollback"}
Diagnosing == {"diagnose", "diagnoseTip", "diagnoseParent", "diagnoseAgain"}
Parented == {"diagnoseParent", "diagnoseAgain"}

\* What a pass knows whatever other writers do: it has a checkpoint while it
\* needs one, the hash it works with is that of the height it works at, and
\* no block is rejected by an empty store.
PassOK(r) ==
  /\ r.pc \in {"count", "compare", "confirm"} \cup Walking => r.local \in Block
  /\ r.pc \in {"searchCore", "verify", "hash2", "apply"} \cup Found \cup Diagnosing
       => r.hash \in Block /\ height[r.hash] = r.at
  /\ r.pc \in Diagnosing => DOMAIN chain # {}
  /\ r.pc \in Parented => r.at > 0

IInv == TypeOK /\ Linked(chain) /\ \A w \in Writer : PassOK(run[w])

\* What the only writer knows of the store.
Knows(r) ==
  /\ r.pc \in {"count", "compare", "target", "confirm"} \cup Walking \cup Parented
       => r.local = Tip
  /\ r.pc \in Walking => /\ r.at \in DOMAIN chain
                         /\ height[r.local] - r.at <= MaxAutomaticReorgDepth
  /\ r.pc \in {"searchCore"} \cup Found => r.hash = chain[r.at]
  /\ r.pc = "verify" => Tip = r.hash
  /\ r.pc \in Diagnosing => ~Sequential(r.hash)
  /\ r.pc \in Parented => height[Tip] = r.at - 1

\* What it knows of Core, as long as Core stays: the walk has left no shared
\* block behind, and a candidate is shared.
Walked(r) ==
  /\ r.since <= moves
  /\ r.pc = "compare" => height[r.local] <= r.target
  /\ r.since = moves /\ r.pc \in Walking
       => \A h \in DOMAIN chain : h > r.at => ~OnActiveChain(chain[h])
  /\ r.since = moves /\ r.pc \in Found => OnActiveChain(chain[r.at])

OneWriter == \A v, w \in Writer : v = w
Damage == {"ErrLocalChainGap", "ErrAncestorNotFound", "ErrTipAfterRollback", "ErrUnexplained"}
Tells(r) == r.pc \notin Damage /\ Knows(r) /\ Walked(r)
OInv == \A w \in Writer : Tells(run[w])

-----------------------------------------------------------------------------
(* The store's chain.                                                      *)

LEMMA MaxInterval == ASSUME NEW n \in Nat PROVE Max(0..n) = n
<1>1. \A y \in 0..n : n >= y
  OBVIOUS
<1>2. \A x \in 0..n : (\A y \in 0..n : x >= y) => x = n
  OBVIOUS
<1> QED BY <1>1, <1>2 DEF Max

\* Where a chain ends.
LEMMA TopIs ==
  ASSUME NEW c, Linked(c)
  PROVE  /\ Top(c) \in Block \cup {NoBlock}
         /\ Top(c) = NoBlock <=> DOMAIN c = {}
         /\ DOMAIN c = 0..Height(Top(c))
         /\ Top(c) # NoBlock => /\ Top(c) \in Block
                               /\ height[Top(c)] \in DOMAIN c
                               /\ c[height[Top(c)]] = Top(c)
<1>1. PICK n \in Nat \cup {-1} : DOMAIN c = 0..n
  BY DEF Linked
<1>2. CASE n = -1
  <2>1. DOMAIN c = {}
    BY <1>1, <1>2
  <2>2. Top(c) = NoBlock /\ Height(Top(c)) = -1
    BY <2>1 DEF Top, Height
  <2> QED BY <1>1, <1>2, <2>1, <2>2
<1>3. CASE n \in Nat
  <2>1. n \in DOMAIN c /\ Max(DOMAIN c) = n
    BY <1>1, <1>3, MaxInterval
  <2>2. Top(c) = c[n] /\ c[n] \in Block /\ height[c[n]] = n
    BY <2>1 DEF Top, Linked
  <2>3. Top(c) # NoBlock /\ Height(Top(c)) = n
    BY <2>2, TreeAssumption DEF Height
  <2> QED BY <1>1, <2>1, <2>2, <2>3
<1> QED BY <1>2, <1>3

\* A chain that ends at height t.
LEMMA TopAt ==
  ASSUME NEW c, Linked(c), NEW t \in Nat, DOMAIN c = 0..t
  PROVE  Top(c) = c[t]
BY MaxInterval DEF Top

\* What RollbackTo leaves.
LEMMA RetractShape ==
  ASSUME NEW t, Linked(chain), Log!Retract(t)
  PROVE  /\ t \in DOMAIN chain
         /\ Linked(chain')
         /\ DOMAIN chain' = 0..t
         /\ \A h \in 0..t : h \in DOMAIN chain /\ chain'[h] = chain[h]
         /\ Top(chain') = chain[t]
<1>1. /\ t \in DOMAIN chain
      /\ chain' = [h \in {g \in DOMAIN chain : g <= t} |-> chain[h]]
  BY DEF Log!Retract, Log!Heights
<1>2. PICK n \in Nat \cup {-1} : DOMAIN chain = 0..n
  BY DEF Linked
<1>3. t \in Nat /\ {g \in DOMAIN chain : g <= t} = 0..t
  BY <1>1, <1>2
<1>4. /\ DOMAIN chain' = 0..t
      /\ \A h \in 0..t : h \in DOMAIN chain /\ chain'[h] = chain[h]
      /\ chain' = [h \in DOMAIN chain' |-> chain'[h]]
  BY <1>1, <1>2, <1>3
<1>5. Linked(chain')
  BY <1>3, <1>4 DEF Linked
<1>6. Top(chain') = chain'[t]
  BY <1>3, <1>4, <1>5, TopAt
<1> QED BY <1>1, <1>3, <1>4, <1>5, <1>6

\* What ApplyBlock leaves.
LEMMA ExtendShape ==
  ASSUME NEW b \in Block, Linked(chain), Log!Bootstrap(b) \/ Log!Extend(b)
  PROVE  /\ Linked(chain')
         /\ DOMAIN chain' = 0..height[b]
         /\ DOMAIN chain \subseteq DOMAIN chain'
         /\ Top(chain') = b
<1>0. height[b] \in Nat /\ height[b] = IF prev[b] = NoBlock THEN 0 ELSE height[prev[b]] + 1
  BY TreeAssumption, HeightAssumption
<1>1. CASE Log!Bootstrap(b)
  <2>1. DOMAIN chain = {} /\ height[b] = 0 /\ chain' = [h \in {0} |-> b]
    BY <1>0, <1>1 DEF Log!Bootstrap, Log!Heights
  <2>2. DOMAIN chain' = 0..0 /\ chain'[0] = b /\ chain' = [h \in DOMAIN chain' |-> chain'[h]]
    BY <2>1
  <2>3. Linked(chain')
    <3>1. \A h \in DOMAIN chain' : h = 0 /\ chain'[h] = b
      BY <2>2
    <3> QED BY <2>1, <2>2, <3>1 DEF Linked
  <2>4. Top(chain') = b
    BY <2>2, <2>3, TopAt
  <2> QED BY <2>1, <2>2, <2>3, <2>4
<1>2. CASE Log!Extend(b)
  <2> DEFINE n == height[b] - 1
  <2>1. /\ n \in DOMAIN chain /\ \A g \in DOMAIN chain : g <= n
        /\ prev[b] = chain[n]
        /\ chain' = [h \in DOMAIN chain \cup {height[b]} |-> IF h = height[b] THEN b ELSE chain[h]]
    BY <1>2 DEF Log!Extend, Log!IsTop, Log!Heights
  <2>2. PICK m \in Nat \cup {-1} : DOMAIN chain = 0..m
    BY DEF Linked
  <2>3. m = n /\ n \in Nat
    <3>1. n \in 0..m /\ \A g \in 0..m : g <= n
      <4> HIDE DEF n
      <4> QED BY <2>1, <2>2
    <3> HIDE DEF n
    <3>2. n \in Nat /\ m \in Nat /\ n <= m
      BY <2>2, <3>1
    <3>3. m <= n
      BY <3>1, <3>2
    <3> QED BY <3>2, <3>3
  <2>4. DOMAIN chain \cup {height[b]} = 0..height[b]
    BY <1>0, <2>2, <2>3
  <2>a. height[b] \notin DOMAIN chain
    BY <1>0, <2>2, <2>3
  <2>5. /\ DOMAIN chain' = 0..height[b]
        /\ chain'[height[b]] = b
        /\ \A h \in DOMAIN chain : chain'[h] = chain[h]
        /\ chain' = [h \in DOMAIN chain' |-> chain'[h]]
    BY <2>1, <2>4, <2>a
  <2>6. ASSUME NEW h \in DOMAIN chain'
        PROVE  chain'[h] \in Block /\ height[chain'[h]] = h /\ (h > 0 => prev[chain'[h]] = chain'[h - 1])
    <3>1. CASE h = height[b]
      BY <3>1, <1>0, <2>1, <2>5
    <3>2. CASE h # height[b]
      <4>1. h \in DOMAIN chain /\ chain'[h] = chain[h]
        BY <3>2, <2>4, <2>5
      <4>2. h > 0 => h - 1 \in DOMAIN chain
        BY <4>1, <2>2
      <4> QED BY <4>1, <4>2, <2>5 DEF Linked
    <3> QED BY <3>1, <3>2
  <2>7. Linked(chain')
    BY <1>0, <2>5, <2>6 DEF Linked
  <2> QED BY <1>0, <2>4, <2>5, <2>7, TopAt
<1> QED BY <1>1, <1>2

\* Below a block that it shares with Core's active chain, the store's chain
\* is Core's.
LEMMA BelowShared ==
  ASSUME active \in Block, Linked(chain), NEW t \in DOMAIN chain, OnActiveChain(chain[t])
  PROVE  \A h \in DOMAIN chain : h <= t => OnActiveChain(chain[h])
<1> DEFINE Bad == {k \in 0..t : ~OnActiveChain(chain[t - k])}
<1>1. PICK n \in Nat \cup {-1} : DOMAIN chain = 0..n
  BY DEF Linked
<1>2. t \in Nat
  BY <1>1
<1>3. Bad = {}
  <2> SUFFICES ASSUME Bad # {} PROVE FALSE
    OBVIOUS
  <2>1. Bad \subseteq Nat
    BY <1>2
  <2>2. PICK k \in Bad : \A m \in Bad : k <= m
    <3> HIDE DEF Bad
    <3> QED BY <2>1, Least
  <2>3. k \in Nat /\ k # 0 /\ k <= t
    BY <1>2, <2>2
  <2>4. k - 1 \notin Bad
    BY <2>2, <2>3
  <2> DEFINE j == t - k
  <2>5. j \in Nat /\ t - (k - 1) = j + 1 /\ k - 1 \in 0..t
    BY <1>2, <2>3
  <2>6. OnActiveChain(chain[j + 1])
    BY <2>4, <2>5
  <2>7. ~OnActiveChain(chain[j])
    BY <2>2
  <2>8. j + 1 <= t
    BY <1>2, <2>3
  <2> HIDE DEF j
  <2>9. j + 1 \in DOMAIN chain /\ j + 1 > 0 /\ j \in DOMAIN chain /\ (j + 1) - 1 = j
    BY <1>1, <1>2, <2>5, <2>8
  <2>10. prev[chain[j + 1]] = chain[j] /\ chain[j] \in Block
    BY <2>9 DEF Linked
  <2>11. chain[j] \in Ancestry[active]
    BY <2>6, <2>10, BranchShape, TreeAssumption DEF OnActiveChain
  <2> QED BY <2>7, <2>11 DEF OnActiveChain
<1> SUFFICES ASSUME NEW h \in DOMAIN chain, h <= t PROVE OnActiveChain(chain[h])
  OBVIOUS
<1>4. t - h \in 0..t /\ t - (t - h) = h
  BY <1>1, <1>2
<1> QED BY <1>3, <1>4

-----------------------------------------------------------------------------
(* Any number of writers.                                                  *)

\* getblockhash answers with the active chain's block at the height.
LEMMA AnswerFits ==
  ASSUME active \in Block, NEW h, HashKnown(h)
  PROVE  /\ GetBlockHash(h) \in Ancestry[active]
         /\ GetBlockHash(h) \in Block
         /\ height[GetBlockHash(h)] = h
         /\ \A b \in Ancestry[active] : height[b] = h => b = GetBlockHash(h)
BY BranchShape DEF HashKnown, GetBlockCount, GetBlockHash

Fits(r) == r \in Pass /\ PassOK(r)

\* A pass that starts over, ends, or asks why a hash was refused.
LEMMA StartFits == Fits(Start)
BY TreeAssumption DEF Fits, Start, Pass, Working, PassOK, Walking, Found, Diagnosing, Parented

LEMMA ReturnFits ==
  ASSUME NEW p \in Halted \cup {"done", "sync"} PROVE Fits(Return(p)) /\ Return(p).pc = p
<1>1. Return(p) = [pc |-> p, local |-> NoBlock, target |-> 0, at |-> 0,
                   hash |-> NoBlock, parent |-> NoBlock, since |-> 0]
  BY DEF Return, Start
<1> HIDE DEF Return
<1>2. Return(p) \in Pass /\ Return(p).pc = p
  BY <1>1 DEF Pass, Working
<1> QED
  BY <1>2 DEF Fits, PassOK, Walking, Found, Diagnosing, Parented, Halted

LEMMA ClassifyFits ==
  ASSUME NEW r \in Pass, NEW h \in Nat PROVE Fits([r EXCEPT !.pc = "classify", !.at = h])
<1> DEFINE n == [r EXCEPT !.pc = "classify", !.at = h]
<1>1. n \in Pass /\ n.pc = "classify"
  BY DEF Pass, Working
<1> QED
  BY <1>1 DEF Fits, PassOK, Walking, Found, Diagnosing, Parented

\* The beginning of a walk, which starts no higher than the checkpoint.
LEMMA SearchFits ==
  ASSUME NEW r \in Pass, r.local \in Block
  PROVE  /\ Fits(Search(r))
         /\ \/ Search(r) = Return("ErrReorgTooDeep")
            \/ \E top \in 0..height[r.local] :
                  /\ Search(r) = [r EXCEPT !.pc = "search", !.at = top]
                  /\ height[r.local] - top <= MaxAutomaticReorgDepth
                  /\ top = height[r.local] \/ top = r.target
                  /\ height[r.local] <= r.target => top = height[r.local]
<1> DEFINE top == Min({height[r.local], r.target})
           n == [r EXCEPT !.pc = "search", !.at = top]
<1>1. height[r.local] \in Nat /\ r.target \in Nat
  BY TreeAssumption DEF Pass
<1>2. /\ top \in 0..height[r.local]
      /\ top = height[r.local] \/ top = r.target
      /\ height[r.local] <= r.target => top = height[r.local]
  <2> DEFINE S == {height[r.local], r.target}
  <2>1. \E x \in S : \A y \in S : x =< y
    BY <1>1
  <2>2. top \in S /\ \A y \in S : top =< y
    BY <2>1 DEF Min
  <2> HIDE DEF top
  <2> QED BY <1>1, <2>2
<1> HIDE DEF top
<1>3. n \in Pass /\ n.pc = "search" /\ n.local = r.local
  BY <1>1, <1>2 DEF Pass, Working
<1>4. Fits(n)
  BY <1>3 DEF Fits, PassOK, Walking, Found, Diagnosing, Parented
<1>5. Search(r) = IF height[r.local] - top > MaxAutomaticReorgDepth
                  THEN Return("ErrReorgTooDeep") ELSE n
  BY DEF Search, top
<1>6. Fits(Return("ErrReorgTooDeep"))
  BY ReturnFits DEF Halted
<1> HIDE DEF n
<1>7. CASE height[r.local] - top > MaxAutomaticReorgDepth
  BY <1>5, <1>6, <1>7
<1>8. CASE ~(height[r.local] - top > MaxAutomaticReorgDepth)
  <2>1. height[r.local] - top <= MaxAutomaticReorgDepth
    BY <1>1, <1>2, <1>8, IndexerAssumption
  <2> QED BY <1>2, <1>4, <1>5, <1>8, <2>1 DEF n
<1> QED BY <1>7, <1>8

\* A step of one pass that leaves the store alone.
LEMMA BecomesKeeps ==
  ASSUME IInv, NEW w \in Writer, NEW r, Fits(r), Becomes(w, r)
  PROVE  IInv'
<1>1. /\ run' = [run EXCEPT ![w] = r] /\ run \in [Writer -> Pass]
      /\ UNCHANGED <<active, moves, chain, crashes>>
  BY DEF Becomes, coreVars, IInv, TypeOK
<1>2. TypeOK' /\ Linked(chain')
  BY <1>1 DEF IInv, TypeOK, Fits
<1>3. \A v \in Writer : PassOK(run'[v])
  BY <1>1 DEF IInv, Fits
<1> QED BY <1>1, <1>2, <1>3 DEF IInv, PassOK

\* Every call of a pass keeps the invariant.
LEMMA StepKeeps ==
  ASSUME IInv, NEW w \in Writer, Step(w) PROVE IInv'
<1> DEFINE r == run[w]
<1> USE DEF At
<1>0. r \in Pass /\ PassOK(r) /\ active \in Block /\ moves \in Nat /\ Linked(chain)
  BY MovesAssumption DEF IInv, TypeOK
<1>a. Fits(Start) /\ \A p \in Halted \cup {"done", "sync"} : Fits(Return(p))
  BY StartFits, ReturnFits
<1>b. GetBlockCount \in Nat
  BY <1>0, TreeAssumption DEF GetBlockCount
<1>c. /\ Tip \in Block \cup {NoBlock} /\ Tip = Top(chain)
      /\ Tip = NoBlock <=> DOMAIN chain = {}
  BY <1>0, TopIs DEF Tip, Top
<1>d. \A h \in Nat : Fits([r EXCEPT !.pc = "classify", !.at = h])
  BY <1>0, ClassifyFits
<1>e. \A h : HashKnown(h) => GetBlockHash(h) \in Block /\ height[GetBlockHash(h)] = h
  BY <1>0, AnswerFits
<1>g. /\ r.at \in Nat /\ r.target \in Nat /\ r.local \in Block \cup {NoBlock}
      /\ r.local \in Block => height[r.local] \in Nat
      /\ Height(r.local) \in Nat \cup {-1} /\ (Height(r.local) # -1 => r.local \in Block)
  BY <1>0, TreeAssumption DEF Pass, Height
<1>1. CASE Reconcile(w)
  <2> DEFINE n == [r EXCEPT !.pc = IF Tip = NoBlock THEN "sync" ELSE "count",
                            !.local = Tip, !.since = moves]
  <2>1. n \in Pass /\ n.pc \in {"sync", "count"} /\ (n.pc = "count" => n.local \in Block)
    BY <1>0, <1>c DEF Pass, Working
  <2>2. Fits(n)
    BY <2>1 DEF Fits, PassOK, Walking, Found, Diagnosing, Parented
  <2> QED BY <1>1, <2>2, BecomesKeeps DEF Reconcile
<1>2. CASE ReconcileCount(w)
  <2> DEFINE q == [r EXCEPT !.target = GetBlockCount]
             n == [q EXCEPT !.pc = "compare"]
  <2>1. q \in Pass /\ n \in Pass /\ n.pc = "compare" /\ q.local \in Block /\ n.local \in Block
    BY <1>0, <1>b, <1>2 DEF Pass, Working, ReconcileCount, PassOK
  <2>2. Fits(n) /\ Fits(Search(q))
    BY <2>1, SearchFits DEF Fits, PassOK, Walking, Found, Diagnosing, Parented
  <2>3. Becomes(w, n) \/ Becomes(w, Search(q))
    BY <1>2 DEF ReconcileCount, Goto
  <2> QED BY <2>2, <2>3, BecomesKeeps
<1>3. CASE ReconcileCompare(w)
  <2>1. r.local \in Block
    BY <1>0, <1>3 DEF ReconcileCompare, PassOK
  <2>2. Fits(Return("sync")) /\ Fits(Search(r)) /\ height[r.local] \in Nat
    BY <1>0, <1>a, <1>g, <2>1, SearchFits
  <2>3. \/ Becomes(w, Return("sync")) \/ Becomes(w, Search(r))
        \/ Becomes(w, [r EXCEPT !.pc = "classify", !.at = height[r.local]])
    BY <1>3 DEF ReconcileCompare, AskHash
  <2> QED BY <1>d, <2>2, <2>3, BecomesKeeps
<1>4. CASE SearchLocal(w)
  <2> DEFINE n == [r EXCEPT !.pc = "searchCore", !.hash = chain[r.at]]
  <2>1. CASE r.at \in DOMAIN chain
    <3>1. chain[r.at] \in Block /\ height[chain[r.at]] = r.at
      BY <1>0, <2>1 DEF Linked
    <3>2. n \in Pass /\ n.pc = "searchCore" /\ n.hash = chain[r.at] /\ n.at = r.at /\ n.local = r.local
      BY <1>0, <3>1 DEF Pass, Working
    <3>3. Fits(n)
      BY <1>0, <1>4, <3>1, <3>2 DEF SearchLocal, Fits, PassOK, Walking, Found, Diagnosing, Parented
    <3> QED BY <1>4, <2>1, <3>3, BecomesKeeps DEF SearchLocal
  <2>2. CASE r.at \notin DOMAIN chain
    BY <1>a, <1>4, <2>2, BecomesKeeps DEF SearchLocal, Halted
  <2> QED BY <2>1, <2>2
<1>5. CASE SearchCore(w)
  <2> DEFINE n == [r EXCEPT !.pc = "recheck"]
             m == [r EXCEPT !.pc = "search", !.at = r.at - 1]
  <2>1. n \in Pass /\ n.pc = "recheck" /\ n.hash = r.hash /\ n.at = r.at /\ n.local = r.local
    BY <1>0 DEF Pass, Working
  <2>2. Fits(n)
    BY <1>0, <1>5, <2>1 DEF SearchCore, Fits, PassOK, Walking, Found, Diagnosing, Parented
  <2>3. ASSUME r.at - 1 >= Floor(r) PROVE Fits(m)
    <3>1. Floor(r) \in Nat
      <4> DEFINE S == {0, height[r.local] - MaxAutomaticReorgDepth}
      <4>1. r.local \in Block
        BY <1>0, <1>5 DEF SearchCore, PassOK, Walking
      <4>2. height[r.local] - MaxAutomaticReorgDepth \in Int
        BY <1>g, <4>1, IndexerAssumption
      <4>3. \E x \in S : \A y \in S : x >= y
        BY <4>2
      <4>4. Max(S) \in S /\ \A y \in S : Max(S) >= y
        BY <4>3 DEF Max
      <4> QED BY <4>2, <4>4 DEF Floor
    <3>2. r.at - 1 \in Nat
      BY <1>g, <2>3, <3>1
    <3>3. m \in Pass /\ m.pc = "search" /\ m.local = r.local
      BY <1>0, <3>2 DEF Pass, Working
    <3> QED BY <1>0, <1>5, <3>3 DEF SearchCore, Fits, PassOK, Walking, Found, Diagnosing, Parented
  <2>4. \/ Becomes(w, n) \/ (r.at - 1 >= Floor(r) /\ Becomes(w, m))
        \/ Becomes(w, Return("ErrReorgTooDeep"))
        \/ Becomes(w, [r EXCEPT !.pc = "classify", !.at = r.at])
    BY <1>5 DEF SearchCore, AskHash, Goto
  <2>5. Fits(Return("ErrReorgTooDeep")) /\ Fits([r EXCEPT !.pc = "classify", !.at = r.at])
    BY <1>a, <1>d, <1>g DEF Halted
  <2> QED BY <2>2, <2>3, <2>4, <2>5, BecomesKeeps
<1>h. ASSUME NEW p, Fits([r EXCEPT !.pc = p]),
             \/ Becomes(w, [r EXCEPT !.pc = p]) \/ Becomes(w, Start)
             \/ Becomes(w, [r EXCEPT !.pc = "classify", !.at = r.at])
      PROVE  IInv'
  BY <1>a, <1>d, <1>g, <1>h, BecomesKeeps
<1>6. CASE Recheck(w)
  <2> DEFINE n == [r EXCEPT !.pc = "recheckLocal"]
  <2>1. n \in Pass /\ n.pc = "recheckLocal" /\ n.hash = r.hash /\ n.at = r.at /\ n.local = r.local
    BY <1>0 DEF Pass, Working
  <2>2. Fits(n)
    BY <1>0, <1>6, <2>1 DEF Recheck, Fits, PassOK, Walking, Found, Diagnosing, Parented
  <2> QED BY <1>6, <1>h, <2>2 DEF Recheck, AskHash, Goto, Restarted
<1>7. CASE RecheckLocal(w)
  <2> DEFINE n == [r EXCEPT !.pc = "rollback"]
  <2>1. n \in Pass /\ n.pc = "rollback" /\ n.hash = r.hash /\ n.at = r.at /\ n.local = r.local
    BY <1>0 DEF Pass, Working
  <2>2. Fits(n)
    BY <1>0, <1>7, <2>1 DEF RecheckLocal, Fits, PassOK, Walking, Found, Diagnosing, Parented
  <2> QED BY <1>7, <1>h, <2>2 DEF RecheckLocal, Goto, Restarted
<1>8. CASE RollbackTo(w)
  <2>1. CASE InChain(r.hash)
    <3> DEFINE n == [r EXCEPT !.pc = "verify"]
    <3>1. n \in Pass /\ n.pc = "verify" /\ n.hash = r.hash /\ n.at = r.at
      BY <1>0 DEF Pass, Working
    <3>2. /\ run' = [run EXCEPT ![w] = n] /\ Log!Retract(r.at)
          /\ UNCHANGED <<active, moves, crashes>>
      BY <1>8, <2>1 DEF RollbackTo, coreVars
    <3>3. Linked(chain') /\ DOMAIN chain' = 0..r.at /\ DOMAIN chain' # {}
      BY <1>0, <1>g, <3>2, RetractShape
    <3>4. TypeOK'
      BY <3>1, <3>2, <3>3 DEF IInv, TypeOK, Linked
    <3>5. ASSUME NEW v \in Writer PROVE PassOK(run[v])'
      <4>1. CASE v = w
        <5>1. run'[v] = n
          BY <4>1, <3>2 DEF IInv, TypeOK
        <5> QED BY <1>0, <1>8, <3>1, <3>3, <5>1 DEF RollbackTo, PassOK, Walking, Found, Diagnosing, Parented
      <4>2. CASE v # w
        <5>1. run'[v] = run[v]
          BY <4>2, <3>2 DEF IInv, TypeOK
        <5> QED BY <3>3, <5>1 DEF IInv, PassOK
      <4> QED BY <4>1, <4>2
    <3> QED BY <3>3, <3>4, <3>5 DEF IInv
  <2>2. CASE ~InChain(r.hash)
    BY <1>a, <1>8, <2>2, BecomesKeeps DEF RollbackTo, Becomes, Halted
  <2> QED BY <2>1, <2>2
<1>9. CASE VerifyRollback(w)
  BY <1>a, <1>9, BecomesKeeps DEF VerifyRollback, Halted
<1>10. CASE SyncTip(w)
  <2> DEFINE n == [r EXCEPT !.pc = "target", !.local = Tip]
  <2>1. n \in Pass /\ n.pc = "target"
    BY <1>0, <1>c DEF Pass, Working
  <2>2. Fits(n)
    BY <2>1 DEF Fits, PassOK, Walking, Found, Diagnosing, Parented
  <2> QED BY <1>10, <2>2, BecomesKeeps DEF SyncTip
<1>11. CASE SyncTarget(w)
  <2> DEFINE q == [r EXCEPT !.target = GetBlockCount]
             h == Height(r.local)
             n == [q EXCEPT !.pc = "confirm"]
             m == [q EXCEPT !.pc = "hash1", !.at = h + 1]
  <2>1. q.local = r.local /\ q.target = GetBlockCount
    BY <1>0 DEF Pass
  <2>2. \/ Becomes(w, Start) \/ (h = GetBlockCount /\ Becomes(w, n)) \/ Becomes(w, m)
    BY <1>11, <2>1 DEF SyncTarget, Goto, Restarted
  <2>3. ASSUME h = GetBlockCount PROVE Fits(n)
    <3>1. n \in Pass /\ n.pc = "confirm" /\ n.local = r.local
      BY <1>0, <1>b DEF Pass, Working
    <3>2. r.local \in Block
      BY <1>b, <1>g, <2>3
    <3> QED BY <3>1, <3>2 DEF Fits, PassOK, Walking, Found, Diagnosing, Parented
  <2>4. Fits(m)
    <3>1. h + 1 \in Nat
      BY <1>g
    <3> HIDE DEF h
    <3>2. m \in Pass /\ m.pc = "hash1"
      BY <1>0, <1>b, <3>1 DEF Pass, Working
    <3> QED BY <3>2 DEF Fits, PassOK, Walking, Found, Diagnosing, Parented
  <2> QED BY <1>a, <2>2, <2>3, <2>4, BecomesKeeps
<1>12. CASE ConfirmCaughtUp(w)
  <2>1. r.local \in Block /\ Height(r.local) \in Nat
    BY <1>0, <1>g, <1>12, TreeAssumption DEF ConfirmCaughtUp, PassOK, Height
  <2>2. \/ Becomes(w, Return("done")) \/ Becomes(w, Start)
        \/ Becomes(w, [r EXCEPT !.pc = "classify", !.at = Height(r.local)])
    BY <1>12 DEF ConfirmCaughtUp, AskHash, Restarted
  <2> QED BY <1>a, <1>d, <2>1, <2>2, BecomesKeeps
<1>13. CASE ApplyHash1(w)
  <2> DEFINE n == [r EXCEPT !.pc = "hash2", !.hash = GetBlockHash(r.at)]
  <2>1. \/ HashKnown(r.at) /\ Becomes(w, n)
        \/ Becomes(w, [r EXCEPT !.pc = "classify", !.at = r.at])
    BY <1>13 DEF ApplyHash1, AskHash
  <2>2. ASSUME HashKnown(r.at) PROVE Fits(n)
    <3>1. GetBlockHash(r.at) \in Block /\ height[GetBlockHash(r.at)] = r.at
      BY <1>e, <2>2
    <3>2. n \in Pass /\ n.pc = "hash2" /\ n.hash = GetBlockHash(r.at) /\ n.at = r.at
      BY <1>0, <3>1 DEF Pass, Working
    <3> QED BY <3>1, <3>2 DEF Fits, PassOK, Walking, Found, Diagnosing, Parented
  <2> QED BY <1>d, <1>g, <2>1, <2>2, BecomesKeeps
<1>14. CASE ApplyHash2(w)
  <2> DEFINE n == [r EXCEPT !.pc = "apply"]
  <2>1. n \in Pass /\ n.pc = "apply" /\ n.hash = r.hash /\ n.at = r.at
    BY <1>0 DEF Pass, Working
  <2>2. Fits(n)
    BY <1>0, <1>14, <2>1 DEF ApplyHash2, Fits, PassOK, Walking, Found, Diagnosing, Parented
  <2> QED BY <1>14, <1>h, <2>2 DEF ApplyHash2, AskHash, Goto, Restarted
<1>15. CASE Apply(w)
  <2>0. r.hash \in Block /\ height[r.hash] = r.at
    BY <1>0, <1>15 DEF Apply, PassOK
  <2>1. CASE Sequential(r.hash)
    <3> DEFINE m == [r EXCEPT !.pc = "hash1", !.at = r.at + 1]
               n == IF r.at < r.target THEN m ELSE Start
    <3>1. /\ run' = [run EXCEPT ![w] = n] /\ ApplyBlock(r.hash)
          /\ UNCHANGED <<active, moves, crashes>>
      BY <1>15, <2>1 DEF Apply, coreVars, Restarted
    <3>a. r.at + 1 \in Nat
      BY <1>g
    <3>2. m \in Pass /\ m.pc = "hash1"
      BY <1>0, <3>a DEF Pass, Working
    <3>3. n \in Pass /\ n.pc \in {"hash1", "reconcile"}
      BY <1>a, <3>2 DEF Fits, Start
    <3>4. Linked(chain') /\ DOMAIN chain \subseteq DOMAIN chain'
      BY <1>0, <2>0, <3>1, ExtendShape DEF ApplyBlock
    <3> HIDE DEF n
    <3>5. TypeOK'
      BY <3>1, <3>3, <3>4 DEF IInv, TypeOK, Linked
    <3>6. ASSUME NEW v \in Writer PROVE PassOK(run[v])'
      <4>1. CASE v = w
        <5>1. run'[v] = n
          BY <4>1, <3>1 DEF IInv, TypeOK
        <5> QED BY <3>3, <5>1 DEF PassOK, Walking, Found, Diagnosing, Parented
      <4>2. CASE v # w
        <5>1. run'[v] = run[v]
          BY <4>2, <3>1 DEF IInv, TypeOK
        <5> QED BY <3>4, <5>1 DEF IInv, PassOK
      <4> QED BY <4>1, <4>2
    <3> QED BY <3>4, <3>5, <3>6 DEF IInv
  <2>2. CASE ~Sequential(r.hash)
    <3> DEFINE n == [r EXCEPT !.pc = "diagnose"]
    <3>1. n \in Pass /\ n.pc = "diagnose" /\ n.hash = r.hash /\ n.at = r.at
      BY <1>0 DEF Pass, Working
    <3>2. DOMAIN chain # {}
      BY <1>c, <2>2 DEF Sequential
    <3>3. Fits(n)
      BY <2>0, <3>1, <3>2 DEF Fits, PassOK, Walking, Found, Diagnosing, Parented
    <3>4. Becomes(w, n)
      BY <1>15, <2>2 DEF Apply, Becomes
    <3> QED BY <3>3, <3>4, BecomesKeeps
  <2> QED BY <2>1, <2>2
<1>16. CASE Poll(w)
  BY <1>a, <1>16, BecomesKeeps DEF Poll, Restarted
<1>17. CASE Diagnose(w)
  <2> DEFINE n == [r EXCEPT !.pc = "diagnoseTip"]
  <2>1. n \in Pass /\ n.pc = "diagnoseTip" /\ n.hash = r.hash /\ n.at = r.at
    BY <1>0 DEF Pass, Working
  <2>2. Fits(n)
    BY <1>0, <1>17, <2>1 DEF Diagnose, Fits, PassOK, Walking, Found, Diagnosing, Parented
  <2> QED BY <1>17, <1>h, <2>2 DEF Diagnose, AskHash, Goto, Restarted
<1>18. CASE DiagnoseTip(w)
  <2> DEFINE n == [r EXCEPT !.pc = "diagnoseParent", !.local = Tip]
  <2>1. n \in Pass /\ n.pc = "diagnoseParent" /\ n.hash = r.hash /\ n.at = r.at
    BY <1>0, <1>c DEF Pass, Working
  <2>2. ASSUME Height(Tip) = r.at - 1 PROVE Fits(n)
    <3>1. DOMAIN chain # {} /\ Tip \in Block
      BY <1>0, <1>c, <1>18 DEF DiagnoseTip, PassOK, Diagnosing
    <3>2. height[Tip] \in Nat /\ height[Tip] = r.at - 1
      BY <2>2, <3>1, TreeAssumption DEF Height
    <3>3. r.at > 0
      BY <1>g, <3>2
    <3> QED BY <1>0, <1>18, <2>1, <3>1, <3>3
            DEF DiagnoseTip, Fits, PassOK, Walking, Found, Diagnosing, Parented
  <2>3. Becomes(w, Start) \/ (Height(Tip) = r.at - 1 /\ Becomes(w, n))
    BY <1>18 DEF DiagnoseTip, Restarted
  <2> QED BY <1>a, <2>2, <2>3, BecomesKeeps
<1>19. CASE DiagnoseParent(w)
  <2> DEFINE n == [r EXCEPT !.pc = "diagnoseAgain", !.parent = GetBlockHash(r.at - 1)]
  <2>1. r.at - 1 \in Nat
    BY <1>0, <1>g, <1>19 DEF DiagnoseParent, PassOK, Parented
  <2>2. \/ HashKnown(r.at - 1) /\ Becomes(w, n)
        \/ Becomes(w, [r EXCEPT !.pc = "classify", !.at = r.at - 1])
    BY <1>19 DEF DiagnoseParent, AskHash
  <2>3. ASSUME HashKnown(r.at - 1) PROVE Fits(n)
    <3>1. GetBlockHash(r.at - 1) \in Block
      BY <1>e, <2>3
    <3>2. n \in Pass /\ n.pc = "diagnoseAgain" /\ n.hash = r.hash /\ n.at = r.at
      BY <1>0, <3>1 DEF Pass, Working
    <3> QED BY <1>0, <1>19, <3>2 DEF DiagnoseParent, Fits, PassOK, Walking, Found, Diagnosing, Parented
  <2> QED BY <1>d, <2>1, <2>2, <2>3, BecomesKeeps
<1>20. CASE DiagnoseAgain(w)
  <2>1. \/ Becomes(w, Start) \/ Becomes(w, Return("ErrContradictoryBlock"))
        \/ Becomes(w, Return("ErrUnexplained"))
        \/ Becomes(w, [r EXCEPT !.pc = "classify", !.at = r.at])
    BY <1>20 DEF DiagnoseAgain, AskHash, Restarted
  <2> QED BY <1>a, <1>d, <1>g, <2>1, BecomesKeeps DEF Halted
<1>21. CASE Classify(w)
  BY <1>a, <1>21, BecomesKeeps DEF Classify, Restarted, Halted
<1> QED
  BY <1>1, <1>2, <1>3, <1>4, <1>5, <1>6, <1>7, <1>8, <1>9, <1>10, <1>11, <1>12, <1>13,
     <1>14, <1>15, <1>16, <1>17, <1>18, <1>19, <1>20, <1>21 DEF Step

\* Init establishes the invariant.
LEMMA InitKeeps == Init => IInv
<1> SUFFICES ASSUME Init PROVE IInv
  OBVIOUS
<1>1. chain = [h \in {} |-> NoBlock] /\ DOMAIN chain = {} /\ DOMAIN chain = 0..(-1)
  BY DEF Init, Log!EmptyChain
<1>2. Linked(chain)
  BY <1>1 DEF Linked
<1>3. \A w \in Writer : Fits(run[w])
  BY StartFits DEF Init
<1>4. TypeOK
  BY <1>1, <1>3, StartFits, MovesAssumption, IndexerAssumption DEF Init, CoreInit, TypeOK, Fits
<1> QED BY <1>2, <1>3, <1>4 DEF IInv, Fits

\* Core, crashes and restarts keep the invariant.
LEMMA NextKeeps == IInv /\ [Next]_vars => IInv'
<1> SUFFICES ASSUME IInv, [Next]_vars PROVE IInv'
  OBVIOUS
<1>1. CASE \E b \in Block : Activate(b) /\ UNCHANGED <<chain, run, crashes>>
  <2>1. /\ active' \in Block /\ moves' \in 0..MaxMoves /\ UNCHANGED <<chain, run, crashes>>
    BY <1>1, MovesAssumption DEF Activate, IInv, TypeOK
  <2> QED BY <2>1 DEF IInv, TypeOK, PassOK
<1>2. ASSUME NEW w \in Writer, Resume(w) PROVE IInv'
  BY <1>2, StartFits, BecomesKeeps DEF Resume
<1>3. ASSUME NEW w \in Writer, Crash(w) PROVE IInv'
  <2>1. /\ run' = [run EXCEPT ![w] = Start] /\ crashes' \in 0..MaxCrashes
        /\ UNCHANGED <<active, moves, chain>>
    BY <1>3, IndexerAssumption DEF Crash, coreVars, IInv, TypeOK
  <2>2. TypeOK'
    BY <2>1, StartFits DEF IInv, TypeOK, Fits
  <2>3. \A v \in Writer : PassOK(run'[v])
    BY <2>1, StartFits DEF IInv, TypeOK, Fits
  <2> QED BY <2>1, <2>2, <2>3 DEF IInv, PassOK
<1>4. CASE UNCHANGED vars
  BY <1>4 DEF vars, IInv, TypeOK, PassOK
<1> QED BY <1>1, <1>2, <1>3, <1>4, StepKeeps DEF Next

\* For any number of writers on one database, any tree and any movement of
\* Core: the store's chain holds blocks at their heights, every pass keeps its
\* variables in range, and no walk or diagnosis asks for a height below zero.
THEOREM PassesTyped == Spec => []TypeOK
<1>1. IInv => TypeOK
  BY DEF IInv
<1> QED BY InitKeeps, NextKeeps, <1>1, PTL DEF Spec

-----------------------------------------------------------------------------
(* One writer.                                                             *)

\* A pass that starts over, ends without damage, or asks why a hash was
\* refused, claims nothing.
Quiet == {"reconcile", "sync", "hash1", "hash2", "apply", "classify", "done"} \cup (Halted \ Damage)

LEMMA QuietTells ==
  ASSUME NEW r, r.pc \in Quiet, r.since <= moves PROVE Tells(r)
BY DEF Tells, Knows, Walked, Quiet, Damage, Halted, Walking, Found, Diagnosing, Parented

LEMMA ReturnTells ==
  ASSUME moves \in Nat, NEW p \in Quiet \cap (Halted \cup {"done", "sync"})
  PROVE  Tells(Return(p)) /\ Tells(Start)
<1>1. Return(p) = [pc |-> p, local |-> NoBlock, target |-> 0, at |-> 0,
                   hash |-> NoBlock, parent |-> NoBlock, since |-> 0]
  BY DEF Return, Start
<1> HIDE DEF Return
<1>2. Return(p).pc \in Quiet /\ Return(p).since <= moves
  BY <1>1
<1>3. Start.pc \in Quiet /\ Start.since <= moves
  BY DEF Start, Quiet
<1> QED BY <1>2, <1>3, QuietTells

\* The beginning of a walk leaves no shared block above it.
LEMMA SearchTells ==
  ASSUME IInv, NEW r \in Pass, r.local \in Block, r.local = Tip, r.since <= moves,
         r.since = moves => height[r.local] <= r.target \/ r.target = height[active]
  PROVE  Tells(Search(r))
<1>0. /\ height[r.local] \in Nat /\ r.target \in Nat /\ active \in Block /\ moves \in Nat
      /\ Linked(chain) /\ Tip = Top(chain) /\ r.since \in Nat
  BY TreeAssumption, MovesAssumption DEF Pass, IInv, TypeOK, Tip, Top
<1>1. DOMAIN chain = 0..height[r.local]
  BY <1>0, TopIs, TreeAssumption DEF Height
<1>2. CASE Search(r) = Return("ErrReorgTooDeep")
  BY <1>0, <1>2, ReturnTells DEF Quiet, Halted, Damage
<1>3. ASSUME NEW top \in 0..height[r.local],
             Search(r) = [r EXCEPT !.pc = "search", !.at = top],
             height[r.local] - top <= MaxAutomaticReorgDepth,
             top = height[r.local] \/ top = r.target,
             height[r.local] <= r.target => top = height[r.local]
      PROVE  Tells(Search(r))
  <2> DEFINE n == Search(r)
  <2>1. /\ n.pc = "search" /\ n.at = top /\ n.local = r.local /\ n.since = r.since
    BY <1>3 DEF Pass
  <2>2. ASSUME r.since = moves, NEW h \in DOMAIN chain, h > top PROVE ~OnActiveChain(chain[h])
    <3>1. h <= height[r.local] /\ h \in Nat
      BY <1>0, <1>1, <2>2
    <3>2. top = r.target /\ r.target = height[active]
      BY <1>0, <1>3, <2>2, <3>1
    <3>3. height[chain[h]] = h
      BY <1>0, <2>2 DEF Linked
    <3>4. ~(h \in 0..height[active])
      BY <2>2, <3>1, <3>2
    <3> QED BY <1>0, <3>3, <3>4, BranchShape DEF OnActiveChain
  <2> HIDE DEF n
  <2>3. Knows(n)
    BY <1>1, <1>3, <2>1 DEF Knows, Walking, Found, Diagnosing, Parented
  <2>4. Walked(n)
    BY <2>1, <2>2 DEF Walked, Found
  <2> QED BY <2>1, <2>3, <2>4 DEF Tells, Damage, n
<1> QED BY <1>2, <1>3, SearchFits

\* A step of the only pass that leaves the store alone.
LEMMA BecomesTells ==
  ASSUME OneWriter, IInv, NEW w \in Writer, NEW r, Tells(r), Becomes(w, r)
  PROVE  OInv'
<1>1. /\ \A v \in Writer : run'[v] = r
      /\ UNCHANGED <<active, moves, chain, crashes>>
  BY DEF OneWriter, Becomes, coreVars, IInv, TypeOK
<1>2. Knows(r)' /\ Walked(r)'
  BY <1>1 DEF Tells, Knows, Walked, Tip, Sequential, OnActiveChain
<1>3. \A v \in Writer : Tells(run[v])'
  BY <1>1, <1>2 DEF Tells, Knows, Walked
<1> QED BY <1>3 DEF OInv

\* Every call of the only pass keeps what it knows.
LEMMA StepTells ==
  ASSUME OneWriter, IInv, OInv, NEW w \in Writer, Step(w) PROVE OInv'
<1> DEFINE r == run[w]
<1> USE DEF At
<1>0. /\ r \in Pass /\ PassOK(r) /\ Tells(r)
      /\ active \in Block /\ moves \in Nat /\ Linked(chain)
  BY MovesAssumption DEF IInv, TypeOK, OInv
<1>a. /\ Tells(Start)
      /\ \A p \in Quiet \cap (Halted \cup {"done", "sync"}) : Tells(Return(p))
  BY <1>0, ReturnTells DEF Quiet
<1>b. r.since \in Nat /\ r.since <= moves /\ r.at \in Nat /\ r.target \in Nat
  BY <1>0 DEF Pass, Tells, Walked
<1>c. /\ Tip \in Block \cup {NoBlock} /\ Tip = Top(chain)
      /\ Tip = NoBlock <=> DOMAIN chain = {}
      /\ Tip # NoBlock => height[Tip] \in Nat /\ DOMAIN chain = 0..height[Tip]
  BY <1>0, TopIs, TreeAssumption DEF Tip, Top, Height
<1>d. \A h : Tells([r EXCEPT !.pc = "classify", !.at = h])
  <2> SUFFICES ASSUME NEW h PROVE Tells([r EXCEPT !.pc = "classify", !.at = h])
    OBVIOUS
  <2> DEFINE n == [r EXCEPT !.pc = "classify", !.at = h]
  <2>1. n.pc = "classify" /\ n.since = r.since
    BY <1>0 DEF Pass
  <2> QED BY <1>b, <2>1, QuietTells DEF Quiet
<1>e. \A h : HashKnown(h) => /\ GetBlockHash(h) \in Ancestry[active]
                             /\ \A b \in Ancestry[active] : height[b] = h => b = GetBlockHash(h)
  BY <1>0, AnswerFits
<1>f. ASSUME NEW p \in {"recheck", "recheckLocal", "rollback", "diagnoseTip"},
             p \in Found => /\ r.pc \in {"searchCore", "recheck", "recheckLocal"}
                            /\ r.since = moves => OnActiveChain(chain[r.at]),
             p \in Diagnosing => r.pc = "diagnose"
      PROVE  Tells([r EXCEPT !.pc = p])
  <2> DEFINE n == [r EXCEPT !.pc = p]
  <2>1. /\ n.pc = p /\ n.local = r.local /\ n.at = r.at /\ n.hash = r.hash
        /\ n.since = r.since /\ n.target = r.target
    BY <1>0 DEF Pass
  <2> HIDE DEF n
  <2>2. Knows(n)
    BY <1>0, <1>f, <2>1 DEF Tells, Knows, Walking, Found, Diagnosing, Parented
  <2>3. Walked(n)
    BY <1>0, <1>f, <2>1 DEF Tells, Walked, Walking, Found, Diagnosing
  <2> QED BY <1>f, <2>1, <2>2, <2>3 DEF Tells, Damage, n
<1>1. CASE Reconcile(w)
  <2> DEFINE n == [r EXCEPT !.pc = IF Tip = NoBlock THEN "sync" ELSE "count",
                            !.local = Tip, !.since = moves]
  <2>1. n.pc \in {"sync", "count"} /\ n.local = Tip /\ n.since = moves
    BY <1>0 DEF Pass
  <2>2. Tells(n)
    BY <1>0, <2>1 DEF Tells, Knows, Walked, Damage, Walking, Found, Diagnosing, Parented
  <2> QED BY <1>1, <2>2, BecomesTells DEF Reconcile
<1>2. CASE ReconcileCount(w)
  <2> DEFINE q == [r EXCEPT !.target = GetBlockCount]
             n == [q EXCEPT !.pc = "compare"]
  <2>1. /\ q \in Pass /\ q.local = r.local /\ q.since = r.since /\ q.target = height[active]
        /\ n.pc = "compare" /\ n.local = r.local /\ n.since = r.since /\ n.target = q.target
    BY <1>0, TreeAssumption DEF Pass, GetBlockCount
  <2>2. r.local \in Block /\ r.local = Tip
    BY <1>0, <1>2 DEF ReconcileCount, PassOK, Tells, Knows
  <2>3. Tells(Search(q))
    BY <1>b, <2>1, <2>2, SearchTells
  <2>4. \/ height[q.local] <= q.target /\ Becomes(w, n)
        \/ Becomes(w, Search(q))
    BY <1>2 DEF ReconcileCount, Goto
  <2>5. ASSUME height[q.local] <= q.target PROVE Tells(n)
    <3> HIDE DEF n, q
    <3> QED BY <1>b, <2>1, <2>2, <2>5
            DEF Tells, Knows, Walked, Damage, Walking, Found, Diagnosing, Parented
  <2> QED BY <2>3, <2>4, <2>5, BecomesTells
<1>3. CASE ReconcileCompare(w)
  <2>1. r.local \in Block /\ r.local = Tip /\ height[r.local] <= r.target
    BY <1>0, <1>3 DEF ReconcileCompare, PassOK, Tells, Knows, Walked
  <2>2. Tells(Return("sync")) /\ Tells(Search(r))
    BY <1>0, <1>a, <1>b, <2>1, SearchTells DEF Quiet
  <2>3. \/ Becomes(w, Return("sync")) \/ Becomes(w, Search(r))
        \/ Becomes(w, [r EXCEPT !.pc = "classify", !.at = height[r.local]])
    BY <1>3 DEF ReconcileCompare, AskHash
  <2> QED BY <1>d, <2>2, <2>3, BecomesTells
<1>4. CASE SearchLocal(w)
  <2> DEFINE n == [r EXCEPT !.pc = "searchCore", !.hash = chain[r.at]]
  <2>1. r.at \in DOMAIN chain
    BY <1>0, <1>4 DEF SearchLocal, Tells, Knows, Walking
  <2>2. /\ n.pc = "searchCore" /\ n.hash = chain[r.at] /\ n.at = r.at /\ n.local = r.local
        /\ n.since = r.since
    BY <1>0 DEF Pass
  <2>3. Becomes(w, n)
    BY <1>4, <2>1 DEF SearchLocal
  <2> HIDE DEF n
  <2>4. Knows(n)
    BY <1>0, <1>4, <2>2 DEF SearchLocal, Tells, Knows, Walking, Found, Diagnosing, Parented
  <2>5. Walked(n)
    BY <1>0, <1>4, <2>2 DEF SearchLocal, Tells, Walked, Walking, Found
  <2> QED BY <2>2, <2>3, <2>4, <2>5, BecomesTells DEF Tells, Damage
<1>5. CASE SearchCore(w)
  <2> DEFINE n == [r EXCEPT !.pc = "recheck"]
             m == [r EXCEPT !.pc = "search", !.at = r.at - 1]
  <2>0. /\ r.at \in DOMAIN chain /\ r.hash = chain[r.at] /\ r.local = Tip /\ r.local \in Block
        /\ height[r.local] \in Nat /\ DOMAIN chain = 0..height[r.local]
        /\ height[chain[r.at]] = r.at
    BY <1>0, <1>5, <1>c, TreeAssumption DEF SearchCore, Tells, Knows, Walking, PassOK, Linked
  <2>1. \/ HashKnown(r.at) /\ GetBlockHash(r.at) = r.hash /\ Becomes(w, n)
        \/ /\ HashKnown(r.at) /\ GetBlockHash(r.at) # r.hash
           /\ r.at - 1 >= Floor(r) /\ Becomes(w, m)
        \/ Becomes(w, Return("ErrReorgTooDeep"))
        \/ Becomes(w, [r EXCEPT !.pc = "classify", !.at = r.at])
    BY <1>5 DEF SearchCore, AskHash, Goto
  <2>2. ASSUME HashKnown(r.at), GetBlockHash(r.at) = r.hash PROVE Tells(n)
    <3>1. OnActiveChain(chain[r.at])
      BY <1>e, <2>0, <2>2 DEF OnActiveChain
    <3> QED BY <1>5, <1>f, <3>1 DEF SearchCore, Diagnosing
  <2>3. ASSUME HashKnown(r.at), GetBlockHash(r.at) # r.hash, r.at - 1 >= Floor(r) PROVE Tells(m)
    <3>1. Floor(r) \in Nat /\ Floor(r) >= height[r.local] - MaxAutomaticReorgDepth
      <4> DEFINE S == {0, height[r.local] - MaxAutomaticReorgDepth}
      <4>1. height[r.local] - MaxAutomaticReorgDepth \in Int
        BY <2>0, IndexerAssumption
      <4>2. \E x \in S : \A y \in S : x >= y
        BY <4>1
      <4>3. Max(S) \in S /\ \A y \in S : Max(S) >= y
        BY <4>2 DEF Max
      <4> QED BY <4>1, <4>3 DEF Floor
    <3>2. /\ r.at - 1 \in DOMAIN chain
          /\ height[r.local] - (r.at - 1) <= MaxAutomaticReorgDepth
      BY <1>b, <2>0, <2>3, <3>1, IndexerAssumption
    <3>3. ~OnActiveChain(chain[r.at])
      BY <1>e, <2>0, <2>3 DEF OnActiveChain
    <3>4. ASSUME r.since = moves, NEW h \in DOMAIN chain, h > r.at - 1
          PROVE  ~OnActiveChain(chain[h])
      <4>1. h = r.at \/ h > r.at
        BY <1>b, <2>0, <3>4
      <4> QED BY <1>0, <1>5, <3>3, <3>4, <4>1 DEF SearchCore, Tells, Walked, Walking
    <3>5. m.pc = "search" /\ m.at = r.at - 1 /\ m.local = r.local /\ m.since = r.since
      BY <1>0 DEF Pass
    <3> HIDE DEF m
    <3>6. Knows(m)
      BY <2>0, <3>2, <3>5 DEF Knows, Walking, Found, Diagnosing, Parented
    <3>7. Walked(m)
      BY <1>b, <3>4, <3>5 DEF Walked, Walking, Found
    <3> QED BY <3>5, <3>6, <3>7 DEF Tells, Damage, m
  <2>4. Tells(Return("ErrReorgTooDeep"))
    BY <1>a DEF Quiet, Halted, Damage
  <2> QED BY <1>d, <2>1, <2>2, <2>3, <2>4, BecomesTells
<1>6. CASE Recheck(w)
  <2> DEFINE n == [r EXCEPT !.pc = "recheckLocal"]
  <2>1. Tells(n)
    BY <1>0, <1>6, <1>f DEF Recheck, Tells, Walked, Found, Diagnosing
  <2>2. Becomes(w, n) \/ Becomes(w, Start) \/ Becomes(w, [r EXCEPT !.pc = "classify", !.at = r.at])
    BY <1>6 DEF Recheck, AskHash, Goto, Restarted
  <2> QED BY <1>a, <1>d, <2>1, <2>2, BecomesTells
<1>7. CASE RecheckLocal(w)
  <2> DEFINE n == [r EXCEPT !.pc = "rollback"]
  <2>1. Tells(n)
    BY <1>0, <1>7, <1>f DEF RecheckLocal, Tells, Walked, Found, Diagnosing
  <2>2. Becomes(w, n) \/ Becomes(w, Start)
    BY <1>7 DEF RecheckLocal, Goto, Restarted
  <2> QED BY <1>a, <2>1, <2>2, BecomesTells
<1>8. CASE RollbackTo(w)
  <2> DEFINE n == [r EXCEPT !.pc = "verify"]
  <2>1. r.at \in DOMAIN chain /\ r.hash = chain[r.at]
    BY <1>0, <1>8 DEF RollbackTo, Tells, Knows, Walking, Found
  <2>2. /\ run' = [run EXCEPT ![w] = n] /\ Log!Retract(r.at) /\ UNCHANGED <<active, moves>>
    BY <1>8, <2>1 DEF RollbackTo, InChain, coreVars
  <2>3. Tip' = r.hash
    <3>1. Top(chain') = chain[r.at]
      BY <1>0, <2>2, RetractShape
    <3> QED BY <2>1, <3>1 DEF Tip, Top
  <2>4. n.pc = "verify" /\ n.hash = r.hash /\ n.since = r.since
    BY <1>0 DEF Pass
  <2>5. \A v \in Writer : run'[v] = n
    BY <2>2 DEF OneWriter, IInv, TypeOK
  <2> HIDE DEF n
  <2>6. \A v \in Writer : Knows(run[v])' /\ Walked(run[v])' /\ run'[v].pc \notin Damage
    BY <1>b, <2>2, <2>3, <2>4, <2>5 DEF Knows, Walked, Damage, Walking, Found, Diagnosing, Parented
  <2> QED BY <2>6 DEF OInv, Tells
<1>9. CASE VerifyRollback(w)
  <2>1. Tip = r.hash
    BY <1>0, <1>9 DEF VerifyRollback, Tells, Knows
  <2> QED BY <1>9, <1>a, <2>1, BecomesTells DEF VerifyRollback, Quiet
<1>10. CASE SyncTip(w)
  <2> DEFINE n == [r EXCEPT !.pc = "target", !.local = Tip]
  <2>1. n.pc = "target" /\ n.local = Tip /\ n.since = r.since
    BY <1>0 DEF Pass
  <2>2. Tells(n)
    BY <1>b, <2>1 DEF Tells, Knows, Walked, Damage, Walking, Found, Diagnosing, Parented
  <2> QED BY <1>10, <2>2, BecomesTells DEF SyncTip
<1>11. CASE SyncTarget(w)
  <2> DEFINE q == [r EXCEPT !.target = GetBlockCount]
             h == Height(r.local)
             n == [q EXCEPT !.pc = "confirm"]
             m == [q EXCEPT !.pc = "hash1", !.at = h + 1]
  <2>1. /\ q.local = r.local /\ q.target = GetBlockCount
        /\ n.pc = "confirm" /\ n.local = r.local /\ n.since = r.since
        /\ m.pc = "hash1" /\ m.since = r.since
    BY <1>0 DEF Pass
  <2>2. Becomes(w, Start) \/ Becomes(w, n) \/ Becomes(w, m)
    BY <1>11, <2>1 DEF SyncTarget, Goto, Restarted
  <2>3. Tells(m)
    BY <1>b, <2>1, QuietTells DEF Quiet
  <2>4. r.local = Tip
    BY <1>0, <1>11 DEF SyncTarget, Tells, Knows
  <2>5. Tells(n)
    <3> HIDE DEF n
    <3> QED BY <1>b, <2>1, <2>4 DEF Tells, Knows, Walked, Damage, Walking, Found, Diagnosing, Parented
  <2> QED BY <1>a, <2>2, <2>3, <2>5, BecomesTells
<1>12. CASE ConfirmCaughtUp(w)
  <2>1. \/ Becomes(w, Return("done")) \/ Becomes(w, Start)
        \/ Becomes(w, [r EXCEPT !.pc = "classify", !.at = Height(r.local)])
    BY <1>12 DEF ConfirmCaughtUp, AskHash, Restarted
  <2> QED BY <1>a, <1>d, <2>1, BecomesTells DEF Quiet
<1>13. CASE ApplyHash1(w)
  <2> DEFINE n == [r EXCEPT !.pc = "hash2", !.hash = GetBlockHash(r.at)]
  <2>1. Becomes(w, n) \/ Becomes(w, [r EXCEPT !.pc = "classify", !.at = r.at])
    BY <1>13 DEF ApplyHash1, AskHash
  <2>2. n.pc = "hash2" /\ n.since = r.since
    BY <1>0 DEF Pass
  <2>3. Tells(n)
    BY <1>b, <2>2, QuietTells DEF Quiet
  <2> QED BY <1>d, <2>1, <2>3, BecomesTells
<1>14. CASE ApplyHash2(w)
  <2> DEFINE n == [r EXCEPT !.pc = "apply"]
  <2>1. Becomes(w, n) \/ Becomes(w, Start) \/ Becomes(w, [r EXCEPT !.pc = "classify", !.at = r.at])
    BY <1>14 DEF ApplyHash2, AskHash, Goto, Restarted
  <2>2. n.pc = "apply" /\ n.since = r.since
    BY <1>0 DEF Pass
  <2>3. Tells(n)
    BY <1>b, <2>2, QuietTells DEF Quiet
  <2> QED BY <1>a, <1>d, <2>1, <2>3, BecomesTells
<1>15. CASE Apply(w)
  <2>1. CASE Sequential(r.hash)
    <3> DEFINE m == [r EXCEPT !.pc = "hash1", !.at = r.at + 1]
               n == IF r.at < r.target THEN m ELSE Start
    <3>1. run' = [run EXCEPT ![w] = n] /\ UNCHANGED <<active, moves>>
      BY <1>15, <2>1 DEF Apply, coreVars, Restarted
    <3>2. m.pc = "hash1" /\ m.since = r.since
      BY <1>0 DEF Pass
    <3>3. n.pc \in {"hash1", "reconcile"} /\ n.since <= moves
      BY <1>0, <1>b, <3>2 DEF Start
    <3>4. \A v \in Writer : run'[v] = n
      BY <3>1 DEF OneWriter, IInv, TypeOK
    <3> HIDE DEF n
    <3>5. \A v \in Writer : Knows(run[v])' /\ Walked(run[v])' /\ run'[v].pc \notin Damage
      BY <3>1, <3>3, <3>4 DEF Knows, Walked, Damage, Walking, Found, Diagnosing, Parented
    <3> QED BY <3>5 DEF OInv, Tells
  <2>2. CASE ~Sequential(r.hash)
    <3> DEFINE n == [r EXCEPT !.pc = "diagnose"]
    <3>1. n.pc = "diagnose" /\ n.hash = r.hash /\ n.since = r.since
      BY <1>0 DEF Pass
    <3>2. Becomes(w, n)
      BY <1>15, <2>2 DEF Apply, Becomes
    <3> HIDE DEF n
    <3>3. Tells(n)
      BY <1>b, <2>2, <3>1 DEF Tells, Knows, Walked, Damage, Walking, Found, Diagnosing, Parented
    <3> QED BY <3>2, <3>3, BecomesTells
  <2> QED BY <2>1, <2>2
<1>16. CASE Poll(w)
  BY <1>a, <1>16, BecomesTells DEF Poll, Restarted
<1>17. CASE Diagnose(w)
  <2> DEFINE n == [r EXCEPT !.pc = "diagnoseTip"]
  <2>1. Tells(n)
    BY <1>17, <1>f DEF Diagnose, Found
  <2>2. Becomes(w, n) \/ Becomes(w, Start) \/ Becomes(w, [r EXCEPT !.pc = "classify", !.at = r.at])
    BY <1>17 DEF Diagnose, AskHash, Goto, Restarted
  <2> QED BY <1>a, <1>d, <2>1, <2>2, BecomesTells
<1>18. CASE DiagnoseTip(w)
  <2> DEFINE n == [r EXCEPT !.pc = "diagnoseParent", !.local = Tip]
  <2>1. n.pc = "diagnoseParent" /\ n.hash = r.hash /\ n.at = r.at /\ n.local = Tip /\ n.since = r.since
    BY <1>0 DEF Pass
  <2>2. Becomes(w, Start) \/ (Height(Tip) = r.at - 1 /\ Becomes(w, n))
    BY <1>18 DEF DiagnoseTip, Restarted
  <2>3. ASSUME Height(Tip) = r.at - 1 PROVE Tells(n)
    <3>1. Tip # NoBlock
      BY <1>0, <1>c, <1>18 DEF DiagnoseTip, PassOK, Diagnosing
    <3>2. height[Tip] = r.at - 1 /\ ~Sequential(r.hash)
      BY <1>0, <1>18, <2>3, <3>1 DEF Height, DiagnoseTip, Tells, Knows, Diagnosing
    <3> HIDE DEF n
    <3> QED BY <1>b, <2>1, <3>2 DEF Tells, Knows, Walked, Damage, Walking, Found, Diagnosing, Parented
  <2> QED BY <1>a, <2>2, <2>3, BecomesTells
<1>19. CASE DiagnoseParent(w)
  <2> DEFINE n == [r EXCEPT !.pc = "diagnoseAgain", !.parent = GetBlockHash(r.at - 1)]
  <2>1. /\ n.pc = "diagnoseAgain" /\ n.hash = r.hash /\ n.at = r.at /\ n.local = r.local
        /\ n.since = r.since
    BY <1>0 DEF Pass
  <2>2. Becomes(w, n) \/ Becomes(w, [r EXCEPT !.pc = "classify", !.at = r.at - 1])
    BY <1>19 DEF DiagnoseParent, AskHash
  <2>3. r.local = Tip /\ ~Sequential(r.hash) /\ height[Tip] = r.at - 1
    BY <1>0, <1>19 DEF DiagnoseParent, Tells, Knows, Diagnosing, Parented
  <2>4. Tells(n)
    <3> HIDE DEF n
    <3> QED BY <1>b, <2>1, <2>3 DEF Tells, Knows, Walked, Damage, Walking, Found, Diagnosing, Parented
  <2> QED BY <1>d, <2>2, <2>4, BecomesTells
<1>20. CASE DiagnoseAgain(w)
  <2>1. /\ r.local = Tip /\ ~Sequential(r.hash) /\ height[Tip] = r.at - 1
        /\ height[r.hash] = r.at /\ Tip # NoBlock
    BY <1>0, <1>c, <1>20 DEF DiagnoseAgain, Tells, Knows, PassOK, Diagnosing, Parented
  <2>2. prev[r.hash] # r.local
    <3>1. height[r.hash] = height[Tip] + 1
      BY <1>b, <2>1
    <3> QED BY <2>1, <3>1 DEF Sequential
  <2>3. \/ Becomes(w, Start) \/ Becomes(w, Return("ErrContradictoryBlock"))
        \/ Becomes(w, [r EXCEPT !.pc = "classify", !.at = r.at])
    BY <1>20, <2>2 DEF DiagnoseAgain, AskHash, Restarted
  <2>4. Tells(Return("ErrContradictoryBlock"))
    BY <1>a DEF Quiet, Halted, Damage
  <2> QED BY <1>a, <1>d, <2>3, <2>4, BecomesTells
<1>21. CASE Classify(w)
  <2>1. Tells(Return("ErrHashUnavailable"))
    BY <1>a DEF Quiet, Halted, Damage
  <2> QED BY <1>a, <1>21, <2>1, BecomesTells DEF Classify, Restarted
<1> QED
  BY <1>1, <1>2, <1>3, <1>4, <1>5, <1>6, <1>7, <1>8, <1>9, <1>10, <1>11, <1>12, <1>13,
     <1>14, <1>15, <1>16, <1>17, <1>18, <1>19, <1>20, <1>21 DEF Step

\* So do Core, crashes and restarts: when Core moves, what the pass knew of it
\* is void, because moves has left since behind.
LEMMA NextTells ==
  ASSUME OneWriter PROVE IInv /\ OInv /\ [Next]_vars => OInv'
<1> SUFFICES ASSUME IInv, OInv, [Next]_vars PROVE OInv'
  OBVIOUS
<1>0. moves \in Nat /\ Tells(Start)
  BY MovesAssumption, ReturnTells DEF IInv, TypeOK, Quiet
<1>1. CASE \E b \in Block : Activate(b) /\ UNCHANGED <<chain, run, crashes>>
  <2>1. moves' = moves + 1 /\ UNCHANGED <<chain, run>>
    BY <1>1 DEF Activate
  <2>2. ASSUME NEW v \in Writer PROVE Tells(run[v])'
    <3>1. Tells(run[v]) /\ run[v].since \in Nat
      BY DEF OInv, IInv, TypeOK, Pass
    <3>2. run[v].since <= moves' /\ run[v].since # moves'
      BY <1>0, <2>1, <3>1 DEF Tells, Walked
    <3>3. Knows(run[v])'
      BY <2>1, <3>1 DEF Tells, Knows, Tip, Sequential
    <3>4. Walked(run[v])'
      BY <2>1, <3>1, <3>2 DEF Tells, Walked
    <3> QED BY <2>1, <3>1, <3>3, <3>4 DEF Tells
  <2> QED BY <2>2 DEF OInv
<1>2. ASSUME NEW w \in Writer, Resume(w) PROVE OInv'
  BY <1>0, <1>2, BecomesTells DEF Resume
<1>3. ASSUME NEW w \in Writer, Crash(w) PROVE OInv'
  <2>1. UNCHANGED <<active, moves, chain>> /\ \A v \in Writer : run'[v] = Start
    BY <1>3 DEF Crash, coreVars, OneWriter, IInv, TypeOK
  <2>2. \A v \in Writer : Tells(run[v])'
    BY <1>0, <2>1 DEF Tells, Knows, Walked, Tip, Sequential, OnActiveChain
  <2> QED BY <2>2 DEF OInv
<1>4. CASE UNCHANGED vars
  <2>1. \A v \in Writer : Tells(run[v])'
    BY <1>4 DEF vars, OInv, Tells, Knows, Walked, Tip, Sequential, OnActiveChain
  <2> QED BY <2>1 DEF OInv
<1> QED BY <1>1, <1>2, <1>3, <1>4, StepTells DEF Next

LEMMA InitTells == Init => OInv
<1> SUFFICES ASSUME Init PROVE OInv
  OBVIOUS
<1>1. moves \in Nat /\ \A w \in Writer : run[w] = Start
  BY DEF Init, CoreInit
<1> QED BY <1>1, ReturnTells DEF OInv, Quiet

\* The invariants hold together in every state.
LEMMA OneWriterInvariant == ASSUME OneWriter PROVE Spec => [](IInv /\ OInv)
<1>1. IInv /\ OInv /\ [Next]_vars => OInv'
  BY NextTells
<1> QED BY InitKeeps, NextKeeps, InitTells, <1>1, PTL DEF Spec

\* With one writer, whatever tree Core has, however it moves and however often
\* the process dies, SyncToTip never reports damage to the local database.
THEOREM IntegrityCorrect == ASSUME OneWriter PROVE Spec => []LocalIntegrity
<1>1. Spec => [](IInv /\ OInv)
  BY OneWriterInvariant
<1>2. IInv /\ OInv => LocalIntegrity
  BY DEF OInv, Tells, Damage, LocalIntegrity
<1> QED BY <1>1, <1>2, PTL

\* Only a rollback shortens the chain, and the walk that leads to it kept
\* within the depth policy.
LEMMA StepCuts ==
  ASSUME IInv, OInv, [Next]_vars PROVE [Cut <= MaxAutomaticReorgDepth]_vars
<1> DEFINE D == Cardinality(DOMAIN chain)
<1>0. /\ Linked(chain) /\ MaxAutomaticReorgDepth \in Nat
      /\ \E n \in Nat \cup {-1} : DOMAIN chain = 0..n
  BY IndexerAssumption DEF IInv, Linked
<1>1. ASSUME NEW n \in Nat \cup {-1} PROVE IsFiniteSet(0..n) /\ Cardinality(0..n) = n + 1
  BY FS_Interval
<1>2. D \in Nat /\ IsFiniteSet(DOMAIN chain)
  BY <1>0, <1>1
<1>3. CASE UNCHANGED chain
  BY <1>0, <1>2, <1>3 DEF Cut
<1>4. ASSUME NEW w \in Writer, Apply(w), ~UNCHANGED chain PROVE Cut <= MaxAutomaticReorgDepth
  <2>1. run[w].hash \in Block /\ (Log!Bootstrap(run[w].hash) \/ Log!Extend(run[w].hash))
    BY <1>4 DEF Apply, At, ApplyBlock, IInv, PassOK
  <2>2. DOMAIN chain \subseteq DOMAIN chain' /\ DOMAIN chain' = 0..height[run[w].hash]
    BY <1>0, <2>1, ExtendShape
  <2>3. IsFiniteSet(DOMAIN chain') /\ Cardinality(DOMAIN chain') \in Nat
    BY <1>1, <2>1, <2>2, TreeAssumption
  <2>4. D <= Cardinality(DOMAIN chain')
    BY <2>2, <2>3, FS_Subset
  <2> QED BY <1>0, <1>2, <2>3, <2>4 DEF Cut
<1>5. ASSUME NEW w \in Writer, RollbackTo(w), ~UNCHANGED chain PROVE Cut <= MaxAutomaticReorgDepth
  <2> DEFINE r == run[w]
  <2>1. /\ r.pc = "rollback" /\ Log!Retract(r.at) /\ r.at \in Nat
        /\ r.local \in Block /\ r.local = Tip /\ height[r.local] - r.at <= MaxAutomaticReorgDepth
    BY <1>5 DEF RollbackTo, At, IInv, TypeOK, Pass, PassOK, OInv, Tells, Knows, Walking
  <2>2. DOMAIN chain' = 0..r.at
    BY <1>0, <2>1, RetractShape
  <2>3. DOMAIN chain = 0..height[r.local] /\ height[r.local] \in Nat
    BY <1>0, <2>1, TopIs, TreeAssumption DEF Tip, Top, Height
  <2>4. D = height[r.local] + 1 /\ Cardinality(DOMAIN chain') = r.at + 1
    BY <1>1, <2>1, <2>2, <2>3
  <2> QED BY <2>1, <2>3, <2>4, IndexerAssumption DEF Cut
<1>6. Next => UNCHANGED chain \/ \E w \in Writer : Apply(w) \/ RollbackTo(w)
  BY DEF Next, Step, Becomes, Resume, Crash, AskHash, Reconcile, ReconcileCount, ReconcileCompare,
         SearchLocal, SearchCore, Recheck, RecheckLocal, VerifyRollback, SyncTip, SyncTarget,
         ConfirmCaughtUp, ApplyHash1, ApplyHash2, Poll, Diagnose, DiagnoseTip, DiagnoseParent,
         DiagnoseAgain, Classify
<1> QED BY <1>3, <1>4, <1>5, <1>6 DEF vars

\* With one writer, no step undoes more blocks than the policy allows, counted
\* from the tip that the rollback really starts at.
THEOREM DepthBounded == ASSUME OneWriter PROVE Spec => DepthPolicy
<1>1. Spec => [](IInv /\ OInv)
  BY OneWriterInvariant
<1>2. IInv /\ OInv /\ [Next]_vars => [Cut <= MaxAutomaticReorgDepth]_vars
  BY StepCuts
<1> QED BY <1>1, <1>2, PTL DEF Spec, DepthPolicy

\* The pass that a step belongs to: only it changes its variables.
LEMMA StepOf ==
  ASSUME IInv, Next, NEW w \in Writer, run'[w].pc # run[w].pc
  PROVE  Step(w) \/ run'[w] = Start
<1>1. CASE \E b \in Block : Activate(b) /\ UNCHANGED <<chain, run, crashes>>
  BY <1>1
<1>2. ASSUME NEW v \in Writer, Step(v) \/ Resume(v) \/ Crash(v) PROVE Step(w) \/ run'[w] = Start
  <2>0. run \in [Writer -> Pass]
    BY DEF IInv, TypeOK
  <2>1. \E n : run' = [run EXCEPT ![v] = n]
    <3>1. CASE Apply(v)
      BY <3>1 DEF Apply
    <3>2. CASE RollbackTo(v)
      BY <3>2 DEF RollbackTo
    <3>3. CASE Crash(v)
      BY <3>3 DEF Crash
    <3>4. CASE ~Apply(v) /\ ~RollbackTo(v) /\ ~Crash(v)
      BY <1>2, <3>4
         DEF Step, Becomes, Resume, AskHash, Reconcile, ReconcileCount, ReconcileCompare,
             SearchLocal, SearchCore, Recheck, RecheckLocal, VerifyRollback, SyncTip, SyncTarget,
             ConfirmCaughtUp, ApplyHash1, ApplyHash2, Poll, Diagnose, DiagnoseTip,
             DiagnoseParent, DiagnoseAgain, Classify
    <3> QED BY <3>1, <3>2, <3>3, <3>4
  <2>2. v = w
    BY <2>0, <2>1
  <2>3. CASE Step(v)
    BY <2>2, <2>3
  <2>4. CASE Resume(v) \/ Crash(v)
    BY <2>0, <2>2, <2>4 DEF Resume, Crash, Becomes
  <2> QED BY <1>2, <2>3, <2>4
<1> QED BY <1>1, <1>2 DEF Next

\* With one writer, a rollback in a pass during which Core has not moved lands
\* exactly where the store's chain leaves Core's.
THEOREM ForkPointCorrect == ASSUME OneWriter PROVE Spec => ForkPointExact
<1> DEFINE Lands(w) ==
      At(w, "rollback") /\ run'[w].pc = "verify" /\ run[w].since = moves
        => \A h \in DOMAIN chain : h \in DOMAIN chain' <=> OnActiveChain(chain[h])
<1>1. ASSUME IInv, OInv, Next, NEW w \in Writer,
             At(w, "rollback"), run'[w].pc = "verify", run[w].since = moves,
             NEW h \in DOMAIN chain
      PROVE  h \in DOMAIN chain' <=> OnActiveChain(chain[h])
  <2> DEFINE r == run[w]
  <2>1. RollbackTo(w)
    <3>1. Step(w)
      <4>1. run'[w].pc # run[w].pc /\ run'[w] # Start
        BY <1>1 DEF At, Start
      <4> QED BY <1>1, <4>1, StepOf
    <3> QED BY <1>1, <3>1
         DEF At, Step, Reconcile, ReconcileCount, ReconcileCompare,
             SearchLocal, SearchCore, Recheck, RecheckLocal, VerifyRollback, SyncTip, SyncTarget,
             ConfirmCaughtUp, ApplyHash1, ApplyHash2, Apply, Poll, Diagnose, DiagnoseTip,
             DiagnoseParent, DiagnoseAgain, Classify
  <2>2. /\ r.at \in DOMAIN chain /\ r.hash = chain[r.at] /\ r.pc = "rollback"
        /\ OnActiveChain(chain[r.at])
        /\ \A g \in DOMAIN chain : g > r.at => ~OnActiveChain(chain[g])
    BY <1>1 DEF At, OInv, Tells, Knows, Walked, Walking, Found
  <2>3. Log!Retract(r.at)
    BY <2>1, <2>2 DEF RollbackTo, InChain
  <2>4. DOMAIN chain' = 0..r.at
    BY <1>1, <2>3, RetractShape DEF IInv
  <2>5. \A g \in DOMAIN chain : g <= r.at => OnActiveChain(chain[g])
    BY <1>1, <2>2, BelowShared DEF IInv, TypeOK
  <2>6. h \in Nat /\ r.at \in Nat
    BY <1>1, <2>2 DEF IInv, Linked
  <2> QED BY <1>1, <2>2, <2>4, <2>5, <2>6
<1>2. Spec => [](IInv /\ OInv)
  BY OneWriterInvariant
<1>3. IInv /\ OInv /\ [Next]_vars => [\A w \in Writer : Lands(w)]_vars
  BY <1>1
<1> QED BY <1>2, <1>3, PTL DEF Spec, ForkPointExact

\* With one writer, SyncToTip reports success only when the store's tip is on
\* Core's active chain at that moment.
THEOREM CaughtUpCorrect == ASSUME OneWriter PROVE Spec => CaughtUpOnCore
<1>1. ASSUME IInv, OInv, Next, NEW w \in Writer, ~At(w, "done"), run'[w].pc = "done"
      PROVE  Tip # NoBlock /\ OnActiveChain(Tip)
  <2> DEFINE r == run[w]
  <2>0. run \in [Writer -> Pass] /\ r \in Pass
    BY <1>1 DEF IInv, TypeOK
  <2>1. Step(w)
    BY <1>1, StepOf DEF At, Start
  <2>2. ConfirmCaughtUp(w)
    <3>1. CASE Reconcile(w)
      BY <1>1, <2>0, <3>1 DEF Reconcile, Becomes, Pass, At
    <3>2. CASE SyncTip(w)
      BY <1>1, <2>0, <3>2 DEF SyncTip, Becomes, Pass, At
    <3>3. CASE Poll(w)
      BY <1>1, <2>0, <3>3 DEF Poll, Becomes, Pass, At, Restarted, Start
    <3>4. CASE DiagnoseTip(w)
      BY <1>1, <2>0, <3>4 DEF DiagnoseTip, Becomes, Pass, At, Restarted, Start
    <3>5. CASE Classify(w)
      BY <1>1, <2>0, <3>5 DEF Classify, Becomes, Pass, At, Restarted, Start, Return
    <3>6. CASE ReconcileCount(w)
      BY <1>1, <2>0, <3>6 DEF ReconcileCount, Becomes, Pass, At, Goto, Search, Return, Start
    <3>7. CASE ReconcileCompare(w)
      BY <1>1, <2>0, <3>7 DEF ReconcileCompare, Becomes, Pass, At, AskHash, Search, Return, Start
    <3>8. CASE SearchLocal(w)
      BY <1>1, <2>0, <3>8 DEF SearchLocal, Becomes, Pass, At, Return, Start
    <3>9. CASE SearchCore(w)
      BY <1>1, <2>0, <3>9 DEF SearchCore, Becomes, Pass, At, AskHash, Goto, Return, Start
    <3>10. CASE Recheck(w)
      BY <1>1, <2>0, <3>10 DEF Recheck, Becomes, Pass, At, AskHash, Goto, Restarted, Start
    <3>11. CASE RecheckLocal(w)
      BY <1>1, <2>0, <3>11 DEF RecheckLocal, Becomes, Pass, At, Goto, Restarted, Start
    <3>12. CASE VerifyRollback(w)
      BY <1>1, <2>0, <3>12 DEF VerifyRollback, Becomes, Pass, At, Return, Start
    <3>13. CASE RollbackTo(w)
      BY <1>1, <2>0, <3>13 DEF RollbackTo, Becomes, Pass, At, Return, Start
    <3>14. CASE SyncTarget(w)
      BY <1>1, <2>0, <3>14 DEF SyncTarget, Becomes, Pass, At, Goto, Restarted, Start
    <3>15. CASE ApplyHash1(w)
      BY <1>1, <2>0, <3>15 DEF ApplyHash1, Becomes, Pass, At, AskHash
    <3>16. CASE ApplyHash2(w)
      BY <1>1, <2>0, <3>16 DEF ApplyHash2, Becomes, Pass, At, AskHash, Goto, Restarted, Start
    <3>17. CASE Apply(w)
      <4> DEFINE m == [r EXCEPT !.pc = "hash1", !.at = r.at + 1]
                 d == [r EXCEPT !.pc = "diagnose"]
      <4>1. m.pc = "hash1" /\ d.pc = "diagnose" /\ Start.pc = "reconcile"
        BY <2>0 DEF Pass, Start
      <4>2. \/ run' = [run EXCEPT ![w] = m] \/ run' = [run EXCEPT ![w] = Start]
            \/ run' = [run EXCEPT ![w] = d]
        BY <3>17 DEF Apply, Restarted
      <4> HIDE DEF m, d
      <4> QED BY <1>1, <2>0, <4>1, <4>2
    <3>18. CASE Diagnose(w)
      BY <1>1, <2>0, <3>18 DEF Diagnose, Becomes, Pass, At, AskHash, Goto, Restarted, Start
    <3>19. CASE DiagnoseParent(w)
      BY <1>1, <2>0, <3>19 DEF DiagnoseParent, Becomes, Pass, At, AskHash
    <3>20. CASE DiagnoseAgain(w)
      BY <1>1, <2>0, <3>20 DEF DiagnoseAgain, Becomes, Pass, At, AskHash, Restarted, Return, Start
    <3> QED
      BY <2>1, <3>1, <3>2, <3>3, <3>4, <3>5, <3>6, <3>7, <3>8, <3>9, <3>10, <3>11, <3>12,
         <3>13, <3>14, <3>15, <3>16, <3>17, <3>18, <3>19, <3>20 DEF Step
  <2>3. r.local = Tip /\ r.local \in Block /\ active \in Block
    BY <1>1, <2>2 DEF ConfirmCaughtUp, At, IInv, TypeOK, PassOK, OInv, Tells, Knows
  <2>4. HashKnown(Height(r.local)) /\ GetBlockHash(Height(r.local)) = r.local
    BY <1>1, <2>0, <2>2 DEF ConfirmCaughtUp, AskHash, Becomes, Pass, Restarted, Start
  <2> QED BY <2>3, <2>4, AnswerFits, TreeAssumption DEF OnActiveChain
<1>2. Spec => [](IInv /\ OInv)
  BY OneWriterInvariant
<1>3. IInv /\ OInv /\ [Next]_vars
        => [\A w \in Writer : ~At(w, "done") /\ run'[w].pc = "done"
               => Tip # NoBlock /\ OnActiveChain(Tip)]_vars
  BY <1>1
<1> QED BY <1>2, <1>3, PTL DEF Spec, CaughtUpOnCore
=============================================================================
