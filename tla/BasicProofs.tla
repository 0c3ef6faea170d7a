----------------------------- MODULE BasicProofs -----------------------------
(***************************************************************************)
(* What the proofs about several modules need: branches of the block tree, *)
(* sums over finite sets, and finite sets in order.  SumFunctionOnSet is a *)
(* fold, a recursive function on the subsets of its index set; what the    *)
(* store's totals need of it is proved here by looking at a smallest       *)
(* subset for which it fails.  ORDER BY puts an element where as many      *)
(* come before it as its position says; what the readers' pages need of    *)
(* that is proved here by counting.                                        *)
(***************************************************************************)
EXTENDS BlockTree, Integers, Sequences, FiniteSets, FiniteSetTheorems, Functions, TLAPS

\* A set of natural numbers has a least one.
LEMMA Least ==
  ASSUME NEW S, S \subseteq Nat, S # {}
  PROVE  \E n \in S : \A m \in S : n <= m
<1>1. PICK n \in S : \A m \in S : ~ (<<m, n>> \in OpToRel(<, Nat))
  BY NatLessThanWellFounded, WFMin
<1>2. ASSUME NEW m \in S, m < n PROVE FALSE
  <2>1. <<m, n>> \in OpToRel(<, Nat)
    BY <1>2 DEF OpToRel
  <2> QED BY <1>1, <2>1
<1> QED BY <1>2

-----------------------------------------------------------------------------
(* The branch of a block                                                   *)

Closed(S) == S \subseteq Block /\ \A c \in S : prev[c] # NoBlock => prev[c] \in S
Branch(b) == {c \in Block : \A S \in SUBSET Block : b \in S /\ Closed(S) => c \in S}

\* Ancestry is what its recursive definition says.
LEMMA AncestryIs ==
  \A b \in Block : Ancestry[b] = {b} \cup (IF prev[b] = NoBlock THEN {} ELSE Ancestry[prev[b]])
<1> DEFINE f == [b \in Block |-> Branch(b)]
           Rec(g) == g = [b \in Block |-> {b} \cup (IF prev[b] = NoBlock THEN {} ELSE g[prev[b]])]
<1>1. ASSUME NEW b \in Block PROVE b \in Branch(b) /\ Closed(Branch(b))
  BY TreeAssumption DEF Branch, Closed
<1>2. ASSUME NEW b \in Block
      PROVE  Branch(b) = {b} \cup (IF prev[b] = NoBlock THEN {} ELSE Branch(prev[b]))
  <2> DEFINE S == {b} \cup (IF prev[b] = NoBlock THEN {} ELSE Branch(prev[b]))
  <2>1. S \in SUBSET Block /\ b \in S
    BY TreeAssumption DEF Branch
  <2>2. Closed(S)
    <3>1. CASE prev[b] = NoBlock
      BY <3>1 DEF Closed
    <3>2. CASE prev[b] # NoBlock
      <4>1. prev[b] \in Block
        BY <3>2, TreeAssumption
      <4>2. prev[b] \in Branch(prev[b]) /\ Closed(Branch(prev[b]))
        BY <1>1, <4>1
      <4> QED BY <3>2, <4>2 DEF Closed
    <3> QED BY <3>1, <3>2
  <2>3. Branch(b) \subseteq S
    <3> HIDE DEF S
    <3> QED BY <2>1, <2>2 DEF Branch
  <2>4. S \subseteq Branch(b)
    <3>1. CASE prev[b] = NoBlock
      BY <3>1, <1>1
    <3>2. CASE prev[b] # NoBlock
      <4>1. prev[b] \in Branch(b)
        BY <3>2, <1>1 DEF Closed
      <4>2. Branch(prev[b]) \subseteq Branch(b)
        BY <3>2 DEF Branch, Closed
      <4> QED BY <3>2, <1>1, <4>2
    <3> QED BY <3>1, <3>2
  <2> QED BY <2>3, <2>4
<1>3. Rec(f)
  <2>1. \A b \in Block : Branch(b) = {b} \cup (IF prev[b] = NoBlock THEN {} ELSE f[prev[b]])
    BY <1>2, TreeAssumption
  <2> QED BY <2>1
<1>4. Ancestry = CHOOSE g : Rec(g)
  BY DEF Ancestry
<1>5. Rec(Ancestry)
  <2> HIDE DEF Rec
  <2> QED BY <1>3, <1>4
<1> QED BY <1>5

-----------------------------------------------------------------------------
(* Sums                                                                    *)

\* A family of subsets of a finite set has a member that contains no other.
LEMMA SmallestSubset ==
  ASSUME NEW S, IsFiniteSet(S), NEW F, F \subseteq SUBSET S, F # {}
  PROVE  \E x \in F : \A y \in F : y \subseteq x => y = x
<1>1. IsWellFoundedOn(StrictSubsetOrdering(S), FiniteSubsetsOf(S))
  BY FS_StrictSubsetOrderingWellFounded
<1>2. F \subseteq FiniteSubsetsOf(S)
  BY FS_FiniteSubsetsOfFinite
<1>3. PICK x \in F : \A y \in F : ~ (<<y, x>> \in StrictSubsetOrdering(S))
  BY <1>1, <1>2, WFMin
<1>4. QED
  BY <1>3 DEF StrictSubsetOrdering

\* Induction over the subsets of a finite set, for a set of good ones.
LEMMA SubsetInduction ==
  ASSUME NEW S, IsFiniteSet(S), NEW Good, {} \in Good,
         \A t \in SUBSET S : t # {} /\ (\A x \in t : t \ {x} \in Good) => t \in Good
  PROVE  SUBSET S \subseteq Good
<1> SUFFICES ASSUME NEW s \in SUBSET S, s \notin Good PROVE FALSE
  OBVIOUS
<1> DEFINE Bad == (SUBSET S) \ Good
<1>1. Bad \subseteq SUBSET S /\ Bad # {}
  OBVIOUS
<1>2. PICK t \in Bad : \A u \in Bad : u \subseteq t => u = t
  <2> HIDE DEF Bad
  <2> QED BY <1>1, SmallestSubset
<1>3. \A x \in t : t \ {x} \in Good
  <2> SUFFICES ASSUME NEW x \in t, t \ {x} \notin Good PROVE FALSE
    OBVIOUS
  <2>1. t \ {x} \in Bad /\ t \ {x} # t
    BY <1>2
  <2>2. QED
    BY <1>2, <2>1
<1>4. QED
  BY <1>2, <1>3

Pick(s) == CHOOSE x \in s : TRUE

\* g adds up f over every subset of U, an element at a time.
Sums(g, f, U) ==
  g = [s \in SUBSET U |-> IF s = {} THEN 0 ELSE f[Pick(s)] + g[s \ {Pick(s)}]]

\* Whatever the whole set, such a function is determined on what it covers.
LEMMA SumsUnique ==
  ASSUME NEW S, IsFiniteSet(S), NEW f, NEW U \in SUBSET S, NEW V \in SUBSET S,
         NEW g, NEW h, Sums(g, f, U), Sums(h, f, V), NEW s \in SUBSET (U \cap V)
  PROVE  g[s] = h[s]
<1> SUFFICES ASSUME g[s] # h[s] PROVE FALSE
  OBVIOUS
<1> DEFINE Bad == {t \in SUBSET (U \cap V) : g[t] # h[t]}
<1>1. Bad \subseteq SUBSET S /\ s \in Bad
  OBVIOUS
<1>2. PICK t \in Bad : \A u \in Bad : u \subseteq t => u = t
  <2> HIDE DEF Bad
  <2> QED BY <1>1, SmallestSubset
<1>3. t # {}
  BY <1>2 DEF Sums
<1> DEFINE u == t \ {Pick(t)}
<1>4. Pick(t) \in t
  BY <1>3 DEF Pick
<1>5. u \in SUBSET (U \cap V) /\ u \notin Bad
  BY <1>2, <1>4
<1>6. g[t] = f[Pick(t)] + g[u] /\ h[t] = f[Pick(t)] + h[u]
  BY <1>3 DEF Sums
<1> QED BY <1>2, <1>5, <1>6

\* There is such a function.
LEMMA SumsExist ==
  ASSUME NEW S, IsFiniteSet(S), NEW f
  PROVE  \A U \in SUBSET S : \E g : Sums(g, f, U)
<1> SUFFICES ASSUME NEW W \in SUBSET S, ~ \E g : Sums(g, f, W) PROVE FALSE
  OBVIOUS
<1> DEFINE Bad == {U \in SUBSET S : ~ \E g : Sums(g, f, U)}
<1>1. PICK U \in Bad : \A V \in Bad : V \subseteq U => V = U
  <2>1. Bad \subseteq SUBSET S /\ W \in Bad
    OBVIOUS
  <2> HIDE DEF Bad
  <2>2. QED
    BY <2>1, SmallestSubset
<1> DEFINE G(t) == CHOOSE g : Sums(g, f, t)
           h == [s \in SUBSET U |->
                   IF s = {} THEN 0 ELSE f[Pick(s)] + G(s \ {Pick(s)})[s \ {Pick(s)}]]
<1>2. ASSUME NEW t \in SUBSET U, t # U PROVE Sums(G(t), f, t)
  <2>1. t \in SUBSET S /\ t \notin Bad
    BY <1>1, <1>2
  <2>2. QED
    BY <2>1
<1>3. ASSUME NEW s \in SUBSET U, s # {} PROVE /\ Pick(s) \in s
                                              /\ s \ {Pick(s)} \in SUBSET U
                                              /\ s \ {Pick(s)} # U
  BY <1>3 DEF Pick
<1>4. ASSUME NEW t \in SUBSET U, t # U PROVE h[t] = G(t)[t]
  <2>1. CASE t = {}
    <3>1. G(t)[t] = 0
      <4>1. Sums(G(t), f, t)
        BY <1>2, <1>4
      <4> HIDE DEF G
      <4>2. QED
        BY <2>1, <4>1 DEF Sums
    <3>2. QED
      BY <2>1, <3>1
  <2>2. CASE t # {}
    <3> DEFINE r == t \ {Pick(t)}
    <3>1. Sums(G(t), f, t) /\ Sums(G(r), f, r) /\ r \in SUBSET t
      BY <1>2, <1>3, <1>4, <2>2
    <3>2. G(t)[r] = G(r)[r]
      <4> HIDE DEF G
      <4>1. t \in SUBSET S /\ r \in SUBSET S /\ r \in SUBSET (t \cap r)
        BY <3>1
      <4>2. QED
        BY <3>1, <4>1, SumsUnique
    <3>3. G(t)[t] = f[Pick(t)] + G(t)[r]
      <4> HIDE DEF G
      <4>1. QED
        BY <2>2, <3>1 DEF Sums
    <3>4. h[t] = f[Pick(t)] + G(r)[r]
      BY <2>2
    <3>5. QED
      BY <3>2, <3>3, <3>4
  <2>3. QED
    BY <2>1, <2>2
<1>5. Sums(h, f, U)
  <2>1. ASSUME NEW s \in SUBSET U, s # {}
        PROVE  h[s \ {Pick(s)}] = G(s \ {Pick(s)})[s \ {Pick(s)}]
    BY <1>3, <1>4, <2>1
  <2> DEFINE want(s) == IF s = {} THEN 0 ELSE f[Pick(s)] + h[s \ {Pick(s)}]
  <2>2. ASSUME NEW s \in SUBSET U PROVE h[s] = want(s)
    <3>1. CASE s = {}
      BY <3>1
    <3>2. CASE s # {}
      <4>1. h[s] = f[Pick(s)] + G(s \ {Pick(s)})[s \ {Pick(s)}]
        BY <3>2
      <4>2. want(s) = f[Pick(s)] + h[s \ {Pick(s)}]
        BY <3>2
      <4> HIDE DEF h, want, G
      <4>3. QED
        BY <2>1, <3>2, <4>1, <4>2
    <3>3. QED
      BY <3>1, <3>2
  <2>3. h = [s \in SUBSET U |-> h[s]]
    OBVIOUS
  <2>4. h = [s \in SUBSET U |-> want(s)]
    <3> HIDE DEF h, want
    <3> QED BY <2>2, <2>3
  <2>5. QED
    BY <2>4 DEF Sums
<1>6. QED
  BY <1>1, <1>5

\* SumFunctionOnSet is the value of such a function at its index set.
LEMMA SumIsFold ==
  ASSUME NEW S, IsFiniteSet(S), NEW f
  PROVE  \E g : Sums(g, f, S) /\ SumFunctionOnSet(f, S) = g[S]
<1> DEFINE g == CHOOSE g : Sums(g, f, S)
<1>1. Sums(g, f, S)
  BY SumsExist
<1>2. SumFunctionOnSet(f, S) = g[S]
  BY DEF SumFunctionOnSet, FoldFunctionOnSet, MapThenFoldSet, Sums, Pick
<1>3. QED
  BY <1>1, <1>2

-----------------------------------------------------------------------------
LEMMA SumEmpty ==
  ASSUME NEW f
  PROVE  SumFunctionOnSet(f, {}) = 0
<1>1. PICK g : Sums(g, f, {}) /\ SumFunctionOnSet(f, {}) = g[{}]
  BY FS_EmptySet, SumIsFold
<1>2. QED
  BY <1>1 DEF Sums

\* The recursion of the fold.
LEMMA SumPick ==
  ASSUME NEW S, IsFiniteSet(S), S # {}, NEW f
  PROVE  /\ Pick(S) \in S
         /\ SumFunctionOnSet(f, S) = f[Pick(S)] + SumFunctionOnSet(f, S \ {Pick(S)})
<1> DEFINE r == S \ {Pick(S)}
<1>1. Pick(S) \in S /\ IsFiniteSet(r)
  BY FS_Subset DEF Pick
<1>2. PICK g : Sums(g, f, S) /\ SumFunctionOnSet(f, S) = g[S]
  BY SumIsFold
<1>3. PICK h : Sums(h, f, r) /\ SumFunctionOnSet(f, r) = h[r]
  BY <1>1, SumIsFold
<1>4. g[r] = h[r]
  <2>1. r \in SUBSET S /\ S \in SUBSET S /\ r \in SUBSET (S \cap r)
    OBVIOUS
  <2> HIDE DEF r
  <2>2. QED
    BY <1>2, <1>3, <2>1, SumsUnique
<1>5. g[S] = f[Pick(S)] + g[r]
  BY <1>2 DEF Sums
<1>6. QED
  BY <1>1, <1>2, <1>3, <1>4, <1>5

\* Integers add up to an integer.
LEMMA SumInt ==
  ASSUME NEW S, IsFiniteSet(S), NEW f, \A x \in S : f[x] \in Int
  PROVE  SumFunctionOnSet(f, S) \in Int
<1> DEFINE Good == {t \in SUBSET S : SumFunctionOnSet(f, t) \in Int}
<1>1. {} \in Good
  BY SumEmpty
<1>2. ASSUME NEW t \in SUBSET S, t # {}, \A x \in t : t \ {x} \in Good PROVE t \in Good
  <2>1. IsFiniteSet(t)
    BY FS_Subset
  <2>2. /\ Pick(t) \in t
        /\ SumFunctionOnSet(f, t) = f[Pick(t)] + SumFunctionOnSet(f, t \ {Pick(t)})
    BY <1>2, <2>1, SumPick
  <2>3. QED
    BY <1>2, <2>2
<1>3. SUBSET S \subseteq Good
  <2> HIDE DEF Good
  <2> QED BY <1>1, <1>2, SubsetInduction
<1>4. QED
  BY <1>3

\* Amounts add up to an amount.
LEMMA SumNat ==
  ASSUME NEW S, IsFiniteSet(S), NEW f, \A x \in S : f[x] \in Nat
  PROVE  SumFunctionOnSet(f, S) \in Nat
<1> DEFINE Good == {t \in SUBSET S : SumFunctionOnSet(f, t) \in Nat}
<1>1. {} \in Good
  BY SumEmpty
<1>2. ASSUME NEW t \in SUBSET S, t # {}, \A x \in t : t \ {x} \in Good PROVE t \in Good
  <2>1. IsFiniteSet(t)
    BY FS_Subset
  <2>2. /\ Pick(t) \in t
        /\ SumFunctionOnSet(f, t) = f[Pick(t)] + SumFunctionOnSet(f, t \ {Pick(t)})
    BY <1>2, <2>1, SumPick
  <2>3. QED
    BY <1>2, <2>2
<1>3. SUBSET S \subseteq Good
  <2> HIDE DEF Good
  <2> QED BY <1>1, <1>2, SubsetInduction
<1>4. QED
  BY <1>3

\* A sum reads its function on the index set only.
LEMMA SumSame ==
  ASSUME NEW S, IsFiniteSet(S), NEW f, NEW g, \A x \in S : f[x] = g[x]
  PROVE  SumFunctionOnSet(f, S) = SumFunctionOnSet(g, S)
<1> DEFINE Good == {t \in SUBSET S : SumFunctionOnSet(f, t) = SumFunctionOnSet(g, t)}
<1>1. {} \in Good
  BY SumEmpty
<1>2. ASSUME NEW t \in SUBSET S, t # {}, \A x \in t : t \ {x} \in Good PROVE t \in Good
  <2>1. IsFiniteSet(t)
    BY FS_Subset
  <2>2. /\ Pick(t) \in t
        /\ SumFunctionOnSet(f, t) = f[Pick(t)] + SumFunctionOnSet(f, t \ {Pick(t)})
        /\ SumFunctionOnSet(g, t) = g[Pick(t)] + SumFunctionOnSet(g, t \ {Pick(t)})
    BY <1>2, <2>1, SumPick
  <2>3. QED
    BY <1>2, <2>2
<1>3. SUBSET S \subseteq Good
  <2> HIDE DEF Good
  <2> QED BY <1>1, <1>2, SubsetInduction
<1>4. QED
  BY <1>3

\* The order is moot: any element may be taken out first.
LEMMA SumRemove ==
  ASSUME NEW S, IsFiniteSet(S), NEW f, \A y \in S : f[y] \in Int, NEW x \in S
  PROVE  SumFunctionOnSet(f, S) = f[x] + SumFunctionOnSet(f, S \ {x})
<1> DEFINE V(t) == SumFunctionOnSet(f, t)
           Good == {t \in SUBSET S : \A y \in t : V(t) = f[y] + V(t \ {y})}
<1>1. {} \in Good
  OBVIOUS
<1>2. ASSUME NEW t \in SUBSET S, t # {}, \A y \in t : t \ {y} \in Good PROVE t \in Good
  <2> SUFFICES ASSUME NEW y \in t PROVE V(t) = f[y] + V(t \ {y})
    OBVIOUS
  <2> DEFINE p == Pick(t)
  <2>1. IsFiniteSet(t)
    BY FS_Subset
  <2>2. p \in t /\ V(t) = f[p] + V(t \ {p})
    BY <1>2, <2>1, SumPick
  <2>3. CASE p = y
    BY <2>2, <2>3
  <2>4. CASE p # y
    <3> DEFINE rest == (t \ {y}) \ {p}
    <3>1. V(t \ {p}) = f[y] + V(rest) /\ V(t \ {y}) = f[p] + V(rest)
      <4>1. t \ {p} \in Good /\ t \ {y} \in Good /\ (t \ {p}) \ {y} = rest
        BY <1>2, <2>2
      <4>2. QED
        BY <2>2, <2>4, <4>1
    <3>2. V(rest) \in Int /\ f[p] \in Int /\ f[y] \in Int
      BY <2>1, <2>2, FS_Subset, SumInt
    <3>3. QED
      <4> HIDE DEF V, rest
      <4> QED BY <2>2, <3>1, <3>2
  <2>5. QED
    BY <2>3, <2>4
<1>3. SUBSET S \subseteq Good
  <2> HIDE DEF Good
  <2> QED BY <1>1, <1>2, SubsetInduction
<1>4. QED
  BY <1>3

\* One more element.
LEMMA SumAdd ==
  ASSUME NEW S, IsFiniteSet(S), NEW f, NEW x, x \notin S, \A y \in S \cup {x} : f[y] \in Int
  PROVE  SumFunctionOnSet(f, S \cup {x}) = f[x] + SumFunctionOnSet(f, S)
<1>1. IsFiniteSet(S \cup {x}) /\ (S \cup {x}) \ {x} = S
  BY FS_AddElement
<1>2. QED
  BY <1>1, SumRemove

\* The sum over two sets without a common element.
LEMMA SumDisjoint ==
  ASSUME NEW S, IsFiniteSet(S), NEW T, IsFiniteSet(T), S \cap T = {},
         NEW f, \A x \in S \cup T : f[x] \in Int
  PROVE  SumFunctionOnSet(f, S \cup T) = SumFunctionOnSet(f, S) + SumFunctionOnSet(f, T)
<1> DEFINE V(u) == SumFunctionOnSet(f, u)
           Good == {u \in SUBSET S : V(u \cup T) = V(u) + V(T)}
<1>1. {} \in Good
  <2>1. V({}) = 0 /\ V(T) \in Int /\ {} \cup T = T
    BY SumEmpty, SumInt
  <2>2. QED
    BY <2>1
<1>2. ASSUME NEW u \in SUBSET S, u # {}, \A x \in u : u \ {x} \in Good PROVE u \in Good
  <2>1. PICK x : x \in u
    BY <1>2
  <2> DEFINE r == u \ {x}
  <2>2. /\ IsFiniteSet(r) /\ IsFiniteSet(r \cup T)
        /\ x \notin r \cup T /\ u \cup T = (r \cup T) \cup {x} /\ u = r \cup {x}
    BY <2>1, FS_Subset, FS_Union
  <2>3. \A y \in (r \cup T) \cup {x} : f[y] \in Int
    BY <2>1
  <2>4. V(u \cup T) = f[x] + V(r \cup T) /\ V(u) = f[x] + V(r)
    BY <2>2, <2>3, SumAdd
  <2>5. V(r) \in Int /\ V(T) \in Int /\ f[x] \in Int
    BY <2>2, <2>3, SumInt
  <2>6. V(r \cup T) = V(r) + V(T)
    BY <1>2, <2>1
  <2>7. QED
    <3>1. V(u \cup T) = V(u) + V(T)
      <4> HIDE DEF V, r
      <4> QED BY <2>4, <2>5, <2>6
    <3>2. QED
      BY <3>1
<1>3. SUBSET S \subseteq Good
  <2> HIDE DEF Good
  <2> QED BY <1>1, <1>2, SubsetInduction
<1>4. QED
  BY <1>3

\* Counting two sets without a common element.
LEMMA CountDisjoint ==
  ASSUME NEW S, IsFiniteSet(S), NEW T, IsFiniteSet(T), S \cap T = {}
  PROVE  Cardinality(S \cup T) = Cardinality(S) + Cardinality(T)
<1>1. Cardinality(S) \in Nat /\ Cardinality(T) \in Nat /\ Cardinality(S \cap T) = 0
  BY FS_CardinalityType, FS_EmptySet
<1>2. Cardinality(S \cup T) = Cardinality(S) + Cardinality(T) - Cardinality(S \cap T)
  BY FS_Union
<1>3. QED
  BY <1>1, <1>2

\* What is left when a part is taken out.
LEMMA SumWithout ==
  ASSUME NEW S, IsFiniteSet(S), NEW T \in SUBSET S, NEW f, \A x \in S : f[x] \in Int
  PROVE  /\ SumFunctionOnSet(f, S \ T) = SumFunctionOnSet(f, S) - SumFunctionOnSet(f, T)
         /\ SumFunctionOnSet(f, S \ T) \in Int
         /\ SumFunctionOnSet(f, T) \in Int
<1> DEFINE V(u) == SumFunctionOnSet(f, u)
           r == S \ T
<1>1. IsFiniteSet(r) /\ IsFiniteSet(T) /\ r \cap T = {} /\ r \cup T = S
  BY FS_Subset
<1>2. \A x \in r \cup T : f[x] \in Int
  BY <1>1
<1>3. V(r) \in Int /\ V(T) \in Int
  BY <1>1, <1>2, SumInt
<1>4. V(r \cup T) = V(r) + V(T)
  <2> HIDE DEF r
  <2> QED BY <1>1, <1>2, SumDisjoint
<1>5. V(S) = V(r) + V(T)
  BY <1>1, <1>4
<1>6. V(r) = V(S) - V(T)
  <2> HIDE DEF V, r
  <2> QED BY <1>3, <1>5
<1>7. QED
  BY <1>3, <1>6

\* The sum of differences.
LEMMA SumMinus ==
  ASSUME NEW S, IsFiniteSet(S), NEW f, NEW g, NEW h,
         \A x \in S : f[x] \in Int /\ g[x] \in Int /\ h[x] = f[x] - g[x]
  PROVE  SumFunctionOnSet(h, S) = SumFunctionOnSet(f, S) - SumFunctionOnSet(g, S)
<1> DEFINE F(t) == SumFunctionOnSet(f, t)
           G(t) == SumFunctionOnSet(g, t)
           H(t) == SumFunctionOnSet(h, t)
           Good == {t \in SUBSET S : H(t) = F(t) - G(t)}
<1>1. {} \in Good
  <2>1. F({}) = 0 /\ G({}) = 0 /\ H({}) = 0
    BY SumEmpty
  <2>2. QED
    BY <2>1
<1>2. ASSUME NEW t \in SUBSET S, t # {}, \A x \in t : t \ {x} \in Good PROVE t \in Good
  <2>1. PICK x : x \in t
    BY <1>2
  <2> DEFINE r == t \ {x}
  <2>2. IsFiniteSet(t) /\ IsFiniteSet(r) /\ \A y \in t : f[y] \in Int /\ g[y] \in Int /\ h[y] \in Int
    BY FS_Subset
  <2>3. F(t) = f[x] + F(r) /\ G(t) = g[x] + G(r) /\ H(t) = h[x] + H(r)
    BY <2>1, <2>2, SumRemove
  <2>4. F(r) \in Int /\ G(r) \in Int /\ f[x] \in Int /\ g[x] \in Int /\ h[x] = f[x] - g[x]
    BY <2>1, <2>2, SumInt
  <2>5. H(r) = F(r) - G(r)
    BY <1>2, <2>1
  <2>6. H(t) = F(t) - G(t)
    <3> HIDE DEF F, G, H, r
    <3> QED BY <2>3, <2>4, <2>5
  <2>7. QED
    BY <2>6
<1>3. SUBSET S \subseteq Good
  <2> HIDE DEF Good
  <2> QED BY <1>1, <1>2, SubsetInduction
<1>4. QED
  BY <1>3

\* The sum over disjoint parts, part by part.
LEMMA SumParts ==
  ASSUME NEW I, IsFiniteSet(I), NEW S, IsFiniteSet(S),
         NEW part, \A i \in I : part[i] \subseteq S,
         \A i, j \in I : i # j => part[i] \cap part[j] = {},
         NEW f, \A x \in S : f[x] \in Int,
         NEW g, \A i \in I : g[i] = SumFunctionOnSet(f, part[i])
  PROVE  SumFunctionOnSet(f, UNION {part[i] : i \in I}) = SumFunctionOnSet(g, I)
<1> DEFINE All(J) == UNION {part[i] : i \in J}
           V(u) == SumFunctionOnSet(f, u)
           G(J) == SumFunctionOnSet(g, J)
           Good == {J \in SUBSET I : V(All(J)) = G(J)}
<1>0. \A i \in I : g[i] \in Int
  <2> SUFFICES ASSUME NEW i \in I PROVE SumFunctionOnSet(f, part[i]) \in Int
    OBVIOUS
  <2>1. IsFiniteSet(part[i]) /\ \A x \in part[i] : f[x] \in Int
    BY FS_Subset
  <2>2. QED
    BY <2>1, SumInt
<1>1. {} \in Good
  <2>1. All({}) = {}
    OBVIOUS
  <2>2. QED
    BY <2>1, SumEmpty
<1>2. ASSUME NEW J \in SUBSET I, J # {}, \A i \in J : J \ {i} \in Good PROVE J \in Good
  <2>1. PICK i : i \in J
    BY <1>2
  <2> DEFINE r == J \ {i}
  <2>2. IsFiniteSet(J) /\ IsFiniteSet(r) /\ \A j \in J : g[j] \in Int
    BY <1>0, FS_Subset
  <2>3. G(J) = g[i] + G(r)
    BY <2>1, <2>2, SumRemove
  <2>4. /\ All(J) = part[i] \cup All(r)
        /\ part[i] \cap All(r) = {}
        /\ part[i] \subseteq S /\ All(r) \subseteq S
    BY <2>1
  <2>5. IsFiniteSet(part[i]) /\ IsFiniteSet(All(r))
    BY <2>4, FS_Subset
  <2>6. V(part[i] \cup All(r)) = V(part[i]) + V(All(r))
    <3>1. \A x \in part[i] \cup All(r) : f[x] \in Int
      BY <2>4
    <3> HIDE DEF All, r
    <3>2. QED
      BY <2>4, <2>5, <3>1, SumDisjoint
  <2>7. V(All(r)) = G(r)
    BY <1>2, <2>1
  <2>8. V(part[i]) = g[i]
    BY <2>1
  <2>9. V(All(J)) = G(J)
    BY <2>3, <2>4, <2>6, <2>7, <2>8
  <2>10. QED
    BY <2>9
<1>3. SUBSET I \subseteq Good
  <2> HIDE DEF Good
  <2> QED BY <1>1, <1>2, SubsetInduction
<1>4. QED
  BY <1>3

\* The same amount for every element.
LEMMA SumConstant ==
  ASSUME NEW S, IsFiniteSet(S), NEW c \in Int, NEW f, \A x \in S : f[x] = c
  PROVE  SumFunctionOnSet(f, S) = c * Cardinality(S)
<1> DEFINE V(t) == SumFunctionOnSet(f, t)
           Good == {t \in SUBSET S : V(t) = c * Cardinality(t)}
<1>1. {} \in Good
  BY SumEmpty, FS_EmptySet
<1>2. ASSUME NEW t \in SUBSET S, t # {}, \A x \in t : t \ {x} \in Good PROVE t \in Good
  <2>1. PICK x : x \in t
    BY <1>2
  <2> DEFINE r == t \ {x}
             n == Cardinality(r)
  <2>2. IsFiniteSet(t) /\ IsFiniteSet(r) /\ \A y \in t : f[y] \in Int
    BY FS_Subset
  <2>3. V(t) = c + V(r)
    BY <2>1, <2>2, SumRemove
  <2>4. n \in Nat /\ Cardinality(t) = n + 1
    <3>1. r \cup {x} = t /\ x \notin r
      BY <2>1
    <3>2. QED
      BY <2>2, <3>1, FS_AddElement, FS_CardinalityType
  <2>5. V(r) = c * n
    BY <1>2, <2>1
  <2>6. V(t) = c * (n + 1)
    <3> HIDE DEF n, V, r
    <3> QED BY <2>3, <2>4, <2>5
  <2>7. QED
    BY <2>4, <2>6
<1>3. SUBSET S \subseteq Good
  <2> HIDE DEF Good
  <2> QED BY <1>1, <1>2, SubsetInduction
<1>4. QED
  BY <1>3

LEMMA SumZero ==
  ASSUME NEW S, IsFiniteSet(S), NEW f, \A x \in S : f[x] = 0
  PROVE  SumFunctionOnSet(f, S) = 0
<1>1. PICK c \in Int : c = 0
  OBVIOUS
<1>2. SumFunctionOnSet(f, S) = c * Cardinality(S)
  BY <1>1, SumConstant
<1>3. Cardinality(S) \in Nat
  BY FS_CardinalityType
<1>4. QED
  BY <1>1, <1>2, <1>3

-----------------------------------------------------------------------------
\* Values a function takes on a finite set.
LEMMA FiniteImage ==
  ASSUME NEW S, IsFiniteSet(S), NEW f, NEW T, \A y \in T : \E x \in S : y = f[x]
  PROVE  IsFiniteSet(T)
<1> DEFINE all == {f[x] : x \in S}
           g == [x \in S |-> f[x]]
<1>1. g \in Surjection(S, all)
  BY DEF Surjection
<1>2. IsFiniteSet(all) /\ T \in SUBSET all
  BY <1>1, FS_Surjection
<1>3. QED
  BY <1>2, FS_Subset

\* A non-empty finite set of integers has a smallest and a largest element.
LEMMA FiniteHasEnds ==
  ASSUME NEW S, IsFiniteSet(S), S \subseteq Int, S # {}
  PROVE  /\ \E x \in S : \A y \in S : x <= y
         /\ \E x \in S : \A y \in S : x >= y
<1> DEFINE Ends(t) == /\ \E x \in t : \A y \in t : x <= y
                      /\ \E x \in t : \A y \in t : x >= y
           Good == {t \in SUBSET S : t # {} => Ends(t)}
<1>1. {} \in Good
  OBVIOUS
<1>2. ASSUME NEW t \in SUBSET S, t # {}, \A x \in t : t \ {x} \in Good PROVE t \in Good
  <2>1. PICK z : z \in t
    BY <1>2
  <2> DEFINE r == t \ {z}
  <2>2. CASE r = {}
    <3>1. Ends(t)
      BY <2>1, <2>2
    <3>2. QED
      BY <3>1
  <2>3. CASE r # {}
    <3>1. r \in Good
      BY <1>2, <2>1
    <3>2. PICK lo \in r : \A y \in r : lo <= y
      BY <2>3, <3>1
    <3>3. PICK hi \in r : \A y \in r : hi >= y
      BY <2>3, <3>1
    <3>4. \E x \in t : \A y \in t : x <= y
      BY <2>1, <3>2
    <3>5. \E x \in t : \A y \in t : x >= y
      BY <2>1, <3>3
    <3>6. QED
      BY <3>4, <3>5
  <2>4. QED
    BY <2>2, <2>3
<1>3. SUBSET S \subseteq Good
  <2> HIDE DEF Good
  <2> QED BY <1>1, <1>2, SubsetInduction
<1>4. QED
  BY <1>3

-----------------------------------------------------------------------------
(* Finite sets in order                                                    *)

\* R orders S strictly and totally.
Orders(R, S) ==
  /\ \A x \in S : <<x, x>> \notin R
  /\ \A x, y \in S : x = y \/ <<x, y>> \in R \/ <<y, x>> \in R
  /\ \A x, y, z \in S : <<x, y>> \in R /\ <<y, z>> \in R => <<x, z>> \in R

\* The elements of S in front of x, and how many.
InFront(x, R, S) == {y \in S : <<y, x>> \in R}
Rank(x, R, S) == Cardinality(InFront(x, R, S))

\* A finite set has one element of every rank.
LEMMA Ranks ==
  ASSUME NEW S, IsFiniteSet(S), NEW R, Orders(R, S)
  PROVE  /\ \A x \in S : Rank(x, R, S) \in 0..(Cardinality(S) - 1)
         /\ \A x, y \in S : <<x, y>> \in R <=> Rank(x, R, S) < Rank(y, R, S)
         /\ \A n \in 0..(Cardinality(S) - 1) : \E x \in S : Rank(x, R, S) = n
<1> DEFINE top == Cardinality(S)
<1>1. top \in Nat
  BY FS_CardinalityType
<1>2. ASSUME NEW x \in S
      PROVE  Rank(x, R, S) \in 0..(top - 1)
  <2>1. InFront(x, R, S) \in SUBSET S /\ InFront(x, R, S) # S
    BY DEF InFront, Orders
  <2>2. Rank(x, R, S) \in Nat /\ Rank(x, R, S) <= top /\ Rank(x, R, S) # top
    BY <2>1, FS_Subset, FS_CardinalityType DEF Rank
  <2>3. QED
    BY <1>1, <2>2
<1>3. ASSUME NEW x \in S, NEW y \in S, <<x, y>> \in R
      PROVE  Rank(x, R, S) < Rank(y, R, S)
  <2>1. InFront(x, R, S) \in SUBSET InFront(y, R, S) /\ InFront(x, R, S) # InFront(y, R, S)
    BY <1>3 DEF InFront, Orders
  <2>2. IsFiniteSet(InFront(y, R, S))
    BY FS_Subset DEF InFront
  <2>3. Rank(x, R, S) <= Rank(y, R, S) /\ Rank(x, R, S) # Rank(y, R, S)
    BY <2>1, <2>2, FS_Subset DEF Rank
  <2>4. QED
    BY <1>2, <2>3
<1>4. ASSUME NEW x \in S, NEW y \in S
      PROVE  <<x, y>> \in R <=> Rank(x, R, S) < Rank(y, R, S)
  <2>1. x = y \/ <<x, y>> \in R \/ <<y, x>> \in R
    BY DEF Orders
  <2>2. Rank(x, R, S) \in Int /\ Rank(y, R, S) \in Int
    BY <1>2
  <2>3. <<x, x>> \notin R
    BY DEF Orders
  <2>4. QED
    BY <1>3, <2>1, <2>2, <2>3
<1> DEFINE rank == [x \in S |-> Rank(x, R, S)]
<1>5. rank \in Injection(S, 0..(top - 1))
  <2>1. rank \in [S -> 0..(top - 1)]
    BY <1>2
  <2>2. ASSUME NEW x \in S, NEW y \in S, rank[x] = rank[y] PROVE x = y
    <3>1. rank[x] = Rank(x, R, S) /\ rank[y] = Rank(y, R, S)
      OBVIOUS
    <3>2. ~ (Rank(x, R, S) < Rank(y, R, S)) /\ ~ (Rank(y, R, S) < Rank(x, R, S))
      BY <1>2, <2>2, <3>1
    <3>3. QED
      BY <1>4, <3>2 DEF Orders
  <2> HIDE DEF rank
  <2>3. QED
    BY <2>1, <2>2 DEF Injection, IsInjective
<1>6. IsFiniteSet(0..(top - 1)) /\ Cardinality(0..(top - 1)) = top
  BY <1>1, FS_Interval
<1>7. rank \in Surjection(S, 0..(top - 1))
  <2> HIDE DEF rank
  <2> QED BY <1>5, <1>6, FS_Injection
<1>8. ASSUME NEW n \in 0..(top - 1) PROVE \E x \in S : Rank(x, R, S) = n
  BY <1>7 DEF Surjection
<1>9. QED
  BY <1>2, <1>4, <1>8

\* list is S in the order R.
Lists(list, R, S) ==
  /\ list \in Seq(S) /\ Len(list) = Cardinality(S)
  /\ \A i \in 1..Len(list) : Rank(list[i], R, S) = i - 1
  /\ \A i, j \in 1..Len(list) : <<list[i], list[j]>> \in R <=> i < j
  /\ \A x \in S : \E i \in 1..Len(list) : list[i] = x

LEMMA OrderLists ==
  ASSUME NEW S, IsFiniteSet(S), NEW R, Orders(R, S),
         NEW list, list = [i \in 1..Cardinality(S) |-> list[i]],
         \A i \in 1..Cardinality(S) :
            (\E x \in S : Rank(x, R, S) = i - 1) => list[i] \in S /\ Rank(list[i], R, S) = i - 1
  PROVE  Lists(list, R, S)
<1>1. Cardinality(S) \in Nat
  BY FS_CardinalityType
<1>2. ASSUME NEW i \in 1..Cardinality(S)
      PROVE  list[i] \in S /\ Rank(list[i], R, S) = i - 1
  <2>1. i - 1 \in 0..(Cardinality(S) - 1)
    BY <1>1
  <2>2. \E x \in S : Rank(x, R, S) = i - 1
    BY <2>1, Ranks
  <2>3. QED
    BY <2>2
<1>3. list \in Seq(S) /\ Len(list) = Cardinality(S)
  BY <1>1, <1>2
<1>4. ASSUME NEW i \in 1..Cardinality(S), NEW j \in 1..Cardinality(S)
      PROVE  <<list[i], list[j]>> \in R <=> i < j
  <2>1. <<list[i], list[j]>> \in R <=> Rank(list[i], R, S) < Rank(list[j], R, S)
    BY <1>2, Ranks
  <2>2. QED
    BY <1>2, <2>1
<1>5. ASSUME NEW x \in S PROVE \E i \in 1..Cardinality(S) : list[i] = x
  <2>1. Rank(x, R, S) \in 0..(Cardinality(S) - 1)
    BY Ranks
  <2>2. PICK i \in 1..Cardinality(S) : i - 1 = Rank(x, R, S)
    <3> DEFINE i == Rank(x, R, S) + 1
    <3>1. i \in 1..Cardinality(S) /\ i - 1 = Rank(x, R, S)
      BY <1>1, <2>1
    <3>2. QED
      BY <3>1
  <2>3. list[i] \in S /\ Rank(list[i], R, S) = Rank(x, R, S)
    BY <1>2, <2>2
  <2>4. /\ ~ (Rank(list[i], R, S) < Rank(x, R, S))
        /\ ~ (Rank(x, R, S) < Rank(list[i], R, S))
    BY <2>1, <2>3
  <2>5. <<list[i], x>> \notin R /\ <<x, list[i]>> \notin R
    BY <2>3, <2>4, Ranks
  <2>6. QED
    BY <2>3, <2>5 DEF Orders
<1>6. QED
  BY <1>2, <1>3, <1>4, <1>5 DEF Lists

\* What comes behind the n-th element, in order, is the rest of the list.
LEMMA ListTail ==
  ASSUME NEW S, IsFiniteSet(S), NEW R, Orders(R, S), NEW list, Lists(list, R, S),
         NEW n \in 1..Len(list), NEW T,
         \A x : x \in T <=> x \in S /\ <<list[n], x>> \in R, NEW tail, Lists(tail, R, T)
  PROVE  /\ Len(list) = n + Len(tail)
         /\ \A i \in 1..Len(tail) : tail[i] = list[n + i]
<1> DEFINE cut == list[n]
           upto == InFront(cut, R, S) \cup {cut}
<1>1. cut \in S /\ Rank(cut, R, S) = n - 1 /\ Len(list) \in Nat /\ Len(list) = Cardinality(S)
  BY DEF Lists
<1> HIDE DEF cut
<1>2. IsFiniteSet(upto) /\ Cardinality(upto) = n
  <2>1. IsFiniteSet(InFront(cut, R, S)) /\ cut \notin InFront(cut, R, S)
    BY <1>1, FS_Subset DEF InFront, Orders
  <2>2. Cardinality(upto) = Rank(cut, R, S) + 1
    BY <2>1, FS_AddElement DEF Rank
  <2>3. QED
    BY <1>1, <2>1, <2>2, FS_AddElement
<1>3. \A x : x \in T <=> x \in S /\ <<cut, x>> \in R
  BY DEF cut
<1>4. T \in SUBSET S /\ upto \in SUBSET S /\ S = upto \cup T /\ upto \cap T = {}
  <2>1. T \in SUBSET S /\ upto \in SUBSET S
    BY <1>1, <1>3 DEF InFront
  <2>2. \A x \in S : x \in upto <=> x \notin T
    BY <1>1, <1>3 DEF InFront, Orders
  <2> HIDE DEF upto
  <2>3. QED
    BY <2>1, <2>2
<1>5. IsFiniteSet(T) /\ Orders(R, T)
  BY <1>4, FS_Subset DEF Orders
<1>6. Cardinality(S) = n + Cardinality(T)
  <2> HIDE DEF upto
  <2> QED BY <1>2, <1>4, <1>5, CountDisjoint
<1>7. ASSUME NEW x \in T PROVE Rank(x, R, S) = n + Rank(x, R, T)
  <2>1. InFront(x, R, S) = upto \cup InFront(x, R, T) /\ upto \cap InFront(x, R, T) = {}
    <3>1. x \in S /\ <<cut, x>> \in R
      BY <1>3
    <3>2. \A y \in upto : <<y, x>> \in R
      BY <1>1, <3>1 DEF InFront, Orders
    <3> HIDE DEF upto
    <3>3. QED
      BY <1>4, <3>2 DEF InFront
  <2>2. IsFiniteSet(InFront(x, R, T))
    BY <1>5, FS_Subset DEF InFront
  <2> HIDE DEF upto
  <2>3. QED
    BY <1>2, <2>1, <2>2, CountDisjoint DEF Rank
<1>8. Len(list) = n + Len(tail) /\ Len(tail) \in Nat
  BY <1>1, <1>6 DEF Lists
<1>9. ASSUME NEW i \in 1..Len(tail) PROVE tail[i] = list[n + i]
  <2>1. tail[i] \in T /\ Rank(tail[i], R, T) = i - 1
    <3>1. tail \in Seq(T)
      BY DEF Lists
    <3>2. tail[i] \in T
      BY <3>1
    <3>3. \A j \in 1..Len(tail) : Rank(tail[j], R, T) = j - 1
      BY DEF Lists
    <3>4. QED
      BY <3>2, <3>3
  <2>2. Rank(tail[i], R, S) = n + (i - 1)
    BY <1>7, <2>1
  <2>3. n + i \in 1..Len(list)
    BY <1>8
  <2>4. list[n + i] \in S /\ Rank(list[n + i], R, S) = (n + i) - 1
    BY <2>3 DEF Lists
  <2>5. tail[i] \in S
    BY <1>4, <2>1
  <2>6. /\ ~ (Rank(list[n + i], R, S) < Rank(tail[i], R, S))
        /\ ~ (Rank(tail[i], R, S) < Rank(list[n + i], R, S))
    BY <2>2, <2>4
  <2>7. <<list[n + i], tail[i]>> \notin R /\ <<tail[i], list[n + i]>> \notin R
    BY <2>4, <2>5, <2>6, Ranks
  <2>8. QED
    BY <2>4, <2>5, <2>7 DEF Orders
<1>10. QED
  BY <1>8, <1>9

\* Descending by two keys that together tell the elements apart.
LEMMA TwoKeysOrder ==
  ASSUME NEW S, NEW k, NEW l, \A x \in S : k[x] \in Int /\ l[x] \in Int,
         \A x, y \in S : k[x] = k[y] /\ l[x] = l[y] => x = y,
         NEW R, \A x, y \in S : <<x, y>> \in R <=> k[x] > k[y] \/ (k[x] = k[y] /\ l[x] > l[y])
  PROVE  Orders(R, S)
<1>1. ASSUME NEW x \in S PROVE <<x, x>> \notin R
  OBVIOUS
<1>2. ASSUME NEW x \in S, NEW y \in S PROVE x = y \/ <<x, y>> \in R \/ <<y, x>> \in R
  OBVIOUS
<1>3. ASSUME NEW x \in S, NEW y \in S, NEW z \in S, <<x, y>> \in R, <<y, z>> \in R
      PROVE  <<x, z>> \in R
  <2>1. /\ k[x] > k[y] \/ (k[x] = k[y] /\ l[x] > l[y])
        /\ k[y] > k[z] \/ (k[y] = k[z] /\ l[y] > l[z])
    BY <1>3
  <2>2. k[x] > k[z] \/ (k[x] = k[z] /\ l[x] > l[z])
    BY <2>1
  <2>3. QED
    BY <2>2
<1>4. QED
  BY <1>1, <1>2, <1>3 DEF Orders
=============================================================================
