---------------------------- MODULE DecoderProofs ----------------------------
(***************************************************************************)
(* The classifier, which reads bytes, sees in every script what Core's     *)
(* Solver sees in its elements, but for OP_RESERVED behind OP_RETURN, and  *)
(* an amount reads back from its text.  Whatever callers decode at the     *)
(* same time, whoever filled the cache, whatever failed before, a          *)
(* transaction that is decoded in full is what decoding its answer alone   *)
(* would have made of it.  Together: the checks refuse no answer of Core,  *)
(* what Damaged does to an answer never makes it pass for another item,    *)
(* and every owner is one Core derives.                                    *)
(***************************************************************************)
EXTENDS Decoder, BasicProofs, SequenceTheorems

-----------------------------------------------------------------------------
(* Lists of lists                                                          *)

\* g[i] is the first i lists of s, one after the other.
Flat(g, s, n) == g = [i \in 1..n |-> IF i = 1 THEN s[i] ELSE g[i - 1] \o s[i]]

LEMMA FlatExists ==
  ASSUME NEW s
  PROVE  \A n \in Nat : \E g : Flat(g, s, n)
<1> DEFINE Bad == {m \in Nat : ~ \E g : Flat(g, s, m)}
<1> SUFFICES ASSUME Bad # {} PROVE FALSE
  OBVIOUS
<1>1. PICK n \in Bad : \A m \in Bad : n <= m
  <2>1. Bad \subseteq Nat
    OBVIOUS
  <2> HIDE DEF Bad
  <2>2. QED
    BY <2>1, Least
<1>2. n \in Nat /\ ~ \E g : Flat(g, s, n)
  OBVIOUS
<1>3. CASE n = 0
  <2> DEFINE h == [i \in 1..0 |-> 0]
  <2>1. h = [i \in 1..0 |-> IF i = 1 THEN s[i] ELSE h[i - 1] \o s[i]]
    OBVIOUS
  <2>2. Flat(h, s, 0)
    BY <2>1 DEF Flat
  <2>3. QED
    BY <1>2, <1>3, <2>2
<1>4. CASE n # 0
  <2>1. n - 1 \in Nat /\ n - 1 \notin Bad
    BY <1>1, <1>2, <1>4
  <2>2. PICK g : Flat(g, s, n - 1)
    BY <2>1
  <2> DEFINE last == IF n = 1 THEN s[n] ELSE g[n - 1] \o s[n]
             h == [i \in 1..n |-> IF i = n THEN last ELSE g[i]]
  <2>3. ASSUME NEW i \in 1..n PROVE h[i] = IF i = 1 THEN s[i] ELSE h[i - 1] \o s[i]
    <3>1. CASE i = n
      <4>1. i # 1 => i - 1 \in 1..n /\ i - 1 # n
        BY <1>2
      <4>2. QED
        BY <3>1, <4>1
    <3>2. CASE i # n
      <4>1. i \in 1..(n - 1) /\ (i # 1 => i - 1 \in 1..n /\ i - 1 # n)
        BY <1>2, <3>2
      <4>2. g[i] = IF i = 1 THEN s[i] ELSE g[i - 1] \o s[i]
        BY <2>2, <4>1 DEF Flat
      <4>3. QED
        BY <3>2, <4>1, <4>2
    <3>3. QED
      BY <3>1, <3>2
  <2>4. Flat(h, s, n)
    <3>1. h = [i \in 1..n |-> h[i]]
      OBVIOUS
    <3> HIDE DEF h
    <3>2. QED
      BY <2>3, <3>1 DEF Flat
  <2>5. QED
    BY <1>2, <2>4
<1>5. QED
  BY <1>3, <1>4

\* FlattenSeq of lists over a set is a list over it and loses nothing.
LEMMA FlattenKeeps ==
  ASSUME NEW S, NEW s \in Seq(Seq(S))
  PROVE  /\ FlattenSeq(s) \in Seq(S)
         /\ \A i \in DOMAIN s : \A k \in DOMAIN s[i] :
              \E j \in DOMAIN FlattenSeq(s) : FlattenSeq(s)[j] = s[i][k]
<1>1. CASE Len(s) = 0
  BY <1>1 DEF FlattenSeq
<1>2. CASE Len(s) # 0
  <2> DEFINE n == Len(s)
             g == CHOOSE g : Flat(g, s, n)
  <2>1. n \in Nat \ {0} /\ DOMAIN s = 1..n /\ \A i \in 1..n : s[i] \in Seq(S)
    BY <1>2
  <2>2. Flat(g, s, n)
    BY <2>1, FlatExists
  <2>3. FlattenSeq(s) = g[n]
    BY <1>2 DEF FlattenSeq, Flat
  <2> HIDE DEF g, n
  <2>4. /\ g[1] = s[1]
        /\ \A i \in 2..n : i - 1 \in 1..n /\ g[i] = g[i - 1] \o s[i]
    <3>1. ASSUME NEW i \in 1..n PROVE g[i] = IF i = 1 THEN s[i] ELSE g[i - 1] \o s[i]
      BY <2>2 DEF Flat
    <3>2. 1 \in 1..n /\ \A i \in 2..n : i \in 1..n /\ i # 1 /\ i - 1 \in 1..n
      BY <2>1
    <3>3. QED
      BY <3>1, <3>2
  <2> DEFINE Holds(i) == /\ g[i] \in Seq(S)
                         /\ \A h \in 1..i : \A k \in DOMAIN s[h] :
                              \E j \in DOMAIN g[i] : g[i][j] = s[h][k]
             Bad == {i \in 1..n : ~Holds(i)}
  <2>5. ASSUME NEW i \in Bad, \A h \in Bad : i <= h PROVE FALSE
    <3>1. i \in 1..n /\ ~Holds(i)
      OBVIOUS
    <3>2. CASE i = 1
      <4>1. \A h \in 1..i : h = 1
        BY <3>2
      <4>2. Holds(i)
        BY <2>1, <2>4, <3>2, <4>1
      <4>3. QED
        BY <3>1, <4>2
    <3>3. CASE i # 1
      <4>1. i \in 2..n /\ i - 1 \in 1..n /\ i - 1 \notin Bad
        <5> HIDE DEF Bad
        <5>1. QED
          BY <2>1, <2>5, <3>1, <3>3
      <4>2. Holds(i - 1)
        <5> HIDE DEF Holds
        <5>1. QED
          BY <4>1
      <4> DEFINE a == g[i - 1]
                 b == s[i]
                 r == g[i]
      <4>3. a \in Seq(S) /\ b \in Seq(S) /\ r = a \o b
        BY <2>1, <2>4, <4>1, <4>2
      <4>4. \A h \in 1..(i - 1) : \A k \in DOMAIN s[h] : \E j \in DOMAIN a : a[j] = s[h][k]
        BY <4>2
      <4> HIDE DEF a, b, r
      <4>5. /\ r \in Seq(S)
            /\ \A j \in DOMAIN a : j \in DOMAIN r /\ r[j] = a[j]
            /\ \A k \in DOMAIN b : Len(a) + k \in DOMAIN r /\ r[Len(a) + k] = b[k]
        <5>1. r \in Seq(S) /\ Len(r) = Len(a) + Len(b) /\ Len(a) \in Nat /\ Len(b) \in Nat
          BY <4>3
        <5>2. DOMAIN a = 1..Len(a) /\ DOMAIN b = 1..Len(b) /\ DOMAIN r = 1..Len(r)
          BY <4>3, <5>1
        <5>3. ASSUME NEW j \in DOMAIN a PROVE j \in DOMAIN r /\ r[j] = a[j]
          BY <4>3, <5>1, <5>2
        <5>4. ASSUME NEW k \in DOMAIN b PROVE Len(a) + k \in DOMAIN r /\ r[Len(a) + k] = b[k]
          BY <4>3, <5>1, <5>2
        <5>5. QED
          BY <5>1, <5>3, <5>4
      <4>6. \A h \in 1..i : h \in 1..(i - 1) \/ h = i
        BY <4>1
      <4>7. ASSUME NEW h \in 1..i, NEW k \in DOMAIN s[h]
            PROVE  \E j \in DOMAIN r : r[j] = s[h][k]
        <5>1. CASE h \in 1..(i - 1)
          BY <4>4, <4>5, <5>1
        <5>2. CASE h = i
          BY <4>5, <5>2 DEF b
        <5>3. QED
          BY <4>6, <5>1, <5>2
      <4>8. Holds(i)
        BY <4>5, <4>7 DEF r
      <4>9. QED
        BY <3>1, <4>8
    <3>4. QED
      BY <3>2, <3>3
  <2>6. Holds(n)
    <3>1. Bad \subseteq Nat
      OBVIOUS
    <3>2. Bad = {}
      <4> HIDE DEF Bad
      <4>1. QED
        BY <2>5, <3>1, Least
    <3> HIDE DEF Holds
    <3>3. QED
      BY <2>1, <3>2
  <2>7. QED
    BY <2>1, <2>3, <2>6
<1>3. QED
  BY <1>1, <1>2
-----------------------------------------------------------------------------
(* The answers, damaged or not                                             *)

LEMMA ListIs ==
  ASSUME NEW n \in Nat, NEW s, s = [i \in 1..n |-> s[i]]
  PROVE  IsList(s) /\ Len(s) = n /\ DOMAIN s = 1..n
<1>1. DOMAIN s = 1..n
  OBVIOUS
<1>2. \A i \in 1..n : s[i] \in Range(s)
  BY <1>1 DEF Range
<1>3. s \in Seq(Range(s))
  BY <1>2
<1>4. QED
  BY <1>1, <1>3 DEF IsList

LEMMA ListHas ==
  ASSUME NEW s, IsList(s)
  PROVE  /\ Len(s) \in Nat /\ DOMAIN s = 1..Len(s) /\ s = [i \in 1..Len(s) |-> s[i]]
         /\ s # << >> => Len(s) # 0
BY DEF IsList

\* A list of as many entries.
LEMMA ListMap ==
  ASSUME NEW s, IsList(s), NEW r, r = [i \in DOMAIN s |-> r[i]]
  PROVE  IsList(r) /\ Len(r) = Len(s) /\ DOMAIN r = DOMAIN s
BY ListHas, ListIs

\* A list with one more entry in front.
LEMMA ListCons ==
  ASSUME NEW S, NEW x \in S, NEW s \in Seq(S), NEW r, r = <<x>> \o s
  PROVE  /\ r \in Seq(S) /\ Len(r) = Len(s) + 1 /\ DOMAIN r = 1..(Len(s) + 1) /\ r[1] = x
         /\ \A k \in 1..Len(s) : r[k + 1] = s[k]
<1> DEFINE q == <<x>>
<1>1. q \in Seq(S) /\ Len(q) = 1 /\ q[1] = x /\ Len(s) \in Nat
  OBVIOUS
<1> HIDE DEF q
<1>2. r \in Seq(S) /\ Len(r) = Len(s) + 1
  BY <1>1 DEF q
<1>3. DOMAIN r = 1..(Len(s) + 1)
  BY <1>1, <1>2
<1>4. r[1] = q[1]
  BY <1>1 DEF q
<1>5. \A i \in 1 .. Len(q) + Len(s) : r[i] = IF i <= Len(q) THEN q[i] ELSE s[i - Len(q)]
  <2>1. r = q \o s
    BY DEF q
  <2> HIDE DEF q
  <2>2. \A i \in 1 .. Len(q) + Len(s) : (q \o s)[i] = IF i <= Len(q) THEN q[i] ELSE s[i - Len(q)]
    BY <1>1, ConcatProperties, Zenon
  <2>3. QED
    BY <2>1, <2>2
<1>6. ASSUME NEW k \in 1..Len(s) PROVE r[k + 1] = s[k]
  <2>1. k + 1 \in 1 .. Len(q) + Len(s) /\ ~(k + 1 <= Len(q)) /\ (k + 1) - Len(q) = k
    BY <1>1
  <2>2. QED
    BY <1>5, <2>1
<1>7. QED
  BY <1>1, <1>2, <1>3, <1>4, <1>6

LEMMA ListEdits ==
  ASSUME NEW s, IsList(s), NEW x
  PROVE  /\ IsList(<< >>) /\ IsList(Append(s, x)) /\ IsList(Reverse(s))
         /\ \A i \in DOMAIN s : IsList([s EXCEPT ![i] = x])
         /\ \A i \in DOMAIN s : IsList(RemoveAt(s, i)) /\ Range(RemoveAt(s, i)) \subseteq Range(s)
<1>1. IsList(<< >>)
  BY DEF IsList
<1>2. /\ Len(s) \in Nat /\ DOMAIN s = 1..Len(s) /\ s = [i \in 1..Len(s) |-> s[i]]
  BY ListHas
<1>3. IsList(Append(s, x))
  <2> DEFINE r == Append(s, x)
  <2>1. r \in Seq(Range(s) \cup {x})
    BY DEF IsList
  <2> HIDE DEF r
  <2>2. Len(r) \in Nat /\ r = [i \in 1..Len(r) |-> r[i]]
    BY <2>1
  <2>3. IsList(r)
    BY <2>2, ListIs
  <2>4. QED
    BY <2>3 DEF r
<1>4. IsList(Reverse(s))
  BY <1>2, ListIs DEF Reverse
<1>5. ASSUME NEW i \in DOMAIN s PROVE IsList([s EXCEPT ![i] = x])
  <2> DEFINE r == [s EXCEPT ![i] = x]
  <2>1. r = [k \in 1..Len(s) |-> r[k]]
    BY <1>2
  <2> HIDE DEF r
  <2>2. IsList(r)
    BY <1>2, <2>1, ListIs
  <2>3. QED
    BY <2>2 DEF r
<1>6. ASSUME NEW i \in DOMAIN s
      PROVE  IsList(RemoveAt(s, i)) /\ Range(RemoveAt(s, i)) \subseteq Range(s)
  <2> DEFINE r == RemoveAt(s, i)
  <2>1. r \in Seq(Range(s))
    <3>1. SubSeq(s, 1, i - 1) \in Seq(Range(s)) /\ SubSeq(s, i + 1, Len(s)) \in Seq(Range(s))
      BY <1>2 DEF IsList
    <3>2. QED
      BY <3>1 DEF RemoveAt
  <2> HIDE DEF r
  <2>2. Len(r) \in Nat /\ r = [k \in 1..Len(r) |-> r[k]] /\ \A k \in DOMAIN r : r[k] \in Range(s)
    BY <2>1
  <2>3. IsList(r)
    BY <2>2, ListIs
  <2>4. Range(r) \subseteq Range(s)
    BY <2>2 DEF Range
  <2>5. QED
    BY <2>3, <2>4 DEF r
<1>7. QED
  BY <1>1, <1>3, <1>4, <1>5, <1>6

TxShape(tx) ==
  /\ tx = [fields |-> tx.fields, vin |-> tx.vin, vout |-> tx.vout]
  /\ IsList(tx.vin) /\ IsList(tx.vout)
RawShape(raw) ==
  /\ raw = [height |-> raw.height, fields |-> raw.fields, previous |-> raw.previous,
            nTx |-> raw.nTx, tx |-> raw.tx]
  /\ IsList(raw.tx) /\ \A i \in DOMAIN raw.tx : TxShape(raw.tx[i])

\* The ways a transaction is damaged.
LEMMA DamagedTxIs ==
  ASSUME NEW tx, NEW t \in DamagedTx(tx)
  PROVE  \/ \E f \in DamagedFields(tx.fields) : t = [tx EXCEPT !.fields = f]
         \/ t = [tx EXCEPT !.vin = << >>]
         \/ t = [tx EXCEPT !.vout = << >>]
         \/ t = [tx EXCEPT !.vin = Append(tx.vin, CoinbaseVin)]
         \/ \E i \in DOMAIN tx.vin : \E v \in DamagedVin(tx.vin[i]) :
              t = [tx EXCEPT !.vin = [tx.vin EXCEPT ![i] = v]]
         \/ \E i \in DOMAIN tx.vout : \E v \in DamagedVout(tx.vout[i]) :
              t = [tx EXCEPT !.vout = [tx.vout EXCEPT ![i] = v]]
         \/ \E i \in 1..(Len(tx.vout) - 1) : t = [tx EXCEPT !.vout = RemoveAt(tx.vout, i)]
         \/ t = [tx EXCEPT !.vout = Reverse(tx.vout)]
<1> DEFINE members == {[tx EXCEPT !.fields = f] : f \in DamagedFields(tx.fields)}
           lists   == {[tx EXCEPT !.vin = << >>], [tx EXCEPT !.vout = << >>],
                       [tx EXCEPT !.vin = Append(@, CoinbaseVin)]}
           ins     == UNION {{[tx EXCEPT !.vin[i] = v] : v \in DamagedVin(tx.vin[i])} :
                               i \in DOMAIN tx.vin}
           outs    == UNION {{[tx EXCEPT !.vout[i] = v] : v \in DamagedVout(tx.vout[i])} :
                               i \in DOMAIN tx.vout}
           lost    == {[tx EXCEPT !.vout = RemoveAt(@, i)] : i \in 1 .. Len(tx.vout) - 1}
           turned  == {[tx EXCEPT !.vout = Reverse(@)]}
<1>1. DamagedTx(tx) = members \cup lists \cup ins \cup outs \cup lost \cup turned
  BY DEF DamagedTx
<1>2. ASSUME t \in ins
      PROVE  \E i \in DOMAIN tx.vin : \E v \in DamagedVin(tx.vin[i]) :
               t = [tx EXCEPT !.vin = [tx.vin EXCEPT ![i] = v]]
  BY <1>2
<1>3. ASSUME t \in outs
      PROVE  \E i \in DOMAIN tx.vout : \E v \in DamagedVout(tx.vout[i]) :
               t = [tx EXCEPT !.vout = [tx.vout EXCEPT ![i] = v]]
  BY <1>3
<1>4. ASSUME t \in lost
      PROVE  \E i \in 1..(Len(tx.vout) - 1) : t = [tx EXCEPT !.vout = RemoveAt(tx.vout, i)]
  BY <1>4
<1>5. ASSUME t \in members PROVE \E f \in DamagedFields(tx.fields) : t = [tx EXCEPT !.fields = f]
  BY <1>5
<1>6. ASSUME t \in lists
      PROVE  \/ t = [tx EXCEPT !.vin = << >>] \/ t = [tx EXCEPT !.vout = << >>]
             \/ t = [tx EXCEPT !.vin = Append(tx.vin, CoinbaseVin)]
  BY <1>6
<1>7. ASSUME t \in turned PROVE t = [tx EXCEPT !.vout = Reverse(tx.vout)]
  BY <1>7
<1> HIDE DEF members, lists, ins, outs, lost, turned
<1>8. \/ t \in members \/ t \in lists \/ t \in ins \/ t \in outs \/ t \in lost \/ t \in turned
  BY <1>1
<1>9. QED
  BY <1>2, <1>3, <1>4, <1>5, <1>6, <1>7, <1>8

\* The ways an answer is damaged.
LEMMA DamagedIs ==
  ASSUME NEW raw, NEW r \in Damaged(raw)
  PROVE  \/ \E i \in DOMAIN raw.tx : \E t \in DamagedTx(raw.tx[i]) :
              r = [raw EXCEPT !.tx = [raw.tx EXCEPT ![i] = t]]
         \/ /\ raw.height # Null
            /\ \/ \E f \in DamagedFields(raw.fields) : r = [raw EXCEPT !.fields = f]
               \/ \E s \in {"absent", "ok", "bad"} : r = [raw EXCEPT !.previous = s]
               \/ r = [raw EXCEPT !.nTx = Null]
               \/ \E i \in DOMAIN raw.tx : r = [raw EXCEPT !.tx = RemoveAt(raw.tx, i)]
<1> DEFINE inside  == UNION {{[raw EXCEPT !.tx[i] = t] : t \in DamagedTx(raw.tx[i])} :
                               i \in DOMAIN raw.tx}
           members == {[raw EXCEPT !.fields = f] : f \in DamagedFields(raw.fields)}
           links   == {[raw EXCEPT !.previous = s] : s \in {"absent", "ok", "bad"}}
           counts  == {[raw EXCEPT !.nTx = Null]}
           lost    == {[raw EXCEPT !.tx = RemoveAt(@, i)] : i \in DOMAIN raw.tx}
<1>1. Damaged(raw) = inside \cup IF raw.height = Null THEN {}
                                 ELSE members \cup links \cup counts \cup lost
  BY DEF Damaged
<1>2. ASSUME r \in inside
      PROVE  \E i \in DOMAIN raw.tx : \E t \in DamagedTx(raw.tx[i]) :
               r = [raw EXCEPT !.tx = [raw.tx EXCEPT ![i] = t]]
  BY <1>2
<1>3. ASSUME r \in members PROVE \E f \in DamagedFields(raw.fields) : r = [raw EXCEPT !.fields = f]
  BY <1>3
<1>4. ASSUME r \in links PROVE \E s \in {"absent", "ok", "bad"} : r = [raw EXCEPT !.previous = s]
  BY <1>4
<1>5. ASSUME r \in counts PROVE r = [raw EXCEPT !.nTx = Null]
  BY <1>5
<1>6. ASSUME r \in lost PROVE \E i \in DOMAIN raw.tx : r = [raw EXCEPT !.tx = RemoveAt(raw.tx, i)]
  BY <1>6
<1> HIDE DEF inside, members, links, counts, lost
<1>7. \/ r \in inside
      \/ raw.height # Null /\ (r \in members \/ r \in links \/ r \in counts \/ r \in lost)
  BY <1>1
<1>8. QED
  BY <1>2, <1>3, <1>4, <1>5, <1>6, <1>7

LEMMA CoreShape ==
  ASSUME NEW item \in Item
  PROVE  RawShape(CoreAnswer(item))
<1> DEFINE raw == CoreAnswer(item)
<1>1. /\ IsList(item.txs)
      /\ \A i \in DOMAIN item.txs : /\ item.txs[i].inputs \in Seq({"coinbase", "spend"})
                                    /\ IsList(item.txs[i].outputs)
  BY AskedAssumption
<1>2. ASSUME NEW i \in DOMAIN item.txs PROVE TxShape(CoreTx(item.txs[i]))
  <2> DEFINE tx == CoreTx(item.txs[i])
  <2>1. tx = [fields |-> tx.fields, vin |-> tx.vin, vout |-> tx.vout]
    BY DEF CoreTx
  <2>2. IsList(tx.vin)
    <3>1. Len(item.txs[i].inputs) \in Nat /\ DOMAIN item.txs[i].inputs = 1..Len(item.txs[i].inputs)
      BY <1>1
    <3>2. tx.vin = [k \in DOMAIN item.txs[i].inputs |-> tx.vin[k]]
      BY DEF CoreTx
    <3> HIDE DEF tx
    <3>3. QED
      BY <3>1, <3>2, ListIs
  <2>3. IsList(tx.vout)
    <3>1. tx.vout = [k \in DOMAIN item.txs[i].outputs |-> tx.vout[k]]
      BY DEF CoreTx
    <3> HIDE DEF tx
    <3>2. QED
      BY <1>1, <3>1, ListMap
  <2> HIDE DEF tx
  <2>4. TxShape(tx)
    BY <2>1, <2>2, <2>3 DEF TxShape
  <2>5. QED
    BY <2>4 DEF tx
<1>3. /\ raw = [height |-> raw.height, fields |-> raw.fields, previous |-> raw.previous,
                nTx |-> raw.nTx, tx |-> raw.tx]
      /\ raw.tx = [i \in DOMAIN item.txs |-> CoreTx(item.txs[i])]
  BY DEF CoreAnswer
<1> HIDE DEF raw
<1>4. IsList(raw.tx) /\ DOMAIN raw.tx = DOMAIN item.txs
  BY <1>1, <1>3, ListMap
<1>5. RawShape(raw)
  BY <1>2, <1>3, <1>4 DEF RawShape
<1>6. QED
  BY <1>5 DEF raw
LEMMA DamagedTxShape ==
  ASSUME NEW tx, TxShape(tx), NEW t \in DamagedTx(tx)
  PROVE  TxShape(t)
<1> USE DEF TxShape
<1>1. ASSUME NEW f, t = [tx EXCEPT !.fields = f] PROVE TxShape(t)
  BY <1>1
<1>2. ASSUME NEW vin, IsList(vin), t = [tx EXCEPT !.vin = vin] PROVE TxShape(t)
  BY <1>2
<1>3. ASSUME NEW vout, IsList(vout), t = [tx EXCEPT !.vout = vout] PROVE TxShape(t)
  BY <1>3
<1>4. \A v : /\ IsList(<< >>) /\ IsList(Append(tx.vin, v)) /\ IsList(Reverse(tx.vout))
             /\ \A i \in DOMAIN tx.vin : IsList([tx.vin EXCEPT ![i] = v])
             /\ \A i \in DOMAIN tx.vout : IsList([tx.vout EXCEPT ![i] = v])
             /\ \A i \in DOMAIN tx.vout : IsList(RemoveAt(tx.vout, i))
  BY ListEdits
<1>5. \A i \in 1..(Len(tx.vout) - 1) : i \in DOMAIN tx.vout
  BY ListHas
<1>6. \/ \E f : t = [tx EXCEPT !.fields = f]
      \/ t = [tx EXCEPT !.vin = << >>]
      \/ t = [tx EXCEPT !.vout = << >>]
      \/ t = [tx EXCEPT !.vin = Append(tx.vin, CoinbaseVin)]
      \/ \E i \in DOMAIN tx.vin : \E v : t = [tx EXCEPT !.vin = [tx.vin EXCEPT ![i] = v]]
      \/ \E i \in DOMAIN tx.vout : \E v : t = [tx EXCEPT !.vout = [tx.vout EXCEPT ![i] = v]]
      \/ \E i \in DOMAIN tx.vout : t = [tx EXCEPT !.vout = RemoveAt(tx.vout, i)]
      \/ t = [tx EXCEPT !.vout = Reverse(tx.vout)]
  BY <1>5, DamagedTxIs
<1> HIDE DEF TxShape
<1>7. QED
  BY <1>1, <1>2, <1>3, <1>4, <1>6

LEMMA DamagedShape ==
  ASSUME NEW raw, RawShape(raw), NEW r \in Damaged(raw)
  PROVE  RawShape(r)
<1>0. /\ raw = [height |-> raw.height, fields |-> raw.fields, previous |-> raw.previous,
                nTx |-> raw.nTx, tx |-> raw.tx]
      /\ IsList(raw.tx) /\ \A i \in DOMAIN raw.tx : TxShape(raw.tx[i])
  BY DEF RawShape
<1>1. ASSUME NEW txs, IsList(txs), \A i \in DOMAIN txs : TxShape(txs[i]), r = [raw EXCEPT !.tx = txs]
      PROVE  RawShape(r)
  BY <1>0, <1>1 DEF RawShape
<1>2. ASSUME NEW f, r = [raw EXCEPT !.fields = f] \/ r = [raw EXCEPT !.previous = f]
                      \/ r = [raw EXCEPT !.nTx = f]
      PROVE  RawShape(r)
  BY <1>0, <1>2 DEF RawShape
<1>3. ASSUME NEW i \in DOMAIN raw.tx, NEW t \in DamagedTx(raw.tx[i]),
             r = [raw EXCEPT !.tx = [raw.tx EXCEPT ![i] = t]]
      PROVE  RawShape(r)
  <2>1. TxShape(t)
    BY <1>0, DamagedTxShape
  <2> DEFINE txs == [raw.tx EXCEPT ![i] = t]
  <2>2. IsList(txs)
    BY <1>0, ListEdits
  <2>3. \A k \in DOMAIN txs : TxShape(txs[k])
    BY <1>0, <2>1
  <2> HIDE DEF txs
  <2>4. QED
    BY <1>1, <2>2, <2>3, <1>3 DEF txs
<1>4. ASSUME NEW i \in DOMAIN raw.tx, r = [raw EXCEPT !.tx = RemoveAt(raw.tx, i)]
      PROVE  RawShape(r)
  <2> DEFINE txs == RemoveAt(raw.tx, i)
  <2>1. IsList(txs) /\ Range(txs) \subseteq Range(raw.tx)
    BY <1>0, ListEdits
  <2> HIDE DEF txs
  <2>2. \A k \in DOMAIN txs : \E h \in DOMAIN raw.tx : txs[k] = raw.tx[h]
    BY <2>1 DEF Range
  <2>3. \A k \in DOMAIN txs : TxShape(txs[k])
    BY <1>0, <2>2
  <2>4. QED
    BY <1>1, <1>4, <2>1, <2>3 DEF txs
<1>5. \/ \E i \in DOMAIN raw.tx : \E t \in DamagedTx(raw.tx[i]) :
           r = [raw EXCEPT !.tx = [raw.tx EXCEPT ![i] = t]]
      \/ \E f : \/ r = [raw EXCEPT !.fields = f] \/ r = [raw EXCEPT !.previous = f]
                \/ r = [raw EXCEPT !.nTx = f]
      \/ \E i \in DOMAIN raw.tx : r = [raw EXCEPT !.tx = RemoveAt(raw.tx, i)]
  BY DamagedIs
<1>6. QED
  BY <1>2, <1>3, <1>4, <1>5
-----------------------------------------------------------------------------
(* What a sound answer starts                                              *)

\* The keys of a script are a list, and a single-key script has one.
LEMMA ClassifyKeys ==
  ASSUME NEW s
  PROVE  /\ IsList(Classify(s).pubKeys)
         /\ Classify(s).type = "p2pk" => Len(Classify(s).pubKeys) = 1
<1>1. IsList(<< >>) /\ \A x : IsList(<<x>>) /\ Len(<<x>>) = 1
  BY DEF IsList, Range
<1>2. ASSUME NEW t, NEW m \in 0..maxPubKeysPerMultisig
      PROVE  multisigScriptNumber(t, m, maxPubKeysPerMultisig) \in 0..maxPubKeysPerMultisig
  BY DEF multisigScriptNumber, maxPubKeysPerMultisig, op1, op16
<1>3. IsList(matchMultisig(s))
  <2> DEFINE toks == Tokens(s)
             m == multisigScriptNumber(toks[1], 1, maxPubKeysPerMultisig)
             n == multisigScriptNumber(toks[KeysEnd(toks)], m, maxPubKeysPerMultisig)
             keys == [k \in 1..n |-> toks[k + 1].data]
  <2>1. m \in 0..maxPubKeysPerMultisig
    BY <1>2 DEF maxPubKeysPerMultisig
  <2> HIDE DEF m
  <2>2. n \in Nat
    BY <1>2, <2>1 DEF maxPubKeysPerMultisig
  <2>3. matchMultisig(s) = keys \/ matchMultisig(s) = << >>
    BY DEF matchMultisig, m
  <2> HIDE DEF n, toks
  <2>4. keys = [k \in 1..n |-> keys[k]]
    OBVIOUS
  <2> HIDE DEF keys
  <2>5. IsList(keys)
    BY <2>2, <2>4, ListIs
  <2>6. QED
    BY <1>1, <2>3, <2>5
<1>4. WitnessType(WitnessVersion(s), s[2]) # "p2pk"
  BY DEF WitnessType
<1>5. CASE IsWitnessProgram(s)
  BY <1>1, <1>4, <1>5 DEF Classify, Result
<1>6. CASE ~IsWitnessProgram(s)
  <2> DEFINE keys == matchMultisig(s)
             key == SubSeq(s, 2, Len(s) - 1)
             c == ClassifyLegacy(s, keys)
  <2>1. Classify(s) = c
    BY <1>6 DEF Classify
  <2> HIDE DEF keys, key
  <2>2. \/ c.type # "p2pk" /\ c.pubKeys = << >>
        \/ c.type # "p2pk" /\ c.pubKeys = keys
        \/ c.pubKeys = <<key>>
    BY DEF ClassifyLegacy, Result, key
  <2> HIDE DEF c
  <2>3. QED
    BY <1>1, <1>3, <2>1, <2>2 DEF keys
<1>7. QED
  BY <1>5, <1>6

IsPart(p) == IsList(p.keys)

\* The parts of a transaction: the one in front of its outputs, and each output.
LEMMA TxPartsAre ==
  ASSUME NEW tx, TxShape(tx)
  PROVE  /\ TxParts(tx) \in Seq(Range(TxParts(tx)))
         /\ \A p \in Range(TxParts(tx)) : IsPart(p)
         /\ \E p \in Range(TxParts(tx)) : p.sound = TxSound(tx)
         /\ \A k \in DOMAIN tx.vout : \E p \in Range(TxParts(tx)) :
              /\ p.sound = OutputSound(tx.vout[k], k, Classify(tx.vout[k].bytes))
              /\ p.keys = Classify(tx.vout[k].bytes).pubKeys
         /\ \A p \in Range(TxParts(tx)) :
              \/ p.sound = TxSound(tx)
              \/ \E k \in DOMAIN tx.vout :
                   p.sound = OutputSound(tx.vout[k], k, Classify(tx.vout[k].bytes))
<1> DEFINE head == [sound |-> TxSound(tx), keys |-> << >>]
           Out(k) == OutputPart(tx.vout[k], k, Classify(tx.vout[k].bytes))
           outs == [k \in DOMAIN tx.vout |-> Out(k)]
           parts == <<head>> \o outs
<1>1. TxParts(tx) = parts
  BY DEF TxParts
<1>2. Len(tx.vout) \in Nat /\ DOMAIN tx.vout = 1..Len(tx.vout)
  BY ListHas DEF TxShape
<1>3. head.sound = TxSound(tx) /\ IsPart(head)
  BY DEF IsPart, IsList
<1>4. ASSUME NEW k \in DOMAIN tx.vout
      PROVE  /\ Out(k).sound = OutputSound(tx.vout[k], k, Classify(tx.vout[k].bytes))
             /\ Out(k).keys = Classify(tx.vout[k].bytes).pubKeys
             /\ IsPart(Out(k))
  BY ClassifyKeys DEF OutputPart, IsPart
<1> HIDE DEF head, Out
<1>5. /\ Len(parts) = Len(tx.vout) + 1
      /\ parts[1] = head
      /\ \A k \in DOMAIN tx.vout : parts[k + 1] = Out(k)
      /\ DOMAIN parts = 1..(Len(tx.vout) + 1)
      /\ parts = [k \in 1..(Len(tx.vout) + 1) |-> parts[k]]
  <2>1. /\ outs \in Seq({Out(k) : k \in DOMAIN tx.vout})
        /\ Len(outs) = Len(tx.vout) /\ \A k \in DOMAIN tx.vout : outs[k] = Out(k)
    BY <1>2
  <2> DEFINE S == {Out(k) : k \in DOMAIN tx.vout} \cup {head}
  <2>2. outs \in Seq(S) /\ head \in S
    BY <2>1
  <2> HIDE DEF outs, S
  <2>3. /\ parts \in Seq(S) /\ Len(parts) = Len(outs) + 1 /\ parts[1] = head
        /\ \A k \in 1..Len(outs) : parts[k + 1] = outs[k]
    BY <2>2, ListCons
  <2> HIDE DEF parts
  <2>4. parts = [k \in 1..Len(parts) |-> parts[k]] /\ DOMAIN parts = 1..Len(parts)
    BY <2>3
  <2>5. \A k \in DOMAIN tx.vout : parts[k + 1] = Out(k)
    BY <1>2, <2>1, <2>3
  <2>6. QED
    BY <2>1, <2>3, <2>4, <2>5
<1> HIDE DEF parts
<1>6. IsList(parts)
  BY <1>2, <1>5, ListIs
<1>7. \A i \in DOMAIN parts : i = 1 \/ (i - 1 \in DOMAIN tx.vout /\ i = (i - 1) + 1)
  BY <1>2, <1>5
<1>8. \A i \in DOMAIN parts : parts[i] = head \/ \E k \in DOMAIN tx.vout : parts[i] = Out(k)
  BY <1>5, <1>7
<1>9. 1 \in DOMAIN parts /\ \A k \in DOMAIN tx.vout : k + 1 \in DOMAIN parts
  BY <1>2, <1>5
<1>10. \A p \in Range(parts) : IsPart(p)
  BY <1>3, <1>4, <1>8 DEF Range
<1>11. head \in Range(parts) /\ \A k \in DOMAIN tx.vout : Out(k) \in Range(parts)
  BY <1>5, <1>9 DEF Range
<1>12. \A p \in Range(parts) :
         \/ p.sound = TxSound(tx)
         \/ \E k \in DOMAIN tx.vout :
              p.sound = OutputSound(tx.vout[k], k, Classify(tx.vout[k].bytes))
  BY <1>3, <1>4, <1>8 DEF Range
<1>13. QED
  BY <1>1, <1>3, <1>4, <1>6, <1>10, <1>11, <1>12 DEF IsList

\* The parts of an answer: its head, and each part of each transaction.
LEMMA PartsAre ==
  ASSUME NEW raw, RawShape(raw)
  PROVE  /\ Parts(raw) \in Seq(Range(Parts(raw)))
         /\ \A p \in Range(Parts(raw)) : IsPart(p)
         /\ \E p \in Range(Parts(raw)) : p.sound = HeadSound(raw)
         /\ \A i \in DOMAIN raw.tx : Range(TxParts(raw.tx[i])) \subseteq Range(Parts(raw))
         /\ \A p \in Range(Parts(raw)) :
              p.sound = HeadSound(raw) \/ \E i \in DOMAIN raw.tx : p \in Range(TxParts(raw.tx[i]))
<1> DEFINE head == [sound |-> HeadSound(raw), keys |-> << >>]
           S == {head} \cup UNION {Range(TxParts(raw.tx[i])) : i \in DOMAIN raw.tx}
           lists == [i \in DOMAIN raw.tx |-> TxParts(raw.tx[i])]
           flat == FlattenSeq(lists)
           parts == <<head>> \o flat
<1>1. Parts(raw) = parts
  BY DEF Parts
<1>2. IsList(raw.tx) /\ \A i \in DOMAIN raw.tx : TxShape(raw.tx[i])
  BY DEF RawShape
<1>3. Len(raw.tx) \in Nat /\ DOMAIN raw.tx = 1..Len(raw.tx)
  BY <1>2, ListHas
<1>4. head.sound = HeadSound(raw) /\ IsPart(head)
  BY DEF IsPart, IsList
<1>5. \A p \in S : IsPart(p)
  BY <1>2, <1>4, TxPartsAre
<1>6. ASSUME NEW i \in DOMAIN raw.tx PROVE TxParts(raw.tx[i]) \in Seq(S)
  <2> DEFINE q == TxParts(raw.tx[i])
  <2>1. q \in Seq(Range(q)) /\ Range(q) \subseteq S
    BY <1>2, TxPartsAre
  <2> HIDE DEF q, S
  <2>2. q \in Seq(S)
    BY <2>1
  <2>3. QED
    BY <2>2 DEF q
<1>7. /\ head \in S
      /\ \A p \in S : p = head \/ \E i \in DOMAIN raw.tx : p \in Range(TxParts(raw.tx[i]))
  OBVIOUS
<1> HIDE DEF head, S
<1>8. lists \in Seq(Seq(S)) /\ DOMAIN lists = DOMAIN raw.tx
  BY <1>3, <1>6
<1>9. \A i \in DOMAIN raw.tx : lists[i] = TxParts(raw.tx[i])
  OBVIOUS
<1> HIDE DEF lists
<1>10. /\ flat \in Seq(S)
       /\ \A i \in DOMAIN lists : \A k \in DOMAIN lists[i] : \E h \in DOMAIN flat : flat[h] = lists[i][k]
  BY <1>8, FlattenKeeps
<1> HIDE DEF flat
<1>11. /\ parts \in Seq(S) /\ 1 \in DOMAIN parts /\ parts[1] = head
       /\ \A h \in DOMAIN flat : h + 1 \in DOMAIN parts /\ parts[h + 1] = flat[h]
  <2>1. /\ parts \in Seq(S) /\ Len(parts) = Len(flat) + 1 /\ parts[1] = head
        /\ DOMAIN parts = 1..(Len(flat) + 1) /\ \A k \in 1..Len(flat) : parts[k + 1] = flat[k]
    BY <1>7, <1>10, ListCons
  <2>2. Len(flat) \in Nat /\ DOMAIN flat = 1..Len(flat)
    BY <1>10
  <2> HIDE DEF parts
  <2>3. QED
    BY <2>1, <2>2
<1> HIDE DEF parts
<1>12. \A i \in DOMAIN parts : parts[i] \in S
  BY <1>11
<1>13. Len(parts) \in Nat /\ parts = [i \in 1..Len(parts) |-> parts[i]]
  BY <1>11
<1>14. IsList(parts)
  BY <1>13, ListIs
<1>15. \A p \in Range(parts) : IsPart(p)
  BY <1>5, <1>12 DEF Range
<1>16. head \in Range(parts)
  BY <1>11 DEF Range
<1>17. ASSUME NEW i \in DOMAIN raw.tx PROVE Range(TxParts(raw.tx[i])) \subseteq Range(parts)
  <2>1. \A k \in DOMAIN TxParts(raw.tx[i]) : \E h \in DOMAIN flat : flat[h] = TxParts(raw.tx[i])[k]
    BY <1>8, <1>9, <1>10
  <2>2. \A k \in DOMAIN TxParts(raw.tx[i]) : \E h \in DOMAIN parts : parts[h] = TxParts(raw.tx[i])[k]
    BY <1>11, <2>1
  <2>3. QED
    BY <2>2 DEF Range
<1>18. \A p \in Range(parts) :
         p.sound = HeadSound(raw) \/ \E i \in DOMAIN raw.tx : p \in Range(TxParts(raw.tx[i]))
  BY <1>4, <1>7, <1>12 DEF Range
<1>19. QED
  BY <1>1, <1>4, <1>14, <1>15, <1>16, <1>17, <1>18 DEF IsList

\* Every key of every output is among the questions to the resolver.
KeysAsked(j) ==
  \A i \in DOMAIN j.txs : \A k \in DOMAIN j.txs[i].outputs :
    \A h \in DOMAIN j.txs[i].outputs[k].pubKeys :
      j.txs[i].outputs[k].pubKeys[h] \in Range(j.calls)

\* What the checks of the decoder leave of a transaction's shape.
TxWhole(t) ==
  /\ t = [isCoinbase |-> t.isCoinbase, inputs |-> t.inputs, outputs |-> t.outputs]
  /\ t.inputs # << >> /\ 1 \in DOMAIN t.outputs
  /\ t.isCoinbase <=> t.inputs = <<"coinbase">>
  /\ \A i \in DOMAIN t.inputs : t.inputs[i] = "coinbase" => t.isCoinbase
  /\ \A k \in DOMAIN t.outputs :
       /\ t.outputs[k] = [index |-> k - 1, value |-> t.outputs[k].value,
                          script |-> t.outputs[k].script, type |-> t.outputs[k].type,
                          pubKeys |-> t.outputs[k].pubKeys, participants |-> << >>,
                          address |-> t.outputs[k].address]
       /\ IsList(t.outputs[k].pubKeys)
       /\ t.outputs[k].type = "p2pk" => Len(t.outputs[k].pubKeys) = 1

LEMMA DecodedWhole ==
  ASSUME NEW tx, TxShape(tx), TxSound(tx)
  PROVE  TxWhole(DecodeTransaction(tx))
<1> DEFINE t == DecodeTransaction(tx)
           vin == tx.vin
           vout == tx.vout
<1>1. /\ Len(vin) \in Nat /\ DOMAIN vin = 1..Len(vin) /\ (vin # << >> => Len(vin) # 0)
      /\ Len(vout) \in Nat /\ DOMAIN vout = 1..Len(vout) /\ (vout # << >> => Len(vout) # 0)
  BY ListHas DEF TxShape
<1>2. /\ vin # << >> /\ vout # << >>
      /\ (\E i \in DOMAIN vin : IsCoinbaseVin(vin[i])) => Len(vin) = 1
  BY DEF TxSound, InputsSound
<1>3. /\ t = [isCoinbase |-> t.isCoinbase, inputs |-> t.inputs, outputs |-> t.outputs]
      /\ t.isCoinbase <=> \E i \in DOMAIN vin : IsCoinbaseVin(vin[i])
      /\ t.inputs = [i \in DOMAIN vin |-> IF IsCoinbaseVin(vin[i]) THEN "coinbase" ELSE "spend"]
      /\ t.outputs = [k \in DOMAIN vout |-> decodeOutput(vout[k], k, Classify(vout[k].bytes))]
  BY DEF DecodeTransaction
<1> HIDE DEF t, vin, vout
<1>4. t.inputs # << >> /\ 1 \in DOMAIN t.outputs
  <2>1. 1 \in DOMAIN t.inputs /\ 1 \in DOMAIN t.outputs
    BY <1>1, <1>2, <1>3
  <2>2. QED
    BY <2>1
<1>5. ASSUME NEW i \in DOMAIN t.inputs, t.inputs[i] = "coinbase" PROVE t.isCoinbase
  BY <1>3, <1>5
<1>6. t.isCoinbase => t.inputs = <<"coinbase">>
  <2> HAVE t.isCoinbase
  <2>1. Len(vin) = 1 /\ DOMAIN vin = 1..1 /\ IsCoinbaseVin(vin[1])
    BY <1>1, <1>2, <1>3
  <2>2. t.inputs = [i \in 1..1 |-> "coinbase"]
    BY <1>3, <2>1
  <2>3. QED
    BY <2>2
<1>7. t.inputs = <<"coinbase">> => t.isCoinbase
  <2> HAVE t.inputs = <<"coinbase">>
  <2>1. 1 \in DOMAIN t.inputs /\ t.inputs[1] = "coinbase"
    OBVIOUS
  <2>2. QED
    BY <1>5, <2>1
<1>8. ASSUME NEW k \in DOMAIN t.outputs
      PROVE  /\ t.outputs[k] = [index |-> k - 1, value |-> t.outputs[k].value,
                                script |-> t.outputs[k].script, type |-> t.outputs[k].type,
                                pubKeys |-> t.outputs[k].pubKeys, participants |-> << >>,
                                address |-> t.outputs[k].address]
             /\ IsList(t.outputs[k].pubKeys)
             /\ t.outputs[k].type = "p2pk" => Len(t.outputs[k].pubKeys) = 1
  <2> DEFINE o == t.outputs[k]
             c == Classify(vout[k].bytes)
  <2>1. k \in DOMAIN vout /\ o = decodeOutput(vout[k], k, c)
    BY <1>3
  <2>2. IsList(c.pubKeys) /\ (c.type = "p2pk" => Len(c.pubKeys) = 1)
    BY ClassifyKeys
  <2> HIDE DEF c, o
  <2>3. /\ o = [index |-> k - 1, value |-> o.value, script |-> o.script, type |-> o.type,
                pubKeys |-> o.pubKeys, participants |-> << >>, address |-> o.address]
        /\ o.type = c.type /\ o.pubKeys = c.pubKeys
    BY <2>1 DEF decodeOutput
  <2>4. QED
    BY <2>2, <2>3 DEF o
<1>9. TxWhole(t)
  BY <1>3, <1>4, <1>5, <1>6, <1>7, <1>8 DEF TxWhole
<1>10. QED
  BY <1>9 DEF t

\* A job before its first step; a sound one has all there is to ask and to decode.
Begun(j) ==
  /\ j = [pc |-> "working", item |-> j.item, sound |-> j.sound, calls |-> j.calls,
          resolved |-> << >>, txs |-> j.txs]
  /\ j.sound \in BOOLEAN
  /\ j.sound => /\ IsList(j.calls) /\ KeysAsked(j)
                /\ \A i \in DOMAIN j.txs : TxWhole(j.txs[i])

\* What a job starts with: it is sound when each part of the answer is, and then
\* it has every key to ask about.
LEMMA StartedIs ==
  ASSUME NEW item, NEW raw, RawShape(raw), NEW j, j = Started(item, raw)
  PROVE  /\ j = [pc |-> "working", item |-> item, sound |-> j.sound, calls |-> j.calls,
                 resolved |-> << >>, txs |-> j.txs]
         /\ j.item = item /\ j.sound \in BOOLEAN
         /\ j.sound <=> \A p \in Range(Parts(raw)) : p.sound
         /\ j.sound => /\ j.calls = FlattenSeq([i \in DOMAIN Parts(raw) |-> Parts(raw)[i].keys])
                       /\ j.txs = [i \in DOMAIN raw.tx |-> DecodeTransaction(raw.tx[i])]
<1> DEFINE parts == Parts(raw)
           Unsound == {i \in 1..Len(parts) : ~parts[i].sound}
           fault == IF Unsound # {} THEN Min(Unsound) ELSE 0
           good == IF fault = 0 THEN parts ELSE SubSeq(parts, 1, fault - 1)
           keys == [i \in DOMAIN good |-> good[i].keys]
           txs == IF fault = 0 THEN [i \in DOMAIN raw.tx |-> DecodeTransaction(raw.tx[i])] ELSE << >>
<1>1. j = [NoJob EXCEPT !.pc = "working", !.item = item, !.sound = (fault = 0),
                        !.txs = txs, !.calls = FlattenSeq(keys)]
  BY Zenon DEF Started, StartedWith, SelectInSeq
<1>2. j = [pc |-> "working", item |-> item, sound |-> (fault = 0),
           calls |-> FlattenSeq(keys), resolved |-> << >>, txs |-> txs]
  <2> HIDE DEF fault, keys, txs
  <2>1. QED
    BY <1>1 DEF NoJob
<1>3. /\ j = [pc |-> "working", item |-> item, sound |-> j.sound, calls |-> j.calls,
              resolved |-> << >>, txs |-> j.txs]
      /\ j.item = item /\ j.sound = (fault = 0) /\ j.calls = FlattenSeq(keys) /\ j.txs = txs
  <2> HIDE DEF fault, keys, txs
  <2>1. QED
    BY <1>2
<1>4. fault = 0 <=> Unsound = {}
  <2>1. Unsound \subseteq Nat /\ 0 \notin Unsound
    OBVIOUS
  <2> HIDE DEF Unsound
  <2>2. ASSUME Unsound # {} PROVE Min(Unsound) \in Unsound
    BY <2>1, <2>2, Least DEF Min
  <2>3. QED
    BY <2>1, <2>2
<1>5. Unsound = {} <=> \A p \in Range(parts) : p.sound
  <2>1. DOMAIN parts = 1..Len(parts)
    BY PartsAre, ListHas DEF IsList
  <2> HIDE DEF parts
  <2>2. QED
    BY <2>1 DEF Range
<1>6. fault = 0 => /\ FlattenSeq(keys) = FlattenSeq([i \in DOMAIN parts |-> parts[i].keys])
                   /\ txs = [i \in DOMAIN raw.tx |-> DecodeTransaction(raw.tx[i])]
  OBVIOUS
<1> HIDE DEF fault, keys, txs
<1>7. j.sound \in BOOLEAN /\ (j.sound <=> \A p \in Range(parts) : p.sound)
  BY <1>3, <1>4, <1>5
<1>8. QED
  BY <1>3, <1>6, <1>7

LEMMA StartBegins ==
  ASSUME NEW item, NEW raw, RawShape(raw)
  PROVE  Begun(Started(item, raw))
<1> DEFINE j == Started(item, raw)
           parts == Parts(raw)
<1>1. /\ j = [pc |-> "working", item |-> item, sound |-> j.sound, calls |-> j.calls,
              resolved |-> << >>, txs |-> j.txs]
      /\ j.item = item /\ j.sound \in BOOLEAN
      /\ j.sound <=> \A p \in Range(parts) : p.sound
      /\ j.sound => /\ j.calls = FlattenSeq([i \in DOMAIN parts |-> parts[i].keys])
                    /\ j.txs = [i \in DOMAIN raw.tx |-> DecodeTransaction(raw.tx[i])]
  BY StartedIs
<1> HIDE DEF j
<1>4. ASSUME j.sound
      PROVE  /\ IsList(j.calls) /\ KeysAsked(j)
             /\ \A i \in DOMAIN j.txs : TxWhole(j.txs[i])
  <2>3. j.calls = FlattenSeq([i \in DOMAIN parts |-> parts[i].keys])
    BY <1>1, <1>4
  <2>4. j.txs = [i \in DOMAIN raw.tx |-> DecodeTransaction(raw.tx[i])]
    BY <1>1, <1>4
  <2>5. /\ IsList(parts) /\ \A p \in Range(parts) : IsPart(p)
        /\ \A i \in DOMAIN raw.tx : Range(TxParts(raw.tx[i])) \subseteq Range(parts)
    BY PartsAre DEF IsList
  <2>6. \A p \in Range(parts) : p.sound
    BY <1>1, <1>4
  <2> HIDE DEF parts
  <2> DEFINE lists == [i \in DOMAIN parts |-> parts[i].keys]
             S == UNION {Range(parts[i].keys) : i \in DOMAIN parts}
  <2>7. Len(parts) \in Nat /\ DOMAIN parts = 1..Len(parts)
    BY <2>5, ListHas
  <2>8. ASSUME NEW i \in DOMAIN parts PROVE parts[i].keys \in Seq(S)
    <3> DEFINE q == parts[i].keys
    <3>1. parts[i] \in Range(parts)
      BY DEF Range
    <3>2. q \in Seq(Range(q)) /\ Range(q) \subseteq S
      BY <2>5, <3>1 DEF IsPart, IsList
    <3> HIDE DEF q, S
    <3>3. q \in Seq(S)
      BY <3>2
    <3>4. QED
      BY <3>3 DEF q
  <2> HIDE DEF S
  <2>9. lists \in Seq(Seq(S)) /\ DOMAIN lists = DOMAIN parts
    BY <2>7, <2>8
  <2>10. \A i \in DOMAIN parts : lists[i] = parts[i].keys
    OBVIOUS
  <2> HIDE DEF lists
  <2>11. /\ FlattenSeq(lists) \in Seq(S)
         /\ \A i \in DOMAIN lists : \A k \in DOMAIN lists[i] :
              \E h \in DOMAIN FlattenSeq(lists) : FlattenSeq(lists)[h] = lists[i][k]
    BY <2>9, FlattenKeeps
  <2>12. j.calls = FlattenSeq(lists)
    BY <2>3 DEF lists
  <2>13. IsList(j.calls)
    <3>1. Len(j.calls) \in Nat /\ j.calls = [i \in 1..Len(j.calls) |-> j.calls[i]]
      BY <2>11, <2>12
    <3>2. QED
      BY <3>1, ListIs
  <2>14. ASSUME NEW p \in Range(parts), NEW k \in DOMAIN p.keys PROVE p.keys[k] \in Range(j.calls)
    <3>1. PICK i \in DOMAIN parts : p = parts[i]
      BY DEF Range
    <3>2. \E h \in DOMAIN j.calls : j.calls[h] = p.keys[k]
      BY <2>9, <2>10, <2>11, <2>12, <3>1
    <3>3. QED
      BY <3>2 DEF Range
  <2>15. ASSUME NEW i \in DOMAIN raw.tx
         PROVE  /\ TxShape(raw.tx[i]) /\ TxSound(raw.tx[i])
                /\ \A k \in DOMAIN raw.tx[i].vout : \E p \in Range(parts) :
                     p.keys = Classify(raw.tx[i].vout[k].bytes).pubKeys
    <3>1. TxShape(raw.tx[i])
      BY DEF RawShape
    <3> DEFINE tx == raw.tx[i]
    <3> HIDE DEF tx
    <3>2. /\ \E p \in Range(TxParts(tx)) : p.sound = TxSound(tx)
          /\ \A k \in DOMAIN tx.vout : \E p \in Range(TxParts(tx)) :
               p.keys = Classify(tx.vout[k].bytes).pubKeys
      BY <3>1, TxPartsAre DEF tx
    <3>3. Range(TxParts(tx)) \subseteq Range(parts)
      BY <2>5 DEF tx
    <3>4. QED
      BY <2>6, <3>1, <3>2, <3>3 DEF tx
  <2>16. \A i \in DOMAIN j.txs : TxWhole(j.txs[i])
    BY <2>4, <2>15, DecodedWhole
  <2>17. ASSUME NEW i \in DOMAIN j.txs, NEW k \in DOMAIN j.txs[i].outputs,
                NEW h \in DOMAIN j.txs[i].outputs[k].pubKeys
         PROVE  j.txs[i].outputs[k].pubKeys[h] \in Range(j.calls)
    <3> DEFINE tx == raw.tx[i]
               c == Classify(tx.vout[k].bytes)
    <3>1. i \in DOMAIN raw.tx /\ j.txs[i] = DecodeTransaction(tx)
      BY <2>4
    <3>2. k \in DOMAIN tx.vout /\ j.txs[i].outputs[k] = decodeOutput(tx.vout[k], k, c)
      BY <3>1 DEF DecodeTransaction
    <3>3. j.txs[i].outputs[k].pubKeys = c.pubKeys
      BY <3>2 DEF decodeOutput
    <3>4. \E p \in Range(parts) : p.keys = c.pubKeys
      BY <2>15, <3>1, <3>2
    <3> HIDE DEF c
    <3>5. QED
      BY <2>14, <3>3, <3>4
  <2>18. QED
    BY <2>13, <2>16, <2>17 DEF KeysAsked
<1>5. Begun(j)
  BY <1>1, <1>4 DEF Begun
<1>6. QED
  BY <1>5 DEF j

LEMMA StartsBegin == \A s \in Starts : Begun(s)
<1>1. ASSUME NEW item \in Item
      PROVE  /\ Begun(Started(item, CoreAnswer(item)))
             /\ \A raw \in Damaged(CoreAnswer(item)) : Begun(Started(item, raw))
  BY CoreShape, DamagedShape, StartBegins
<1>2. ASSUME NEW s \in Undamaged PROVE Begun(s)
  BY <1>1 DEF Undamaged, Item
<1>3. ASSUME NEW s \in Damaging PROVE Begun(s)
  BY <1>1 DEF Damaging, Item
<1>4. QED
  BY <1>2, <1>3 DEF Starts
-----------------------------------------------------------------------------
(* What is decoded in full                                                 *)

\* What a sound job comes to on its own: no other caller, no error, an empty
\* cache, and Core answering about each of its keys.
Derived(s) == [key \in Range(s.calls) |-> pkhAddress(key)]
Alone(s) == Owned(s.txs, Derived(s))

\* How far a job has come with what s started: each key is resolved, to the
\* address Core derives for it, or is still to be asked about.
Continues(j, s) ==
  /\ s.sound /\ j.item = s.item
  /\ j.pc \in {"working", "asking"} =>
       /\ j.txs = s.txs /\ IsList(j.calls)
       /\ j.pc = "asking" => j.calls # << >>
       /\ \A key \in Range(s.calls) : key \in Range(j.calls) \/ key \in DOMAIN j.resolved
       /\ \A key \in DOMAIN j.resolved : key \in Derivable /\ j.resolved[key] = pkhAddress(key)
  /\ j.pc = "done" => j.txs = Alone(s) /\ Range(s.calls) \subseteq Derivable

IsJob(j) ==
  /\ j = [pc |-> j.pc, item |-> j.item, sound |-> j.sound, calls |-> j.calls,
          resolved |-> j.resolved, txs |-> j.txs]
  /\ j.pc = "done" => j.sound
  /\ j.sound => \E s \in Starts : Continues(j, s)

\* The inductive invariant.
DecoderInv ==
  /\ \A key \in DOMAIN cache : key \in Derivable /\ cache[key] = pkhAddress(key)
  /\ job = [c \in Caller |-> job[c]]
  /\ \A c \in Caller : IsJob(job[c])

LEMMA TailKeeps ==
  ASSUME NEW s, IsList(s), s # << >>
  PROVE  /\ IsList(Tail(s))
         /\ \A x \in Range(s) : x = Head(s) \/ x \in Range(Tail(s))
<1>1. Len(s) \in Nat /\ Len(s) # 0 /\ DOMAIN s = 1..Len(s)
  BY ListHas
<1>2. /\ Tail(s) \in Seq(Range(s)) /\ Len(Tail(s)) = Len(s) - 1
      /\ \A i \in 1..(Len(s) - 1) : Tail(s)[i] = s[i + 1]
      /\ Head(s) = s[1]
  BY <1>1 DEF IsList
<1> DEFINE r == Tail(s)
<1> HIDE DEF r
<1>3. Len(r) \in Nat /\ r = [i \in 1..Len(r) |-> r[i]] /\ DOMAIN r = 1..(Len(s) - 1)
  <2>1. r \in Seq(Range(s)) /\ Len(r) = Len(s) - 1
    BY <1>2 DEF r
  <2>2. QED
    BY <2>1
<1>4. IsList(r)
  BY <1>3, ListIs
<1>5. ASSUME NEW i \in DOMAIN s PROVE s[i] = Head(s) \/ s[i] \in Range(r)
  <2>1. CASE i = 1
    BY <1>2, <2>1
  <2>2. CASE i # 1
    <3>1. i - 1 \in DOMAIN r /\ i - 1 \in 1..(Len(s) - 1) /\ (i - 1) + 1 = i
      BY <1>1, <1>3, <2>2
    <3>2. r[i - 1] = s[i]
      BY <1>2, <3>1 DEF r
    <3>3. QED
      BY <3>1, <3>2 DEF Range
  <2>3. QED
    BY <2>1, <2>2
<1>6. QED
  BY <1>4, <1>5 DEF Range, r

\* The order in which keys were resolved, and by whom, is moot.
LEMMA OwnedAlone ==
  ASSUME NEW s, KeysAsked(s), NEW resolved,
         \A key \in Range(s.calls) : key \in DOMAIN resolved,
         \A key \in DOMAIN resolved : resolved[key] = pkhAddress(key)
  PROVE  Owned(s.txs, resolved) = Alone(s)
<1>1. \A key \in Range(s.calls) : resolved[key] = Derived(s)[key]
  BY DEF Derived
<1>2. ASSUME NEW i \in DOMAIN s.txs, NEW k \in DOMAIN s.txs[i].outputs
      PROVE  WithOwners(s.txs[i].outputs[k], resolved) = WithOwners(s.txs[i].outputs[k], Derived(s))
  <2> DEFINE o == s.txs[i].outputs[k]
             f == [h \in DOMAIN o.pubKeys |-> resolved[o.pubKeys[h]]]
             g == [h \in DOMAIN o.pubKeys |-> Derived(s)[o.pubKeys[h]]]
  <2>1. \A h \in DOMAIN o.pubKeys : o.pubKeys[h] \in Range(s.calls)
    BY DEF KeysAsked
  <2>2. f = g
    <3> HIDE DEF o
    <3>1. QED
      BY <1>1, <2>1
  <2>3. /\ WithOwners(o, resolved) = CASE o.type = "p2pk" -> [o EXCEPT !.address = f[1]]
                                       [] o.type = "multisig" -> [o EXCEPT !.participants = f]
                                       [] OTHER -> o
        /\ WithOwners(o, Derived(s)) = CASE o.type = "p2pk" -> [o EXCEPT !.address = g[1]]
                                         [] o.type = "multisig" -> [o EXCEPT !.participants = g]
                                         [] OTHER -> o
    BY Zenon DEF WithOwners
  <2> HIDE DEF f, g, o
  <2>4. QED
    BY <2>2, <2>3 DEF o
<1> DEFINE d == Derived(s)
<1> HIDE DEF d
<1>3. ASSUME NEW i \in DOMAIN s.txs
      PROVE  [k \in DOMAIN s.txs[i].outputs |-> WithOwners(s.txs[i].outputs[k], resolved)]
               = [k \in DOMAIN s.txs[i].outputs |-> WithOwners(s.txs[i].outputs[k], d)]
  BY <1>2 DEF d
<1>4. Owned(s.txs, resolved) = Owned(s.txs, d)
  BY <1>3 DEF Owned
<1>5. QED
  BY <1>4 DEF Alone, d

LEMMA JobFields ==
  ASSUME NEW pc, NEW item, NEW sound, NEW calls, NEW resolved, NEW txs, NEW j,
         j = [pc |-> pc, item |-> item, sound |-> sound, calls |-> calls,
              resolved |-> resolved, txs |-> txs]
  PROVE  /\ j = [pc |-> j.pc, item |-> j.item, sound |-> j.sound, calls |-> j.calls,
                 resolved |-> j.resolved, txs |-> j.txs]
         /\ j.pc = pc /\ j.item = item /\ j.sound = sound /\ j.calls = calls
         /\ j.resolved = resolved /\ j.txs = txs
OBVIOUS

LEMMA QuietJobs ==
  /\ IsJob(NoJob)
  /\ \A c \in Caller : IsJob(Failed(c))
<1>1. /\ NoJob.pc = "idle" /\ ~NoJob.sound
      /\ NoJob = [pc |-> NoJob.pc, item |-> NoJob.item, sound |-> NoJob.sound,
                  calls |-> NoJob.calls, resolved |-> NoJob.resolved, txs |-> NoJob.txs]
  BY DEF NoJob
<1>2. ASSUME NEW c \in Caller PROVE IsJob(Failed(c))
  <2> DEFINE j == Failed(c)
             item == job[c].item
  <2>0. j = [NoJob EXCEPT !.pc = "failed", !.item = item]
    BY DEF Failed
  <2> HIDE DEF j, item
  <2>1. j = [pc |-> "failed", item |-> item, sound |-> FALSE, calls |-> << >>,
             resolved |-> << >>, txs |-> << >>]
    BY <2>0 DEF NoJob
  <2>2. IsJob(j)
    BY <2>1 DEF IsJob
  <2>3. QED
    BY <2>2 DEF j
<1>3. QED
  BY <1>1, <1>2 DEF IsJob

LEMMA StartIsJob ==
  ASSUME NEW s \in Starts
  PROVE  IsJob(s)
<1>1. Begun(s)
  BY StartsBegin
<1>2. s.pc = "working" /\ s.resolved = << >>
  BY <1>1 DEF Begun
<1>3. s.sound => Continues(s, s)
  BY <1>1, <1>2 DEF Begun, Continues
<1>4. QED
  BY <1>1, <1>2, <1>3 DEF IsJob, Begun

\* One more key of a job is resolved.
OneMore(j) ==
  [j EXCEPT !.pc = "working", !.calls = Tail(j.calls),
            !.resolved = Put(j.resolved, Head(j.calls), pkhAddress(Head(j.calls)))]

LEMMA OneMoreIsJob ==
  ASSUME NEW j, IsJob(j), j.pc \in {"working", "asking"}, j.calls # << >>,
         Head(j.calls) \in Derivable,
         NEW r, r = OneMore(j)
  PROVE  IsJob(r)
<1> DEFINE key == Head(j.calls)
           rest == Tail(j.calls)
           map == Put(j.resolved, key, pkhAddress(key))
<1>1. /\ r = [pc |-> "working", item |-> j.item, sound |-> j.sound, calls |-> rest,
              resolved |-> map, txs |-> j.txs]
  <2>1. j = [pc |-> j.pc, item |-> j.item, sound |-> j.sound, calls |-> j.calls,
             resolved |-> j.resolved, txs |-> j.txs]
    BY DEF IsJob
  <2> HIDE DEF map, rest
  <2>2. r = [j EXCEPT !.pc = "working", !.calls = rest, !.resolved = map]
    BY DEF map, rest, OneMore
  <2>3. QED
    BY <2>1, <2>2
<1> HIDE DEF map, rest
<1>2. /\ r = [pc |-> r.pc, item |-> r.item, sound |-> r.sound, calls |-> r.calls,
              resolved |-> r.resolved, txs |-> r.txs]
      /\ r.pc = "working" /\ r.item = j.item /\ r.sound = j.sound /\ r.calls = rest
      /\ r.resolved = map /\ r.txs = j.txs
  BY <1>1, JobFields
<1>3. ASSUME r.sound PROVE \E s \in Starts : Continues(r, s)
  <2>1. PICK s \in Starts : Continues(j, s)
    BY <1>2, <1>3 DEF IsJob
  <2>2. /\ s.sound /\ j.item = s.item /\ j.txs = s.txs /\ IsList(j.calls)
        /\ \A x \in Range(s.calls) : x \in Range(j.calls) \/ x \in DOMAIN j.resolved
        /\ \A x \in DOMAIN j.resolved : x \in Derivable /\ j.resolved[x] = pkhAddress(x)
    BY <2>1 DEF Continues
  <2>3. /\ IsList(rest)
        /\ \A x \in Range(j.calls) : x = key \/ x \in Range(rest)
    BY <2>2, TailKeeps DEF rest
  <2>0. key \in Derivable
    OBVIOUS
  <2> HIDE DEF key
  <2>4. /\ DOMAIN map = DOMAIN j.resolved \cup {key}
        /\ \A x \in DOMAIN map : x \in Derivable /\ map[x] = pkhAddress(x)
    BY <2>0, <2>2 DEF map, Put
  <2>5. Continues(r, s)
    BY <1>2, <2>2, <2>3, <2>4 DEF Continues
  <2>6. QED
    BY <2>5
<1>4. QED
  BY <1>2, <1>3 DEF IsJob

LEMMA FinishedIsJob ==
  ASSUME NEW j, IsJob(j), j.pc = "working", j.calls = << >>, j.sound,
         NEW r, r = [j EXCEPT !.pc = "done", !.txs = Owned(j.txs, j.resolved)]
  PROVE  IsJob(r)
<1> DEFINE txs == Owned(j.txs, j.resolved)
<1>1. PICK s \in Starts : Continues(j, s)
  BY DEF IsJob
<1>2. Begun(s)
  BY StartsBegin
<1>3. KeysAsked(s) /\ Range(j.calls) = {}
  BY <1>1, <1>2 DEF Begun, Continues, Range
<1>4. txs = Alone(s)
  <2>1. /\ j.txs = s.txs
        /\ \A key \in Range(s.calls) : key \in DOMAIN j.resolved
        /\ \A key \in DOMAIN j.resolved : j.resolved[key] = pkhAddress(key)
    BY <1>1, <1>3 DEF Continues
  <2>2. QED
    BY <1>3, <2>1, OwnedAlone
<1>9. Range(s.calls) \subseteq Derivable
  BY <1>1, <1>3 DEF Continues
<1>5. j = [pc |-> j.pc, item |-> j.item, sound |-> j.sound, calls |-> j.calls,
           resolved |-> j.resolved, txs |-> j.txs]
  BY DEF IsJob
<1> HIDE DEF txs
<1>6. /\ r = [pc |-> r.pc, item |-> r.item, sound |-> r.sound, calls |-> r.calls,
              resolved |-> r.resolved, txs |-> r.txs]
      /\ r.pc = "done" /\ r.item = j.item /\ r.sound = j.sound /\ r.txs = txs
  BY <1>5 DEF txs
<1>7. Continues(r, s)
  BY <1>1, <1>4, <1>6, <1>9 DEF Continues
<1>8. QED
  BY <1>6, <1>7 DEF IsJob

\* One caller changes its job, and the cache keeps what Core derives.
LEMMA CallerStep ==
  ASSUME DecoderInv, NEW c \in Caller, NEW j, IsJob(j), job' = [job EXCEPT ![c] = j],
         \A key \in DOMAIN cache' : key \in Derivable /\ cache'[key] = pkhAddress(key)
  PROVE  DecoderInv'
<1>1. job' = [d \in Caller |-> job'[d]] /\ \A d \in Caller : job'[d] = j \/ job'[d] = job[d]
  BY DEF DecoderInv
<1>2. \A d \in Caller : IsJob(job'[d])
  BY <1>1 DEF DecoderInv
<1>3. QED
  BY <1>1, <1>2 DEF DecoderInv, IsJob, Continues

LEMMA DecoderStep == DecoderInv /\ [DecoderNext]_decoderVars => DecoderInv'
<1> SUFFICES ASSUME DecoderInv, [DecoderNext]_decoderVars PROVE DecoderInv'
  OBVIOUS
<1>0. /\ \A key \in DOMAIN cache : key \in Derivable /\ cache[key] = pkhAddress(key)
      /\ job = [c \in Caller |-> job[c]]
      /\ \A c \in Caller : IsJob(job[c])
  BY DEF DecoderInv
<1>1. ASSUME UNCHANGED decoderVars PROVE DecoderInv'
  <2>1. cache' = cache /\ job' = job
    BY <1>1 DEF decoderVars
  <2>2. QED
    BY <1>0, <2>1 DEF DecoderInv, IsJob, Continues
<1>2. ASSUME NEW c \in Caller, Take(c) PROVE DecoderInv'
  BY <1>0, <1>2, StartIsJob, CallerStep DEF Take
<1>3. ASSUME NEW c \in Caller, Retry(c) PROVE DecoderInv'
  BY <1>0, <1>3, StartIsJob, CallerStep DEF Retry, AskAgain
<1>4. ASSUME NEW c \in Caller, Fail(c) PROVE DecoderInv'
  <2>1. IsJob(NoJob) /\ IsJob(Failed(c))
    BY QuietJobs
  <2>2. CASE c # Orchestrator
    BY <1>0, <1>4, <2>1, <2>2, CallerStep DEF Fail
  <2>3. CASE c = Orchestrator
    <3>1. cache' = << >> /\ job' = [d \in Caller |-> IF d = c THEN Failed(c) ELSE NoJob]
      BY <1>4, <2>3 DEF Fail
    <3>2. job' = [d \in Caller |-> job'[d]] /\ \A d \in Caller : IsJob(job'[d])
      BY <2>1, <3>1
    <3>3. \A key \in DOMAIN cache' : key \in Derivable /\ cache'[key] = pkhAddress(key)
      BY <3>1
    <3>4. QED
      BY <3>2, <3>3 DEF DecoderInv, IsJob, Continues
  <2>4. QED
    BY <2>2, <2>3
<1>5. ASSUME NEW c \in Caller, job[c].pc \in {"working", "asking"}, job[c].calls # << >>,
             Resolves(c, pkhAddress(Head(job[c].calls))), Head(job[c].calls) \in Derivable,
             \A key \in DOMAIN cache' : key \in Derivable /\ cache'[key] = pkhAddress(key)
      PROVE  DecoderInv'
  <2> DEFINE j == job[c]
  <2>1. job' = [job EXCEPT ![c] = OneMore(j)]
    BY <1>0, <1>5 DEF Resolves, OneMore
  <2>2. IsJob(OneMore(j))
    BY <1>0, <1>5, OneMoreIsJob
  <2> HIDE DEF j
  <2>3. QED
    BY <1>5, <2>1, <2>2, CallerStep
<1>6. ASSUME NEW c \in Caller, LookUp(c) PROVE DecoderInv'
  <2> DEFINE j == job[c]
             key == Head(j.calls)
  <2>1. j.pc = "working" /\ j.calls # << >> /\ UNCHANGED cache
    BY <1>6 DEF LookUp
  <2>2. CASE key \in DOMAIN cache
    <3>1. Resolves(c, pkhAddress(key))
      BY <1>0, <1>6, <2>2 DEF LookUp
    <3>2. key \in Derivable
      BY <1>0, <2>2
    <3>3. QED
      BY <1>0, <1>5, <2>1, <3>1, <3>2
  <2>3. CASE key \notin DOMAIN cache
    <3> DEFINE r == [j EXCEPT !.pc = "asking"]
    <3>1. job' = [job EXCEPT ![c] = r]
      BY <1>0, <1>6, <2>3 DEF LookUp
    <3>2. IsJob(j)
      BY <1>0
    <3> HIDE DEF j, key
    <3>3. /\ r = [pc |-> r.pc, item |-> r.item, sound |-> r.sound, calls |-> r.calls,
                  resolved |-> r.resolved, txs |-> r.txs]
          /\ r.pc = "asking" /\ r.item = j.item /\ r.sound = j.sound /\ r.calls = j.calls
          /\ r.resolved = j.resolved /\ r.txs = j.txs
      BY <3>2 DEF IsJob
    <3> HIDE DEF r
    <3>4. ASSUME NEW s \in Starts, Continues(j, s) PROVE Continues(r, s)
      BY <2>1, <3>3, <3>4 DEF Continues
    <3>5. IsJob(r)
      BY <3>2, <3>3, <3>4 DEF IsJob
    <3>6. QED
      BY <1>0, <2>1, <3>1, <3>5, CallerStep
  <2>4. QED
    BY <2>2, <2>3
<1>7. ASSUME NEW c \in Caller, CoreDerives(c) PROVE DecoderInv'
  <2> DEFINE j == job[c]
             key == Head(j.calls)
  <2>1. /\ j.pc = "asking" /\ key \in Derivable /\ cache' = Put(cache, key, pkhAddress(key))
        /\ Resolves(c, pkhAddress(key))
    BY <1>7 DEF CoreDerives, Memoize
  <2>2. \A k \in DOMAIN cache' : k \in Derivable /\ cache'[k] = pkhAddress(k)
    <3> HIDE DEF key
    <3>1. QED
      BY <1>0, <2>1 DEF Put
  <2>3. CASE j.calls # << >>
    BY <1>5, <2>1, <2>2, <2>3
  <2>4. CASE j.calls = << >>
    <3>1. IsJob(j) /\ ~j.sound
      BY <1>0, <2>1, <2>4 DEF IsJob, Continues
    <3> DEFINE r == [j EXCEPT !.pc = "working", !.calls = Tail(j.calls),
                              !.resolved = Put(j.resolved, key, pkhAddress(key))]
    <3>2. job' = [job EXCEPT ![c] = r]
      BY <1>0, <2>1 DEF Resolves
    <3> DEFINE rest == Tail(j.calls)
               map == Put(j.resolved, key, pkhAddress(key))
    <3> HIDE DEF j, key, rest, map
    <3>3. r = [j EXCEPT !.pc = "working", !.calls = rest, !.resolved = map]
      BY DEF rest, map
    <3> HIDE DEF r
    <3>4. IsJob(r)
      BY <3>1, <3>3 DEF IsJob
    <3>5. QED
      BY <2>2, <3>2, <3>4, CallerStep
  <2>5. QED
    BY <2>3, <2>4
<1>8. ASSUME NEW c \in Caller, Finish(c) PROVE DecoderInv'
  <2> DEFINE j == job[c]
             r == [j EXCEPT !.pc = "done", !.txs = Owned(j.txs, j.resolved)]
  <2>1. /\ j.pc = "working" /\ j.calls = << >> /\ j.sound /\ UNCHANGED cache
        /\ job' = [job EXCEPT ![c] = r]
    BY <1>0, <1>8 DEF Finish
  <2>2. IsJob(r)
    BY <1>0, <2>1, FinishedIsJob
  <2> HIDE DEF j, r
  <2>3. QED
    BY <1>0, <2>1, <2>2, CallerStep
<1>9. ASSUME NEW c \in Caller, HandOver(c) PROVE DecoderInv'
  BY <1>0, <1>9, QuietJobs, CallerStep DEF HandOver
<1>10. QED
  BY <1>1, <1>2, <1>3, <1>4, <1>6, <1>7, <1>8, <1>9 DEF DecoderNext, Reject, CoreFails

LEMMA DecoderInvHolds == DecoderSpec => []DecoderInv
<1>1. DecoderInit => DecoderInv
  <2> SUFFICES ASSUME DecoderInit PROVE DecoderInv
    OBVIOUS
  <2>1. job = [c \in Caller |-> job[c]] /\ \A c \in Caller : job[c] = NoJob
    BY DEF DecoderInit
  <2>2. \A key \in DOMAIN cache : key \in Derivable /\ cache[key] = pkhAddress(key)
    BY DEF DecoderInit
  <2>3. QED
    BY <2>1, <2>2, QuietJobs DEF DecoderInv
<1>2. QED
  BY <1>1, DecoderStep, PTL DEF DecoderSpec

\* What was decoded in full is what its answer comes to when it is decoded
\* alone: no other caller, no earlier failure and nothing the shared cache of
\* CoreAddressResolver holds or lacks makes a difference to it.
AsIfAlone ==
  \A c \in Caller : job[c].pc = "done" =>
    \E s \in Starts : s.sound /\ s.item = job[c].item /\ job[c].txs = Alone(s)

\* Two goroutines that decode at the same time, fail, retry and share one
\* resolver decode what each would decode alone.
THEOREM DecodingAlone == DecoderSpec => []AsIfAlone
<1>1. DecoderInv => AsIfAlone
  BY DEF DecoderInv, IsJob, Continues, AsIfAlone
<1>2. QED
  BY <1>1, DecoderInvHolds, PTL

LEMMA AloneShape ==
  ASSUME NEW s, Begun(s), s.sound, NEW i \in DOMAIN Alone(s), NEW t, t = Alone(s)[i]
  PROVE  /\ t.inputs # << >> /\ t.outputs # << >>
         /\ t.isCoinbase <=> t.inputs = <<"coinbase">>
         /\ \A k \in DOMAIN t.inputs : t.inputs[k] = "coinbase" => t.isCoinbase
         /\ i \in DOMAIN s.txs /\ DOMAIN t.outputs = DOMAIN s.txs[i].outputs
         /\ \A k \in DOMAIN t.outputs :
              /\ t.outputs[k].index = k - 1
              /\ t.outputs[k].pubKeys = s.txs[i].outputs[k].pubKeys
              /\ t.outputs[k].type = "multisig" =>
                    Len(t.outputs[k].participants) = Len(t.outputs[k].pubKeys)
<1> DEFINE tx == s.txs[i]
           d == Derived(s)
           outs == [k \in DOMAIN tx.outputs |-> WithOwners(tx.outputs[k], d)]
<1>1. i \in DOMAIN s.txs /\ t = [tx EXCEPT !.outputs = outs]
  BY DEF Alone, Owned
<1>2. TxWhole(tx)
  BY <1>1 DEF Begun
<1> HIDE DEF d
<1>3. DOMAIN outs = DOMAIN tx.outputs /\ \A k \in DOMAIN outs : outs[k] = WithOwners(tx.outputs[k], d)
  OBVIOUS
<1> HIDE DEF tx, outs
<1>4. t.isCoinbase = tx.isCoinbase /\ t.inputs = tx.inputs /\ t.outputs = outs
  BY <1>1, <1>2 DEF TxWhole
<1>5. outs # << >>
  BY <1>2, <1>3 DEF TxWhole
<1>6. ASSUME NEW k \in DOMAIN outs
      PROVE  /\ outs[k].index = k - 1
             /\ outs[k].pubKeys = tx.outputs[k].pubKeys
             /\ outs[k].type = "multisig" => Len(outs[k].participants) = Len(outs[k].pubKeys)
  <2> DEFINE o == tx.outputs[k]
             of == [h \in DOMAIN o.pubKeys |-> d[o.pubKeys[h]]]
  <2>1. /\ o = [index |-> k - 1, value |-> o.value, script |-> o.script, type |-> o.type,
                pubKeys |-> o.pubKeys, participants |-> << >>, address |-> o.address]
        /\ IsList(o.pubKeys)
    BY <1>2, <1>3 DEF TxWhole
  <2>2. outs[k] = CASE o.type = "p2pk" -> [o EXCEPT !.address = of[1]]
                    [] o.type = "multisig" -> [o EXCEPT !.participants = of]
                    [] OTHER -> o
    BY <1>3 DEF WithOwners
  <2>3. of = [h \in DOMAIN o.pubKeys |-> of[h]]
    OBVIOUS
  <2> HIDE DEF o, of
  <2>4. Len(of) = Len(o.pubKeys)
    BY <2>1, <2>3, ListMap
  <2>5. QED
    BY <2>1, <2>2, <2>4 DEF o
<1>7. QED
  BY <1>1, <1>2, <1>3, <1>4, <1>5, <1>6 DEF TxWhole, tx

\* From Core's answer or one that Damaged makes of it, and whatever scripts it
\* holds, a transaction that DecodeTransaction returns has the shape validateBlockShape
\* and applyOutput demand.
THEOREM DecodedFitsStore == DecoderSpec => []StoreShape
<1>1. DecoderInv => StoreShape
  <2> SUFFICES ASSUME DecoderInv PROVE StoreShape
    OBVIOUS
  <2>1. ASSUME NEW c \in Caller, job[c].pc = "done", NEW i \in DOMAIN job[c].txs
        PROVE  LET tx == job[c].txs[i]
               IN  /\ tx.inputs # << >> /\ tx.outputs # << >>
                   /\ tx.isCoinbase <=> tx.inputs = <<"coinbase">>
                   /\ \A k \in DOMAIN tx.inputs : tx.inputs[k] = "coinbase" => tx.isCoinbase
                   /\ \A k \in DOMAIN tx.outputs :
                        /\ tx.outputs[k].index = k - 1
                        /\ tx.outputs[k].type = "multisig" =>
                             Len(tx.outputs[k].participants) = Len(tx.outputs[k].pubKeys)
    <3>1. PICK s \in Starts : s.sound /\ job[c].txs = Alone(s)
      BY <2>1 DEF DecoderInv, IsJob, Continues
    <3>2. Begun(s)
      BY StartsBegin
    <3>3. QED
      BY <2>1, <3>1, <3>2, AloneShape
  <2>2. QED
    BY <2>1 DEF StoreShape
<1>2. QED
  BY <1>1, DecoderInvHolds, PTL

\* Whoever derived it, and whatever failed before, each owner that a decoded
\* transaction names by key is one Core derives an address for: an output with a
\* key that has none is refused as a whole.
THEOREM NoOwnerMadeUp == DecoderSpec => []OwnersDerived
<1>1. DecoderInv => OwnersDerived
  <2> SUFFICES ASSUME DecoderInv PROVE OwnersDerived
    OBVIOUS
  <2>1. ASSUME NEW c \in Caller, job[c].pc = "done",
               NEW i \in DOMAIN job[c].txs, NEW k \in DOMAIN job[c].txs[i].outputs
        PROVE  Range(job[c].txs[i].outputs[k].pubKeys) \subseteq Derivable
    <3>1. PICK s \in Starts : s.sound /\ job[c].txs = Alone(s) /\ Range(s.calls) \subseteq Derivable
      BY <2>1 DEF DecoderInv, IsJob, Continues
    <3>2. Begun(s)
      BY StartsBegin
    <3> DEFINE t == job[c].txs[i]
               keys == t.outputs[k].pubKeys
    <3>3. i \in DOMAIN s.txs /\ k \in DOMAIN s.txs[i].outputs /\ keys = s.txs[i].outputs[k].pubKeys
      BY <2>1, <3>1, <3>2, AloneShape
    <3>4. \A h \in DOMAIN keys : keys[h] \in Range(s.calls)
      BY <3>1, <3>2, <3>3 DEF Begun, KeysAsked
    <3> HIDE DEF keys
    <3>5. Range(keys) \subseteq Derivable
      BY <3>1, <3>4 DEF Range
    <3>6. QED
      BY <3>5 DEF keys
  <2>2. ASSUME NEW c \in Caller, job[c].pc = "done" PROVE KeysOf(job[c].txs) \subseteq Derivable
    <3> DEFINE txs == job[c].txs
    <3>1. \A i \in DOMAIN txs : \A k \in DOMAIN txs[i].outputs : Range(txs[i].outputs[k].pubKeys) \subseteq Derivable
      BY <2>1, <2>2
    <3> HIDE DEF txs
    <3>2. ASSUME NEW tx \in Range(txs), NEW out \in Range(tx.outputs)
          PROVE  Range(out.pubKeys) \subseteq Derivable
      <4>1. PICK i \in DOMAIN txs : tx = txs[i]
        BY DEF Range
      <4>2. PICK k \in DOMAIN tx.outputs : out = tx.outputs[k]
        BY DEF Range
      <4>3. QED
        BY <3>1, <4>1, <4>2
    <3>3. KeysOf(txs) \subseteq Derivable
      BY <3>2 DEF KeysOf
    <3>4. QED
      BY <3>3 DEF txs
  <2>3. QED
    BY <2>2 DEF OwnersDerived
<1>2. QED
  BY <1>1, DecoderInvHolds, PTL

-----------------------------------------------------------------------------
(* The elements of a script                                                *)

LEMMA OctetNat == \A x \in Octet : x \in Nat /\ x <= 255
BY DEF Octet

LEMMA OperandLength ==
  ASSUME NEW s \in Seq(Octet), NEW from \in 1..Len(s), NEW width \in {1, 2, 4},
         from + width <= Len(s) + 1
  PROVE  LittleEndian(s, from, width) \in Nat
<1> DEFINE b0 == IF 0 < width THEN s[from + 0] ELSE 0
           b1 == IF 1 < width THEN s[from + 1] ELSE 0
           b2 == IF 2 < width THEN s[from + 2] ELSE 0
           b3 == IF 3 < width THEN s[from + 3] ELSE 0
<1>1. \A k \in 0..3 : k < width => from + k \in 1..Len(s)
  OBVIOUS
<1>2. \A k \in 1..Len(s) : s[k] \in Nat
  <2>1. \A k \in 1..Len(s) : s[k] \in Octet
    OBVIOUS
  <2>2. QED
    BY <2>1, OctetNat
<1>3. b0 \in Nat /\ b1 \in Nat /\ b2 \in Nat /\ b3 \in Nat
  BY <1>1, <1>2
<1>4. LittleEndian(s, from, width) = b0 + 256 * (b1 + 256 * (b2 + 256 * b3))
  BY DEF LittleEndian
<1> HIDE DEF b0, b1, b2, b3
<1>5. QED
  BY <1>3, <1>4

\* An element starts with its opcode and ends within the script.
LEMMA NextToken ==
  ASSUME NEW s \in Seq(Octet), NEW i \in 1..Len(s), NEW t, t = nextToken(s, i), t # NoToken
  PROVE  /\ t \in [opcode : Octet, data : Seq(Octet), next : (i + 1)..(Len(s) + 1)]
         /\ t.opcode = s[i]
<1> DEFINE op == s[i]
           w == LengthWidth(op)
           body == i + 1 + w
           n == IF w = 0 THEN op ELSE LittleEndian(s, i + 1, w)
           data == SubSeq(s, body, body + n - 1)
<1>1. op \in Octet /\ Len(s) \in Nat /\ w \in {0, 1, 2, 4} /\ body \in Nat
  BY OctetNat DEF LengthWidth
<1>2. t = IF ~HasOperand(op) THEN [opcode |-> op, data |-> << >>, next |-> i + 1]
          ELSE IF body > Len(s) + 1 \/ body + n > Len(s) + 1 THEN NoToken
          ELSE [opcode |-> op, data |-> data, next |-> body + n]
  BY DEF nextToken
<1>3. CASE ~HasOperand(op)
  BY <1>1, <1>2, <1>3
<1>4. CASE HasOperand(op)
  <2>1. body <= Len(s) + 1 /\ ~(body + n > Len(s) + 1)
        /\ t = [opcode |-> op, data |-> data, next |-> body + n]
    BY <1>1, <1>2, <1>4
  <2>2. n \in Nat
    <3>1. CASE w = 0
      <4>1. n = op
        BY <3>1
      <4> HIDE DEF n, op
      <4>2. QED
        BY <1>1, <4>1, OctetNat
    <3>2. CASE w # 0
      <4>1. i + 1 \in 1..Len(s) /\ (i + 1) + w <= Len(s) + 1 /\ w \in {1, 2, 4}
        BY <1>1, <2>1, <3>2
      <4> HIDE DEF w
      <4>2. QED
        BY <3>2, <4>1, OperandLength
    <3>3. QED
      BY <3>1, <3>2
  <2> HIDE DEF n, w
  <2>3. data \in Seq(Octet)
    <3>1. \A k \in body..(body + n - 1) : k \in 1..Len(s)
      BY <1>1, <2>1, <2>2
    <3>2. QED
      BY <1>1, <2>2, <3>1
  <2>4. body + n \in (i + 1)..(Len(s) + 1)
    BY <1>1, <2>1, <2>2 
  <2> HIDE DEF data, body, op
  <2>5. QED
    BY <1>1, <2>1, <2>3, <2>4 DEF op
<1>5. QED
  BY <1>3, <1>4

\* g has the elements from each of the last m positions of s on, and from its end.
Run(g, s, m) ==
  g = [i \in (Len(s) + 1 - m)..(Len(s) + 1) |->
         LET t == nextToken(s, i)
         IN  IF i = Len(s) + 1 THEN << >> ELSE IF t = NoToken THEN <<t>> ELSE <<t>> \o g[t.next]]

LEMMA RunExists ==
  ASSUME NEW s \in Seq(Octet)
  PROVE  \E g : Run(g, s, Len(s))
<1> DEFINE L == Len(s)
           Bad == {m \in 0..L : ~ \E g : Run(g, s, m)}
<1>0. L \in Nat /\ L \in 0..L
  OBVIOUS
<1> SUFFICES ASSUME Bad # {} PROVE FALSE
  BY <1>0
<1>1. PICK m \in Bad : \A k \in Bad : m <= k
  <2>1. Bad \subseteq Nat
    OBVIOUS
  <2> HIDE DEF Bad
  <2>2. QED
    BY <2>1, Least
<1>2. m \in 0..L /\ ~ \E g : Run(g, s, m)
  OBVIOUS
<1> HIDE DEF L
<1>3. CASE m = 0
  <2> DEFINE h == [i \in (L + 1)..(L + 1) |-> << >>]
  <2>1. \A i \in (L + 1 - 0)..(L + 1) : i = L + 1
    BY <1>0
  <2>2. Run(h, s, 0)
    BY <1>0, <2>1 DEF Run, L
  <2>3. QED
    BY <1>2, <1>3, <2>2
<1>4. CASE m # 0
  <2> DEFINE p == L + 1 - m
  <2>1. m - 1 \in 0..L /\ m - 1 \notin Bad /\ L + 1 - (m - 1) = p + 1 /\ p \in 1..L
    BY <1>0, <1>1, <1>2, <1>4
  <2>2. PICK g : Run(g, s, m - 1)
    BY <2>1 DEF L
  <2> DEFINE t == nextToken(s, p)
             first == IF t = NoToken THEN <<t>> ELSE <<t>> \o g[t.next]
             h == [i \in p..(L + 1) |-> IF i = p THEN first ELSE g[i]]
  <2> HIDE DEF p
  <2>3. ASSUME NEW i \in p..(L + 1)
        PROVE  h[i] = LET u == nextToken(s, i)
                      IN  IF i = L + 1 THEN << >>
                          ELSE IF u = NoToken THEN <<u>> ELSE <<u>> \o h[u.next]
    <3>1. CASE i = p
      <4>1. t # NoToken => t.next \in p..(L + 1) /\ t.next # p
        BY <1>0, <2>1, NextToken DEF L
      <4>2. t # NoToken => h[t.next] = g[t.next]
        BY <4>1
      <4>3. i # L + 1
        BY <1>0, <2>1, <3>1
      <4> HIDE DEF t
      <4>4. h[i] = first
        BY <3>1
      <4>5. QED
        BY <3>1, <4>2, <4>3, <4>4 DEF t
    <3>2. CASE i # p
      <4> DEFINE u == nextToken(s, i)
      <4>1. i \in (p + 1)..(L + 1)
        BY <1>0, <2>1, <3>2
      <4>2. g[i] = IF i = L + 1 THEN << >> ELSE IF u = NoToken THEN <<u>> ELSE <<u>> \o g[u.next]
        BY <2>1, <2>2, <4>1 DEF Run, L
      <4>3. i # L + 1 /\ u # NoToken => u.next \in p..(L + 1) /\ u.next # p
        <5> HAVE i # L + 1 /\ u # NoToken
        <5>1. i \in 1..L
          BY <1>0, <2>1, <4>1
        <5>2. u.next \in (i + 1)..(L + 1)
          BY <5>1, NextToken DEF L
        <5>3. QED
          BY <1>0, <2>1, <4>1, <5>2
      <4> HIDE DEF u
      <4>4. i # L + 1 /\ u # NoToken => h[u.next] = g[u.next]
        BY <4>3
      <4>5. h[i] = g[i]
        BY <3>2
      <4>6. QED
        BY <4>2, <4>4, <4>5 DEF u
    <3>3. QED
      BY <3>1, <3>2
  <2>4. Run(h, s, m)
    <3>1. h = [i \in p..(L + 1) |-> h[i]]
      OBVIOUS
    <3> HIDE DEF h
    <3>2. QED
      BY <2>3, <3>1 DEF Run, p, L
  <2>5. QED
    BY <1>2, <2>4
<1>5. QED
  BY <1>3, <1>4

\* Tokens is the value of such a function at the first byte.
LEMMA TokensAre ==
  ASSUME NEW s \in Seq(Octet)
  PROVE  \E g : /\ Tokens(s) = g[1]
                /\ g[Len(s) + 1] = << >>
                /\ \A i \in 1..Len(s) :
                     g[i] = IF nextToken(s, i) = NoToken THEN <<NoToken>>
                            ELSE <<nextToken(s, i)>> \o g[nextToken(s, i).next]
<1> DEFINE L == Len(s)
           g == CHOOSE g : g = [i \in 1..(L + 1) |->
                  LET t == nextToken(s, i)
                  IN  IF i = L + 1 THEN << >> ELSE IF t = NoToken THEN <<t>> ELSE <<t>> \o g[t.next]]
<1>1. Tokens(s) = g[1]
  BY DEF Tokens
<1>2. L \in Nat /\ L + 1 - L = 1
  OBVIOUS
<1>3. g = [i \in 1..(L + 1) |->
             LET t == nextToken(s, i)
             IN  IF i = L + 1 THEN << >> ELSE IF t = NoToken THEN <<t>> ELSE <<t>> \o g[t.next]]
  BY <1>2, RunExists DEF Run
<1> HIDE DEF g
<1>4. L + 1 \in 1..(L + 1) /\ \A i \in 1..L : i \in 1..(L + 1) /\ i # L + 1
  BY <1>2
<1>5. g[L + 1] = << >>
  BY <1>3, <1>4
<1>6. ASSUME NEW i \in 1..L
      PROVE  g[i] = IF nextToken(s, i) = NoToken THEN <<NoToken>>
                    ELSE <<nextToken(s, i)>> \o g[nextToken(s, i).next]
  BY <1>3, <1>4
<1>7. QED
  BY <1>1, <1>5, <1>6
-----------------------------------------------------------------------------
(* Where each list begins in the flattened one                             *)

LEMMA JoinAt ==
  ASSUME NEW S, NEW a \in Seq(S), NEW b \in Seq(S), NEW r, r = a \o b
  PROVE  /\ r \in Seq(S) /\ Len(r) = Len(a) + Len(b)
         /\ \A j \in 1..Len(a) : r[j] = a[j]
         /\ \A k \in 1..Len(b) : r[Len(a) + k] = b[k]
<1>1. Len(a) \in Nat /\ Len(b) \in Nat
  OBVIOUS
<1>2. /\ r \in Seq(S) /\ Len(r) = Len(a) + Len(b)
      /\ \A i \in 1 .. Len(a) + Len(b) : r[i] = IF i <= Len(a) THEN a[i] ELSE b[i - Len(a)]
  BY ConcatProperties, Zenon
<1>3. ASSUME NEW j \in 1..Len(a) PROVE r[j] = a[j]
  BY <1>1, <1>2
<1>4. ASSUME NEW k \in 1..Len(b) PROVE r[Len(a) + k] = b[k]
  <2>1. Len(a) + k \in 1 .. Len(a) + Len(b) /\ ~(Len(a) + k <= Len(a)) /\ (Len(a) + k) - Len(a) = k
    BY <1>1
  <2>2. QED
    BY <1>2, <2>1
<1>5. QED
  BY <1>2, <1>3, <1>4

LEMMA JoinThree ==
  ASSUME NEW S, NEW x \in S, NEW a \in Seq(S), NEW b \in Seq(S)
  PROVE  LET r == <<x>> \o a \o b
         IN  /\ r \in Seq(S) /\ Len(r) = 1 + Len(a) + Len(b) /\ r[1] = x
             /\ \A k \in 1..Len(a) : r[1 + k] = a[k]
             /\ \A k \in 1..Len(b) : r[1 + Len(a) + k] = b[k]
             /\ Len(a) \in Nat /\ Len(b) \in Nat
<1> DEFINE h == <<x>> \o a
           r == h \o b
<1>1. /\ h \in Seq(S) /\ Len(h) = Len(a) + 1 /\ h[1] = x
      /\ \A k \in 1..Len(a) : h[k + 1] = a[k]
  BY ListCons
<1>2. Len(a) \in Nat /\ Len(b) \in Nat
  OBVIOUS
<1>8. h \in Seq(S) /\ b \in Seq(S) /\ r = h \o b
  BY <1>1
<1> HIDE DEF h, r
<1>3. /\ r \in Seq(S) /\ Len(r) = Len(h) + Len(b)
      /\ \A j \in 1..Len(h) : r[j] = h[j]
      /\ \A k \in 1..Len(b) : r[Len(h) + k] = b[k]
  BY <1>8, JoinAt
<1>4. ASSUME NEW k \in 1..Len(a) PROVE r[1 + k] = a[k]
  <2>1. k + 1 \in 1..Len(h) /\ 1 + k = k + 1
    BY <1>1, <1>2
  <2>2. QED
    BY <1>1, <1>3, <2>1
<1>5. r[1] = x
  <2>1. 1 \in 1..Len(h)
    BY <1>1, <1>2
  <2>2. QED
    BY <1>1, <1>3, <2>1
<1>6. Len(h) = 1 + Len(a)
  BY <1>1, <1>2
<1>7. QED
  BY <1>2, <1>3, <1>4, <1>5, <1>6 DEF r, h

\* off[i] entries come in front of the i-th list.
Laid(off, s, flat) ==
  /\ off[1] = 0 /\ off[Len(s) + 1] = Len(flat)
  /\ \A i \in 1..Len(s) : off[i] \in Nat /\ off[i + 1] = off[i] + Len(s[i])
  /\ \A i \in 1..Len(s) : \A k \in 1..Len(s[i]) : flat[off[i] + k] = s[i][k]

LEMMA FlatLaid ==
  ASSUME NEW S, NEW s \in Seq(Seq(S))
  PROVE  \E off : Laid(off, s, FlattenSeq(s))
<1>1. CASE Len(s) = 0
  <2> DEFINE off == [i \in 1..1 |-> 0]
  <2>1. FlattenSeq(s) = s
    BY <1>1 DEF FlattenSeq
  <2>2. Laid(off, s, s)
    BY <1>1 DEF Laid
  <2>3. QED
    BY <2>1, <2>2
<1>2. CASE Len(s) # 0
  <2> DEFINE n == Len(s)
             g == CHOOSE g : Flat(g, s, n)
  <2>1. n \in Nat \ {0} /\ DOMAIN s = 1..n /\ \A i \in 1..n : s[i] \in Seq(S)
    BY <1>2
  <2>2. Flat(g, s, n)
    BY <2>1, FlatExists
  <2>3. FlattenSeq(s) = g[n]
    BY <1>2 DEF FlattenSeq, Flat
  <2> HIDE DEF g, n
  <2>4. /\ g[1] = s[1]
        /\ \A i \in 2..n : i - 1 \in 1..n /\ g[i] = g[i - 1] \o s[i]
    <3>1. ASSUME NEW i \in 1..n PROVE g[i] = IF i = 1 THEN s[i] ELSE g[i - 1] \o s[i]
      BY <2>2 DEF Flat
    <3>2. 1 \in 1..n /\ \A i \in 2..n : i \in 1..n /\ i # 1 /\ i - 1 \in 1..n
      BY <2>1
    <3>3. QED
      BY <3>1, <3>2
  <2> DEFINE off == [i \in 1..(n + 1) |-> IF i = 1 THEN 0 ELSE Len(g[i - 1])]
  <2>5. off[1] = 0 /\ \A i \in 1..n : off[i + 1] = Len(g[i])
    <3>1. 1 \in 1..(n + 1) /\ \A i \in 1..n : i + 1 \in 1..(n + 1) /\ i + 1 # 1 /\ (i + 1) - 1 = i
      BY <2>1
    <3>2. QED
      BY <3>1
  <2> HIDE DEF off
  <2> DEFINE Holds(i) == /\ g[i] \in Seq(S)
                         /\ \A h \in 1..i :
                              /\ off[h] \in Nat /\ off[h + 1] = off[h] + Len(s[h])
                              /\ off[h + 1] <= Len(g[i])
                              /\ \A k \in 1..Len(s[h]) : g[i][off[h] + k] = s[h][k]
             Bad == {i \in 1..n : ~Holds(i)}
  <2>6. ASSUME NEW i \in Bad, \A h \in Bad : i <= h PROVE FALSE
    <3>1. i \in 1..n /\ ~Holds(i)
      OBVIOUS
    <3>2. CASE i = 1
      <4>1. \A h \in 1..i : h = 1
        BY <3>2
      <4>2. g[1] \in Seq(S) /\ Len(s[1]) \in Nat /\ off[1] = 0 /\ off[1 + 1] = Len(s[1])
        BY <2>1, <2>4, <2>5
      <4>3. \A k \in 1..Len(s[1]) : off[1] + k = k
        BY <4>2
      <4>4. Holds(1)
        <5>1. \A h \in 1..1 : h = 1
          OBVIOUS
        <5>2. /\ off[1] \in Nat /\ off[1 + 1] = off[1] + Len(s[1])
              /\ off[1 + 1] <= Len(g[1])
              /\ \A k \in 1..Len(s[1]) : g[1][off[1] + k] = s[1][k]
          BY <2>4, <4>2, <4>3
        <5>3. QED
          BY <4>2, <5>1, <5>2
      <4>5. QED
        <5> HIDE DEF Holds
        <5>1. QED
          BY <3>1, <3>2, <4>4
    <3>3. CASE i # 1
      <4>1. i \in 2..n /\ i - 1 \in 1..n /\ i - 1 \notin Bad
        <5> HIDE DEF Bad
        <5>1. QED
          BY <2>1, <2>6, <3>1, <3>3
      <4>2. Holds(i - 1)
        <5> HIDE DEF Holds
        <5>1. QED
          BY <4>1
      <4> DEFINE a == g[i - 1]
                 b == s[i]
                 r == g[i]
      <4>3. a \in Seq(S) /\ b \in Seq(S) /\ r = a \o b
        BY <2>1, <2>4, <4>1, <4>2
      <4>4. \A h \in 1..(i - 1) :
              /\ off[h] \in Nat /\ off[h + 1] = off[h] + Len(s[h]) /\ off[h + 1] <= Len(a)
              /\ \A k \in 1..Len(s[h]) : a[off[h] + k] = s[h][k]
        BY <4>2
      <4>5. off[i] = Len(a) /\ off[i + 1] = Len(r)
        <5>1. i - 1 \in 1..n /\ (i - 1) + 1 = i
          BY <4>1
        <5>2. QED
          BY <2>5, <3>1, <5>1
      <4> HIDE DEF a, r
      <4>6. /\ r \in Seq(S) /\ Len(r) = Len(a) + Len(b)
            /\ \A j \in 1..Len(a) : r[j] = a[j]
            /\ \A k \in 1..Len(b) : r[Len(a) + k] = b[k]
        <5> HIDE DEF b
        <5>1. QED
          BY <4>3, JoinAt
      <4>7. Len(a) \in Nat /\ Len(b) \in Nat /\ \A h \in 1..n : Len(s[h]) \in Nat
        BY <2>1, <4>3
      <4>0. i \in Nat /\ n \in Nat /\ i <= n
        BY <2>1, <3>1
      <4> HIDE DEF Holds, Bad
      <4>8. ASSUME NEW h \in 1..i
            PROVE  /\ off[h] \in Nat /\ off[h + 1] = off[h] + Len(s[h]) /\ off[h + 1] <= Len(r)
                   /\ \A k \in 1..Len(s[h]) : r[off[h] + k] = s[h][k]
        <5>1. CASE h = i
          <6>1. /\ off[i] \in Nat /\ off[i + 1] = off[i] + Len(b) /\ off[i + 1] <= Len(r)
                /\ \A k \in 1..Len(b) : r[off[i] + k] = b[k]
            <7> HIDE DEF b
            <7>1. QED
              BY <4>5, <4>6, <4>7
          <6>2. QED
            BY <5>1, <6>1 DEF b
        <5>2. CASE h # i
          <6>1. h \in 1..(i - 1) /\ h \in 1..n
            BY <4>0, <5>2
          <6>2. /\ off[h] \in Nat /\ off[h + 1] = off[h] + Len(s[h]) /\ off[h + 1] <= Len(a)
                /\ \A k \in 1..Len(s[h]) : a[off[h] + k] = s[h][k]
            BY <4>4, <6>1
          <6> HIDE DEF b
          <6>3. \A k \in 1..Len(s[h]) : off[h] + k \in 1..Len(a)
            BY <4>7, <6>1, <6>2
          <6>4. \A k \in 1..Len(s[h]) : r[off[h] + k] = s[h][k]
            BY <4>6, <6>2, <6>3
          <6>5. off[h + 1] \in Nat
            BY <4>7, <6>1, <6>2
          <6>6. off[h + 1] <= Len(r)
            BY <4>6, <4>7, <6>2, <6>5
          <6>7. QED
            BY <6>2, <6>4, <6>6
        <5>3. QED
          BY <5>1, <5>2
      <4>9. Holds(i)
        BY <4>6, <4>8 DEF r, Holds
      <4>10. QED
        <5> HIDE DEF Holds
        <5>1. QED
          BY <3>1, <4>9
    <3>4. QED
      BY <3>2, <3>3
  <2>7. Holds(n)
    <3>1. Bad \subseteq Nat
      OBVIOUS
    <3>2. Bad = {}
      <4> HIDE DEF Bad
      <4>1. QED
        BY <2>6, <3>1, Least
    <3> HIDE DEF Holds
    <3>3. QED
      BY <2>1, <3>2
  <2>8. off[n + 1] = Len(g[n])
    BY <2>1, <2>5
  <2>9. Laid(off, s, g[n])
    BY <2>5, <2>7, <2>8 DEF Laid, n
  <2>10. QED
    BY <2>3, <2>9
<1>3. QED
  BY <1>1, <1>2
-----------------------------------------------------------------------------
(* A script element by element                                             *)

LEMMA WiderSet ==
  ASSUME NEW S, NEW T, \A x \in S : x \in T, NEW s \in Seq(S)
  PROVE  s \in Seq(T)
OBVIOUS

\* off[i] bytes come in front of the i-th element.
BytesLaid(off, script, s) ==
  /\ s \in Seq(Octet) /\ off[1] = 0 /\ off[Len(script) + 1] = Len(s)
  /\ \A i \in 1..Len(script) :
       /\ off[i] \in Nat
       /\ off[i + 1] = off[i] + 1 + Len(script[i].len) + Len(script[i].data)
       /\ s[off[i] + 1] = script[i].op
       /\ \A k \in 1..Len(script[i].len) : s[off[i] + 1 + k] = script[i].len[k]
       /\ \A k \in 1..Len(script[i].data) :
            s[off[i] + 1 + Len(script[i].len) + k] = script[i].data[k]

LEMMA BytesAreLaid ==
  ASSUME NEW script, Serialised(script)
  PROVE  \E off : BytesLaid(off, script, Bytes(script))
<1> DEFINE Enc(e) == <<e.op>> \o e.len \o e.data
           lists == [i \in DOMAIN script |-> <<script[i].op>> \o script[i].len \o script[i].data]
           n == Len(script)
           s == Bytes(script)
<1>1. n \in Nat /\ DOMAIN script = 1..n
  BY ListHas DEF Serialised
<1>2. ASSUME NEW i \in 1..n
      PROVE  /\ lists[i] \in Seq(Octet)
             /\ Len(lists[i]) = 1 + Len(script[i].len) + Len(script[i].data)
             /\ lists[i][1] = script[i].op
             /\ \A k \in 1..Len(script[i].len) : lists[i][1 + k] = script[i].len[k]
             /\ \A k \in 1..Len(script[i].data) :
                  lists[i][1 + Len(script[i].len) + k] = script[i].data[k]
             /\ Len(script[i].len) \in Nat /\ Len(script[i].data) \in Nat
  <2> DEFINE e == script[i]
             op == e.op
             len == e.len
             data == e.data
             all == <<op>> \o len \o data
  <2>1. op \in Octet /\ len \in Seq(Octet) /\ data \in Seq(Octet)
    BY DEF Serialised, Element
  <2>2. lists[i] = all
    BY <1>1
  <2> HIDE DEF lists, op, len, data
  <2>3. /\ all \in Seq(Octet) /\ Len(all) = 1 + Len(len) + Len(data) /\ all[1] = op
        /\ \A k \in 1..Len(len) : all[1 + k] = len[k]
        /\ \A k \in 1..Len(data) : all[1 + Len(len) + k] = data[k]
        /\ Len(len) \in Nat /\ Len(data) \in Nat
    BY <2>1, JoinThree
  <2> HIDE DEF all
  <2>4. QED
    BY <2>2, <2>3 DEF op, len, data
<1>3. lists \in Seq(Seq(Octet)) /\ Len(lists) = n
  <2>1. lists = [i \in 1..n |-> lists[i]] /\ \A i \in 1..n : lists[i] \in Seq(Octet)
    BY <1>1, <1>2
  <2> DEFINE T == Seq(Octet)
  <2> HIDE DEF lists, T, n
  <2>2. QED
    <3>1. lists \in Seq(T) /\ Len(lists) = n
      BY <1>1, <2>1 DEF T
    <3>2. QED
      BY <3>1 DEF T
<1>4. s = FlattenSeq(lists)
  BY DEF Bytes
<1> HIDE DEF s, lists
<1>5. PICK off : Laid(off, lists, s)
  BY <1>3, <1>4, FlatLaid
<1>6. s \in Seq(Octet)
  BY <1>3, <1>4, FlattenKeeps
<1>7. /\ off[1] = 0 /\ off[n + 1] = Len(s)
      /\ \A i \in 1..n : off[i] \in Nat /\ off[i + 1] = off[i] + Len(lists[i])
      /\ \A i \in 1..n : \A k \in 1..Len(lists[i]) : s[off[i] + k] = lists[i][k]
  BY <1>3, <1>5 DEF Laid
<1>8. ASSUME NEW i \in 1..n
      PROVE  /\ off[i] \in Nat
             /\ off[i + 1] = off[i] + 1 + Len(script[i].len) + Len(script[i].data)
             /\ s[off[i] + 1] = script[i].op
             /\ \A k \in 1..Len(script[i].len) : s[off[i] + 1 + k] = script[i].len[k]
             /\ \A k \in 1..Len(script[i].data) :
                  s[off[i] + 1 + Len(script[i].len) + k] = script[i].data[k]
  <2> DEFINE len == script[i].len
             data == script[i].data
             list == lists[i]
             o == off[i]
  <2>1. /\ o \in Nat /\ off[i + 1] = o + Len(list)
        /\ \A k \in 1..Len(list) : s[o + k] = list[k]
        /\ Len(list) = 1 + Len(len) + Len(data) /\ list[1] = script[i].op
        /\ \A k \in 1..Len(len) : list[1 + k] = len[k]
        /\ \A k \in 1..Len(data) : list[1 + Len(len) + k] = data[k]
        /\ Len(len) \in Nat /\ Len(data) \in Nat
    BY <1>2, <1>7
  <2> HIDE DEF len, data, list, o
  <2>2. off[i + 1] = o + 1 + Len(len) + Len(data)
    BY <2>1
  <2>3. s[o + 1] = script[i].op
    <3>1. 1 \in 1..Len(list)
      BY <2>1
    <3>2. QED
      BY <2>1, <3>1
  <2>4. ASSUME NEW k \in 1..Len(len) PROVE s[o + 1 + k] = len[k]
    <3>1. 1 + k \in 1..Len(list) /\ o + 1 + k = o + (1 + k)
      BY <2>1
    <3>2. QED
      BY <2>1, <3>1
  <2>5. ASSUME NEW k \in 1..Len(data) PROVE s[o + 1 + Len(len) + k] = data[k]
    <3>1. 1 + Len(len) + k \in 1..Len(list) /\ o + 1 + Len(len) + k = o + (1 + Len(len) + k)
      BY <2>1
    <3>2. QED
      BY <2>1, <3>1
  <2>6. QED
    BY <2>1, <2>2, <2>3, <2>4, <2>5 DEF len, data, o
<1>9. BytesLaid(off, script, s)
  BY <1>6, <1>7, <1>8 DEF BytesLaid
<1>10. QED
  BY <1>9 DEF s

LEMMA SliceIs ==
  ASSUME NEW S, NEW s \in Seq(S), NEW m \in 1..(Len(s) + 1), NEW n \in Nat, m + n <= Len(s) + 1
  PROVE  SubSeq(s, m, m + n - 1) = [k \in 1..n |-> s[m + k - 1]]
<1>1. Len(s) \in Nat /\ (m + n - 1) - m + 1 = n
  OBVIOUS
<1>2. \A k \in m..(m + n - 1) : k \in 1..Len(s)
  BY <1>1
<1>3. QED
  BY <1>1, <1>2

LEMMA SameLength ==
  ASSUME NEW s, NEW f \in Nat, NEW r, NEW g \in Nat, NEW w \in Nat,
         \A k \in 0..(w - 1) : s[f + k] = r[g + k]
  PROVE  LittleEndian(s, f, w) = LittleEndian(r, g, w)
<1>1. ASSUME NEW k \in 0..3
      PROVE  (IF k < w THEN s[f + k] ELSE 0) = (IF k < w THEN r[g + k] ELSE 0)
  <2>1. k < w => k \in 0..(w - 1)
    OBVIOUS
  <2>2. QED
    BY <2>1
<1>2. QED
  BY <1>1 DEF LittleEndian

\* An element of s with o bytes in front of it.
At(s, o, e) ==
  /\ o \in Nat /\ o + 1 + Len(e.len) + Len(e.data) <= Len(s)
  /\ e.cut => Len(s) = o + 1 + Len(e.len) + Len(e.data)
  /\ s[o + 1] = e.op
  /\ \A k \in 1..Len(e.len) : s[o + 1 + k] = e.len[k]
  /\ \A k \in 1..Len(e.data) : s[o + 1 + Len(e.len) + k] = e.data[k]

LEMMA TokenOf ==
  ASSUME NEW s \in Seq(Octet), NEW e, Element(e), NEW o, At(s, o, e)
  PROVE  nextToken(s, o + 1) =
           IF e.cut THEN NoToken
           ELSE [opcode |-> e.op, data |-> e.data, next |-> o + 1 + Len(e.len) + Len(e.data) + 1]
<1> DEFINE op == e.op
           len == e.len
           data == e.data
           t == nextToken(s, o + 1)
           w == LengthWidth(op)
           body == o + 1 + 1 + w
           n == IF w = 0 THEN op ELSE LittleEndian(s, o + 1 + 1, w)
           slice == SubSeq(s, body, body + n - 1)
           ann == Announced(e)
<1>1. /\ op \in Octet /\ Len(len) \in Nat /\ Len(data) \in Nat /\ Len(s) \in Nat /\ o \in Nat
      /\ len \in Seq(Octet) /\ data \in Seq(Octet) /\ e.cut \in BOOLEAN
  BY DEF Element, At
<1>2. op \in Nat /\ w \in {0, 1, 2, 4}
  BY <1>1, OctetNat DEF LengthWidth
<1>3. /\ o + 1 + Len(len) + Len(data) <= Len(s)
      /\ e.cut => Len(s) = o + 1 + Len(len) + Len(data)
      /\ s[o + 1] = op
      /\ \A k \in 1..Len(len) : s[o + 1 + k] = len[k]
      /\ \A k \in 1..Len(data) : s[o + 1 + Len(len) + k] = data[k]
  BY DEF At
<1>4. /\ ~HasOperand(op) => ~e.cut /\ len = << >> /\ data = << >>
      /\ HasOperand(op) /\ ~e.cut => Len(len) = w /\ Len(data) = ann
      /\ HasOperand(op) /\ e.cut =>
           \/ Len(len) < w /\ data = << >>
           \/ Len(len) = w /\ Len(data) < ann
  BY DEF Element
<1>5. ~(o + 1 > Len(s))
  BY <1>1, <1>3
<1>6. t = IF ~HasOperand(op) THEN [opcode |-> op, data |-> << >>, next |-> o + 1 + 1]
          ELSE IF body > Len(s) + 1 \/ body + n > Len(s) + 1 THEN NoToken
          ELSE [opcode |-> op, data |-> slice, next |-> body + n]
  BY <1>3, <1>5 DEF nextToken
<1>7. Len(len) = w => n = ann
  <2> HAVE Len(len) = w
  <2>1. CASE w = 0
    BY <2>1 DEF Announced
  <2>2. CASE w # 0
    <3>1. ann = LittleEndian(len, 1, w) /\ n = LittleEndian(s, o + 1 + 1, w)
      BY <2>2 DEF Announced
    <3>2. ASSUME NEW k \in 0..(w - 1) PROVE s[(o + 1 + 1) + k] = len[1 + k]
      <4>1. 1 + k \in 1..Len(len) /\ (o + 1 + 1) + k = o + 1 + (1 + k)
        BY <1>1, <1>2
      <4> HIDE DEF len
      <4>2. QED
        BY <1>3, <4>1
    <3> DEFINE from == o + 1 + 1
    <3> HIDE DEF w, len, ann, n
    <3>3. from \in Nat /\ w \in Nat
      BY <1>1, <1>2
    <3>4. \A k \in 0..(w - 1) : s[from + k] = len[1 + k]
      BY <3>2
    <3> HIDE DEF from
    <3>5. LittleEndian(s, from, w) = LittleEndian(len, 1, w)
      BY <3>3, <3>4, SameLength
    <3>6. QED
      BY <3>1, <3>5 DEF from
  <2>3. QED
    BY <2>1, <2>2
<1> HIDE DEF op, w, t, n, ann, slice
<1>8. CASE ~HasOperand(op)
  <2>1. ~e.cut /\ len = << >> /\ data = << >> /\ t = [opcode |-> op, data |-> << >>, next |-> o + 1 + 1]
    BY <1>4, <1>6, <1>8
  <2>2. Len(len) = 0 /\ Len(data) = 0
    BY <2>1
  <2> HIDE DEF len, data
  <2>3. o + 1 + 1 = o + 1 + Len(len) + Len(data) + 1
    BY <1>1, <2>2
  <2>4. QED
    BY <2>1, <2>3 DEF t, op, len, data
<1>9. CASE HasOperand(op) /\ ~e.cut
  <2> HIDE DEF len, data
  <2>1. Len(len) = w /\ n = Len(data)
    BY <1>4, <1>7, <1>9
  <2>2. /\ body = o + 1 + Len(len) + 1
        /\ body + n = o + 1 + Len(len) + Len(data) + 1
        /\ ~(body > Len(s) + 1) /\ ~(body + n > Len(s) + 1)
        /\ n \in Nat /\ body \in 1..(Len(s) + 1) /\ body + n <= Len(s) + 1
    BY <1>1, <1>2, <1>3, <2>1
  <2> HIDE DEF body
  <2>3. slice = data
    <3>1. data = [k \in 1..n |-> data[k]]
      BY <1>1, <2>1
    <3>2. slice = [k \in 1..n |-> s[body + k - 1]]
      BY <2>2, SliceIs DEF slice
    <3>3. ASSUME NEW k \in 1..n PROVE s[body + k - 1] = data[k]
      <4>1. k \in 1..Len(data) /\ body + k - 1 = o + 1 + Len(len) + k
        BY <1>1, <2>1, <2>2
      <4>2. QED
        BY <1>3, <4>1
    <3>4. QED
      BY <3>1, <3>2, <3>3
  <2>4. t = [opcode |-> op, data |-> data, next |-> body + n]
    BY <1>6, <1>9, <2>2, <2>3
  <2>5. QED
    BY <1>9, <2>2, <2>4 DEF t, op, len, data
<1>10. CASE HasOperand(op) /\ e.cut
  <2> HIDE DEF len, data
  <2>1. CASE Len(len) < w /\ data = << >>
    <3>1. Len(data) = 0
      BY <2>1
    <3>2. body > Len(s) + 1
      BY <1>1, <1>2, <1>3, <1>10, <2>1, <3>1
    <3>3. QED
      BY <1>6, <1>10, <3>2 DEF t
  <2>2. CASE Len(len) = w /\ Len(data) < ann
    <3>1. n = ann
      BY <1>7, <2>2
    <3>2. n \in Nat
      <4>1. CASE w = 0
        BY <1>2, <4>1 DEF n
      <4>2. CASE w # 0
        <5>1. /\ o + 1 + 1 \in 1..Len(s) /\ w \in {1, 2, 4}
              /\ (o + 1 + 1) + w <= Len(s) + 1
          BY <1>1, <1>2, <1>3, <2>2, <4>2
        <5>2. LittleEndian(s, o + 1 + 1, w) \in Nat
          BY <5>1, OperandLength
        <5>3. QED
          BY <4>2, <5>2 DEF n
      <4>3. QED
        BY <4>1, <4>2
    <3>3. body + n > Len(s) + 1
      BY <1>1, <1>2, <1>3, <1>10, <2>2, <3>1, <3>2
    <3>4. QED
      BY <1>6, <1>10, <3>3 DEF t
  <2>3. QED
    BY <1>4, <1>10, <2>1, <2>2
<1>11. QED
  BY <1>1, <1>8, <1>9, <1>10

\* Every element lies within the bytes.
LEMMA AtEach ==
  ASSUME NEW script, Serialised(script), NEW s, NEW off, BytesLaid(off, script, s)
  PROVE  \A i \in 1..Len(script) :
           /\ Element(script[i]) /\ At(s, off[i], script[i])
           /\ off[i] \in Nat /\ off[i + 1] \in Nat /\ off[i] < off[i + 1] /\ off[i + 1] <= Len(s)
<1> DEFINE n == Len(script)
           Over == {k \in 0..n : off[(n + 1) - k] \notin Nat \/ off[(n + 1) - k] > Len(s)}
<1>1. n \in Nat /\ Len(s) \in Nat
  BY ListHas DEF Serialised, BytesLaid
<1>2. \A i \in 1..n : Element(script[i]) /\ (script[i].cut => i = n)
  BY DEF Serialised
<1>3. ASSUME NEW i \in 1..n
      PROVE  /\ off[i] \in Nat
             /\ off[i + 1] = off[i] + 1 + Len(script[i].len) + Len(script[i].data)
             /\ s[off[i] + 1] = script[i].op
             /\ \A k \in 1..Len(script[i].len) : s[off[i] + 1 + k] = script[i].len[k]
             /\ \A k \in 1..Len(script[i].data) :
                  s[off[i] + 1 + Len(script[i].len) + k] = script[i].data[k]
             /\ Len(script[i].len) \in Nat /\ Len(script[i].data) \in Nat
             /\ off[i + 1] \in Nat /\ off[i] < off[i + 1]
  <2> DEFINE a == Len(script[i].len)
             b == Len(script[i].data)
  <2>1. a \in Nat /\ b \in Nat
    BY <1>2 DEF Element
  <2>2. off[i] \in Nat /\ off[i + 1] = off[i] + 1 + a + b
    BY DEF BytesLaid
  <2>3. off[i + 1] \in Nat /\ off[i] < off[i + 1]
    <3> HIDE DEF a, b
    <3>1. QED
      BY <2>1, <2>2
  <2>4. QED
    BY <2>1, <2>2, <2>3 DEF BytesLaid
<1>4. off[n + 1] = Len(s)
  BY DEF BytesLaid
<1> HIDE DEF n
<1>5. ASSUME NEW k \in Over, \A h \in Over : k <= h PROVE FALSE
  <2>1. k \in 0..n /\ (off[(n + 1) - k] \notin Nat \/ off[(n + 1) - k] > Len(s))
    OBVIOUS
  <2>2. CASE k = 0
    <3>1. (n + 1) - k = n + 1
      BY <1>1, <2>2
    <3>2. QED
      BY <1>1, <1>4, <2>1, <3>1
  <2>3. CASE k # 0
    <3> DEFINE i == (n + 1) - k
    <3>1. i \in 1..n /\ k - 1 \in 0..n /\ (n + 1) - (k - 1) = i + 1 /\ ~(k <= k - 1)
      BY <1>1, <2>1, <2>3
    <3>2. k - 1 \notin Over
      <4> HIDE DEF Over, i
      <4>1. QED
        BY <1>5, <3>1
    <3> HIDE DEF i
    <3>3. off[i + 1] \in Nat /\ off[i + 1] <= Len(s)
      BY <1>1, <3>1, <3>2
    <3>4. off[i] \in Nat /\ off[i] <= off[i + 1]
      BY <1>3, <3>1
    <3>5. QED
      BY <1>1, <2>1, <3>3, <3>4 DEF i
  <2>4. QED
    BY <2>2, <2>3
<1>6. Over = {}
  <2>1. Over \subseteq Nat
    BY <1>1
  <2> HIDE DEF Over
  <2>2. QED
    BY <1>5, <2>1, Least
<1>7. ASSUME NEW i \in 1..n PROVE off[i + 1] <= Len(s)
  <2>1. n - i \in 0..n /\ (n + 1) - (n - i) = i + 1
    BY <1>1
  <2>2. off[i + 1] \in Nat
    BY <1>3
  <2>3. n - i \notin Over
    BY <1>6
  <2>4. ~(off[(n + 1) - (n - i)] > Len(s))
    BY <2>1, <2>3
  <2>5. QED
    BY <1>1, <2>1, <2>2, <2>4
<1>8. ASSUME NEW i \in 1..n PROVE At(s, off[i], script[i])
  <2>1. off[i] \in Nat /\ off[i] + 1 + Len(script[i].len) + Len(script[i].data) <= Len(s)
    <3>1. off[i + 1] <= Len(s)
      BY <1>7
    <3>2. QED
      BY <1>3, <3>1
  <2>2. script[i].cut => Len(s) = off[i] + 1 + Len(script[i].len) + Len(script[i].data)
    BY <1>2, <1>3, <1>4
  <2>3. QED
    BY <1>3, <2>1, <2>2 DEF At
<1>9. QED
  BY <1>2, <1>3, <1>7, <1>8 DEF n

\* The token of the i-th element.
TokenAt(off, script, i) ==
  IF script[i].cut THEN NoToken
  ELSE [opcode |-> script[i].op, data |-> script[i].data, next |-> off[i + 1] + 1]

\* nextToken takes a script apart the way Core put it together.
LEMMA TokensLaid ==
  ASSUME NEW script, Serialised(script), NEW s, NEW off, BytesLaid(off, script, s)
  PROVE  /\ Tokens(s) = [i \in 1..Len(script) |-> TokenAt(off, script, i)]
         /\ \A i \in 1..Len(script) : nextToken(s, off[i] + 1) = TokenAt(off, script, i)
<1> DEFINE n == Len(script)
           T(i) == TokenAt(off, script, i)
           L == Len(s)
<1>1. s \in Seq(Octet) /\ n \in Nat /\ L \in Nat /\ off[1] = 0 /\ off[n + 1] = L
  BY ListHas DEF Serialised, BytesLaid
<1>2. ASSUME NEW i \in 1..n
      PROVE  /\ nextToken(s, off[i] + 1) = T(i) /\ off[i] + 1 \in 1..L
             /\ script[i].cut => i = n /\ T(i) = NoToken
             /\ ~script[i].cut => T(i).next = off[i + 1] + 1 /\ T(i) # NoToken
             /\ script[i].cut \in BOOLEAN
  <2> DEFINE e == script[i]
             o == off[i]
             t == nextToken(s, o + 1)
             r == [opcode |-> e.op, data |-> e.data, next |-> off[i + 1] + 1]
  <2>1. /\ Element(e) /\ At(s, o, e) /\ (e.cut => i = n)
        /\ o \in Nat /\ off[i + 1] \in Nat /\ o < off[i + 1] /\ off[i + 1] <= L
    BY AtEach DEF Serialised
  <2>2. off[i + 1] = o + 1 + Len(e.len) + Len(e.data)
    BY DEF BytesLaid
  <2>3. t = IF e.cut THEN NoToken ELSE r
    <3> DEFINE after == o + 1 + Len(e.len) + Len(e.data)
    <3>1. after = off[i + 1]
      BY <2>2
    <3> HIDE DEF e, o
    <3>2. t = IF e.cut THEN NoToken ELSE [opcode |-> e.op, data |-> e.data, next |-> after + 1]
      BY <1>1, <2>1, TokenOf
    <3>3. QED
      BY <3>1, <3>2
  <2>4. o + 1 \in 1..L
    BY <1>1, <2>1
  <2>5. r \in [opcode : Nat, data : Seq(Nat), next : Nat]
    <3>1. e.op \in Nat
      BY <2>1, OctetNat DEF Element
    <3>2. e.data \in Seq(Nat)
      BY <2>1, OctetNat, WiderSet DEF Element
    <3>3. off[i + 1] + 1 \in Nat
      BY <2>1
    <3>4. QED
      BY <3>1, <3>2, <3>3
  <2>6. r # NoToken
    <3> HIDE DEF r
    <3>1. QED
      BY <2>5, NoTokenAssumption
  <2>7. T(i) = IF e.cut THEN NoToken ELSE r
    BY DEF TokenAt
  <2>8. r.next = off[i + 1] + 1
    OBVIOUS
  <2>9. e.cut \in BOOLEAN
    BY <2>1 DEF Element
  <2> HIDE DEF r, e, T
  <2>10. QED
    BY <2>1, <2>3, <2>4, <2>6, <2>7, <2>8, <2>9 DEF e
<1>3. PICK g : /\ Tokens(s) = g[1]
               /\ g[L + 1] = << >>
               /\ \A i \in 1..L :
                    g[i] = IF nextToken(s, i) = NoToken THEN <<NoToken>>
                           ELSE <<nextToken(s, i)>> \o g[nextToken(s, i).next]
  BY <1>1, TokensAre
<1> HIDE DEF n, T, L
<1> DEFINE rest(k) == [h \in 1..k |-> T((n - k) + h)]
           Bad == {k \in 0..n : g[off[(n + 1) - k] + 1] # rest(k)}
<1>4. ASSUME NEW k \in Bad, \A h \in Bad : k <= h PROVE FALSE
  <2>1. k \in 0..n /\ g[off[(n + 1) - k] + 1] # rest(k)
    OBVIOUS
  <2>2. CASE k = 0
    <3>1. (n + 1) - k = n + 1 /\ rest(k) = << >>
      BY <1>1, <2>2
    <3>2. QED
      BY <1>1, <1>3, <2>1, <3>1
  <2>3. CASE k # 0
    <3> DEFINE i == (n + 1) - k
    <3>1. i \in 1..n /\ k - 1 \in 0..n /\ (n + 1) - (k - 1) = i + 1 /\ ~(k <= k - 1)
      <4>1. k \in 0..n
        BY <2>1
      <4>2. QED
        BY <1>1, <2>3, <4>1
    <3>2. k - 1 \notin Bad
      <4> HIDE DEF Bad, i
      <4>1. QED
        BY <1>4, <3>1
    <3>3. g[off[i + 1] + 1] = rest(k - 1)
      BY <3>1, <3>2
    <3>4. g[off[i] + 1] = IF T(i) = NoToken THEN <<NoToken>> ELSE <<T(i)>> \o g[T(i).next]
      BY <1>2, <1>3, <3>1
    <3>5. g[off[i] + 1] # rest(k)
      BY <2>1
    <3>6. rest(k)[1] = T(i) /\ \A h \in 1..(k - 1) : rest(k)[1 + h] = rest(k - 1)[h]
      <4>1. 1 \in 1..k /\ (n - k) + 1 = i
        BY <1>1, <2>1, <2>3
      <4>2. ASSUME NEW h \in 1..(k - 1) PROVE rest(k)[1 + h] = rest(k - 1)[h]
        <5>1. 1 + h \in 1..k /\ (n - k) + (1 + h) = (n - (k - 1)) + h
          BY <1>1, <2>1, <2>3
        <5>2. QED
          BY <5>1
      <4>3. QED
        BY <4>1, <4>2
    <3>7. CASE script[i].cut
      <4>1. k = 1 /\ T(i) = NoToken
        BY <1>1, <1>2, <3>1, <3>7, <2>1
      <4>2. rest(k) = <<T(i)>>
        BY <3>6, <4>1
      <4>3. QED
        BY <3>4, <3>5, <4>1, <4>2
    <3>8. CASE ~script[i].cut
      <4> DEFINE x == T(i)
                 r == rest(k - 1)
      <4>1. g[off[i] + 1] = <<x>> \o r
        BY <1>2, <3>1, <3>3, <3>4, <3>8
      <4> DEFINE S == {T(h) : h \in 1..n}
      <4>2. r \in Seq(S) /\ Len(r) = k - 1 /\ x \in S /\ k \in Nat
        <5>1. k - 1 \in Nat /\ k \in Nat /\ \A h \in 1..(k - 1) : (n - (k - 1)) + h \in 1..n
          BY <1>1, <2>1, <2>3
        <5>2. \A h \in 1..(k - 1) : r[h] \in S
          BY <5>1
        <5>3. r = [h \in 1..(k - 1) |-> r[h]] /\ x \in S
          BY <3>1
        <5> HIDE DEF r, S, x
        <5>4. QED
          BY <5>1, <5>2, <5>3
      <4> DEFINE whole == <<x>> \o r
                 all == rest(k)
      <4>3. x = all[1] /\ \A h \in 1..(k - 1) : all[1 + h] = r[h]
        BY <3>6
      <4>4. all = [h \in 1..k |-> all[h]]
        OBVIOUS
      <4> HIDE DEF x, r, S, all
      <4>5. /\ whole \in Seq(S) /\ Len(whole) = Len(r) + 1 /\ whole[1] = x
            /\ \A h \in 1..Len(r) : whole[h + 1] = r[h]
        BY <4>2, ListCons
      <4> HIDE DEF whole
      <4>6. whole = [h \in 1..k |-> whole[h]]
        BY <4>2, <4>5
      <4>7. ASSUME NEW h \in 1..k PROVE whole[h] = all[h]
        <5>1. CASE h = 1
          BY <4>3, <4>5, <5>1
        <5>2. CASE h # 1
          <6>1. h - 1 \in 1..(k - 1) /\ 1 + (h - 1) = h /\ (h - 1) + 1 = h
            BY <4>2, <5>2
          <6>2. all[h] = r[h - 1]
            BY <4>3, <6>1
          <6>3. whole[h] = r[h - 1]
            BY <4>2, <4>5, <6>1
          <6>4. QED
            BY <6>2, <6>3
        <5>3. QED
          BY <5>1, <5>2
      <4>8. whole = all
        BY <4>4, <4>6, <4>7
      <4>9. QED
        BY <3>5, <4>1, <4>8 DEF whole, all
    <3>9. QED
      BY <1>2, <3>1, <3>7, <3>8
  <2>4. QED
    BY <2>2, <2>3
<1>5. Bad = {}
  <2>1. Bad \subseteq Nat
    BY <1>1
  <2> HIDE DEF Bad
  <2>2. QED
    BY <1>4, <2>1, Least
<1>6. Tokens(s) = [i \in 1..n |-> T(i)]
  <2>1. n \in 0..n /\ (n + 1) - n = 1
    BY <1>1
  <2>2. g[off[1] + 1] = rest(n)
    BY <1>5, <2>1
  <2>3. off[1] + 1 = 1 /\ \A h \in 1..n : (n - n) + h = h
    BY <1>1
  <2>4. rest(n) = [i \in 1..n |-> T(i)]
    BY <2>3
  <2>5. QED
    BY <1>3, <2>2, <2>3, <2>4
<1>7. QED
  BY <1>2, <1>6 DEF n, T

-----------------------------------------------------------------------------
(* The shapes of the classifier, on the elements                           *)

\* s is a script's bytes, element by element.
Wire(script, off, s) == Serialised(script) /\ BytesLaid(off, script, s)

LEMMA WireExists ==
  ASSUME NEW script, Serialised(script)
  PROVE  \E off : Wire(script, off, Bytes(script))
BY BytesAreLaid DEF Wire

\* How far each element reaches, by its opcode.
LEMMA WireSteps ==
  ASSUME NEW script, NEW off, NEW s, Wire(script, off, s)
  PROVE  /\ Len(script) \in Nat /\ Len(s) \in Nat /\ s \in Seq(Octet) /\ off[1] = 0
         /\ script = << >> <=> Len(script) = 0
         /\ off[Len(script) + 1] = Len(s)
         /\ \A i \in 1..Len(script) :
              /\ off[i] \in Nat /\ off[i + 1] \in Nat /\ off[i] < off[i + 1] /\ off[i + 1] <= Len(s)
              /\ s[off[i] + 1] = script[i].op /\ script[i].op \in Nat /\ script[i].op <= 255
              /\ script[i].cut \in BOOLEAN /\ (script[i].cut => i = Len(script))
              /\ i # Len(script) => i + 1 \in 1..Len(script) /\ off[i + 1] < Len(s)
              /\ ~HasOperand(script[i].op) =>
                   off[i + 1] = off[i] + 1 /\ ~script[i].cut /\ script[i].data = << >>
              /\ script[i].op \in 1..75 =>
                   /\ ~script[i].cut => /\ off[i + 1] = off[i] + 1 + script[i].op
                                        /\ script[i].data = SubSeq(s, off[i] + 2, off[i] + 1 + script[i].op)
                                        /\ Len(script[i].data) = script[i].op
                   /\ script[i].cut => Len(s) < off[i] + 1 + script[i].op
<1> DEFINE n == Len(script)
<1>1. /\ n \in Nat /\ Len(s) \in Nat /\ s \in Seq(Octet) /\ off[1] = 0 /\ off[n + 1] = Len(s)
      /\ script # << >> => n # 0
  BY ListHas DEF Wire, Serialised, BytesLaid
<1>2. script = << >> <=> n = 0
  BY <1>1
<1> HIDE DEF n
<1>3. \A i \in 1..n :
        /\ Element(script[i]) /\ At(s, off[i], script[i])
        /\ off[i] \in Nat /\ off[i + 1] \in Nat /\ off[i] < off[i + 1] /\ off[i + 1] <= Len(s)
  BY AtEach DEF n, Wire
<1>4. ASSUME NEW i \in 1..n
      PROVE  /\ s[off[i] + 1] = script[i].op /\ script[i].op \in Nat /\ script[i].op <= 255
             /\ script[i].cut \in BOOLEAN /\ (script[i].cut => i = n)
             /\ i # n => i + 1 \in 1..n /\ off[i + 1] < Len(s)
             /\ ~HasOperand(script[i].op) =>
                  off[i + 1] = off[i] + 1 /\ ~script[i].cut /\ script[i].data = << >>
             /\ script[i].op \in 1..75 =>
                  /\ ~script[i].cut => /\ off[i + 1] = off[i] + 1 + script[i].op
                                       /\ script[i].data = SubSeq(s, off[i] + 2, off[i] + 1 + script[i].op)
                                       /\ Len(script[i].data) = script[i].op
                  /\ script[i].cut => Len(s) < off[i] + 1 + script[i].op
  <2> DEFINE e == script[i]
             op == e.op
             len == e.len
             data == e.data
             a == Len(len)
             b == Len(data)
             o == off[i]
             L == Len(s)
  <2>1. /\ op \in Octet /\ e.cut \in BOOLEAN /\ a \in Nat /\ b \in Nat
        /\ ~HasOperand(op) => ~e.cut /\ len = << >> /\ data = << >>
        /\ HasOperand(op) /\ ~e.cut => a = LengthWidth(op) /\ b = Announced(e)
        /\ HasOperand(op) /\ e.cut =>
             \/ a < LengthWidth(op) /\ data = << >>
             \/ a = LengthWidth(op) /\ b < Announced(e)
        /\ data \in Seq(Octet)
    BY <1>3 DEF Element
  <2>2. op \in Nat /\ op <= 255
    BY <2>1, OctetNat
  <2>3. /\ o \in Nat /\ s[o + 1] = op /\ (e.cut => L = o + 1 + a + b)
        /\ \A k \in 1..b : s[o + 1 + a + k] = data[k]
        /\ o + 1 + a + b <= L
    BY <1>3 DEF At
  <2>4. off[i + 1] = o + 1 + a + b /\ (e.cut => i = n)
    BY DEF Wire, Serialised, BytesLaid, n
  <2>5. i # n => i + 1 \in 1..n /\ off[i + 1] < L
    <3> HAVE i # n
    <3>1. i + 1 \in 1..n
      BY <1>1
    <3>2. off[i + 1] < off[(i + 1) + 1] /\ off[(i + 1) + 1] <= L /\ off[i + 1] \in Nat
          /\ off[(i + 1) + 1] \in Nat
      BY <1>3, <3>1
    <3>3. QED
      BY <1>1, <3>1, <3>2
  <2>6. ASSUME ~HasOperand(op) PROVE off[i + 1] = o + 1 /\ ~e.cut /\ data = << >>
    <3>1. a = 0 /\ b = 0
      BY <2>1, <2>6
    <3>2. ~e.cut /\ data = << >>
      BY <2>1, <2>6
    <3> HIDE DEF a, b, o
    <3>3. QED
      BY <2>3, <2>4, <3>1, <3>2
  <2>7. ASSUME op \in 1..75
        PROVE  /\ ~e.cut => /\ off[i + 1] = o + 1 + op
                            /\ data = SubSeq(s, o + 2, o + 1 + op)
                            /\ b = op
               /\ e.cut => L < o + 1 + op
    <3>1. HasOperand(op) /\ LengthWidth(op) = 0 /\ Announced(e) = op
      BY <2>2, <2>7 DEF HasOperand, LengthWidth, Announced, opFalse, opPushData1, opPushData2, opPushData4
    <3>2. a = 0 /\ (~e.cut => b = op) /\ (e.cut => b < op)
      <4> HIDE DEF a, b, op
      <4>1. QED
        BY <2>1, <3>1
    <3>3. ASSUME ~e.cut PROVE data = SubSeq(s, o + 2, o + 1 + op)
      <4> DEFINE from == o + 2
      <4>1. from \in 1..(L + 1) /\ from + op <= L + 1 /\ o + 1 + op = (from + op) - 1
        <5> HIDE DEF a, b, op, o, L
        <5>1. QED
          BY <1>1, <2>2, <2>3, <3>2, <3>3 DEF L
      <4>2. SubSeq(s, from, (from + op) - 1) = [k \in 1..op |-> s[from + k - 1]]
        <5> HIDE DEF op, from
        <5>1. QED
          BY <1>1, <2>2, <4>1, SliceIs DEF L
      <4>3. data = [k \in 1..op |-> data[k]]
        <5>1. b = op
          BY <3>2, <3>3
        <5> HIDE DEF op, data
        <5>2. QED
          BY <2>1, <5>1
      <4>4. ASSUME NEW k \in 1..op PROVE s[from + k - 1] = data[k]
        <5>1. from + k - 1 = o + 1 + a + k /\ k \in 1..b
          <6> HIDE DEF a, b, op, o
          <6>1. QED
            BY <2>2, <2>3, <3>2, <3>3
        <5>2. QED
          BY <2>3, <5>1
      <4> DEFINE to == o + 1 + op
      <4>5. to = (from + op) - 1
        BY <4>1
      <4> HIDE DEF data, op, from, to
      <4>6. data = SubSeq(s, from, to)
        BY <4>2, <4>3, <4>4, <4>5
      <4>7. QED
        BY <4>6 DEF from, to
    <3>4. ~e.cut => off[i + 1] = o + 1 + op
      <4> HIDE DEF a, b, op, o
      <4>1. QED
        BY <2>2, <2>3, <2>4, <3>2
    <3>5. e.cut => L < o + 1 + op
      <4> HIDE DEF a, b, op, o, L
      <4>1. QED
        BY <1>1, <2>1, <2>2, <2>3, <3>2 DEF L
    <3> HIDE DEF data, b, op, o, L
    <3>6. QED
      BY <3>2, <3>3, <3>4, <3>5
  <2> HIDE DEF HasOperand
  <2>8. QED
    BY <2>1, <2>2, <2>3, <2>4, <2>5, <2>6, <2>7
<1>5. QED
  BY <1>1, <1>2, <1>3, <1>4 DEF n

\* Where the i-th element begins and ends: one without operand is one byte, and
\* a push of up to 75 bytes that the script has room for is complete.
PacedAt(script, off, s, i) ==
  LET op == script[i].op
  IN  /\ off[i] \in Nat /\ off[i + 1] \in Nat /\ off[i] < off[i + 1] /\ off[i + 1] <= Len(s)
      /\ s[off[i] + 1] = op /\ op \in Nat
      /\ off[i + 1] < Len(s) => i + 1 \in 1..Len(script)
      /\ off[i + 1] = Len(s) => i = Len(script)
      /\ op = 0 \/ op > 78 => off[i + 1] = off[i] + 1 /\ ~script[i].cut
      /\ op \in 1..75 /\ off[i] + 1 + op <= Len(s) => ~script[i].cut
      /\ op \in 1..75 /\ ~script[i].cut => off[i + 1] = off[i] + 1 + op
Paced(script, off, s) ==
  /\ Len(script) \in Nat /\ Len(s) \in Nat /\ off[1] = 0 /\ off[Len(script) + 1] = Len(s)
  /\ \A i \in 1..Len(script) : PacedAt(script, off, s, i)

LEMMA WirePaced ==
  ASSUME NEW script, NEW off, NEW s, Wire(script, off, s)
  PROVE  Paced(script, off, s)
<1> DEFINE n == Len(script)
           L == Len(s)
<1>1. n \in Nat /\ L \in Nat /\ off[1] = 0 /\ off[n + 1] = L
  BY WireSteps
<1>2. ASSUME NEW i \in 1..n PROVE PacedAt(script, off, s, i)
  <2> DEFINE op == script[i].op
  <2>1. /\ off[i] \in Nat /\ off[i + 1] \in Nat /\ off[i] < off[i + 1] /\ off[i + 1] <= L
        /\ s[off[i] + 1] = op /\ op \in Nat /\ script[i].cut \in BOOLEAN
        /\ i # n => i + 1 \in 1..n /\ off[i + 1] < L
    BY WireSteps
  <2>7. op \in 1..75 =>
          /\ ~script[i].cut => off[i + 1] = off[i] + 1 + op
          /\ script[i].cut => L < off[i] + 1 + op
    <3>1. script[i].op \in 1..75 =>
            /\ ~script[i].cut => /\ off[i + 1] = off[i] + 1 + script[i].op
                                 /\ script[i].data = SubSeq(s, off[i] + 2, off[i] + 1 + script[i].op)
                                 /\ Len(script[i].data) = script[i].op
            /\ script[i].cut => Len(s) < off[i] + 1 + script[i].op
      BY WireSteps, Zenon
    <3>2. QED
      BY <3>1
  <2>2. ~HasOperand(op) => off[i + 1] = off[i] + 1 /\ ~script[i].cut
    BY WireSteps
  <2>3. op = 0 \/ op > 78 => ~HasOperand(op)
    <3> HIDE DEF op
    <3>1. QED
      BY <2>1 DEF HasOperand, opFalse, opPushData4
  <2> HIDE DEF n, L, op
  <2>4. /\ off[i + 1] < L => i + 1 \in 1..n
        /\ off[i + 1] = L => i = n
    BY <1>1, <2>1
  <2>5. op \in 1..75 /\ off[i] + 1 + op <= L => ~script[i].cut
    BY <1>1, <2>1, <2>7
  <2>6. op = 0 \/ op > 78 => off[i + 1] = off[i] + 1 /\ ~script[i].cut
    BY <2>2, <2>3
  <2>8. op \in 1..75 /\ ~script[i].cut => off[i + 1] = off[i] + 1 + op
    BY <2>7
  <2>9. QED
    BY <2>1, <2>4, <2>5, <2>6, <2>8, Zenon DEF PacedAt, n, L, op
<1>3. QED
  BY <1>1, <1>2 DEF Paced

Complete(script) == script # << >> /\ \A i \in DOMAIN script : ~script[i].cut

LEMMA Opcodes ==
  ASSUME NEW script, Serialised(script)
  PROVE  LET ops == [i \in DOMAIN script |-> script[i].op]
         IN  /\ \A i \in 1..Len(script) : ops[i] = script[i].op
             /\ Len(ops) = Len(script) /\ Len(script) \in Nat /\ DOMAIN script = 1..Len(script)
             /\ \A a, b : ops = <<a, b>> <=>
                  Len(script) = 2 /\ script[1].op = a /\ script[2].op = b
             /\ \A a, b, c : ops = <<a, b, c>> <=>
                  Len(script) = 3 /\ script[1].op = a /\ script[2].op = b /\ script[3].op = c
             /\ \A a, b, c, d, e : ops = <<a, b, c, d, e>> <=>
                  /\ Len(script) = 5 /\ script[1].op = a /\ script[2].op = b /\ script[3].op = c
                  /\ script[4].op = d /\ script[5].op = e
<1> DEFINE n == Len(script)
           ops == [i \in 1..n |-> script[i].op]
<1>1. n \in Nat /\ DOMAIN script = 1..n
  BY ListHas DEF Serialised
<1> HIDE DEF n
<1>2. Len(ops) = n /\ \A i \in 1..n : ops[i] = script[i].op
  BY <1>1
<1>3. ASSUME NEW r, r = [i \in 1..Len(r) |-> r[i]], n = Len(r), \A i \in 1..n : script[i].op = r[i]
      PROVE  ops = r
  BY <1>3
<1>4. ASSUME NEW r, ops = r PROVE n = Len(r) /\ \A i \in 1..n : script[i].op = r[i]
  BY <1>2, <1>4
<1>5. ASSUME NEW a, NEW b PROVE ops = <<a, b>> <=> n = 2 /\ script[1].op = a /\ script[2].op = b
  <2> DEFINE r == <<a, b>>
  <2>1. /\ r = [i \in 1..Len(r) |-> r[i]] /\ Len(r) = 2 /\ r[1] = a /\ r[2] = b
        /\ \A i \in 1..2 : i = 1 \/ i = 2
    OBVIOUS
  <2> HIDE DEF r, ops
  <2>2. ops = r => n = 2 /\ script[1].op = a /\ script[2].op = b
    BY <1>4, <2>1
  <2>3. n = 2 /\ script[1].op = a /\ script[2].op = b => ops = r
    BY <1>3, <2>1
  <2>4. QED
    BY <2>2, <2>3 DEF r
<1>6. ASSUME NEW a, NEW b, NEW c
      PROVE  ops = <<a, b, c>> <=>
               n = 3 /\ script[1].op = a /\ script[2].op = b /\ script[3].op = c
  <2> DEFINE r == <<a, b, c>>
  <2>1. /\ r = [i \in 1..Len(r) |-> r[i]] /\ Len(r) = 3 /\ r[1] = a /\ r[2] = b /\ r[3] = c
        /\ \A i \in 1..3 : i = 1 \/ i = 2 \/ i = 3
    OBVIOUS
  <2> HIDE DEF r, ops
  <2>2. ops = r => n = 3 /\ script[1].op = a /\ script[2].op = b /\ script[3].op = c
    BY <1>4, <2>1
  <2>3. n = 3 /\ script[1].op = a /\ script[2].op = b /\ script[3].op = c => ops = r
    BY <1>3, <2>1
  <2>4. QED
    BY <2>2, <2>3 DEF r
<1>7. ASSUME NEW a, NEW b, NEW c, NEW d, NEW e
      PROVE  ops = <<a, b, c, d, e>> <=>
               /\ n = 5 /\ script[1].op = a /\ script[2].op = b /\ script[3].op = c
               /\ script[4].op = d /\ script[5].op = e
  <2> DEFINE r == <<a, b, c, d, e>>
  <2>1. /\ r = [i \in 1..Len(r) |-> r[i]] /\ Len(r) = 5
        /\ r[1] = a /\ r[2] = b /\ r[3] = c /\ r[4] = d /\ r[5] = e
        /\ \A i \in 1..5 : i = 1 \/ i = 2 \/ i = 3 \/ i = 4 \/ i = 5
    OBVIOUS
  <2> HIDE DEF r, ops
  <2>2. ops = r => /\ n = 5 /\ script[1].op = a /\ script[2].op = b /\ script[3].op = c
                   /\ script[4].op = d /\ script[5].op = e
    BY <1>4, <2>1
  <2>3. (/\ n = 5 /\ script[1].op = a /\ script[2].op = b /\ script[3].op = c
         /\ script[4].op = d /\ script[5].op = e) => ops = r
    BY <1>3, <2>1
  <2>4. QED
    BY <2>2, <2>3 DEF r
<1> HIDE DEF ops
<1>8. QED
  BY <1>1, <1>2, <1>5, <1>6, <1>7 DEF ops, n

LEMMA FirstElement ==
  ASSUME NEW script, NEW off, NEW s, Wire(script, off, s)
  PROVE  /\ Len(s) \in Nat /\ off[1] = 0
         /\ Len(s) # 0 => 1 \in 1..Len(script) /\ script # << >>
         /\ script # << >> => 1 \in 1..Len(script) /\ s[1] = script[1].op /\ Len(s) # 0
<1> DEFINE n == Len(script)
           L == Len(s)
<1>1. Paced(script, off, s) /\ (script = << >> <=> n = 0)
  BY WirePaced, WireSteps
<1>2. n \in Nat /\ L \in Nat /\ off[1] = 0 /\ off[n + 1] = L
  BY <1>1 DEF Paced
<1>3. 1 \in 1..n => PacedAt(script, off, s, 1)
  BY <1>1 DEF Paced
<1>4. L # 0 => n # 0
  <2> HIDE DEF n, L
  <2>1. QED
    BY <1>2
<1>5. n # 0 => 1 \in 1..n
  <2> HIDE DEF n
  <2>1. QED
    BY <1>2
<1>6. 1 \in 1..n => s[1] = script[1].op /\ L # 0
  BY <1>2, <1>3 DEF PacedAt
<1> HIDE DEF n, L
<1>7. QED
  BY <1>1, <1>2, <1>4, <1>5, <1>6 DEF n, L

\* Only the last element can be cut short.
LEMMA CompleteWhen ==
  ASSUME NEW script, Serialised(script), Len(script) \in 1..Len(script), ~script[Len(script)].cut
  PROVE  Complete(script)
<1>1. Len(script) \in Nat /\ DOMAIN script = 1..Len(script) /\ script # << >>
  <2>1. Len(script) \in Nat /\ DOMAIN script = 1..Len(script)
    BY ListHas DEF Serialised
  <2>2. script = << >> => Len(script) = 0
    OBVIOUS
  <2>3. QED
    BY <2>1, <2>2
<1>2. \A i \in 1..Len(script) : script[i].cut \in BOOLEAN /\ (script[i].cut => i = Len(script))
  BY DEF Serialised, Element
<1>3. QED
  BY <1>1, <1>2 DEF Complete

LEMMA KeyHashShape ==
  ASSUME NEW script, NEW off, NEW s, Wire(script, off, s)
  PROVE  matchP2PKH(s) <=>
           /\ Complete(script) /\ Len(script) = 5
           /\ script[1].op = 118 /\ script[2].op = 169 /\ script[3].op = 20
           /\ script[4].op = 136 /\ script[5].op = 172
<1>1. Serialised(script) /\ Paced(script, off, s)
  BY WirePaced DEF Wire
<1>2. \A i \in 1..Len(script) : PacedAt(script, off, s, i)
  BY <1>1 DEF Paced
<1>3. Len(s) # 0 => 1 \in 1..Len(script)
  BY FirstElement
<1>4. ASSUME matchP2PKH(s)
      PROVE  /\ Complete(script) /\ Len(script) = 5
             /\ script[1].op = 118 /\ script[2].op = 169 /\ script[3].op = 20
             /\ script[4].op = 136 /\ script[5].op = 172
  <2>1. Len(s) = 25 /\ s[1] = 118 /\ s[2] = 169 /\ s[3] = 20 /\ s[24] = 136 /\ s[25] = 172
    BY <1>4 DEF matchP2PKH, opDup, opHash160, hash160Len, opEqualVerify, opCheckSig
  <2>2. 1 \in 1..Len(script) /\ off[1] = 0
    BY <1>1, <1>3, <2>1 DEF Paced
  <2>3. script[1].op = 118 /\ off[2] = 1 /\ 2 \in 1..Len(script)
    <3>1. PacedAt(script, off, s, 1)
      BY <1>2, <2>2
    <3>2. script[1].op = 118
      BY <2>1, <2>2, <3>1 DEF PacedAt
    <3>3. off[2] = 1
      BY <2>1, <2>2, <3>1, <3>2 DEF PacedAt
    <3>4. QED
      BY <2>1, <2>2, <3>1, <3>2, <3>3 DEF PacedAt
  <2>4. script[2].op = 169 /\ off[3] = 2 /\ 3 \in 1..Len(script)
    <3>1. PacedAt(script, off, s, 2)
      BY <1>2, <2>3
    <3>2. script[2].op = 169
      BY <2>1, <2>3, <3>1 DEF PacedAt
    <3>3. off[3] = 2
      BY <2>1, <2>3, <3>1, <3>2 DEF PacedAt
    <3>4. QED
      BY <2>1, <2>3, <3>1, <3>2, <3>3 DEF PacedAt
  <2>5. script[3].op = 20 /\ off[4] = 23 /\ 4 \in 1..Len(script)
    <3>1. PacedAt(script, off, s, 3)
      BY <1>2, <2>4
    <3>2. script[3].op = 20
      BY <2>1, <2>4, <3>1 DEF PacedAt
    <3>3. off[4] = 23
      BY <2>1, <2>4, <3>1, <3>2 DEF PacedAt
    <3>4. QED
      BY <2>1, <2>4, <3>1, <3>2, <3>3 DEF PacedAt
  <2>6. script[4].op = 136 /\ off[5] = 24 /\ 5 \in 1..Len(script)
    <3>1. PacedAt(script, off, s, 4)
      BY <1>2, <2>5
    <3>2. script[4].op = 136
      BY <2>1, <2>5, <3>1 DEF PacedAt
    <3>3. off[5] = 24
      BY <2>1, <2>5, <3>1, <3>2 DEF PacedAt
    <3>4. QED
      BY <2>1, <2>5, <3>1, <3>2, <3>3 DEF PacedAt
  <2>7. script[5].op = 172 /\ 5 = Len(script) /\ ~script[5].cut
    <3>1. PacedAt(script, off, s, 5)
      BY <1>2, <2>6
    <3>2. script[5].op = 172
      BY <2>1, <2>6, <3>1 DEF PacedAt
    <3>3. off[6] = Len(s) /\ ~script[5].cut
      BY <2>1, <2>6, <3>1, <3>2 DEF PacedAt
    <3>4. QED
      BY <2>1, <2>6, <3>1, <3>2, <3>3 DEF PacedAt
  <2>8. Complete(script)
    BY <1>1, <2>6, <2>7, CompleteWhen
  <2>9. QED
    BY <2>3, <2>4, <2>5, <2>6, <2>7, <2>8
<1>5. ASSUME /\ Complete(script) /\ Len(script) = 5
             /\ script[1].op = 118 /\ script[2].op = 169 /\ script[3].op = 20
             /\ script[4].op = 136 /\ script[5].op = 172
      PROVE  matchP2PKH(s)
  <2>1. PacedAt(script, off, s, 1) /\ PacedAt(script, off, s, 2) /\ PacedAt(script, off, s, 3)
        /\ PacedAt(script, off, s, 4) /\ PacedAt(script, off, s, 5)
    BY <1>2, <1>5
  <2>2. off[1] = 0 /\ off[6] = Len(s)
    BY <1>1, <1>5 DEF Paced
  <2>3. off[2] = 1 /\ s[1] = 118
    BY <1>5, <2>1, <2>2 DEF PacedAt
  <2>4. off[3] = 2 /\ s[2] = 169
    BY <1>5, <2>1, <2>3 DEF PacedAt
  <2>5. off[4] = 23 /\ s[3] = 20
    <3>1. ~script[3].cut
      BY <1>1, <1>5, ListHas DEF Complete, Serialised
    <3>2. QED
      BY <1>5, <2>1, <2>4, <3>1 DEF PacedAt
  <2>6. off[5] = 24 /\ s[24] = 136
    BY <1>5, <2>1, <2>5 DEF PacedAt
  <2>7. off[6] = 25 /\ s[25] = 172
    BY <1>5, <2>1, <2>6 DEF PacedAt
  <2>8. QED
    BY <2>2, <2>3, <2>4, <2>5, <2>6, <2>7
       DEF matchP2PKH, opDup, opHash160, hash160Len, opEqualVerify, opCheckSig
<1>6. QED
  BY <1>4, <1>5

LEMMA ScriptHashShape ==
  ASSUME NEW script, NEW off, NEW s, Wire(script, off, s)
  PROVE  matchP2SH(s) <=>
           /\ Complete(script) /\ Len(script) = 3
           /\ script[1].op = 169 /\ script[2].op = 20 /\ script[3].op = 135
<1>1. Serialised(script) /\ Paced(script, off, s)
  BY WirePaced DEF Wire
<1>2. \A i \in 1..Len(script) : PacedAt(script, off, s, i)
  BY <1>1 DEF Paced
<1>3. Len(s) # 0 => 1 \in 1..Len(script)
  BY FirstElement
<1>4. ASSUME matchP2SH(s)
      PROVE  /\ Complete(script) /\ Len(script) = 3
             /\ script[1].op = 169 /\ script[2].op = 20 /\ script[3].op = 135
  <2>1. Len(s) = 23 /\ s[1] = 169 /\ s[2] = 20 /\ s[23] = 135
    BY <1>4 DEF matchP2SH, opHash160, hash160Len, opEqual
  <2>2. 1 \in 1..Len(script) /\ off[1] = 0
    BY <1>1, <1>3, <2>1 DEF Paced
  <2>3. script[1].op = 169 /\ off[2] = 1 /\ 2 \in 1..Len(script)
    <3>1. PacedAt(script, off, s, 1)
      BY <1>2, <2>2
    <3>2. script[1].op = 169
      BY <2>1, <2>2, <3>1 DEF PacedAt
    <3>3. off[2] = 1
      BY <2>1, <2>2, <3>1, <3>2 DEF PacedAt
    <3>4. QED
      BY <2>1, <2>2, <3>1, <3>2, <3>3 DEF PacedAt
  <2>4. script[2].op = 20 /\ off[3] = 22 /\ 3 \in 1..Len(script)
    <3>1. PacedAt(script, off, s, 2)
      BY <1>2, <2>3
    <3>2. script[2].op = 20
      BY <2>1, <2>3, <3>1 DEF PacedAt
    <3>3. off[3] = 22
      BY <2>1, <2>3, <3>1, <3>2 DEF PacedAt
    <3>4. QED
      BY <2>1, <2>3, <3>1, <3>2, <3>3 DEF PacedAt
  <2>5. script[3].op = 135 /\ 3 = Len(script) /\ ~script[3].cut
    <3>1. PacedAt(script, off, s, 3)
      BY <1>2, <2>4
    <3>2. script[3].op = 135
      BY <2>1, <2>4, <3>1 DEF PacedAt
    <3>3. off[4] = Len(s) /\ ~script[3].cut
      BY <2>1, <2>4, <3>1, <3>2 DEF PacedAt
    <3>4. QED
      BY <2>1, <2>4, <3>1, <3>2, <3>3 DEF PacedAt
  <2>6. Complete(script)
    BY <1>1, <2>4, <2>5, CompleteWhen
  <2>7. QED
    BY <2>3, <2>4, <2>5, <2>6
<1>5. ASSUME /\ Complete(script) /\ Len(script) = 3
             /\ script[1].op = 169 /\ script[2].op = 20 /\ script[3].op = 135
      PROVE  matchP2SH(s)
  <2>1. PacedAt(script, off, s, 1) /\ PacedAt(script, off, s, 2) /\ PacedAt(script, off, s, 3)
    BY <1>2, <1>5
  <2>2. off[1] = 0 /\ off[4] = Len(s)
    BY <1>1, <1>5 DEF Paced
  <2>3. off[2] = 1 /\ s[1] = 169
    BY <1>5, <2>1, <2>2 DEF PacedAt
  <2>4. off[3] = 22 /\ s[2] = 20
    <3>1. ~script[2].cut
      BY <1>1, <1>5, ListHas DEF Complete, Serialised
    <3>2. QED
      BY <1>5, <2>1, <2>3, <3>1 DEF PacedAt
  <2>5. off[4] = 23 /\ s[23] = 135
    BY <1>5, <2>1, <2>4 DEF PacedAt
  <2>6. QED
    BY <2>2, <2>3, <2>4, <2>5 DEF matchP2SH, opHash160, hash160Len, opEqual
<1>6. QED
  BY <1>4, <1>5

\* A single key, with the push it stands in.
LEMMA KeyShape ==
  ASSUME NEW script, NEW off, NEW s, Wire(script, off, s)
  PROVE  /\ matchP2PK(s) <=>
              /\ Complete(script) /\ Len(script) = 2
              /\ script[1].op \in {33, 65} /\ script[2].op = 172 /\ ValidSize(script[1].data)
         /\ matchP2PK(s) => SubSeq(s, 2, Len(s) - 1) = script[1].data
<1>1. Serialised(script) /\ Paced(script, off, s)
  BY WirePaced DEF Wire
<1>2. \A i \in 1..Len(script) : PacedAt(script, off, s, i)
  BY <1>1 DEF Paced
<1>3. Len(s) # 0 => 1 \in 1..Len(script)
  BY FirstElement
<1>4. \A i \in 1..Len(script) : script[i].op \in 1..75 /\ ~script[i].cut =>
        script[i].data = SubSeq(s, off[i] + 2, off[i] + 1 + script[i].op)
  BY WireSteps
<1>5. ASSUME matchP2PK(s)
      PROVE  /\ Complete(script) /\ Len(script) = 2
             /\ script[1].op \in {33, 65} /\ script[2].op = 172 /\ ValidSize(script[1].data)
             /\ SubSeq(s, 2, Len(s) - 1) = script[1].data
  <2>1. PICK k \in {33, 65} :
          Len(s) = k + 2 /\ s[1] = k /\ s[k + 2] = 172 /\ isPubKeyPush(SubSeq(s, 2, k + 1))
    BY <1>5 DEF matchP2PK, compressedPKLen, uncompressedPKLen, opCheckSig
  <2>2. k \in Nat /\ k \in 1..75 /\ Len(s) = k + 2 /\ s[1] = k /\ s[k + 2] = 172
    BY <2>1
  <2>3. 1 \in 1..Len(script) /\ off[1] = 0
    <3>1. Len(s) # 0
      BY <2>2
    <3>2. QED
      BY <1>1, <1>3, <3>1 DEF Paced
  <2>4. script[1].op = k /\ off[2] = k + 1 /\ 2 \in 1..Len(script) /\ ~script[1].cut
    <3>1. PacedAt(script, off, s, 1)
      BY <1>2, <2>3
    <3>2. script[1].op = k
      BY <2>2, <2>3, <3>1 DEF PacedAt
    <3>3. ~script[1].cut
      BY <2>2, <2>3, <3>1, <3>2 DEF PacedAt
    <3>4. off[2] = k + 1
      BY <2>2, <2>3, <3>1, <3>2, <3>3 DEF PacedAt
    <3>5. QED
      BY <2>2, <3>1, <3>2, <3>3, <3>4 DEF PacedAt
  <2>5. script[1].data = SubSeq(s, 2, k + 1)
    <3>1. script[1].data = SubSeq(s, off[1] + 2, off[1] + 1 + script[1].op)
      BY <1>4, <2>2, <2>3, <2>4
    <3>2. off[1] + 2 = 2 /\ off[1] + 1 + script[1].op = k + 1
      BY <2>2, <2>3, <2>4
    <3>3. QED
      BY <3>1, <3>2
  <2>6. script[2].op = 172 /\ 2 = Len(script) /\ ~script[2].cut
    <3>1. PacedAt(script, off, s, 2)
      BY <1>2, <2>4
    <3>2. script[2].op = 172
      BY <2>2, <2>4, <3>1 DEF PacedAt
    <3>3. off[3] = Len(s) /\ ~script[2].cut
      BY <2>2, <2>4, <3>1, <3>2 DEF PacedAt
    <3>4. QED
      BY <2>2, <2>4, <3>1, <3>2, <3>3 DEF PacedAt
  <2>7. Complete(script)
    BY <1>1, <2>4, <2>6, CompleteWhen
  <2>8. ValidSize(script[1].data)
    BY <2>1, <2>5 DEF ValidSize, isPubKeyPush, compressedPKLen, uncompressedPKLen
  <2>9. Len(s) - 1 = k + 1
    BY <2>2
  <2>10. QED
    BY <2>1, <2>4, <2>5, <2>6, <2>7, <2>8, <2>9
<1>6. ASSUME /\ Complete(script) /\ Len(script) = 2
             /\ script[1].op \in {33, 65} /\ script[2].op = 172 /\ ValidSize(script[1].data)
      PROVE  matchP2PK(s)
  <2> DEFINE k == script[1].op
  <2>1. PacedAt(script, off, s, 1) /\ PacedAt(script, off, s, 2)
    BY <1>2, <1>6
  <2>2. off[1] = 0 /\ off[3] = Len(s)
    BY <1>1, <1>6 DEF Paced
  <2>3. ~script[1].cut
    BY <1>1, <1>6, ListHas DEF Complete, Serialised
  <2>4. k \in Nat /\ k \in 1..75 /\ k \in {33, 65}
    BY <1>6
  <2>5. off[2] = k + 1 /\ s[1] = k
    BY <2>1, <2>2, <2>3, <2>4 DEF PacedAt
  <2>6. s[k + 2] = 172 /\ Len(s) = k + 2
    <3>1. off[3] = off[2] + 1 /\ s[off[2] + 1] = 172
      BY <1>6, <2>1 DEF PacedAt
    <3>2. (k + 1) + 1 = k + 2
      BY <2>4
    <3>3. QED
      BY <2>2, <2>5, <3>1, <3>2
  <2>7. script[1].data = SubSeq(s, 2, k + 1)
    <3>1. script[1].data = SubSeq(s, off[1] + 2, off[1] + 1 + k)
      BY <1>4, <1>6, <2>3, <2>4
    <3>2. off[1] + 2 = 2 /\ off[1] + 1 + k = k + 1
      BY <2>2, <2>4
    <3>3. QED
      BY <3>1, <3>2
  <2>8. isPubKeyPush(SubSeq(s, 2, k + 1))
    BY <1>6, <2>7 DEF ValidSize, isPubKeyPush, compressedPKLen, uncompressedPKLen
  <2> HIDE DEF k
  <2>9. QED
    BY <2>4, <2>5, <2>6, <2>8 DEF matchP2PK, compressedPKLen, uncompressedPKLen, opCheckSig
<1>7. QED
  BY <1>5, <1>6

LEMMA WitnessShape ==
  ASSUME NEW script, NEW off, NEW s, Wire(script, off, s)
  PROVE  /\ IsWitnessProgram(s) <=>
              /\ Complete(script) /\ Len(script) = 2
              /\ script[1].op \in {0} \cup 81..96 /\ script[2].op \in 2..40
         /\ IsWitnessProgram(s) => s[1] = script[1].op /\ s[2] = Len(script[2].data)
<1>1. Serialised(script) /\ Paced(script, off, s)
  BY WirePaced DEF Wire
<1>2. \A i \in 1..Len(script) : PacedAt(script, off, s, i)
  BY <1>1 DEF Paced
<1>3. Len(s) # 0 => 1 \in 1..Len(script)
  BY FirstElement
<1>4. \A i \in 1..Len(script) : script[i].op \in 1..75 /\ ~script[i].cut =>
        Len(script[i].data) = script[i].op
  BY WireSteps
<1>5. ASSUME IsWitnessProgram(s)
      PROVE  /\ Complete(script) /\ Len(script) = 2
             /\ script[1].op \in {0} \cup 81..96 /\ script[2].op \in 2..40
             /\ s[1] = script[1].op /\ s[2] = Len(script[2].data)
  <2> DEFINE v == s[1]
             k == s[2]
  <2>0. (v = 0 \/ v \in 81..96) /\ k \in 2..40 /\ Len(s) = 2 + k
    BY <1>5 DEF IsWitnessProgram, minWitnessProgramLen, maxWitnessProgramLen, opFalse, op1, op16
  <2> HIDE DEF v, k
  <2>1. (v = 0 \/ v \in 81..96) /\ (v = 0 \/ v > 78) /\ k \in 2..40 /\ k \in Nat /\ k \in 1..75
        /\ Len(s) = 2 + k /\ Len(s) \in Nat /\ Len(s) > 1
    BY <2>0
  <2>2. 1 \in 1..Len(script) /\ off[1] = 0
    <3>1. Len(s) # 0
      BY <2>1
    <3>2. QED
      BY <1>1, <1>3, <3>1 DEF Paced
  <2>3. script[1].op = v /\ off[2] = 1 /\ 2 \in 1..Len(script)
    <3>1. PacedAt(script, off, s, 1)
      BY <1>2, <2>2
    <3>2. script[1].op = v
      BY <2>2, <3>1 DEF PacedAt, v
    <3>3. off[2] = 1
      BY <2>1, <2>2, <3>1, <3>2 DEF PacedAt
    <3>4. QED
      BY <2>1, <3>1, <3>2, <3>3 DEF PacedAt
  <2>4. script[2].op = k /\ 2 = Len(script) /\ ~script[2].cut
    <3>1. PacedAt(script, off, s, 2)
      BY <1>2, <2>3
    <3>2. script[2].op = k
      BY <2>3, <3>1 DEF PacedAt, k
    <3>3. ~script[2].cut
      BY <2>1, <2>3, <3>1, <3>2 DEF PacedAt
    <3>4. off[3] = Len(s)
      BY <2>1, <2>3, <3>1, <3>2, <3>3 DEF PacedAt
    <3>5. QED
      BY <3>1, <3>2, <3>3, <3>4 DEF PacedAt
  <2>5. Complete(script)
    BY <1>1, <2>3, <2>4, CompleteWhen
  <2>6. Len(script[2].data) = k
    BY <1>4, <2>1, <2>3, <2>4
  <2>7. /\ Len(script) = 2 /\ script[1].op \in {0} \cup 81..96 /\ script[2].op \in 2..40
    BY <2>1, <2>3, <2>4
  <2>8. QED
    BY <2>3, <2>4, <2>5, <2>6, <2>7 DEF v, k
<1>6. ASSUME /\ Complete(script) /\ Len(script) = 2
             /\ script[1].op \in {0} \cup 81..96 /\ script[2].op \in 2..40
      PROVE  IsWitnessProgram(s)
  <2> DEFINE v == script[1].op
             k == script[2].op
  <2>1. PacedAt(script, off, s, 1) /\ PacedAt(script, off, s, 2)
    BY <1>2, <1>6
  <2>2. off[1] = 0 /\ off[3] = Len(s)
    BY <1>1, <1>6 DEF Paced
  <2>3. ~script[2].cut
    BY <1>1, <1>6, ListHas DEF Complete, Serialised
  <2>4. v \in {0} \cup 81..96 /\ k \in 2..40 /\ (v = 0 \/ v > 78) /\ k \in 1..75
    BY <1>6
  <2> HIDE DEF v, k
  <2>5. s[1] = v /\ off[2] = 1
    BY <2>1, <2>2, <2>4 DEF PacedAt, v
  <2>6. s[2] = k /\ off[3] = 1 + 1 + k
    BY <2>1, <2>3, <2>4, <2>5 DEF PacedAt, k
  <2>7. Len(s) = 2 + k
    BY <2>2, <2>4, <2>6
  <2>8. QED
    BY <2>4, <2>5, <2>6, <2>7
       DEF IsWitnessProgram, minWitnessProgramLen, maxWitnessProgramLen, opFalse, op1, op16
<1>7. QED
  BY <1>5, <1>6

\* The rest behind a first element of one byte.
LEMMA WireTail ==
  ASSUME NEW script, NEW off, NEW s, Wire(script, off, s), 1 \in 1..Len(script), off[2] = 1
  PROVE  /\ \E rest : Wire(Tail(script), rest, Tail(s))
         /\ Len(Tail(script)) = Len(script) - 1
         /\ \A i \in 1..(Len(script) - 1) : Tail(script)[i] = script[i + 1]
<1> DEFINE n == Len(script)
           L == Len(s)
           tail == Tail(script)
           st == Tail(s)
           rest == [i \in 1..n |-> off[i + 1] - 1]
<1>1. /\ n \in Nat /\ L \in Nat /\ s \in Seq(Octet) /\ off[n + 1] = L /\ IsList(script)
      /\ script # << >> /\ n # 0
  <2>1. script = << >> <=> n = 0
    BY WireSteps
  <2>2. n \in Nat /\ L \in Nat /\ s \in Seq(Octet) /\ off[n + 1] = L /\ IsList(script)
    BY WireSteps DEF Wire, Serialised
  <2>3. QED
    BY <2>1, <2>2
<1>2. \A i \in 1..n :
        /\ Element(script[i]) /\ (script[i].cut => i = n)
        /\ off[i] \in Nat /\ off[i + 1] = off[i] + 1 + Len(script[i].len) + Len(script[i].data)
        /\ s[off[i] + 1] = script[i].op
        /\ \A k \in 1..Len(script[i].len) : s[off[i] + 1 + k] = script[i].len[k]
        /\ \A k \in 1..Len(script[i].data) :
             s[off[i] + 1 + Len(script[i].len) + k] = script[i].data[k]
  BY DEF Wire, Serialised, BytesLaid
<1>3. \A i \in 1..n : off[i] \in Nat /\ off[i + 1] \in Nat /\ off[i] < off[i + 1] /\ off[i + 1] <= L
  BY WireSteps
<1>4. L # 0
  <2>1. off[1] < off[1 + 1] /\ off[1 + 1] <= L /\ off[1] \in Nat /\ off[1 + 1] \in Nat
    BY <1>3
  <2>2. QED
    BY <1>1, <2>1
<1>5. st \in Seq(Octet) /\ Len(st) = L - 1 /\ \A k \in 1..(L - 1) : st[k] = s[k + 1]
  <2>1. s # << >>
    BY <1>4
  <2>2. QED
    BY <1>1, <2>1
<1>6. tail = [i \in 1..(n - 1) |-> script[i + 1]]
  <2> DEFINE S == Range(script)
  <2>1. script \in Seq(S) /\ script # << >>
    BY <1>1 DEF IsList
  <2> HIDE DEF S
  <2>2. tail \in Seq(S) /\ Len(tail) = n - 1 /\ \A i \in 1..Len(tail) : tail[i] = script[i + 1]
    BY <2>1, HeadTailProperties
  <2> HIDE DEF tail
  <2>3. QED
    BY <2>2
<1> HIDE DEF n, L, tail, st
<1>7. IsList(tail) /\ Len(tail) = n - 1 /\ \A i \in 1..(n - 1) : tail[i] = script[i + 1]
  <2>1. n - 1 \in Nat /\ tail = [i \in 1..(n - 1) |-> tail[i]] /\ \A i \in 1..(n - 1) : tail[i] = script[i + 1]
    BY <1>1, <1>6
  <2>2. QED
    BY <2>1, ListIs
<1>8. Serialised(tail)
  <2>1. ASSUME NEW i \in 1..(n - 1) PROVE Element(tail[i]) /\ (tail[i].cut => i = n - 1)
    <3>1. i + 1 \in 1..n /\ (i + 1 = n => i = n - 1)
      BY <1>1
    <3>2. QED
      BY <1>2, <1>7, <3>1
  <2>2. QED
    BY <1>7, <2>1 DEF Serialised
<1>9. BytesLaid(rest, tail, st)
  <2>1. \A i \in 1..n : rest[i] = off[i + 1] - 1
    OBVIOUS
  <2> HIDE DEF rest
  <2>2. rest[1] = 0 /\ rest[Len(tail) + 1] = Len(st)
    <3>1. 1 \in 1..n /\ n \in 1..n /\ Len(tail) + 1 = n
      BY <1>1, <1>7
    <3>2. QED
      BY <1>1, <1>5, <2>1, <3>1
  <2>3. ASSUME NEW i \in 1..(n - 1)
        PROVE  /\ rest[i] \in Nat
               /\ rest[i + 1] = rest[i] + 1 + Len(tail[i].len) + Len(tail[i].data)
               /\ st[rest[i] + 1] = tail[i].op
               /\ \A k \in 1..Len(tail[i].len) : st[rest[i] + 1 + k] = tail[i].len[k]
               /\ \A k \in 1..Len(tail[i].data) :
                    st[rest[i] + 1 + Len(tail[i].len) + k] = tail[i].data[k]
    <3> DEFINE j == i + 1
               e == script[j]
               a == Len(e.len)
               b == Len(e.data)
               o == off[j]
    <3>1. j \in 1..n /\ i \in 1..n /\ tail[i] = e
      BY <1>1, <1>7
    <3>2. a \in Nat /\ b \in Nat
      BY <1>2, <3>1 DEF Element
    <3>3. o \in Nat /\ off[i] < o /\ off[i] \in Nat /\ off[j + 1] <= L /\ off[j + 1] \in Nat
      BY <1>3, <3>1
    <3>4. rest[i] = o - 1 /\ rest[j] = off[j + 1] - 1
      BY <2>1, <3>1
    <3>5. /\ off[j + 1] = o + 1 + a + b /\ s[o + 1] = e.op
          /\ \A k \in 1..a : s[o + 1 + k] = e.len[k]
          /\ \A k \in 1..b : s[o + 1 + a + k] = e.data[k]
      BY <1>2, <3>1
    <3> HIDE DEF j, e, a, b, o
    <3>6. rest[i] \in Nat /\ rest[j] = rest[i] + 1 + a + b
      BY <3>2, <3>3, <3>4, <3>5
    <3>7. st[rest[i] + 1] = e.op
      <4>1. rest[i] + 1 = o
        BY <3>3, <3>4
      <4>2. o >= 1 /\ o + 1 <= L
        BY <1>1, <3>2, <3>3, <3>5
      <4>3. o \in 1..(L - 1)
        BY <1>1, <3>3, <4>2
      <4>4. QED
        BY <1>5, <3>5, <4>1, <4>3
    <3>8. ASSUME NEW k \in 1..a PROVE st[rest[i] + 1 + k] = e.len[k]
      <4>1. rest[i] + 1 + k = o + k /\ o + k \in 1..(L - 1) /\ (o + k) + 1 = o + 1 + k
        BY <1>1, <3>2, <3>3, <3>4, <3>5
      <4>2. QED
        BY <1>5, <3>5, <4>1
    <3>9. ASSUME NEW k \in 1..b PROVE st[rest[i] + 1 + a + k] = e.data[k]
      <4>1. /\ rest[i] + 1 + a + k = o + a + k /\ o + a + k \in 1..(L - 1)
            /\ (o + a + k) + 1 = o + 1 + a + k
        BY <1>1, <3>2, <3>3, <3>4, <3>5
      <4>2. QED
        BY <1>5, <3>5, <4>1
    <3>10. QED
      BY <3>1, <3>6, <3>7, <3>8, <3>9 DEF a, b, j
  <2>4. QED
    BY <1>5, <1>7, <2>2, <2>3 DEF BytesLaid
<1>10. Wire(tail, rest, st)
  BY <1>8, <1>9 DEF Wire
<1>11. QED
  BY <1>7, <1>10 DEF n, tail, st

LEMMA WireTokens ==
  ASSUME NEW script, NEW off, NEW s, Wire(script, off, s)
  PROVE  /\ Len(Tokens(s)) = Len(script) /\ DOMAIN Tokens(s) = 1..Len(script)
         /\ \A i \in 1..Len(script) :
              /\ script[i].cut => Tokens(s)[i] = NoToken
              /\ ~script[i].cut =>
                   /\ Tokens(s)[i] # NoToken
                   /\ Tokens(s)[i].opcode = script[i].op /\ Tokens(s)[i].data = script[i].data
                   /\ Tokens(s)[i].next = off[i + 1] + 1
<1> DEFINE n == Len(script)
           toks == Tokens(s)
<1>1. n \in Nat /\ toks = [i \in 1..n |-> TokenAt(off, script, i)]
  BY TokensLaid, WireSteps DEF Wire
<1>2. \A i \in 1..n : Element(script[i]) /\ off[i + 1] \in Nat
  BY WireSteps DEF Wire, Serialised
<1> HIDE DEF toks
<1>3. ASSUME NEW i \in 1..n
      PROVE  /\ script[i].cut => toks[i] = NoToken
             /\ ~script[i].cut =>
                  /\ toks[i] # NoToken
                  /\ toks[i].opcode = script[i].op /\ toks[i].data = script[i].data
                  /\ toks[i].next = off[i + 1] + 1
  <2> DEFINE op == script[i].op
             data == script[i].data
             next == off[i + 1] + 1
             r == [opcode |-> op, data |-> data, next |-> next]
  <2>1. toks[i] = IF script[i].cut THEN NoToken ELSE r
    BY <1>1 DEF TokenAt
  <2>2. op \in Octet /\ data \in Seq(Octet) /\ next \in Nat
    BY <1>2 DEF Element
  <2>3. op \in Nat /\ data \in Seq(Nat)
    BY <2>2, OctetNat, WiderSet
  <2> HIDE DEF op, data, next
  <2>4. r \in [opcode : Nat, data : Seq(Nat), next : Nat]
    BY <2>2, <2>3
  <2>5. r.opcode = op /\ r.data = data /\ r.next = next
    OBVIOUS
  <2> HIDE DEF r
  <2>6. r # NoToken
    BY <2>4, NoTokenAssumption
  <2>7. QED
    BY <2>1, <2>5, <2>6 DEF op, data, next
<1>4. Len(toks) = n /\ DOMAIN toks = 1..n
  <2> HIDE DEF n
  <2>1. QED
    BY <1>1
<1>5. QED
  BY <1>3, <1>4 DEF toks

LEMMA PushOnlyIs ==
  ASSUME NEW script, NEW off, NEW s, Wire(script, off, s)
  PROVE  isPushOnly(s) <=>
           \A i \in 1..Len(script) : ~script[i].cut /\ script[i].op <= 96 /\ script[i].op # 80
<1> DEFINE toks == Tokens(s)
           n == Len(script)
           Push(i) == ~script[i].cut /\ script[i].op <= 96 /\ script[i].op # 80
<1>1. isPushOnly(s) <=> \A i \in DOMAIN toks : toks[i] # NoToken /\ IsPushOpcode(toks[i].opcode)
  BY DEF isPushOnly, Range
<1>2. DOMAIN toks = 1..n
  BY WireTokens
<1>3. ASSUME NEW i \in 1..n
      PROVE  toks[i] # NoToken /\ IsPushOpcode(toks[i].opcode) <=> Push(i)
  <2> DEFINE op == script[i].op
  <2>1. script[i].cut \in BOOLEAN /\ op \in Nat
    BY WireSteps
  <2>2. /\ script[i].cut => toks[i] = NoToken
        /\ ~script[i].cut => toks[i] # NoToken /\ toks[i].opcode = op
    BY WireTokens
  <2> HIDE DEF op, toks
  <2>3. IsPushOpcode(op) <=> op <= 96 /\ op # 80
    BY <2>1 DEF IsPushOpcode, op1Negate, op1, op16
  <2>4. CASE script[i].cut
    BY <2>2, <2>4
  <2>5. CASE ~script[i].cut
    BY <2>2, <2>3, <2>5 DEF op
  <2>6. QED
    BY <2>1, <2>4, <2>5
<1> HIDE DEF toks, Push, n
<1>4. isPushOnly(s) <=> \A i \in 1..n : Push(i)
  BY <1>1, <1>2, <1>3
<1>5. QED
  BY <1>4 DEF Push, n

LEMMA NullDataShape ==
  ASSUME NEW script, NEW off, NEW s, Wire(script, off, s)
  PROVE  matchNullData(s) <=>
           /\ Complete(script) /\ script[1].op = 106
           /\ \A i \in 2..Len(script) : script[i].op <= 96 /\ script[i].op # 80
<1> DEFINE n == Len(script)
           Push(i) == ~script[i].cut /\ script[i].op <= 96 /\ script[i].op # 80
<1>1. Paced(script, off, s) /\ n \in Nat /\ DOMAIN script = 1..n
  BY WirePaced, ListHas DEF Wire, Serialised
<1>2. /\ s \in Seq(Octet) /\ Len(s) \in Nat
      /\ Len(s) # 0 => 1 \in 1..n /\ script # << >>
      /\ script # << >> => 1 \in 1..n /\ s[1] = script[1].op /\ Len(s) # 0
  BY FirstElement, WireSteps
<1>3. s # << >> <=> Len(s) # 0
  BY <1>2
<1>4. ASSUME 1 \in 1..n, script[1].op = 106
      PROVE  isPushOnly(Tail(s)) <=> \A i \in 2..n : Push(i)
  <2>1. off[2] = 1
    <3>1. PacedAt(script, off, s, 1) /\ off[1] = 0
      BY <1>1, <1>4 DEF Paced
    <3>2. QED
      BY <1>4, <3>1 DEF PacedAt
  <2> DEFINE tail == Tail(script)
             tn == Len(tail)
  <2>2. /\ \E rest : Wire(tail, rest, Tail(s))
        /\ tn = n - 1 /\ \A i \in 1..(n - 1) : tail[i] = script[i + 1]
    BY <1>4, <2>1, WireTail
  <2> HIDE DEF tail
  <2>3. isPushOnly(Tail(s)) <=>
          \A i \in 1..tn : ~tail[i].cut /\ tail[i].op <= 96 /\ tail[i].op # 80
    BY <2>2, PushOnlyIs
  <2> HIDE DEF n, tn
  <2>4. ASSUME NEW i \in 1..tn
        PROVE  (~tail[i].cut /\ tail[i].op <= 96 /\ tail[i].op # 80) <=> Push(i + 1)
    BY <1>1, <2>2
  <2> HIDE DEF Push
  <2>5. (\A i \in 1..tn : Push(i + 1)) <=> \A i \in 2..n : Push(i)
    <3>1. ASSUME \A i \in 1..tn : Push(i + 1), NEW j \in 2..n PROVE Push(j)
      <4>1. j - 1 \in 1..tn /\ (j - 1) + 1 = j
        BY <1>1, <2>2
      <4>2. Push((j - 1) + 1)
        BY <3>1, <4>1
      <4>3. QED
        BY <4>1, <4>2
    <3>2. ASSUME \A i \in 2..n : Push(i), NEW i \in 1..tn PROVE Push(i + 1)
      <4>1. i + 1 \in 2..n
        BY <1>1, <2>2
      <4>2. QED
        BY <3>2, <4>1
    <3>3. QED
      BY <3>1, <3>2
  <2>6. QED
    BY <2>3, <2>4, <2>5
<1>5. matchNullData(s) <=> s # << >> /\ s[1] = 106 /\ isPushOnly(Tail(s))
  BY DEF matchNullData, opReturn
<1>6. ASSUME 1 \in 1..n, script[1].op = 106
      PROVE  (\A i \in 2..n : Push(i)) <=>
               Complete(script) /\ \A i \in 2..n : script[i].op <= 96 /\ script[i].op # 80
  <2>1. ~script[1].cut
    <3>1. PacedAt(script, off, s, 1)
      BY <1>1, <1>6 DEF Paced
    <3>2. QED
      BY <1>6, <3>1 DEF PacedAt
  <2>2. \A i \in 1..n : i = 1 \/ i \in 2..n
    BY <1>1
  <2>3. \A i \in 2..n : i \in 1..n
    BY <1>1
  <2>4. script # << >>
    BY <1>1, <1>6
  <2>5. Complete(script) <=> \A i \in 1..n : ~script[i].cut
    BY <1>1, <2>4 DEF Complete
  <2> HIDE DEF n
  <2>6. Complete(script) <=> \A i \in 2..n : ~script[i].cut
    BY <2>1, <2>2, <2>3, <2>5
  <2>7. QED
    BY <2>6
<1> HIDE DEF Push, n
<1>7. ASSUME matchNullData(s)
      PROVE  1 \in 1..n /\ script[1].op = 106 /\ \A i \in 2..n : Push(i)
  BY <1>2, <1>3, <1>4, <1>5, <1>7
<1>8. ASSUME Complete(script), script[1].op = 106, \A i \in 2..n : Push(i)
      PROVE  matchNullData(s)
  <2>1. script # << >>
    BY <1>8 DEF Complete
  <2>2. QED
    BY <1>2, <1>3, <1>4, <1>5, <1>8, <2>1
<1>9. Complete(script) => 1 \in 1..n
  BY <1>2 DEF Complete
<1>10. QED
  BY <1>6, <1>7, <1>8, <1>9 DEF n

\* A number in front of or behind the keys, as Core encodes it.
LEMMA ScriptNumber ==
  ASSUME NEW e, NEW t, t.opcode = e.op, t.data = e.data, e.op \in Nat,
         e.op = 1 => e.data = <<e.data[1]>>, NEW lo \in 1..20
  PROVE  LET v == multisigScriptNumber(t, lo, 20)
         IN  /\ v \in 0..20
             /\ v # 0 => v \in lo..20 /\ Encodes(e, v)
             /\ \A w \in lo..20 : Encodes(e, w) => v = w
<1> DEFINE op == e.op
           d == e.data[1]
           u == IF op \in 81..96 THEN op - 81 + 1 ELSE IF op = 1 /\ d \in 17..20 THEN d ELSE 0
           v == multisigScriptNumber(t, lo, 20)
<1>1. v = IF u \in lo..20 THEN u ELSE 0
  BY DEF multisigScriptNumber, op1, op16, maxPubKeysPerMultisig
<1>2. op = 1 => e.data = <<d>>
  OBVIOUS
<1>3. \A w : Encodes(e, w) <=> IF w <= 16 THEN op = 80 + w ELSE op = 1 /\ e.data = <<w>>
  BY DEF Encodes
<1> HIDE DEF d, v
<1>4. op \in Nat
  OBVIOUS
<1> HIDE DEF op
<1>5. v \in 0..20 /\ (v # 0 => v \in lo..20 /\ v = u)
  BY <1>1
<1>6. ASSUME v # 0 PROVE Encodes(e, v)
  <2>1. CASE op \in 81..96
    <3>1. v <= 16 /\ op = 80 + v
      BY <1>4, <1>5, <1>6, <2>1
    <3>2. QED
      BY <1>3, <3>1
  <2>2. CASE op \notin 81..96
    <3>1. op = 1 /\ d \in 17..20 /\ v = d
      BY <1>4, <1>5, <1>6, <2>2
    <3>2. ~(v <= 16) /\ e.data = <<v>>
      BY <1>2, <3>1
    <3>3. QED
      BY <1>3, <3>1, <3>2
  <2>3. QED
    BY <2>1, <2>2
<1>7. ASSUME NEW w \in lo..20, Encodes(e, w) PROVE v = w
  <2>1. CASE w <= 16
    <3>1. op = 80 + w
      BY <1>3, <1>7, <2>1
    <3>2. op \in 81..96 /\ u = w
      BY <2>1, <3>1
    <3>3. QED
      BY <1>1, <3>2
  <2>2. CASE ~(w <= 16)
    <3>1. op = 1 /\ e.data = <<w>>
      BY <1>3, <1>7, <2>2
    <3>2. d = w
      BY <1>2, <3>1
    <3>3. u = w
      BY <2>2, <3>1, <3>2
    <3>4. QED
      BY <1>1, <3>3
  <2>3. QED
    BY <2>1, <2>2
<1>8. QED
  BY <1>5, <1>6, <1>7 DEF v

\* Where the keys end: the first token behind the first one that is none.
LEMMA EndOfKeys ==
  ASSUME NEW toks, NEW n \in Nat \ {0}, n = Len(toks)
  PROVE  LET Key(k) == toks[k] # NoToken /\ isPubKeyPush(toks[k].data)
         IN  /\ KeysEnd(toks) \in 2..(n + 1)
             /\ KeysEnd(toks) <= n => ~Key(KeysEnd(toks))
             /\ \A k \in 2..(n + 1) : k < KeysEnd(toks) => Key(k)
             /\ \A e \in 2..n : ~Key(e) /\ (\A k \in 2..(e - 1) : Key(k)) => KeysEnd(toks) = e
<1> DEFINE Key(k) == toks[k] # NoToken /\ isPubKeyPush(toks[k].data)
           Ends == {k \in 2..(n + 1) : k = n + 1 \/ toks[k] = NoToken \/ ~isPubKeyPush(toks[k].data)}
           end == KeysEnd(toks)
<1>1. end = Min(Ends)
  BY DEF KeysEnd
<1>2. \A k : k \in Ends <=> k \in 2..(n + 1) /\ (k = n + 1 \/ ~Key(k))
  OBVIOUS
<1> HIDE DEF Ends, end, Key
<1>3. n + 1 \in Ends /\ Ends \subseteq Nat
  BY <1>2
<1>4. end \in Ends /\ \A k \in Ends : end <= k
  BY <1>1, <1>3, Least DEF Min
<1>5. end \in 2..(n + 1) /\ (end <= n => ~Key(end))
  BY <1>2, <1>4
<1>6. ASSUME NEW k \in 2..(n + 1), k < end PROVE Key(k)
  <2>1. k \notin Ends
    BY <1>4, <1>5, <1>6
  <2>2. QED
    BY <1>2, <2>1
<1>7. ASSUME NEW e \in 2..n, ~Key(e), \A k \in 2..(e - 1) : Key(k) PROVE end = e
  <2>1. e \in Ends
    BY <1>2, <1>7
  <2>2. end <= e
    BY <1>4, <2>1
  <2>3. end < e => Key(end) /\ end <= n
    BY <1>5, <1>7
  <2>4. QED
    BY <1>5, <2>2, <2>3
<1>8. QED
  BY <1>5, <1>6, <1>7 DEF Key, end

LEMMA MultisigShape ==
  ASSUME NEW script, NEW off, NEW s, Wire(script, off, s)
  PROVE  /\ matchMultisig(s) # << >> <=> Complete(script) /\ SolverMultisig(script)
         /\ matchMultisig(s) # << >> =>
              matchMultisig(s) = [k \in 1..(Len(script) - 3) |-> script[k + 1].data]
<1> DEFINE n == Len(script)
           toks == Tokens(s)
           end == KeysEnd(toks)
           m == multisigScriptNumber(toks[1], 1, 20)
           count == multisigScriptNumber(toks[end], m, 20)
           keys == [k \in 1..count |-> toks[k + 1].data]
           L == Len(s)
           Accepted == /\ L >= 3 /\ Last(s) = 174
                       /\ toks[1] # NoToken /\ m # 0
                       /\ end <= Len(toks) /\ toks[end] # NoToken /\ count # 0
                       /\ count = end - 2 /\ toks[end].next = L
<1>1. matchMultisig(s) = IF Accepted THEN keys ELSE << >>
  BY DEF matchMultisig, opCheckMultisig, maxPubKeysPerMultisig
<1>2. Serialised(script) /\ n \in Nat /\ L \in Nat /\ DOMAIN script = 1..n
  BY WireSteps, ListHas DEF Wire, Serialised
<1>3. /\ Len(toks) = n
      /\ \A i \in 1..n :
           /\ script[i].cut => toks[i] = NoToken
           /\ ~script[i].cut => /\ toks[i] # NoToken
                                /\ toks[i].opcode = script[i].op /\ toks[i].data = script[i].data
                                /\ toks[i].next = off[i + 1] + 1
  BY WireTokens
<1>4. /\ L # 0 => 1 \in 1..n
      /\ off[1] = 0 /\ off[n + 1] = L
      /\ \A i \in 1..n : PacedAt(script, off, s, i) /\ script[i].cut \in BOOLEAN /\ (script[i].cut => i = n)
  BY FirstElement, WirePaced, WireSteps DEF Paced
<1>5. ASSUME NEW i \in 1..n, ~script[i].cut, script[i].op = 1
      PROVE  script[i].data = <<script[i].data[1]>>
  <2> DEFINE data == script[i].data
  <2>1. Len(data) = 1
    <3>1. ~script[i].cut /\ script[i].op \in 1..75 => Len(script[i].data) = script[i].op
      BY WireSteps
    <3>2. QED
      BY <1>5, <3>1
  <2>2. data \in Seq(Octet)
    BY <1>2 DEF Serialised, Element
  <2> HIDE DEF data
  <2>3. data = <<data[1]>>
    BY <2>1, <2>2
  <2>4. QED
    BY <2>3 DEF data
<1>6. ASSUME NEW i \in 1..n, ~script[i].cut, NEW lo \in 1..20
      PROVE  LET v == multisigScriptNumber(toks[i], lo, 20)
             IN  /\ v \in 0..20
                 /\ v # 0 => v \in lo..20 /\ Encodes(script[i], v)
                 /\ \A w \in lo..20 : Encodes(script[i], w) => v = w
  <2> DEFINE e == script[i]
             t == toks[i]
  <2>1. t.opcode = e.op /\ t.data = e.data /\ (e.op = 1 => e.data = <<e.data[1]>>)
    BY <1>3, <1>5, <1>6
  <2>2. e.op \in Nat
    BY <1>4 DEF PacedAt
  <2> HIDE DEF e, t
  <2>3. LET v == multisigScriptNumber(t, lo, 20)
        IN  /\ v \in 0..20
            /\ v # 0 => v \in lo..20 /\ Encodes(e, v)
            /\ \A w \in lo..20 : Encodes(e, w) => v = w
    BY <2>1, <2>2, ScriptNumber
  <2>4. QED
    BY <2>3 DEF e, t
<1>7. ASSUME NEW d PROVE isPubKeyPush(d) <=> ValidSize(d)
  BY DEF isPubKeyPush, ValidSize, compressedPKLen, uncompressedPKLen
<1>8. s \in Seq(Octet) /\ Last(s) = s[L]
  BY WireSteps DEF Last
<1> HIDE DEF n, toks, L
<1> DEFINE Key(k) == toks[k] # NoToken /\ isPubKeyPush(toks[k].data)
<1>9. n # 0 => /\ end \in 2..(n + 1)
               /\ end <= n => ~Key(end)
               /\ \A k \in 2..(n + 1) : k < end => Key(k)
               /\ \A e \in 2..n : ~Key(e) /\ (\A k \in 2..(e - 1) : Key(k)) => end = e
  BY <1>2, <1>3, EndOfKeys
<1> HIDE DEF end, m, count, keys, Key
<1>10. ASSUME Accepted
       PROVE  /\ Complete(script) /\ SolverMultisig(script)
              /\ keys = [k \in 1..(n - 3) |-> script[k + 1].data] /\ keys # << >>
  <2>1. /\ L >= 3 /\ s[L] = 174 /\ toks[1] # NoToken /\ m # 0
        /\ end <= n /\ toks[end] # NoToken /\ count # 0 /\ count = end - 2 /\ toks[end].next = L
    BY <1>3, <1>8, <1>10
  <2>2. n # 0 /\ 1 \in 1..n /\ end \in 2..n
    <3>1. L # 0
      BY <1>2, <2>1
    <3>2. 1 \in 1..n
      BY <1>4, <3>1
    <3>3. n # 0
      BY <1>2, <3>2
    <3>4. QED
      BY <1>2, <1>9, <2>1, <3>2, <3>3
  <2>3. ~script[1].cut /\ ~script[end].cut
    <3>1. end \in 1..n
      BY <2>2
    <3>2. QED
      BY <1>3, <1>4, <2>1, <2>2, <3>1
  <2>4. m \in 1..20 /\ Encodes(script[1], m)
    <3>1. 1 \in 1..20
      OBVIOUS
    <3>2. m \in 0..20 /\ (m # 0 => m \in 1..20 /\ Encodes(script[1], m))
      BY <1>6, <2>2, <2>3, <3>1 DEF m
    <3>3. QED
      BY <2>1, <3>2
  <2>5. count \in m..20 /\ Encodes(script[end], count) /\ count \in Nat
    <3>1. end \in 1..n
      BY <2>2
    <3>2. count \in 0..20 /\ (count # 0 => count \in m..20 /\ Encodes(script[end], count))
      BY <1>6, <2>3, <2>4, <3>1 DEF count
    <3>3. QED
      BY <2>1, <3>2
  <2>6. off[end + 1] = L - 1
    <3>1. toks[end].next = off[end + 1] + 1
      BY <1>3, <2>2, <2>3
    <3>2. PacedAt(script, off, s, end)
      BY <1>4, <2>2
    <3>3. off[end + 1] \in Nat
      BY <3>2 DEF PacedAt
    <3>4. QED
      BY <1>2, <2>1, <3>1, <3>3
  <2>7. end + 1 \in 1..n
    <3>1. PacedAt(script, off, s, end)
      BY <1>4, <2>2
    <3>2. off[end + 1] < L
      BY <1>2, <2>6
    <3>3. QED
      BY <3>1, <3>2 DEF PacedAt, L, n
  <2> DEFINE z == end + 1
  <2>8. PacedAt(script, off, s, z) /\ off[z] = L - 1 /\ z \in 1..n
    BY <1>4, <2>6, <2>7
  <2>9. script[z].op = 174
    <3>1. s[off[z] + 1] = script[z].op
      BY <2>8 DEF PacedAt
    <3>2. off[z] + 1 = L
      BY <1>2, <2>8
    <3>3. QED
      BY <2>1, <3>1, <3>2
  <2>10. off[z + 1] = L /\ ~script[z].cut
    <3>1. script[z].op = 0 \/ script[z].op > 78 => off[z + 1] = off[z] + 1 /\ ~script[z].cut
      BY <2>8 DEF PacedAt
    <3>2. off[z + 1] = off[z] + 1 /\ ~script[z].cut
      BY <2>9, <3>1
    <3>3. QED
      BY <1>2, <2>8, <3>2
  <2>11. z = n
    BY <2>8, <2>10 DEF PacedAt, L, n
  <2>12. n = end + 1 /\ n >= 4 /\ count = n - 3 /\ end = n - 1 /\ m \in 1..(n - 3) /\ n - 3 <= 20
    <3>1. n = end + 1
      BY <2>11
    <3>2. end \in Nat /\ count \in m..20 /\ m \in 1..20 /\ count = end - 2
      BY <2>1, <2>2, <2>4, <2>5
    <3>3. QED
      BY <3>1, <3>2
  <2>13. ASSUME NEW k \in 2..(n - 2)
         PROVE  k \in 1..n /\ toks[k].data = script[k].data /\ ValidSize(script[k].data)
    <3>1. k \in 2..(n + 1) /\ k < end /\ k \in 1..n /\ k # n
      BY <1>2, <2>12
    <3>2. Key(k)
      BY <1>9, <2>2, <3>1
    <3>3. ~script[k].cut
      BY <1>4, <3>1
    <3>4. toks[k].data = script[k].data
      BY <1>3, <3>1, <3>3
    <3>5. QED
      BY <1>7, <3>1, <3>2, <3>4 DEF Key
  <2>14. Complete(script)
    <3>1. ~script[n].cut /\ n \in 1..n
      BY <2>8, <2>10, <2>11
    <3>2. QED
      BY <1>2, <3>1, CompleteWhen DEF n
  <2>15. SolverMultisig(script)
    <3>1. n >= 4 /\ script[n].op = opCheckMultisig
      BY <2>9, <2>11, <2>12 DEF opCheckMultisig
    <3>2. Encodes(script[n - 1], n - 3) /\ n - 3 <= 20
      BY <2>5, <2>12
    <3>3. \E w \in 1..(n - 3) : Encodes(script[1], w)
      BY <2>4, <2>12
    <3>4. \A i \in 2..(n - 2) : ValidSize(script[i].data)
      BY <2>13
    <3>5. QED
      BY <3>1, <3>2, <3>3, <3>4 DEF SolverMultisig, n
  <2>16. keys = [k \in 1..(n - 3) |-> script[k + 1].data]
    <3>1. ASSUME NEW k \in 1..(n - 3) PROVE toks[k + 1].data = script[k + 1].data
      <4>1. k + 1 \in 2..(n - 2)
        BY <1>2
      <4>2. QED
        BY <2>13, <4>1
    <3>2. QED
      BY <2>12, <3>1 DEF keys
  <2>17. keys # << >>
    <3>1. 1 \in 1..(n - 3)
      BY <1>2, <2>12
    <3>2. 1 \in DOMAIN keys
      BY <2>16, <3>1
    <3>3. QED
      BY <3>2
  <2>18. QED
    BY <2>14, <2>15, <2>16, <2>17
<1>11. ASSUME Complete(script), SolverMultisig(script)
       PROVE  Accepted
  <2>1. /\ n >= 4 /\ script[n].op = 174
        /\ Encodes(script[n - 1], n - 3) /\ n - 3 <= 20
        /\ \A i \in 2..(n - 2) : ValidSize(script[i].data)
    BY <1>11 DEF SolverMultisig, n, opCheckMultisig
  <2>2. PICK w \in 1..(n - 3) : Encodes(script[1], w)
    BY <1>11 DEF SolverMultisig, n
  <2>3. w \in 1..20 /\ n - 3 \in w..20 /\ n \in 1..n /\ 1 \in 1..n /\ n - 1 \in 1..n /\ n # 0
    BY <1>2, <2>1
  <2>4. \A i \in 1..n : ~script[i].cut
    BY <1>2, <1>11 DEF Complete
  <2>5. m = w
    <3>1. 1 \in 1..20
      OBVIOUS
    <3>2. QED
      BY <1>6, <2>2, <2>3, <2>4, <3>1 DEF m
  <2>6. end = n - 1
    <3>1. n - 1 \in 2..n
      BY <1>2, <2>1
    <3>2. ~Key(n - 1)
      <4> DEFINE e == script[n - 1]
                 data == e.data
      <4>1. IF n - 3 <= 16 THEN e.op = 80 + (n - 3) ELSE e.op = 1 /\ data = <<n - 3>>
        BY <2>1 DEF Encodes
      <4>2. toks[n - 1].data = data
        BY <1>3, <2>3, <2>4
      <4>3. Len(data) = 0 \/ Len(data) = 1
        <5>1. CASE n - 3 <= 16
          <6>1. ~HasOperand(e.op)
            BY <1>2, <2>1, <4>1, <5>1 DEF HasOperand, opFalse, opPushData4
          <6>2. data = << >>
            BY <2>3, <6>1, WireSteps DEF n
          <6>3. QED
            BY <6>2
        <5>2. CASE ~(n - 3 <= 16)
          BY <4>1, <5>2
        <5>3. QED
          BY <5>1, <5>2
      <4>4. ~ValidSize(data)
        BY <4>3 DEF ValidSize
      <4>5. QED
        BY <1>7, <4>2, <4>4 DEF Key
    <3>3. ASSUME NEW k \in 2..((n - 1) - 1) PROVE Key(k)
      <4>1. k \in 1..n /\ k \in 2..(n - 2)
        BY <1>2
      <4>2. QED
        BY <1>3, <1>7, <2>1, <2>4, <4>1 DEF Key
    <3>4. QED
      BY <1>9, <2>3, <3>1, <3>2, <3>3
  <2>7. count = n - 3
    <3> DEFINE i == n - 1
               h == n - 3
    <3>1. i \in 1..n /\ ~script[i].cut /\ m \in 1..20 /\ h \in m..20 /\ Encodes(script[i], h)
      <4>1. n - 1 \in 1..n /\ m \in 1..20 /\ n - 3 \in m..20
        BY <2>3, <2>5
      <4>2. QED
        BY <2>1, <2>4, <4>1
    <3>2. count = multisigScriptNumber(toks[i], m, 20)
      BY <2>6 DEF count
    <3> HIDE DEF i, h
    <3>3. \A v \in m..20 : Encodes(script[i], v) => multisigScriptNumber(toks[i], m, 20) = v
      BY <1>6, <3>1
    <3>4. count = h
      BY <3>1, <3>2, <3>3
    <3>5. QED
      BY <3>4 DEF h
  <2>8. off[n] = L - 1
    <3>1. PacedAt(script, off, s, n)
      BY <1>4, <2>3
    <3>2. off[n + 1] = off[n] + 1 /\ off[n] \in Nat
      <4>1. script[n].op = 0 \/ script[n].op > 78
        BY <2>1
      <4>2. QED
        BY <3>1, <4>1 DEF PacedAt
    <3>3. QED
      BY <1>2, <1>4, <3>2
  <2>9. s[L] = 174
    <3>1. PacedAt(script, off, s, n)
      BY <1>4, <2>3
    <3>2. s[off[n] + 1] = 174
      BY <2>1, <3>1 DEF PacedAt
    <3>3. off[n] + 1 = L
      BY <1>2, <2>8
    <3>4. QED
      BY <3>2, <3>3
  <2>10. toks[end].next = L
    <3>1. toks[n - 1].next = off[(n - 1) + 1] + 1
      BY <1>3, <2>3, <2>4
    <3>2. (n - 1) + 1 = n
      BY <1>2
    <3>3. QED
      BY <1>2, <2>6, <2>8, <3>1, <3>2
  <2>11. L >= 3
    <3>1. /\ 2 \in 1..n /\ 3 \in 1..n /\ PacedAt(script, off, s, 1) /\ PacedAt(script, off, s, 2)
          /\ PacedAt(script, off, s, 3)
      BY <1>2, <1>4, <2>1, <2>3
    <3>2. off[1] < off[2] /\ off[2] < off[3] /\ off[3] < off[4] /\ off[4] <= L
          /\ off[2] \in Nat /\ off[3] \in Nat /\ off[4] \in Nat
      BY <3>1 DEF PacedAt, L
    <3>3. QED
      BY <1>2, <1>4, <3>2
  <2>12. toks[1] # NoToken /\ toks[end] # NoToken /\ end <= Len(toks)
    BY <1>2, <1>3, <2>3, <2>4, <2>6
  <2>13. m # 0 /\ count # 0 /\ count = end - 2
    BY <1>2, <2>1, <2>3, <2>5, <2>6, <2>7
  <2>14. QED
    BY <1>8, <2>9, <2>10, <2>11, <2>12, <2>13
<1> HIDE DEF Accepted
<1>12. QED
  BY <1>1, <1>10, <1>11 DEF n
-----------------------------------------------------------------------------
(* The classifier                                                          *)

\* The first of a script's tokens is the one at its first byte.
LEMMA FirstToken ==
  ASSUME NEW s \in Seq(Octet), s # << >>
  PROVE  Tokens(s)[1] = nextToken(s, 1)
<1> DEFINE L == Len(s)
           S == {NoToken} \cup {nextToken(s, i) : i \in 1..L}
<1>1. L \in Nat /\ L # 0
  OBVIOUS
<1>2. PICK g : /\ Tokens(s) = g[1] /\ g[L + 1] = << >>
               /\ \A i \in 1..L :
                    g[i] = IF nextToken(s, i) = NoToken THEN <<NoToken>>
                           ELSE <<nextToken(s, i)>> \o g[nextToken(s, i).next]
  BY TokensAre
<1>3. ASSUME NEW i \in 1..L
      PROVE  /\ nextToken(s, i) \in S
             /\ nextToken(s, i) # NoToken => nextToken(s, i).next \in (i + 1)..(L + 1)
  BY <1>3, NextToken
<1> HIDE DEF L, S
<1> DEFINE Bad == {m \in 0..L : g[(L + 1) - m] \notin Seq(S)}
<1>4. Bad = {}
  <2> SUFFICES ASSUME Bad # {} PROVE FALSE
    OBVIOUS
  <2>1. PICK m \in Bad : \A k \in Bad : m <= k
    <3>1. Bad \subseteq Nat
      OBVIOUS
    <3> HIDE DEF Bad
    <3>2. QED
      BY <3>1, Least
  <2> DEFINE i == (L + 1) - m
             t == nextToken(s, i)
             j == t.next
  <2>2. m \in 0..L /\ g[i] \notin Seq(S)
    OBVIOUS
  <2>3. m # 0
    <3> SUFFICES ASSUME m = 0 PROVE FALSE
      OBVIOUS
    <3>1. i = L + 1
      BY <1>1
    <3>2. << >> \in Seq(S)
      OBVIOUS
    <3> HIDE DEF i
    <3>3. QED
      BY <1>2, <2>2, <3>1, <3>2
  <2>4. i \in 1..L
    BY <1>1, <2>2, <2>3
  <2>5. t \in S /\ (t # NoToken => j \in (i + 1)..(L + 1))
    BY <1>3, <2>4
  <2>6. g[i] = IF t = NoToken THEN <<t>> ELSE <<t>> \o g[j]
    BY <1>2, <2>4
  <2>7. ASSUME t # NoToken PROVE g[j] \in Seq(S)
    <3> DEFINE k == (L + 1) - j
    <3>1. j \in (i + 1)..(L + 1)
      BY <2>5, <2>7
    <3> HIDE DEF j
    <3>2. k \in 0..L /\ ~(m <= k) /\ (L + 1) - k = j
      BY <1>1, <2>2, <3>1
    <3>3. k \notin Bad
      BY <2>1, <3>2
    <3>4. QED
      BY <3>2, <3>3
  <2> HIDE DEF t, j, i, Bad
  <2>8. <<t>> \in Seq(S)
    BY <2>5
  <2>9. QED
    BY <2>2, <2>6, <2>7, <2>8
<1>5. ASSUME NEW i \in 1..(L + 1) PROVE g[i] \in Seq(S)
  <2> DEFINE m == (L + 1) - i
  <2>1. m \in 0..L /\ (L + 1) - m = i
    BY <1>1
  <2>2. m \notin Bad
    BY <1>4
  <2>3. QED
    BY <2>1, <2>2
<1> DEFINE t == nextToken(s, 1)
<1>6. t \in S /\ (t # NoToken => t.next \in 1..(L + 1))
  <2>1. 1 \in 1..L
    BY <1>1
  <2>2. t \in S /\ (t # NoToken => t.next \in (1 + 1)..(L + 1))
    BY <1>3, <2>1
  <2>3. QED
    BY <1>1, <2>2
<1>7. g[1] = IF t = NoToken THEN <<NoToken>> ELSE <<t>> \o g[t.next]
  BY <1>1, <1>2
<1> HIDE DEF t
<1>8. t # NoToken => g[1][1] = t
  <2> HAVE t # NoToken
  <2> DEFINE rest == g[t.next]
             all == <<t>> \o rest
  <2>1. rest \in Seq(S) /\ t \in S
    BY <1>5, <1>6
  <2> HIDE DEF rest
  <2>2. all[1] = t
    BY <2>1, ListCons
  <2>3. QED
    BY <1>7, <2>2 DEF rest
<1>9. QED
  BY <1>2, <1>7, <1>8 DEF t

IsMultisig(s) == matchMultisig(s) # << >>

\* A bare multisig script begins with a small number: OP_1 to OP_16, or the push
\* of one byte.
LEMMA MultisigFirst ==
  ASSUME NEW s \in Seq(Octet), IsMultisig(s) PROVE s[1] \in op1 .. op16 \/ s[1] = 1
<1> DEFINE t == Tokens(s)[1]
<1>1. Len(s) >= 3 /\ t # NoToken /\ multisigScriptNumber(t, 1, maxPubKeysPerMultisig) # 0
  BY DEF IsMultisig, matchMultisig
<1>2. t.opcode \in op1 .. op16 \/ t.opcode = 1
  BY <1>1 DEF multisigScriptNumber, maxPubKeysPerMultisig
<1>3. s # << >> /\ 1 \in 1..Len(s)
  BY <1>1
<1>4. t = nextToken(s, 1)
  BY <1>3, FirstToken
<1>5. t.opcode = s[1]
  BY <1>1, <1>3, <1>4, NextToken
<1> QED BY <1>2, <1>5

\* No script, well-formed or not, is accepted by two of the legacy matchers, so
\* that the order in which Classify tries them decides nothing.
THEOREM MatchersExclusive ==
  ASSUME NEW s \in Seq(Octet)
  PROVE  /\ ~(matchP2PKH(s) /\ matchP2SH(s))
         /\ ~(matchP2PKH(s) /\ matchP2PK(s))
         /\ ~(matchP2PKH(s) /\ matchNullData(s))
         /\ ~(matchP2PKH(s) /\ IsMultisig(s))
         /\ ~(matchP2SH(s) /\ matchP2PK(s))
         /\ ~(matchP2SH(s) /\ matchNullData(s))
         /\ ~(matchP2SH(s) /\ IsMultisig(s))
         /\ ~(matchP2PK(s) /\ matchNullData(s))
         /\ ~(matchP2PK(s) /\ IsMultisig(s))
         /\ ~(matchNullData(s) /\ IsMultisig(s))
<1>1. /\ matchP2PKH(s) => s[1] = 118
      /\ matchP2SH(s) => s[1] = 169
      /\ matchP2PK(s) => s[1] \in {33, 65}
      /\ matchNullData(s) => s[1] = 106
  BY DEF matchP2PKH, matchP2SH, matchP2PK, matchNullData, opDup, opHash160, opReturn,
         compressedPKLen, uncompressedPKLen
<1>2. IsMultisig(s) => s[1] \in 81 .. 96 \/ s[1] = 1
  BY MultisigFirst DEF op1, op16
<1> DEFINE b == s[1]
<1>3. /\ matchP2PKH(s) => b = 118
      /\ matchP2SH(s) => b = 169
      /\ matchP2PK(s) => b \in {33, 65}
      /\ matchNullData(s) => b = 106
      /\ IsMultisig(s) => b \in 81 .. 96 \/ b = 1
  BY <1>1, <1>2
<1> HIDE DEF b
<1> QED BY <1>3
\* What Core's answer means to the classifier: Solver's type but for the one
\* case TypeOf names, the pushed keys of the two types that name their owners by
\* key.
CoreResult(script) ==
  LET type == TypeOf(script)
      n == Len(script)
  IN  Result(type,
        CASE type = "p2pk" -> <<script[1].data>>
          [] type = "multisig" -> [k \in 1..(n - 3) |-> script[k + 1].data]
          [] OTHER -> << >>)

\* What each of Solver's types takes, the cases in the order it lists them.
LEMMA SolverCases ==
  ASSUME NEW script, Serialised(script)
  PROVE  LET n == Len(script)
             Op(i) == script[i].op
             W == Complete(script)
             Witness == W /\ n = 2 /\ Op(1) \in {0} \cup 81..96 /\ Op(2) \in 2..40
             Hash == W /\ n = 5 /\ Op(1) = 118 /\ Op(2) = 169 /\ Op(3) = 20 /\ Op(4) = 136 /\ Op(5) = 172
             Script == W /\ n = 3 /\ Op(1) = 169 /\ Op(2) = 20 /\ Op(3) = 135
             Key == W /\ n = 2 /\ Op(1) \in {33, 65} /\ Op(2) = 172 /\ ValidSize(script[1].data)
             Data == W /\ Op(1) = 106 /\ \A i \in 2..n : Op(i) <= 96
             Multi == W /\ SolverMultisig(script)
         IN  /\ Witness => Solver(script) = WitnessType(IF Op(1) = 0 THEN 0 ELSE Op(1) - 80, Len(script[2].data))
             /\ Hash => Solver(script) = "p2pkh"
             /\ Script => Solver(script) = "p2sh"
             /\ Key => Solver(script) = "p2pk"
             /\ Data => Solver(script) = "nulldata"
             /\ Multi => Solver(script) = "multisig"
             /\ ~Witness /\ ~Hash /\ ~Script /\ ~Key /\ ~Data /\ ~Multi => Solver(script) = "unknown"
<1> DEFINE n == Len(script)
           Op(i) == script[i].op
           W == Complete(script)
           Witness == W /\ n = 2 /\ Op(1) \in {0} \cup 81..96 /\ Op(2) \in 2..40
           Hash == W /\ n = 5 /\ Op(1) = 118 /\ Op(2) = 169 /\ Op(3) = 20 /\ Op(4) = 136 /\ Op(5) = 172
           Script == W /\ n = 3 /\ Op(1) = 169 /\ Op(2) = 20 /\ Op(3) = 135
           Key == W /\ n = 2 /\ Op(1) \in {33, 65} /\ Op(2) = 172 /\ ValidSize(script[1].data)
           Data == W /\ Op(1) = 106 /\ \A i \in 2..n : Op(i) <= 96
           Multi == W /\ SolverMultisig(script)
           ops == [i \in DOMAIN script |-> script[i].op]
           version == IF Op(1) = 0 THEN 0 ELSE Op(1) - 80
           type == WitnessType(version, Len(script[2].data))
<1>1. /\ \A i \in 1..n : ops[i] = Op(i)
      /\ Len(ops) = n /\ n \in Nat /\ DOMAIN script = 1..n
      /\ ops = <<118, 169, 20, 136, 172>> <=>
           n = 5 /\ Op(1) = 118 /\ Op(2) = 169 /\ Op(3) = 20 /\ Op(4) = 136 /\ Op(5) = 172
      /\ ops = <<169, 20, 135>> <=> n = 3 /\ Op(1) = 169 /\ Op(2) = 20 /\ Op(3) = 135
      /\ ops = <<33, 172>> <=> n = 2 /\ Op(1) = 33 /\ Op(2) = 172
      /\ ops = <<65, 172>> <=> n = 2 /\ Op(1) = 65 /\ Op(2) = 172
  BY Opcodes
<1>2. W => n \in 1..n /\ 1 \in 1..n
  BY ListHas DEF Complete, Serialised
<1>3. SolverMultisig(script) => n >= 4 /\ (Op(1) \in 81..96 \/ Op(1) = 1)
  <2> HAVE SolverMultisig(script)
  <2>1. n >= 4 /\ n - 3 <= 20 /\ \E m \in 1..(n - 3) : Encodes(script[1], m)
    BY DEF SolverMultisig
  <2>2. PICK m \in 1..(n - 3) : Encodes(script[1], m)
    BY <2>1
  <2>3. IF m <= 16 THEN Op(1) = 80 + m ELSE Op(1) = 1
    BY <2>2 DEF Encodes
  <2> HIDE DEF n
  <2>4. m \in 1..20 /\ n >= 4
    <3>1. n \in Nat
      BY <1>1
    <3>2. QED
      BY <2>1, <2>2, <3>1
  <2> DEFINE op == Op(1)
  <2>5. IF m <= 16 THEN op = 80 + m ELSE op = 1
    BY <2>3
  <2> HIDE DEF op
  <2>6. op \in 81..96 \/ op = 1
    BY <2>4, <2>5
  <2>7. QED
    BY <2>4, <2>6 DEF op
<1>4. Solver(script) =
        CASE ~W -> "unknown"
          [] Witness -> type
          [] Hash -> "p2pkh"
          [] Script -> "p2sh"
          [] Key -> "p2pk"
          [] Data -> "nulldata"
          [] Multi -> "multisig"
          [] OTHER -> "unknown"
  <2> DEFINE g1 == W /\ Len(script) = 2 /\ ops[1] \in {0} \cup 81 .. 96 /\ ops[2] \in 2 .. 40
             g2 == W /\ ops = <<opDup, opHash160, 20, opEqualVerify, opCheckSig>>
             g3 == W /\ ops = <<opHash160, 20, opEqual>>
             g4 == W /\ ops \in {<<33, opCheckSig>>, <<65, opCheckSig>>} /\ ValidSize(script[1].data)
             g5 == W /\ ops[1] = opReturn /\ \A i \in 2 .. Len(ops) : ops[i] <= 96
             v == IF ops[1] = 0 THEN 0 ELSE ops[1] - 80
             t == WitnessType(v, Len(script[2].data))
  <2>1. Solver(script) =
          CASE ~W -> "unknown"
            [] g1 -> t
            [] g2 -> "p2pkh"
            [] g3 -> "p2sh"
            [] g4 -> "p2pk"
            [] g5 -> "nulldata"
            [] Multi -> "multisig"
            [] OTHER -> "unknown"
    BY Zenon DEF Solver, Complete
  <2>2. W => ops[1] = Op(1)
    BY <1>1, <1>2
  <2>3. g1 <=> Witness
    <3> HIDE DEF W, ops
    <3>1. n = 2 => ops[1] = Op(1) /\ ops[2] = Op(2)
      BY <1>1
    <3>2. QED
      BY <3>1
  <2>4. g1 => t = type
    BY <2>2
  <2>5. g2 <=> Hash
    BY <1>1 DEF opDup, opHash160, opEqualVerify, opCheckSig
  <2>6. g3 <=> Script
    BY <1>1 DEF opHash160, opEqual
  <2>7. g4 <=> Key
    <3> HIDE DEF W, ops
    <3>1. QED
      BY <1>1 DEF opCheckSig
  <2>8. g5 <=> Data
    <3> HIDE DEF W, ops
    <3>1. ASSUME NEW i \in 2..n PROVE ops[i] = Op(i)
      BY <1>1
    <3>2. QED
      BY <1>1, <2>2, <3>1 DEF opReturn
  <2> HIDE DEF W, g1, g2, g3, g4, g5, Witness, Hash, Script, Key, Data, Multi, t, type
  <2>9. QED
    BY <2>1, <2>3, <2>4, <2>5, <2>6, <2>7, <2>8
<1>5. /\ Witness => W /\ ~Hash /\ ~Script /\ ~Key /\ ~Data /\ ~Multi
      /\ Hash => W /\ ~Script /\ ~Key /\ ~Data /\ ~Multi
      /\ Script => W /\ ~Key /\ ~Data /\ ~Multi
      /\ Key => W /\ ~Data /\ ~Multi
      /\ Data => W /\ ~Multi
      /\ Multi => W
  <2> DEFINE a == Op(1)
             z == Op(2)
  <2>1. /\ Witness => W /\ n = 2 /\ a \in {0} \cup 81..96 /\ z \in 2..40
        /\ Hash => W /\ n = 5 /\ a = 118
        /\ Script => W /\ n = 3 /\ a = 169
        /\ Key => W /\ n = 2 /\ a \in {33, 65} /\ z = 172
        /\ Data => W /\ a = 106
        /\ Multi => W /\ n >= 4 /\ (a \in 81..96 \/ a = 1)
        /\ n \in Nat
    BY <1>1, <1>3
  <2> HIDE DEF n, a, z, W, Witness, Hash, Script, Key, Data, Multi
  <2>2. QED
    BY <2>1
<1> HIDE DEF W, Witness, Hash, Script, Key, Data, Multi, type
<1>6. /\ Witness => Solver(script) = type
      /\ Hash => Solver(script) = "p2pkh"
      /\ Script => Solver(script) = "p2sh"
      /\ Key => Solver(script) = "p2pk"
      /\ Data => Solver(script) = "nulldata"
      /\ Multi => Solver(script) = "multisig"
      /\ ~Witness /\ ~Hash /\ ~Script /\ ~Key /\ ~Data /\ ~Multi => Solver(script) = "unknown"
  BY <1>4, <1>5
<1>7. QED
  BY <1>6 DEF W, Witness, Hash, Script, Key, Data, Multi, type
\* Classify's type is that of Core's Solver but for one case, an OP_RESERVED in an
\* OP_RETURN script, which is unknown where Core says nulldata; and its keys are
\* those Core means; for every script Core can hold, whatever its elements, cut
\* short or not.
THEOREM ClassifyIsSolver ==
  ASSUME NEW script, Serialised(script)
  PROVE  /\ Classify(Bytes(script)) = CoreResult(script)
         /\ Classify(Bytes(script)).type =
              IF Solver(script) = "nulldata" /\ \E i \in DOMAIN script : script[i].op = 80
              THEN "unknown" ELSE Solver(script)
<1> DEFINE n == Len(script)
           Op(i) == script[i].op
           W == Complete(script)
           Witness == W /\ n = 2 /\ Op(1) \in {0} \cup 81..96 /\ Op(2) \in 2..40
           Hash == W /\ n = 5 /\ Op(1) = 118 /\ Op(2) = 169 /\ Op(3) = 20 /\ Op(4) = 136 /\ Op(5) = 172
           Script == W /\ n = 3 /\ Op(1) = 169 /\ Op(2) = 20 /\ Op(3) = 135
           Key == W /\ n = 2 /\ Op(1) \in {33, 65} /\ Op(2) = 172 /\ ValidSize(script[1].data)
           Pushes == W /\ Op(1) = 106 /\ \A i \in 2..n : Op(i) <= 96
           Data == W /\ Op(1) = 106 /\ \A i \in 2..n : Op(i) <= 96 /\ Op(i) # 80
           Multi == W /\ SolverMultisig(script)
           s == Bytes(script)
           version == IF Op(1) = 0 THEN 0 ELSE Op(1) - 80
           length == Len(script[2].data)
           single == <<script[1].data>>
           several == [k \in 1..(n - 3) |-> script[k + 1].data]
           solved == Solver(script)
           type == TypeOf(script)
<1>1. PICK off : Wire(script, off, Bytes(script))
  BY WireExists
<1>2. /\ Witness => type = WitnessType(version, length)
      /\ Hash => type = "p2pkh"
      /\ Script => type = "p2sh"
      /\ Key => type = "p2pk"
      /\ Data => type = "nulldata"
      /\ Multi => type = "multisig"
      /\ ~Witness /\ ~Hash /\ ~Script /\ ~Key /\ ~Data /\ ~Multi => type = "unknown"
  <2> DEFINE reserved == \E i \in DOMAIN script : Op(i) = 80
             witness == WitnessType(version, length)
  <2>1. /\ Witness => solved = witness
        /\ Hash => solved = "p2pkh"
        /\ Script => solved = "p2sh"
        /\ Key => solved = "p2pk"
        /\ Pushes => solved = "nulldata"
        /\ Multi => solved = "multisig"
        /\ ~Witness /\ ~Hash /\ ~Script /\ ~Key /\ ~Pushes /\ ~Multi => solved = "unknown"
    BY SolverCases
  <2>2. type = IF solved = "nulldata" /\ reserved THEN "unknown" ELSE solved
    BY DEF TypeOf, ReservedReturn
  <2>3. witness # "nulldata"
    BY DEF WitnessType
  <2>4. DOMAIN script = 1..n /\ n \in Nat
    BY ListHas DEF Serialised
  <2>5. Data <=> Pushes /\ ~reserved
    <3> DEFINE small == \A i \in 2..n : Op(i) <= 96
               plain == \A i \in 2..n : Op(i) # 80
    <3>1. Op(1) = 106 => (reserved <=> ~plain)
      BY <2>4
    <3>2. (\A i \in 2..n : Op(i) <= 96 /\ Op(i) # 80) <=> small /\ plain
      OBVIOUS
    <3> HIDE DEF W, small, plain, reserved
    <3>3. QED
      BY <3>1, <3>2 DEF small
  <2> HIDE DEF W, Witness, Hash, Script, Key, Data, Pushes, Multi, reserved, witness, solved, type
  <2>6. QED
    BY <2>1, <2>2, <2>3, <2>5 DEF witness
<1>3. IsWitnessProgram(s) <=> Witness
  BY <1>1, WitnessShape
<1>4. Witness => s[1] = Op(1) /\ s[2] = length
  BY <1>1, <1>3, WitnessShape
<1>5. matchP2PKH(s) <=> Hash
  BY <1>1, KeyHashShape
<1>6. matchP2SH(s) <=> Script
  BY <1>1, ScriptHashShape
<1>7. /\ matchP2PK(s) <=> Key
      /\ Key => SubSeq(s, 2, Len(s) - 1) = script[1].data
  BY <1>1, KeyShape
<1>8. matchNullData(s) <=> Data
  BY <1>1, NullDataShape
<1>9. /\ matchMultisig(s) # << >> <=> Multi
      /\ Multi => matchMultisig(s) = several
  BY <1>1, MultisigShape
<1>10. /\ s \in Seq(Octet)
       /\ Witness => WitnessVersion(s) = version
  <2>1. s \in Seq(Octet)
    BY <1>1, WireSteps
  <2>2. WitnessVersion(s) = IF s[1] = 0 THEN 0 ELSE s[1] - 81 + 1
    BY DEF WitnessVersion, opFalse, op1
  <2> DEFINE a == Op(1)
             b == s[1]
  <2>3. Witness => a \in {0} \cup 81..96 /\ b = a
    BY <1>4
  <2>4. WitnessVersion(s) = IF b = 0 THEN 0 ELSE b - 81 + 1
    BY <2>2
  <2>5. version = IF a = 0 THEN 0 ELSE a - 80
    OBVIOUS
  <2> HIDE DEF a, b, version, Witness, s
  <2>6. Witness => WitnessVersion(s) = version
    BY <2>3, <2>4, <2>5
  <2>7. QED
    BY <2>1, <2>6
<1>11. WitnessType(version, length) \notin {"p2pk", "multisig"}
  BY DEF WitnessType
<1>12. CoreResult(script) =
         Result(type, CASE type = "p2pk" -> single
                        [] type = "multisig" -> several
                        [] OTHER -> << >>)
  BY DEF CoreResult
<1>13. Classify(s) =
         IF IsWitnessProgram(s) THEN Result(WitnessType(WitnessVersion(s), s[2]), << >>)
         ELSE CASE matchP2PKH(s) -> Result("p2pkh", << >>)
                [] matchP2SH(s) -> Result("p2sh", << >>)
                [] matchP2PK(s) -> Result("p2pk", <<SubSeq(s, 2, Len(s) - 1)>>)
                [] matchNullData(s) -> Result("nulldata", << >>)
                [] matchMultisig(s) # << >> -> Result("multisig", matchMultisig(s))
                [] OTHER -> Result("unknown", << >>)
  BY DEF Classify, ClassifyLegacy
<1>14. /\ ~(Hash /\ Script) /\ ~(Hash /\ Key) /\ ~(Hash /\ Data) /\ ~(Hash /\ Multi)
       /\ ~(Script /\ Key) /\ ~(Script /\ Data) /\ ~(Script /\ Multi)
       /\ ~(Key /\ Data) /\ ~(Key /\ Multi) /\ ~(Data /\ Multi)
  <2> HIDE DEF s, Hash, Script, Key, Data, Multi
  <2>1. QED
    BY <1>5, <1>6, <1>7, <1>8, <1>9, <1>10, MatchersExclusive DEF IsMultisig
<1> HIDE DEF s, W, Witness, Hash, Script, Key, Data, Multi, version, length, single, several, type
<1>15. Classify(s) = CoreResult(script)
  <2>1. CASE Witness
    <3>1. Classify(s) = Result(WitnessType(version, length), << >>)
      BY <1>3, <1>4, <1>10, <1>13, <2>1
    <3>2. type = WitnessType(version, length) /\ type # "p2pk" /\ type # "multisig"
      BY <1>2, <1>11, <2>1
    <3>3. QED
      BY <1>12, <3>1, <3>2
  <2>2. CASE ~Witness /\ Hash
    BY <1>2, <1>3, <1>5, <1>6, <1>7, <1>8, <1>9, <1>12, <1>13, <1>14, <2>2
  <2>3. CASE ~Witness /\ Script
    BY <1>2, <1>3, <1>5, <1>6, <1>7, <1>8, <1>9, <1>12, <1>13, <1>14, <2>3
  <2>4. CASE ~Witness /\ Key
    <3>1. <<SubSeq(s, 2, Len(s) - 1)>> = single
      BY <1>7, <2>4 DEF single
    <3>2. QED
      BY <1>2, <1>3, <1>5, <1>6, <1>7, <1>8, <1>9, <1>12, <1>13, <1>14, <2>4, <3>1
  <2>5. CASE ~Witness /\ Data
    BY <1>2, <1>3, <1>5, <1>6, <1>7, <1>8, <1>9, <1>12, <1>13, <1>14, <2>5
  <2>6. CASE ~Witness /\ Multi
    BY <1>2, <1>3, <1>5, <1>6, <1>7, <1>8, <1>9, <1>12, <1>13, <1>14, <2>6
  <2>7. CASE ~Witness /\ ~Hash /\ ~Script /\ ~Key /\ ~Data /\ ~Multi
    BY <1>2, <1>3, <1>5, <1>6, <1>7, <1>8, <1>9, <1>12, <1>13, <2>7
  <2>8. QED
    BY <2>1, <2>2, <2>3, <2>4, <2>5, <2>6, <2>7
<1>16. CoreResult(script).type = type
  BY <1>12 DEF Result
<1>17. QED
  BY <1>15, <1>16 DEF s, type, TypeOf, ReservedReturn

-----------------------------------------------------------------------------
(* Amounts as text                                                         *)

Figures == {Digits[k] : k \in 1..10}

LEMMA FiguresAre ==
  /\ \A k \in 0..9 : Digits[k + 1] \in Figures /\ Digit(Digits[k + 1]) = k
  /\ \A c \in Figures : Digit(c) \in 0..9 /\ IsDigit(c) /\ c \notin {".", "-", "+"}
  /\ "0" \in Figures /\ "1" \in Figures /\ Digit("0") = 0 /\ Digit("1") = 1
<1>1. \A k \in 1..10 : \A j \in 1..10 : Digits[k] = Digits[j] => k = j
  BY DEF Digits
<1>2. \A k \in 1..10 : Digits[k] \notin {".", "-", "+"}
  BY DEF Digits
<1>3. Digits[1] = "0" /\ Digits[2] = "1"
  BY DEF Digits
<1> HIDE DEF Digits
<1>4. ASSUME NEW k \in 0..9 PROVE Digits[k + 1] \in Figures /\ Digit(Digits[k + 1]) = k
  <2>1. k + 1 \in 1..10 /\ \A d \in 0..9 : d + 1 \in 1..10 /\ (Digits[d + 1] = Digits[k + 1] <=> d = k)
    BY <1>1
  <2>2. QED
    BY <2>1 DEF Figures, Digit
<1>5. ASSUME NEW c \in Figures PROVE Digit(c) \in 0..9 /\ IsDigit(c) /\ c \notin {".", "-", "+"}
  <2>1. PICK j \in 1..10 : c = Digits[j]
    BY DEF Figures
  <2>2. j - 1 \in 0..9 /\ c = Digits[(j - 1) + 1]
    BY <2>1
  <2>3. Digit(c) = j - 1
    BY <1>4, <2>2
  <2>4. QED
    BY <1>2, <2>1, <2>2, <2>3 DEF IsDigit
<1>6. 0 \in 0..9 /\ 1 \in 0..9 /\ Digits[0 + 1] = "0" /\ Digits[1 + 1] = "1"
  BY <1>3
<1>7. QED
  BY <1>4, <1>5, <1>6

\* v[i] is what the first i characters of a text come to.
Values(v, text, n) == v = [i \in 0..n |-> IF i = 0 THEN 0 ELSE 10 * v[i - 1] + Digit(text[i])]

LEMMA ValuesExist ==
  ASSUME NEW text
  PROVE  \A n \in Nat : \E v : Values(v, text, n)
<1> DEFINE Bad == {m \in Nat : ~ \E v : Values(v, text, m)}
<1> SUFFICES ASSUME Bad # {} PROVE FALSE
  OBVIOUS
<1>1. PICK n \in Bad : \A m \in Bad : n <= m
  <2>1. Bad \subseteq Nat
    OBVIOUS
  <2> HIDE DEF Bad
  <2>2. QED
    BY <2>1, Least
<1>2. n \in Nat /\ ~ \E v : Values(v, text, n)
  OBVIOUS
<1>3. CASE n = 0
  <2> DEFINE h == [i \in 0..0 |-> 0]
  <2>1. h = [i \in 0..0 |-> IF i = 0 THEN 0 ELSE 10 * h[i - 1] + Digit(text[i])]
    OBVIOUS
  <2>2. Values(h, text, 0)
    BY <2>1 DEF Values
  <2>3. QED
    BY <1>2, <1>3, <2>2
<1>4. CASE n # 0
  <2>1. n - 1 \in Nat /\ n - 1 \notin Bad
    BY <1>1, <1>2, <1>4
  <2>2. PICK v : Values(v, text, n - 1)
    BY <2>1
  <2> DEFINE last == 10 * v[n - 1] + Digit(text[n])
             h == [i \in 0..n |-> IF i = n THEN last ELSE v[i]]
  <2>3. ASSUME NEW i \in 0..n PROVE h[i] = IF i = 0 THEN 0 ELSE 10 * h[i - 1] + Digit(text[i])
    <3>1. CASE i = n
      <4>1. i # 0 /\ i - 1 \in 0..n /\ i - 1 # n
        BY <1>2, <1>4, <3>1
      <4>2. QED
        BY <3>1, <4>1
    <3>2. CASE i # n
      <4>1. i \in 0..(n - 1) /\ (i # 0 => i - 1 \in 0..n /\ i - 1 # n)
        BY <1>2, <3>2
      <4>2. v[i] = IF i = 0 THEN 0 ELSE 10 * v[i - 1] + Digit(text[i])
        BY <2>2, <4>1 DEF Values
      <4>3. QED
        BY <3>2, <4>1, <4>2
    <3>3. QED
      BY <3>1, <3>2
  <2>4. Values(h, text, n)
    <3>1. h = [i \in 0..n |-> h[i]]
      OBVIOUS
    <3> HIDE DEF h
    <3>2. QED
      BY <2>3, <3>1 DEF Values
  <2>5. QED
    BY <1>2, <2>4
<1>5. QED
  BY <1>3, <1>4

LEMMA NumberIs ==
  ASSUME NEW s \in Seq(Figures)
  PROVE  \E v : /\ Number(s) = v[Len(s)] /\ v[0] = 0 /\ Number(s) \in Nat
                /\ \A i \in 1..Len(s) : v[i - 1] \in Nat /\ v[i] = 10 * v[i - 1] + Digit(s[i])
<1> DEFINE n == Len(s)
           V == CHOOSE v : Values(v, s, n)
<1>1. n \in Nat
  OBVIOUS
<1>2. Number(s) = V[n]
  BY DEF Number, Values
<1>3. Values(V, s, n)
  BY <1>1, ValuesExist
<1> HIDE DEF V
<1>4. V[0] = 0 /\ \A i \in 1..n : V[i] = 10 * V[i - 1] + Digit(s[i])
  BY <1>1, <1>3 DEF Values
<1>5. \A i \in 1..n : Digit(s[i]) \in 0..9
  BY FiguresAre
<1> DEFINE Bad == {i \in 0..n : V[i] \notin Nat}
<1>6. Bad = {}
  <2> SUFFICES ASSUME Bad # {} PROVE FALSE
    OBVIOUS
  <2>1. Bad \subseteq Nat
    BY <1>1
  <2> HIDE DEF Bad
  <2>2. PICK i \in Bad : \A m \in Bad : i <= m
    BY <2>1, Least
  <2> USE DEF Bad
  <2>3. i \in 0..n /\ i # 0
    BY <1>4
  <2>4. i - 1 \in 0..n /\ i - 1 \notin Bad /\ i \in 1..n
    BY <1>1, <2>2, <2>3
  <2>5. V[i - 1] \in Nat /\ V[i] = 10 * V[i - 1] + Digit(s[i]) /\ Digit(s[i]) \in 0..9
    BY <1>4, <1>5, <2>4
  <2>6. V[i] \in Nat
    <3> DEFINE a == V[i - 1]
               b == V[i]
               d == Digit(s[i])
    <3>1. a \in Nat /\ d \in 0..9 /\ b = 10 * a + d
      BY <2>5
    <3> HIDE DEF a, b, d
    <3>2. b \in Nat
      BY <3>1
    <3>3. QED
      BY <3>2 DEF b
  <2>7. QED
    BY <2>6
<1>7. \A i \in 0..n : V[i] \in Nat
  BY <1>6
<1>8. \A i \in 1..n : V[i - 1] \in Nat /\ V[i] = 10 * V[i - 1] + Digit(s[i])
  BY <1>1, <1>4, <1>7
<1>9. V[n] \in Nat
  BY <1>1, <1>7
<1>10. QED
  BY <1>2, <1>4, <1>8, <1>9

LEMMA NumberEmpty == Number(<< >>) = 0
<1>1. << >> \in Seq(Figures) /\ Len(<< >>) = 0
  OBVIOUS
<1>2. QED
  BY <1>1, NumberIs

\* One more digit.
LEMMA NumberAppend ==
  ASSUME NEW s \in Seq(Figures), NEW c \in Figures, NEW r, r = Append(s, c)
  PROVE  Number(s) \in Nat /\ Number(r) = 10 * Number(s) + Digit(c)
<1> DEFINE n == Len(s)
<1>1. /\ n \in Nat /\ r \in Seq(Figures) /\ Len(r) = n + 1 /\ r[n + 1] = c
      /\ \A i \in 1..n : r[i] = s[i]
  OBVIOUS
<1>2. PICK v : /\ Number(s) = v[n] /\ v[0] = 0 /\ Number(s) \in Nat
               /\ \A i \in 1..n : v[i - 1] \in Nat /\ v[i] = 10 * v[i - 1] + Digit(s[i])
  BY NumberIs
<1>3. PICK w : /\ Number(r) = w[Len(r)] /\ w[0] = 0 /\ Number(r) \in Nat
               /\ \A i \in 1..Len(r) : w[i - 1] \in Nat /\ w[i] = 10 * w[i - 1] + Digit(r[i])
  BY <1>1, NumberIs
<1>4. /\ Number(r) = w[n + 1] /\ w[0] = 0
      /\ \A i \in 1..(n + 1) : w[i - 1] \in Nat /\ w[i] = 10 * w[i - 1] + Digit(r[i])
  BY <1>1, <1>3
<1> HIDE DEF n
<1> DEFINE Bad == {i \in 0..n : v[i] # w[i]}
<1>5. Bad = {}
  <2> SUFFICES ASSUME Bad # {} PROVE FALSE
    OBVIOUS
  <2>1. Bad \subseteq Nat
    BY <1>1
  <2> HIDE DEF Bad
  <2>2. PICK i \in Bad : \A m \in Bad : i <= m
    BY <2>1, Least
  <2> USE DEF Bad
  <2>3. i \in 0..n /\ i # 0
    BY <1>2, <1>4
  <2>4. i - 1 \in 0..n /\ i - 1 \notin Bad /\ i \in 1..n /\ i \in 1..(n + 1)
    BY <1>1, <2>2, <2>3
  <2>5. v[i - 1] = w[i - 1]
    BY <2>4
  <2>6. v[i] = w[i]
    BY <1>1, <1>2, <1>4, <2>4, <2>5
  <2>7. QED
    BY <2>6
<1>6. n \in 0..n /\ n + 1 \in 1..(n + 1) /\ (n + 1) - 1 = n
  BY <1>1
<1>7. v[n] = w[n]
  BY <1>5, <1>6
<1>8. w[n + 1] = 10 * w[n] + Digit(c)
  BY <1>1, <1>4, <1>6
<1>9. QED
  BY <1>2, <1>4, <1>7, <1>8

\* A one with k zeros behind it.
Power(k) == Number(<<"1">> \o Zeros(k))

LEMMA ZerosAre ==
  ASSUME NEW k \in Nat
  PROVE  Zeros(k) \in Seq(Figures) /\ Len(Zeros(k)) = k
<1>1. Zeros(k) = [i \in 1..k |-> "0"] /\ "0" \in Figures
  BY FiguresAre DEF Zeros
<1> HIDE DEF Figures, Zeros
<1>2. QED
  BY <1>1

LEMMA NoZeros ==
  ASSUME NEW s \in Seq(Figures)
  PROVE  s \o Zeros(0) = s
<1>1. Zeros(0) = << >>
  BY DEF Zeros
<1>2. QED
  BY <1>1

LEMMA MoreZeros ==
  ASSUME NEW s \in Seq(Figures), NEW k \in Nat
  PROVE  s \o Zeros(k) \in Seq(Figures) /\ s \o Zeros(k + 1) = Append(s \o Zeros(k), "0")
<1> DEFINE z == Zeros(k)
           a == Zeros(k + 1)
           b == Append(z, "0")
<1>1. z \in Seq(Figures) /\ Len(z) = k /\ "0" \in Figures
  BY ZerosAre, FiguresAre
<1>2. a \in Seq(Figures) /\ Len(a) = k + 1
  BY ZerosAre
<1>3. /\ \A i \in 1..k : z[i] = "0"
      /\ \A i \in 1..(k + 1) : a[i] = "0"
  BY DEF Zeros
<1> HIDE DEF z, a, Figures
<1>4. b \in Seq(Figures) /\ Len(b) = k + 1 /\ \A i \in 1..(k + 1) : b[i] = "0"
  BY <1>1, <1>3
<1> HIDE DEF b
<1>5. a = b
  BY <1>2, <1>3, <1>4, SeqEqual
<1> USE DEF b
<1>6. s \o z \in Seq(Figures) /\ s \o b = Append(s \o z, "0")
  BY <1>1
<1>7. QED
  BY <1>5, <1>6 DEF z, a

LEMMA PowerIs ==
  /\ Power(0) = 1
  /\ \A k \in Nat : Power(k) \in Nat \ {0} /\ Power(k + 1) = 10 * Power(k)
<1> DEFINE s == <<"1">>
<1>1. s \in Seq(Figures) /\ s = Append(<< >>, "1") /\ << >> \in Seq(Figures)
  BY FiguresAre
<1>2. Power(0) = 1
  <2>1. "1" \in Figures /\ Digit("1") = 1
    BY FiguresAre
  <2>2. Number(s) = 10 * Number(<< >>) + Digit("1")
    BY <1>1, <2>1, NumberAppend
  <2>3. Number(s) = 1
    BY <2>1, <2>2, NumberEmpty
  <2>4. s \o Zeros(0) = s
    BY <1>1, NoZeros
  <2>5. QED
    BY <2>3, <2>4 DEF Power
<1>3. ASSUME NEW k \in Nat PROVE Power(k) \in Nat /\ Power(k + 1) = 10 * Power(k) + 0
  <2>1. s \o Zeros(k) \in Seq(Figures) /\ s \o Zeros(k + 1) = Append(s \o Zeros(k), "0")
    BY <1>1, MoreZeros
  <2>2. "0" \in Figures /\ Digit("0") = 0
    BY FiguresAre
  <2>3. /\ Number(s \o Zeros(k)) \in Nat
        /\ Number(s \o Zeros(k + 1)) = 10 * Number(s \o Zeros(k)) + Digit("0")
    BY <2>1, <2>2, NumberAppend
  <2>4. QED
    BY <2>2, <2>3 DEF Power
<1> DEFINE Bad == {k \in Nat : Power(k) = 0}
<1>4. Bad = {}
  <2> SUFFICES ASSUME Bad # {} PROVE FALSE
    OBVIOUS
  <2>1. Bad \subseteq Nat
    OBVIOUS
  <2> HIDE DEF Bad
  <2>2. PICK k \in Bad : \A m \in Bad : k <= m
    BY <2>1, Least
  <2> USE DEF Bad
  <2>3. k \in Nat /\ k # 0 /\ Power(k) = 0
    BY <1>2
  <2>4. k - 1 \in Nat /\ k - 1 \notin Bad /\ (k - 1) + 1 = k
    BY <2>2, <2>3
  <2>5. Power(k - 1) \in Nat /\ Power(k - 1) # 0 /\ Power((k - 1) + 1) = 10 * Power(k - 1) + 0
    BY <1>3, <2>4
  <2>6. QED
    BY <2>3, <2>4, <2>5
<1>5. ASSUME NEW k \in Nat PROVE Power(k) \in Nat \ {0} /\ Power(k + 1) = 10 * Power(k)
  <2> DEFINE p == Power(k)
             q == Power(k + 1)
  <2>1. p \in Nat /\ q = 10 * p + 0 /\ p # 0
    BY <1>3, <1>4
  <2> HIDE DEF p, q
  <2>2. p \in Nat \ {0} /\ q = 10 * p
    BY <2>1
  <2>3. QED
    BY <2>2 DEF p, q
<1>6. QED
  BY <1>2, <1>5

\* Zeros behind a number shift it.
LEMMA ZerosShift ==
  ASSUME NEW s \in Seq(Figures), NEW k \in Nat
  PROVE  Number(s \o Zeros(k)) = Number(s) * Power(k)
<1> DEFINE Bad == {i \in Nat : Number(s \o Zeros(i)) # Number(s) * Power(i)}
<1> SUFFICES ASSUME Bad # {} PROVE FALSE
  OBVIOUS
<1>1. Bad \subseteq Nat
  OBVIOUS
<1> HIDE DEF Bad
<1>2. PICK i \in Bad : \A m \in Bad : i <= m
  BY <1>1, Least
<1> USE DEF Bad
<1>3. Number(s) \in Nat
  BY NumberIs
<1>4. i \in Nat /\ i # 0
  <2>1. Number(s \o Zeros(0)) = Number(s) * Power(0)
    <3> DEFINE a == Number(s)
    <3>1. s \o Zeros(0) = s /\ Power(0) = 1 /\ a \in Nat
      BY <1>3, NoZeros, PowerIs
    <3>2. a = a * 1
      BY <3>1
    <3>3. QED
      BY <3>1, <3>2
  <2>2. QED
    BY <1>2, <2>1
<1>5. i - 1 \in Nat /\ i - 1 \notin Bad /\ (i - 1) + 1 = i
  BY <1>2, <1>4
<1> DEFINE a == Number(s)
           p == Power(i - 1)
           b == Number(s \o Zeros(i))
           q == Power(i)
           c == Number(s \o Zeros(i - 1))
<1>6. c = a * p
  BY <1>5
<1>7. p \in Nat /\ q = 10 * p /\ a \in Nat
  BY <1>3, <1>5, PowerIs
<1>8. b = 10 * c + 0
  <2>1. s \o Zeros(i - 1) \in Seq(Figures) /\ s \o Zeros((i - 1) + 1) = Append(s \o Zeros(i - 1), "0")
    BY <1>5, MoreZeros
  <2>2. "0" \in Figures /\ Digit("0") = 0
    BY FiguresAre
  <2>3. Number(s \o Zeros((i - 1) + 1)) = 10 * Number(s \o Zeros(i - 1)) + Digit("0")
    BY <2>1, <2>2, NumberAppend
  <2>4. QED
    BY <1>5, <2>2, <2>3
<1>9. b # a * q
  BY <1>2
<1> HIDE DEF a, b, c, p, q
<1>10. b = a * q
  BY <1>6, <1>7, <1>8
<1>11. QED
  BY <1>9, <1>10

\* g[m] is the decimal text of each m up to n.
Tens(g, n) ==
  g = [m \in 0..n |-> IF m < 10 THEN <<Digits[m + 1]>> ELSE Append(g[m \div 10], Digits[(m % 10) + 1])]

LEMMA TensExist == \A n \in Nat : \E g : Tens(g, n)
<1> DEFINE Bad == {m \in Nat : ~ \E g : Tens(g, m)}
<1> SUFFICES ASSUME Bad # {} PROVE FALSE
  OBVIOUS
<1>1. PICK n \in Bad : \A m \in Bad : n <= m
  <2>1. Bad \subseteq Nat
    OBVIOUS
  <2> HIDE DEF Bad
  <2>2. QED
    BY <2>1, Least
<1>2. n \in Nat /\ ~ \E g : Tens(g, n)
  OBVIOUS
<1>3. CASE n = 0
  <2> DEFINE h == [i \in 0..0 |-> <<Digits[1]>>]
  <2>1. h = [m \in 0..0 |-> IF m < 10 THEN <<Digits[m + 1]>> ELSE Append(h[m \div 10], Digits[(m % 10) + 1])]
    <3> DEFINE r == [m \in 0..0 |-> IF m < 10 THEN <<Digits[m + 1]>> ELSE Append(h[m \div 10], Digits[(m % 10) + 1])]
    <3>1. r[0] = <<Digits[1]>> /\ h[0] = <<Digits[1]>>
      OBVIOUS
    <3>2. 0..0 = {0}
      OBVIOUS
    <3>3. QED
      BY <3>1, <3>2
  <2>2. Tens(h, 0)
    BY <2>1 DEF Tens
  <2>3. QED
    BY <1>2, <1>3, <2>2
<1>4. CASE n # 0
  <2>1. n - 1 \in Nat /\ n - 1 \notin Bad
    BY <1>1, <1>2, <1>4
  <2>2. PICK g : Tens(g, n - 1)
    BY <2>1
  <2> DEFINE last == IF n < 10 THEN <<Digits[n + 1]>> ELSE Append(g[n \div 10], Digits[(n % 10) + 1])
             h == [i \in 0..n |-> IF i = n THEN last ELSE g[i]]
  <2>3. ASSUME NEW m \in 0..n
        PROVE  h[m] = IF m < 10 THEN <<Digits[m + 1]>> ELSE Append(h[m \div 10], Digits[(m % 10) + 1])
    <3>1. ~(m < 10) => m \div 10 \in 0..n /\ m \div 10 # n
      BY <1>2
    <3>2. CASE m = n
      BY <3>1, <3>2
    <3>3. CASE m # n
      <4>1. m \in 0..(n - 1)
        BY <1>2, <3>3
      <4>2. g[m] = IF m < 10 THEN <<Digits[m + 1]>> ELSE Append(g[m \div 10], Digits[(m % 10) + 1])
        BY <2>2, <4>1 DEF Tens
      <4>3. QED
        BY <3>1, <3>3, <4>2
    <3>4. QED
      BY <3>2, <3>3
  <2>4. Tens(h, n)
    <3>1. h = [i \in 0..n |-> h[i]]
      OBVIOUS
    <3> HIDE DEF h
    <3>2. QED
      BY <2>3, <3>1 DEF Tens
  <2>5. QED
    BY <1>2, <2>4
<1>5. QED
  BY <1>3, <1>4

LEMMA TensUnique ==
  ASSUME NEW n \in Nat, NEW k \in Nat, NEW g, NEW h, Tens(g, n), Tens(h, k),
         NEW m \in 0..n, m <= k
  PROVE  g[m] = h[m]
<1> DEFINE Bad == {i \in 0..n : i <= k /\ g[i] # h[i]}
<1> SUFFICES ASSUME Bad # {} PROVE FALSE
  OBVIOUS
<1>1. Bad \subseteq Nat
  OBVIOUS
<1> HIDE DEF Bad
<1>2. PICK i \in Bad : \A j \in Bad : i <= j
  BY <1>1, Least
<1> USE DEF Bad
<1>3. i \in 0..n /\ i \in 0..k
  OBVIOUS
<1>4. /\ g[i] = IF i < 10 THEN <<Digits[i + 1]>> ELSE Append(g[i \div 10], Digits[(i % 10) + 1])
      /\ h[i] = IF i < 10 THEN <<Digits[i + 1]>> ELSE Append(h[i \div 10], Digits[(i % 10) + 1])
  BY <1>3 DEF Tens
<1>5. ~(i < 10) => g[i \div 10] = h[i \div 10]
  <2>1. ~(i < 10) => i \div 10 \in 0..n /\ i \div 10 <= k /\ i \div 10 < i
    BY <1>3
  <2>2. ~(i < 10) => i \div 10 \notin Bad
    BY <1>2, <1>3, <2>1
  <2>3. QED
    BY <2>1, <2>2
<1>6. QED
  BY <1>4, <1>5

LEMMA DecimalIs ==
  ASSUME NEW n \in Nat
  PROVE  Decimal(n) = IF n < 10 THEN <<Digits[n + 1]>> ELSE Append(Decimal(n \div 10), Digits[(n % 10) + 1])
<1> DEFINE G(m) == CHOOSE g : Tens(g, m)
<1>1. \A m \in Nat : Tens(G(m), m)
  BY TensExist
<1>2. \A m \in Nat : Decimal(m) = G(m)[m]
  BY DEF Decimal, Tens
<1> HIDE DEF G
<1>3. G(n)[n] = IF n < 10 THEN <<Digits[n + 1]>> ELSE Append(G(n)[n \div 10], Digits[(n % 10) + 1])
  <2> DEFINE g == G(n)
  <2>1. g = [m \in 0..n |-> IF m < 10 THEN <<Digits[m + 1]>> ELSE Append(g[m \div 10], Digits[(m % 10) + 1])]
    BY <1>1 DEF Tens
  <2>2. n \in 0..n
    OBVIOUS
  <2> HIDE DEF g
  <2>3. g[n] = IF n < 10 THEN <<Digits[n + 1]>> ELSE Append(g[n \div 10], Digits[(n % 10) + 1])
    BY <2>1, <2>2, Zenon
  <2>4. QED
    BY <2>3 DEF g
<1>4. n \div 10 \in Nat /\ n \div 10 \in 0..n /\ n \div 10 <= n \div 10
  OBVIOUS
<1>5. Tens(G(n), n) /\ Tens(G(n \div 10), n \div 10)
  BY <1>1, <1>4
<1>6. G(n)[n \div 10] = G(n \div 10)[n \div 10]
  BY <1>4, <1>5, TensUnique
<1>7. QED
  BY <1>2, <1>3, <1>4, <1>6

\* The last digit, and what is in front of it.
LEMMA DecimalLast ==
  ASSUME NEW n \in Nat
  PROVE  /\ Digits[(n % 10) + 1] \in Figures /\ Digit(Digits[(n % 10) + 1]) = n % 10
         /\ n \div 10 \in Nat /\ n = 10 * (n \div 10) + (n % 10)
         /\ n < 10 => Decimal(n) = <<Digits[(n % 10) + 1]>> /\ n \div 10 = 0
         /\ n >= 10 => /\ Decimal(n) = Append(Decimal(n \div 10), Digits[(n % 10) + 1])
                       /\ n \div 10 < n
<1>1. n % 10 \in 0..9 /\ n \div 10 \in Nat /\ n = 10 * (n \div 10) + (n % 10)
  OBVIOUS
<1>2. Digits[(n % 10) + 1] \in Figures /\ Digit(Digits[(n % 10) + 1]) = n % 10
  BY <1>1, FiguresAre
<1>3. n < 10 => n % 10 = n /\ n \div 10 = 0
  OBVIOUS
<1>4. n >= 10 => n \div 10 < n /\ ~(n < 10)
  OBVIOUS
<1>5. n < 10 => Decimal(n) = <<Digits[(n % 10) + 1]>>
  BY <1>3, DecimalIs
<1>6. n >= 10 => Decimal(n) = Append(Decimal(n \div 10), Digits[(n % 10) + 1])
  BY <1>4, DecimalIs
<1>7. QED
  BY <1>1, <1>2, <1>3, <1>4, <1>5, <1>6

LEMMA DecimalDigits == \A n \in Nat : Decimal(n) \in Seq(Figures) /\ Len(Decimal(n)) \in Nat \ {0}
<1> DEFINE Good(n) == Decimal(n) \in Seq(Figures) /\ Len(Decimal(n)) \in Nat \ {0}
           Bad == {n \in Nat : ~Good(n)}
<1> SUFFICES ASSUME Bad # {} PROVE FALSE
  OBVIOUS
<1>1. Bad \subseteq Nat
  OBVIOUS
<1> HIDE DEF Bad
<1>2. PICK n \in Bad : \A m \in Bad : n <= m
  BY <1>1, Least
<1> USE DEF Bad
<1>3. n \in Nat /\ ~Good(n)
  BY <1>2
<1> DEFINE c == Digits[(n % 10) + 1]
           d == Decimal(n \div 10)
           r == Decimal(n)
<1>4. /\ c \in Figures /\ n \div 10 \in Nat
      /\ n < 10 => r = <<c>>
      /\ n >= 10 => r = Append(d, c) /\ n \div 10 < n
  BY <1>3, DecimalLast
<1>5. n >= 10 => d \in Seq(Figures) /\ Len(d) \in Nat \ {0}
  <2>1. n >= 10 => n \div 10 \notin Bad
    BY <1>2, <1>3, <1>4
  <2>2. QED
    BY <1>4, <2>1
<1> HIDE DEF c, d, r, Figures
<1>6. r \in Seq(Figures) /\ Len(r) \in Nat \ {0}
  <2>1. CASE n < 10
    <3>1. r = <<c>> /\ c \in Figures
      BY <1>4, <2>1
    <3>2. <<c>> \in Seq(Figures) /\ Len(<<c>>) = 1
      BY <3>1
    <3>3. QED
      BY <3>1, <3>2
  <2>2. CASE n >= 10
    <3>1. r = Append(d, c) /\ c \in Figures /\ d \in Seq(Figures)
      BY <1>4, <1>5, <2>2
    <3>2. Append(d, c) \in Seq(Figures) /\ Len(Append(d, c)) \in Nat \ {0}
      BY <3>1
    <3>3. QED
      BY <3>1, <3>2
  <2>3. QED
    BY <1>3, <2>1, <2>2
<1>7. QED
  BY <1>3, <1>6 DEF r

LEMMA PowerSum ==
  ASSUME NEW a \in Nat, NEW b \in Nat
  PROVE  Power(a + b) = Power(a) * Power(b)
<1> DEFINE Bad == {i \in Nat : Power(a + i) # Power(a) * Power(i)}
<1> SUFFICES ASSUME Bad # {} PROVE FALSE
  OBVIOUS
<1>1. Bad \subseteq Nat
  OBVIOUS
<1> HIDE DEF Bad
<1>2. PICK i \in Bad : \A m \in Bad : i <= m
  BY <1>1, Least
<1> USE DEF Bad
<1>3. i \in Nat /\ Power(a + i) # Power(a) * Power(i)
  BY <1>2
<1>4. i # 0
  <2> DEFINE p == Power(a)
  <2>1. p \in Nat /\ Power(0) = 1 /\ a + 0 = a
    BY PowerIs
  <2> HIDE DEF p
  <2>2. p = p * 1
    BY <2>1
  <2>3. Power(a + 0) = Power(a) * Power(0)
    BY <2>1, <2>2 DEF p
  <2>4. QED
    BY <1>3, <2>3
<1>5. i - 1 \in Nat /\ i - 1 \notin Bad /\ (i - 1) + 1 = i /\ a + (i - 1) \in Nat /\ (a + (i - 1)) + 1 = a + i
  BY <1>2, <1>3, <1>4
<1> DEFINE p == Power(a)
           q == Power(i - 1)
           r == Power(a + (i - 1))
           q1 == Power(i)
           r1 == Power(a + i)
<1>6. p \in Nat /\ q \in Nat /\ r \in Nat /\ q1 = 10 * q /\ r1 = 10 * r
  BY <1>5, PowerIs
<1>7. r = p * q /\ r1 # p * q1
  BY <1>3, <1>5
<1> HIDE DEF p, q, r, q1, r1
<1>8. QED
  BY <1>6, <1>7

\* A number below 10^k has at most k digits.
LEMMA DecimalLength ==
  ASSUME NEW k \in Nat \ {0}, NEW n \in Nat, n < Power(k)
  PROVE  Len(Decimal(n)) <= k
<1> DEFINE Good(i) == \A m \in Nat : m < Power(i) => Len(Decimal(m)) <= i
           Bad == {i \in Nat \ {0} : ~Good(i)}
<1> SUFFICES ASSUME Bad # {} PROVE FALSE
  OBVIOUS
<1>1. Bad \subseteq Nat
  OBVIOUS
<1> HIDE DEF Bad
<1>2. PICK i \in Bad : \A m \in Bad : i <= m
  BY <1>1, Least
<1> USE DEF Bad
<1>3. i \in Nat /\ i # 0
  BY <1>2
<1>4. PICK m \in Nat : m < Power(i) /\ ~(Len(Decimal(m)) <= i)
  BY <1>2
<1> DEFINE c == Digits[(m % 10) + 1]
           d == Decimal(m \div 10)
           r == Decimal(m)
           p == Power(i - 1)
           q == Power(i)
<1>5. /\ m \div 10 \in Nat /\ m = 10 * (m \div 10) + (m % 10)
      /\ m < 10 => r = <<c>>
      /\ m >= 10 => r = Append(d, c) /\ m \div 10 < m
  BY DecimalLast
<1>6. i - 1 \in Nat /\ (i - 1) + 1 = i
  BY <1>3
<1>7. p \in Nat /\ q = 10 * p /\ Power(0) = 1
  BY <1>6, PowerIs
<1>8. m >= 10
  <2>1. CASE m < 10
    <3>1. Len(r) = 1
      <4> HIDE DEF r, c
      <4>1. QED
        BY <1>5, <2>1
    <3>2. Len(r) <= i
      BY <1>3, <3>1
    <3>3. QED
      BY <1>4, <3>2
  <2>2. QED
    BY <2>1
<1>9. i - 1 # 0
  <2>1. i - 1 = 0 => p = 1
    BY <1>7
  <2>2. m < q
    BY <1>4
  <2> HIDE DEF p, q
  <2>3. QED
    BY <1>7, <1>8, <2>1, <2>2
<1>10. i - 1 \notin Bad
  BY <1>2, <1>3
<1>11. Good(i - 1)
  BY <1>6, <1>9, <1>10
<1>12. m \div 10 < p
  <2>1. m < q
    BY <1>4
  <2> HIDE DEF p, q
  <2>2. QED
    BY <1>5, <1>7, <2>1
<1>13. Len(d) <= i - 1
  BY <1>5, <1>11, <1>12
<1>14. Len(r) = Len(d) + 1 /\ Len(d) \in Nat
  <2>1. d \in Seq(Figures)
    BY <1>5, DecimalDigits
  <2>2. r = Append(d, c)
    BY <1>5, <1>8
  <2> HIDE DEF d, c, r
  <2>3. QED
    BY <2>1, <2>2
<1>15. Len(r) <= i
  <2> DEFINE x == Len(r)
             y == Len(d)
  <2>1. x = y + 1 /\ y \in Nat /\ y <= i - 1
    BY <1>13, <1>14
  <2> HIDE DEF x, y
  <2>2. x <= i
    BY <1>3, <2>1
  <2>3. QED
    BY <2>2 DEF x
<1>16. QED
  BY <1>4, <1>15

\* The text of n behind other digits shifts them and adds n.
LEMMA DecimalShift ==
  ASSUME NEW s \in Seq(Figures), NEW n \in Nat
  PROVE  Number(s \o Decimal(n)) = Number(s) * Power(Len(Decimal(n))) + n
<1> DEFINE Good(m) == Number(s \o Decimal(m)) = Number(s) * Power(Len(Decimal(m))) + m
           Bad == {m \in Nat : ~Good(m)}
<1> SUFFICES ASSUME Bad # {} PROVE FALSE
  OBVIOUS
<1>1. Bad \subseteq Nat
  OBVIOUS
<1> HIDE DEF Bad
<1>2. PICK m \in Bad : \A i \in Bad : m <= i
  BY <1>1, Least
<1> USE DEF Bad
<1>3. m \in Nat /\ ~Good(m)
  BY <1>2
<1> DEFINE c == Digits[(m % 10) + 1]
           d == IF m < 10 THEN << >> ELSE Decimal(m \div 10)
           r == Decimal(m)
           v == IF m < 10 THEN 0 ELSE m \div 10
<1>4. c \in Figures /\ Digit(c) = m % 10
  BY <1>3, DecimalLast
<1>5. r = Append(d, c) /\ d \in Seq(Figures)
  <2>1. CASE m < 10
    <3>1. r = <<c>> /\ d = << >>
      BY <1>3, <2>1, DecimalLast
    <3> HIDE DEF c, d, r
    <3>2. QED
      BY <1>4, <3>1
  <2>2. CASE ~(m < 10)
    <3>1. m >= 10
      BY <1>3, <2>2
    <3>2. r = Append(Decimal(m \div 10), c) /\ d = Decimal(m \div 10) /\ m \div 10 \in Nat
      BY <1>3, <2>2, <3>1, DecimalLast
    <3>3. Decimal(m \div 10) \in Seq(Figures)
      BY <3>2, DecimalDigits
    <3>4. QED
      BY <3>2, <3>3
  <2>3. QED
    BY <2>1, <2>2
<1>6. Number(s) \in Nat
  BY NumberIs
<1>7. Number(s \o d) = Number(s) * Power(Len(d)) + v /\ v \in Nat /\ m = 10 * v + (m % 10)
  <2>1. CASE m < 10
    <3>1. s \o d = s /\ Len(d) = 0 /\ v = 0 /\ m % 10 = m
      BY <1>3, <2>1
    <3>2. Power(0) = 1
      BY PowerIs
    <3> DEFINE x == Number(s)
    <3>3. x = x * 1 + 0 /\ m = 10 * 0 + m
      <4>1. x \in Nat
        BY <1>6
      <4> HIDE DEF x
      <4>2. QED
        BY <1>3, <4>1
    <3> HIDE DEF d, v
    <3>4. QED
      BY <3>1, <3>2, <3>3
  <2>2. CASE ~(m < 10)
    <3>1. m >= 10
      BY <1>3, <2>2
    <3>2. m \div 10 \in Nat /\ m \div 10 < m /\ m = 10 * (m \div 10) + (m % 10)
      BY <1>3, <3>1, DecimalLast
    <3>3. m \div 10 \notin Bad
      BY <1>2, <1>3, <3>2
    <3>4. Good(m \div 10)
      BY <3>2, <3>3
    <3>5. d = Decimal(m \div 10) /\ v = m \div 10
      BY <2>2
    <3>6. QED
      BY <3>2, <3>4, <3>5
  <2>3. QED
    BY <2>1, <2>2
<1> HIDE DEF c, d, r, v, Figures
<1>8. s \o d \in Seq(Figures) /\ s \o r = Append(s \o d, c) /\ Len(r) = Len(d) + 1 /\ Len(d) \in Nat
  BY <1>4, <1>5
<1>9. Number(s \o r) = 10 * Number(s \o d) + Digit(c)
  BY <1>4, <1>8, NumberAppend
<1>10. Power(Len(d)) \in Nat /\ Power(Len(r)) = 10 * Power(Len(d))
  BY <1>8, PowerIs
<1>11. Number(s \o r) = Number(s) * Power(Len(r)) + m
  <2> DEFINE x == Number(s)
             y == Number(s \o d)
             z == Number(s \o r)
             p == Power(Len(d))
             q == Power(Len(r))
             e == m % 10
  <2>1. z = 10 * y + e
    BY <1>4, <1>9
  <2>2. y = x * p + v /\ v \in Nat /\ m = 10 * v + e
    BY <1>7
  <2>3. p \in Nat /\ q = 10 * p /\ x \in Nat /\ e \in Nat
    BY <1>3, <1>6, <1>10
  <2> HIDE DEF x, y, z, p, q, e
  <2>4. z = x * q + m
    BY <2>1, <2>2, <2>3
  <2>5. QED
    BY <2>4 DEF x, z, q
<1>12. QED
  BY <1>3, <1>11 DEF r

\* A number below 10^w fills w digits.
LEMMA PaddedShift ==
  ASSUME NEW s \in Seq(Figures), NEW w \in Nat \ {0}, NEW n \in Nat, n < Power(w)
  PROVE  /\ DecimalPadded(n, w) \in Seq(Figures) /\ Len(DecimalPadded(n, w)) = w
         /\ Number(s \o DecimalPadded(n, w)) = Number(s) * Power(w) + n
<1> DEFINE d == Decimal(n)
           l == Len(d)
           k == w - l
           z == Zeros(k)
           r == DecimalPadded(n, w)
<1>1. d \in Seq(Figures) /\ l \in Nat
  BY DecimalDigits
<1>2. l <= w
  BY DecimalLength
<1>3. k \in Nat /\ k + l = w
  <2> HIDE DEF l
  <2>1. QED
    BY <1>1, <1>2
<1>4. z \in Seq(Figures) /\ Len(z) = k /\ s \o z \in Seq(Figures)
  BY <1>3, ZerosAre, MoreZeros
<1>5. r = z \o d
  BY DEF DecimalPadded
<1>6. Number(s \o z) = Number(s) * Power(k)
  BY <1>3, ZerosShift
<1>7. Number((s \o z) \o d) = Number(s \o z) * Power(l) + n
  BY <1>4, DecimalShift
<1>8. Power(k + l) = Power(k) * Power(l) /\ Power(k) \in Nat /\ Power(l) \in Nat /\ Number(s) \in Nat
  BY <1>1, <1>3, PowerSum, PowerIs, NumberIs
<1>9. Number((s \o z) \o d) = Number(s) * Power(w) + n
  <2> DEFINE x == Number(s)
             y == Number(s \o z)
             v == Number((s \o z) \o d)
             p == Power(k)
             q == Power(l)
             t == Power(w)
  <2>1. y = x * p /\ v = y * q + n /\ t = p * q /\ p \in Nat /\ q \in Nat /\ x \in Nat
    BY <1>3, <1>6, <1>7, <1>8
  <2> HIDE DEF x, y, v, p, q, t
  <2>2. (x * p) * q = x * (p * q)
    BY <2>1
  <2>3. v = x * t + n
    BY <2>1, <2>2
  <2>4. QED
    BY <2>3 DEF v, x, t
<1> HIDE DEF d, z, r, Figures
<1>10. (s \o z) \o d = s \o (z \o d)
  BY <1>1, <1>4
<1>11. z \o d \in Seq(Figures) /\ Len(z \o d) = w
  BY <1>1, <1>3, <1>4
<1>12. QED
  BY <1>5, <1>9, <1>10, <1>11 DEF r

\* The digits before and behind the point.
LEMMA AtThePoint ==
  ASSUME NEW a \in Seq(Figures), NEW b \in Seq(Figures), NEW text, text = a \o <<".">> \o b
  PROVE  /\ Whole(text) = a /\ Fraction(text) = b
         /\ a # << >> => WellFormed(text)
<1> DEFINE n == Len(a)
           m == Len(b)
           Points == {i \in 1..Len(text) : text[i] = "."}
<1>1. \A c \in Figures : c # "." /\ IsDigit(c)
  BY FiguresAre
<1> HIDE DEF Figures
<1>2. /\ n \in Nat /\ m \in Nat /\ Len(text) = n + 1 + m /\ text[n + 1] = "."
      /\ \A i \in 1..n : text[i] = a[i] /\ a[i] \in Figures
      /\ \A i \in 1..m : text[n + 1 + i] = b[i] /\ b[i] \in Figures
  OBVIOUS
<1>3. n + 1 \in Points /\ Points \subseteq Nat /\ \A i \in Points : n + 1 <= i
  BY <1>1, <1>2
<1>4. Contains(text, ".")
  BY <1>3 DEF Contains
<1>5. SelectInSeq(text, LAMBDA c : c = ".") = n + 1
  <2>1. SelectInSeq(text, LAMBDA c : c = ".") = IF Points # {} THEN Min(Points) ELSE 0
    BY Zenon DEF SelectInSeq
  <2> HIDE DEF Points
  <2>2. Min(Points) = n + 1
    <3> DEFINE p == n + 1
    <3>1. p \in Points /\ Points \subseteq Nat /\ \A i \in Points : p <= i
      BY <1>3
    <3> HIDE DEF p
    <3> DEFINE least == Min(Points)
    <3>2. least \in Points /\ \A i \in Points : least <= i
      BY <3>1, Zenon DEF Min
    <3> HIDE DEF least
    <3>3. least = p
      BY <3>1, <3>2
    <3>4. QED
      BY <3>3 DEF p, least
  <2>3. QED
    BY <1>3, <2>1, <2>2
<1>6. Whole(text) = SubSeq(text, 1, (n + 1) - 1)
  BY <1>4, <1>5, Zenon DEF Whole
<1>7. SubSeq(text, 1, (n + 1) - 1) = a
  BY <1>2
<1>8. Fraction(text) = SubSeq(text, n + 2, Len(text))
  BY <1>6, <1>7 DEF Fraction
<1>9. SubSeq(text, n + 2, Len(text)) = b
  BY <1>2
<1>10. Whole(text) = a /\ Fraction(text) = b
  BY <1>6, <1>7, <1>8, <1>9
<1>11. a # << >> => WellFormed(text)
  BY <1>1, <1>2, <1>10 DEF WellFormed
<1>12. QED
  BY <1>10, <1>11

\* What DecodeAmount makes of digits around a point.
LEMMA DecodedIs ==
  ASSUME NEW a \in Seq(Figures), a # << >>, NEW b \in Seq(Figures), NEW text, text = a \o <<".">> \o b
  PROVE  /\ Len(b) > FractionDigits => DecodeAmount(text) = BadAmount
         /\ Len(b) = FractionDigits => DecodeAmount(text) = IF Number(a \o b) > MaxInt64 THEN BadAmount ELSE Number(a \o b)
<1> DEFINE padded == Whole(text) \o Fraction(text) \o Zeros(FractionDigits - Len(Fraction(text)))
           signed == text # << >> /\ text[1] \in {"-", "+"}
<1>1. Whole(text) = a /\ Fraction(text) = b /\ WellFormed(text)
  BY AtThePoint
<1>2. ~signed
  <2>1. \A c \in Figures : c \notin {"-", "+"}
    BY FiguresAre
  <2>2. 1 \in 1..Len(a) /\ text[1] = a[1] /\ a[1] \in Figures
    <3> HIDE DEF Figures
    <3>1. QED
      OBVIOUS
  <2>3. QED
    BY <2>1, <2>2
<1>3. DecodeAmount(text) =
        IF signed \/ ~WellFormed(text) \/ Len(Fraction(text)) > FractionDigits \/ Number(padded) > MaxInt64
        THEN BadAmount ELSE Number(padded)
  BY DEF DecodeAmount
<1>4. Len(b) = FractionDigits => padded = a \o b
  <2>1. FractionDigits \in Nat
    BY AmountAssumption
  <2>2. Len(b) = FractionDigits => FractionDigits - Len(b) = 0
    BY <2>1
  <2>3. (a \o b) \in Seq(Figures)
    OBVIOUS
  <2>4. (a \o b) \o Zeros(0) = a \o b
    BY <2>3, NoZeros
  <2>5. QED
    BY <1>1, <2>2, <2>4
<1>5. Len(b) = FractionDigits => ~(Len(b) > FractionDigits)
  BY AmountAssumption
<1> HIDE DEF padded, signed
<1>6. QED
  BY <1>1, <1>2, <1>3, <1>4, <1>5

\* An amount that an int64 holds, written as Core writes it, reads back as itself;
\* with a sign or one more digit it reads as no amount.
THEOREM AmountsReadBack ==
  ASSUME NEW n \in 0..MaxInt64
  PROVE  /\ DecodeAmount(String(n)) = n
         /\ DecodeAmount(<<"-">> \o String(n)) = BadAmount
         /\ DecodeAmount(String(n) \o <<"0">>) = BadAmount
<1> DEFINE f == FractionDigits
           s == SatoshisPerQOGE
           q == n \div s
           r == n % s
           a == Decimal(q)
           b == DecimalPadded(r, f)
           text == String(n)
<1>1. f \in Nat \ {0} /\ MaxInt64 \in Nat /\ n \in Nat /\ n <= MaxInt64
  BY AmountAssumption
<1>2. s = Power(f) /\ s \in Nat \ {0}
  BY <1>1, PowerIs DEF Power, SatoshisPerQOGE
<1>3. q \in Nat /\ r \in Nat /\ r < s /\ n = q * s + r
  <2>1. n \in Nat /\ s \in Nat \ {0}
    BY <1>1, <1>2
  <2> HIDE DEF s, f
  <2>2. q \in Int /\ q >= 0
    BY <2>1
  <2>3. r \in 0..(s - 1)
    BY <2>1
  <2>4. n = q * s + r
    BY <2>1
  <2> HIDE DEF q, r
  <2>5. QED
    BY <2>1, <2>2, <2>3, <2>4
<1> HIDE DEF s, q, r
<1>4. text = a \o <<".">> \o b
  <2>1. ~(n < 0)
    BY <1>1
  <2>2. text = << >> \o a \o <<".">> \o b
    BY <2>1 DEF String, s, q, r
  <2>3. a \in Seq(Figures)
    BY <1>3, DecimalDigits
  <2>4. << >> \o a = a
    BY <2>3
  <2>5. QED
    BY <2>2, <2>4
<1>5. a \in Seq(Figures) /\ a # << >>
  <2>1. a \in Seq(Figures) /\ Len(a) \in Nat \ {0}
    BY <1>3, DecimalDigits
  <2> HIDE DEF a
  <2>2. QED
    BY <2>1
<1>6. b \in Seq(Figures) /\ Len(b) = f /\ Number(a \o b) = Number(a) * Power(f) + r
  BY <1>1, <1>2, <1>3, <1>5, PaddedShift
<1>7. Number(a) = q
  <2>1. << >> \in Seq(Figures) /\ << >> \o a = a
    BY <1>5
  <2>2. Number(<< >> \o a) = Number(<< >>) * Power(Len(a)) + q
    BY <1>3, <2>1, DecimalShift
  <2>3. Len(a) \in Nat /\ Power(Len(a)) \in Nat
    BY <1>5, PowerIs
  <2> DEFINE p == Power(Len(a))
  <2>4. 0 * p + q = q
    <3>1. p \in Nat
      BY <2>3
    <3> HIDE DEF p
    <3>2. QED
      BY <1>3, <3>1
  <2>5. QED
    BY <2>1, <2>2, <2>4, NumberEmpty
<1>8. Number(a \o b) = n
  BY <1>2, <1>3, <1>6, <1>7
<1> HIDE DEF a, b, text
<1>9. DecodeAmount(text) = n
  <2>1. DecodeAmount(text) = IF n > MaxInt64 THEN BadAmount ELSE n
    BY <1>4, <1>5, <1>6, <1>8, DecodedIs
  <2>2. QED
    BY <1>1, <2>1
<1>10. DecodeAmount(<<"-">> \o text) = BadAmount
  <2> DEFINE t == <<"-">> \o text
  <2>1. t # << >> /\ t[1] = "-"
    <3>1. text \in Seq(Figures \cup {"."})
      <4> HIDE DEF Figures
      <4>1. QED
        BY <1>4, <1>5, <1>6
    <3>2. Len(text) \in Nat
      BY <3>1
    <3>3. Len(t) = 1 + Len(text) /\ t[1] = "-"
      BY <3>1
    <3> HIDE DEF t
    <3>4. QED
      BY <3>2, <3>3
  <2> HIDE DEF t
  <2>2. DecodeAmount(t) = BadAmount
    BY <2>1 DEF DecodeAmount
  <2>3. QED
    BY <2>2 DEF t
<1>11. DecodeAmount(text \o <<"0">>) = BadAmount
  <2> DEFINE c == b \o <<"0">>
  <2>1. "0" \in Figures
    BY FiguresAre
  <2>2. c \in Seq(Figures) /\ Len(c) = Len(b) + 1
    <3> HIDE DEF Figures
    <3>1. QED
      BY <1>6, <2>1
  <2>3. text \o <<"0">> = a \o <<".">> \o c
    <3> HIDE DEF Figures
    <3>1. QED
      BY <1>4, <1>5, <1>6, <2>1
  <2>4. Len(c) > f
    BY <1>1, <1>6, <2>2
  <2> HIDE DEF c
  <2>5. QED
    BY <1>5, <2>2, <2>3, <2>4, DecodedIs
<1>12. QED
  BY <1>9, <1>10, <1>11 DEF text

-----------------------------------------------------------------------------
(* What Core can answer                                                    *)

LEMMA MembersDistinct ==
  Null # Empty /\ Null \notin Nat /\ <<"stray">> \notin {Null, Empty}
BY CoreAssumption

LEMMA ItemsOfCore == \A item \in Item : \A i \in DOMAIN item.txs : TxOfCore(item.txs[i])
BY CoreAssumption

\* The text of an amount reads as that amount, and no longer once it is damaged.
LEMMA ReadsBack ==
  ASSUME NEW out, OutputOfCore(out)
  PROVE  /\ DecodeAmount(String(out.amount)) = out.amount /\ out.amount # BadAmount
         /\ \A t \in BadTexts \cup {<<"-">> \o String(out.amount), String(out.amount) \o <<"0">>} :
              DecodeAmount(t) = BadAmount
<1>1. out.amount \in 0..MaxInt64 /\ \A t \in BadTexts : DecodeAmount(t) = BadAmount
  BY CoreAssumption DEF OutputOfCore
<1>2. out.amount # BadAmount
  BY <1>1, AmountAssumption
<1>3. /\ DecodeAmount(String(out.amount)) = out.amount
      /\ DecodeAmount(<<"-">> \o String(out.amount)) = BadAmount
      /\ DecodeAmount(String(out.amount) \o <<"0">>) = BadAmount
  BY <1>1, AmountsReadBack
<1>4. QED
  BY <1>1, <1>2, <1>3

-----------------------------------------------------------------------------
(* An output that passes the checks                                        *)

\* v says of an output what Core said; where no address can be, it does not matter
\* whether the member is missing or empty.
SaysOutput(v, out) ==
  /\ v.value = String(out.amount) /\ v.bytes = Bytes(out.script)
  /\ v.address = ScriptAddress(out.script) \/ TypeOf(out.script) \in {"nulldata", "unknown"}

\* The two types of a script are at odds only where Core has no address.
LEMMA TypesDiffer ==
  ASSUME NEW script
  PROVE  TypeOf(script) = Solver(script)
           \/ (TypeOf(script) = "unknown" /\ Solver(script) = "nulldata")
BY DEF TypeOf, ReservedReturn

LEMMA CoreOutputSound ==
  ASSUME NEW out, OutputOfCore(out), NEW k \in Nat,
         NEW v, v = CoreVout(out, k - 1)
  PROVE  OutputSound(v, k, Classify(v.bytes)) /\ SaysOutput(v, out)
<1> DEFINE type == TypeOf(out.script)
           solved == Solver(out.script)
           bytes == Bytes(out.script)
           address == ScriptAddress(out.script)
<1>1. /\ v.n = k - 1 /\ v.value = String(out.amount) /\ v.object = "ok" /\ v.hex = "ok"
      /\ v.bytes = bytes /\ v.address = address
  BY DEF CoreVout
<1>2. Classify(bytes).type = type
  BY ClassifyIsSolver DEF OutputOfCore, CoreResult, Result
<1>3. AddressFits(type, address)
  <2>1. address = IF solved \in {"unknown", "nulldata", "multisig", "p2pk"} THEN Null ELSE <<solved, bytes>>
    BY DEF ScriptAddress
  <2>2. <<solved, bytes>> \notin {Null, Empty} /\ Null # Empty
    BY MembersDistinct DEF OutputOfCore
  <2>3. type = solved \/ (type = "unknown" /\ solved = "nulldata")
    BY TypesDiffer
  <2> HIDE DEF type, solved, bytes, address
  <2>4. QED
    BY <2>1, <2>2, <2>3 DEF AddressFits, Ownerless
<1> HIDE DEF type, solved, bytes, address
<1>4. DecodeAmount(v.value) # BadAmount
  BY <1>1, ReadsBack
<1>5. QED
  BY <1>1, <1>2, <1>3, <1>4 DEF OutputSound, SaysOutput, bytes, address

\* Damage to an output that still passes has changed nothing that is used.
LEMMA DamagedOutput ==
  ASSUME NEW out, OutputOfCore(out), NEW k \in Nat \ {0},
         NEW v, v = CoreVout(out, k - 1), NEW w \in DamagedVout(v),
         OutputSound(w, k, Classify(w.bytes))
  PROVE  SaysOutput(w, out)
<1> DEFINE type == TypeOf(out.script)
           solved == Solver(out.script)
           bytes == Bytes(out.script)
           address == ScriptAddress(out.script)
           text == String(out.amount)
           counts == {[v EXCEPT !.n = n] : n \in {Null, v.n + 1}}
           texts == {[v EXCEPT !.value = t] : t \in BadTexts \cup {<<"-">> \o v.value, v.value \o <<"0">>}}
           absent == {[v EXCEPT !.object = "absent"], [v EXCEPT !.hex = "absent"], [v EXCEPT !.hex = "bad"]}
           stray == IF v.address = Null THEN {<<"stray">>} ELSE {}
           owners == {[v EXCEPT !.address = a] : a \in {Null, Empty} \cup stray}
<1>1. v = [n |-> k - 1, value |-> text, object |-> "ok", hex |-> "ok", bytes |-> bytes, address |-> address]
  BY DEF CoreVout
<1>2. Classify(bytes).type = type
  BY ClassifyIsSolver DEF OutputOfCore, CoreResult, Result
<1>3. /\ w.n = k - 1 /\ DecodeAmount(w.value) # BadAmount
      /\ w.object = "ok" /\ w.hex = "ok"
      /\ AddressFits(Classify(w.bytes).type, w.address)
  BY DEF OutputSound
<1>4. w \in counts \cup texts \cup absent \cup owners
  BY DEF DamagedVout
<1>5. /\ address = IF solved \in {"unknown", "nulldata", "multisig", "p2pk"} THEN Null ELSE <<solved, bytes>>
      /\ type = solved \/ (type = "unknown" /\ solved = "nulldata")
  BY TypesDiffer DEF ScriptAddress
<1>6. <<solved, bytes>> \notin {Null, Empty}
  BY DEF OutputOfCore
<1> HIDE DEF type, solved, bytes, address, text
<1>7. v.n = k - 1 /\ v.value = text /\ v.address = address /\ v.bytes = bytes
  BY <1>1
<1>8. w \notin counts
  <2> SUFFICES ASSUME NEW n \in {Null, k}, w = [v EXCEPT !.n = n] PROVE FALSE
    BY <1>7
  <2>1. w.n = n
    BY <1>1
  <2>2. QED
    BY <1>3, <2>1, MembersDistinct
<1>9. w \notin texts
  <2> SUFFICES ASSUME NEW t \in BadTexts \cup {<<"-">> \o text, text \o <<"0">>}, w = [v EXCEPT !.value = t] PROVE FALSE
    BY <1>7
  <2>1. w.value = t
    BY <1>1
  <2>2. DecodeAmount(t) = BadAmount
    BY ReadsBack DEF text
  <2>3. QED
    BY <1>3, <2>1, <2>2
<1>10. w \notin absent
  BY <1>1, <1>3
<1>11. PICK a \in {Null, Empty} \cup stray : w = [v EXCEPT !.address = a]
  BY <1>4, <1>8, <1>9, <1>10
<1>12. w.address = a /\ w.value = text /\ w.bytes = bytes
  BY <1>1, <1>11
<1>13. AddressFits(type, a)
  BY <1>2, <1>3, <1>12
<1>14. a = address \/ type \in {"nulldata", "unknown"}
  <2>1. a \in {Null, Empty} \/ (a = <<"stray">> /\ address = Null)
    BY <1>7, <1>11
  <2>2. Null # Empty /\ <<"stray">> \notin {Null, Empty}
    BY MembersDistinct
  <2> HIDE DEF stray
  <2>3. QED
    BY <1>5, <1>6, <1>13, <2>1, <2>2 DEF AddressFits, Ownerless
<1>15. QED
  BY <1>12, <1>14 DEF SaysOutput, type, bytes, address, text

\* Decoded with the owners Core derives, it is the output Core means.
LEMMA OutputMeant ==
  ASSUME NEW out, OutputOfCore(out), NEW k \in Nat,
         NEW v, SaysOutput(v, out), NEW resolved,
         \A h \in DOMAIN Classify(v.bytes).pubKeys :
           resolved[Classify(v.bytes).pubKeys[h]] = pkhAddress(Classify(v.bytes).pubKeys[h])
  PROVE  WithOwners(decodeOutput(v, k, Classify(v.bytes)), resolved) = MeantOutput(out, k)
<1> DEFINE c == Classify(v.bytes)
           type == TypeOf(out.script)
           bytes == Bytes(out.script)
           n == Len(out.script)
           single == <<out.script[1].data>>
           several == [h \in 1..(n - 3) |-> out.script[h + 1].data]
           keys == IF type = "multisig" THEN several ELSE IF type = "p2pk" THEN single ELSE << >>
           o == decodeOutput(v, k, c)
           of == [h \in DOMAIN o.pubKeys |-> resolved[o.pubKeys[h]]]
           owners == [h \in DOMAIN keys |-> pkhAddress(keys[h])]
           own == IF type \in Ownerless THEN Empty ELSE v.address
<1>1. v.bytes = bytes /\ DecodeAmount(v.value) = out.amount
      /\ (v.address = ScriptAddress(out.script) \/ type \in {"nulldata", "unknown"})
  BY ReadsBack DEF SaysOutput
<1>2. c.type = type /\ c.pubKeys = keys
  <2>1. c = CoreResult(out.script)
    BY <1>1, ClassifyIsSolver DEF OutputOfCore
  <2>2. CoreResult(out.script) = Result(type, CASE type = "p2pk" -> single
                                                [] type = "multisig" -> several
                                                [] OTHER -> << >>)
    BY DEF CoreResult
  <2> HIDE DEF c, type, single, several
  <2>3. QED
    BY <2>1, <2>2 DEF Result
<1>3. o = [index |-> k - 1, value |-> out.amount, script |-> bytes, type |-> type, pubKeys |-> keys,
           participants |-> << >>, address |-> own]
  <2> HIDE DEF c, type, bytes, keys
  <2>1. QED
    BY <1>1, <1>2 DEF decodeOutput
<1>4. ASSUME NEW h \in DOMAIN keys PROVE resolved[keys[h]] = pkhAddress(keys[h])
  <2> HIDE DEF keys
  <2>1. QED
    BY <1>2
<1>5. MeantOutput(out, k) =
        [index |-> k - 1, value |-> out.amount, script |-> bytes, type |-> type, pubKeys |-> keys,
         participants |-> IF type = "multisig" THEN owners ELSE << >>,
         address |-> CASE type = "p2pk" -> pkhAddress(keys[1])
                       [] type \in {"multisig", "nulldata", "unknown"} -> Empty
                       [] OTHER -> ScriptAddress(out.script)]
  BY DEF MeantOutput
<1>6. WithOwners(o, resolved) = CASE o.type = "p2pk" -> [o EXCEPT !.address = of[1]]
                                  [] o.type = "multisig" -> [o EXCEPT !.participants = of]
                                  [] OTHER -> o
  BY Zenon DEF WithOwners
<1>7. o.pubKeys = keys /\ o.type = type
  <2> HIDE DEF o, keys, type, bytes, own
  <2>1. QED
    BY <1>3
<1>8. of = owners
  <2> HIDE DEF o, keys
  <2>1. QED
    BY <1>4, <1>7
<1>9. type = "p2pk" => 1 \in DOMAIN keys
  OBVIOUS
<1>10. of[1] = pkhAddress(keys[1]) \/ type # "p2pk"
  <2> HIDE DEF of, keys, type
  <2>1. owners[1] = pkhAddress(keys[1]) \/ type # "p2pk"
    BY <1>9
  <2>2. QED
    BY <1>8, <2>1
<1> HIDE DEF c, type, bytes, keys, o, of, owners
<1>11. QED
  <2> DEFINE address == IF type = "p2pk" THEN of[1] ELSE own
             participants == IF type = "multisig" THEN owners ELSE << >>
  <2>1. WithOwners(o, resolved) =
          [index |-> k - 1, value |-> out.amount, script |-> bytes, type |-> type, pubKeys |-> keys,
           participants |-> participants, address |-> address]
    <3> HIDE DEF own
    <3>1. CASE type = "p2pk"
      BY <1>3, <1>6, <1>7, <3>1
    <3>2. CASE type = "multisig"
      BY <1>3, <1>6, <1>7, <1>8, <3>2
    <3>3. CASE type \notin {"p2pk", "multisig"}
      BY <1>3, <1>6, <1>7, <3>3
    <3>4. QED
      BY <3>1, <3>2, <3>3
  <2>2. address = CASE type = "p2pk" -> pkhAddress(keys[1])
                    [] type \in {"multisig", "nulldata", "unknown"} -> Empty
                    [] OTHER -> ScriptAddress(out.script)
    BY <1>1, <1>10 DEF Ownerless, type
  <2> HIDE DEF address
  <2>3. QED
    BY <1>5, <2>1, <2>2 DEF o, c

-----------------------------------------------------------------------------
(* A transaction that passes the checks                                    *)

OutputsSound(t) == \A k \in DOMAIN t.vout : OutputSound(t.vout[k], k, Classify(t.vout[k].bytes))

SaysTx(t, tx) ==
  /\ t.vin = CoreTx(tx).vin /\ DOMAIN t.vout = DOMAIN tx.outputs
  /\ \A k \in DOMAIN tx.outputs : SaysOutput(t.vout[k], tx.outputs[k])

TxAsked(tx) == tx.inputs \in Seq({"coinbase", "spend"}) /\ IsList(tx.outputs) /\ TxOfCore(tx)

LEMMA CoreTxIs ==
  ASSUME NEW tx, TxAsked(tx), NEW c, c = CoreTx(tx)
  PROVE  /\ c = [fields |-> c.fields, vin |-> c.vin, vout |-> c.vout]
         /\ c.fields = [f \in TxField |-> "ok"]
         /\ IsList(c.vin) /\ DOMAIN c.vin = 1..Len(tx.inputs) /\ Len(c.vin) = Len(tx.inputs)
         /\ Len(tx.inputs) \in Nat \ {0} /\ DOMAIN tx.inputs = 1..Len(tx.inputs)
         /\ \A i \in 1..Len(tx.inputs) :
              /\ tx.inputs[i] \in {"coinbase", "spend"}
              /\ c.vin[i] = IF tx.inputs[i] = "coinbase" THEN CoinbaseVin ELSE SpendVin
         /\ IsList(c.vout) /\ DOMAIN c.vout = DOMAIN tx.outputs
         /\ Len(c.vout) \in Nat \ {0} /\ DOMAIN c.vout = 1..Len(c.vout)
         /\ \A k \in DOMAIN tx.outputs : c.vout[k] = CoreVout(tx.outputs[k], k - 1)
<1>1. /\ tx.inputs \in Seq({"coinbase", "spend"}) /\ IsList(tx.outputs)
      /\ tx.inputs # << >> /\ tx.outputs # << >>
  BY DEF TxAsked, TxOfCore
<1>2. /\ Len(tx.inputs) \in Nat \ {0} /\ DOMAIN tx.inputs = 1..Len(tx.inputs)
      /\ \A i \in 1..Len(tx.inputs) : tx.inputs[i] \in {"coinbase", "spend"}
  BY <1>1
<1>3. /\ c = [fields |-> c.fields, vin |-> c.vin, vout |-> c.vout]
      /\ c.fields = [f \in TxField |-> "ok"]
      /\ c.vin = [i \in DOMAIN tx.inputs |-> IF tx.inputs[i] = "coinbase" THEN CoinbaseVin ELSE SpendVin]
      /\ c.vout = [k \in DOMAIN tx.outputs |-> CoreVout(tx.outputs[k], k - 1)]
  BY DEF CoreTx
<1>4. IsList(c.vin) /\ Len(c.vin) = Len(tx.inputs) /\ DOMAIN c.vin = 1..Len(tx.inputs)
  <2>1. c.vin = [i \in 1..Len(tx.inputs) |-> c.vin[i]]
    BY <1>2, <1>3
  <2>2. QED
    BY <1>2, <2>1, ListIs
<1>5. IsList(c.vout) /\ Len(c.vout) = Len(tx.outputs) /\ DOMAIN c.vout = DOMAIN tx.outputs
  <2>1. c.vout = [k \in DOMAIN tx.outputs |-> c.vout[k]]
    BY <1>3
  <2>2. QED
    BY <1>1, <2>1, ListMap
<1>6. Len(c.vout) \in Nat \ {0} /\ DOMAIN c.vout = 1..Len(c.vout)
  <2>1. Len(tx.outputs) \in Nat /\ Len(tx.outputs) # 0
    BY <1>1, ListHas
  <2>2. QED
    BY <1>5, <2>1, ListHas
<1>7. \A i \in 1..Len(tx.inputs) : c.vin[i] = IF tx.inputs[i] = "coinbase" THEN CoinbaseVin ELSE SpendVin
  BY <1>2, <1>3
<1>8. \A k \in DOMAIN tx.outputs : c.vout[k] = CoreVout(tx.outputs[k], k - 1)
  BY <1>3
<1>9. QED
  BY <1>2, <1>3, <1>4, <1>5, <1>6, <1>7, <1>8

LEMMA CoreInputs ==
  /\ InputSound(CoinbaseVin) /\ IsCoinbaseVin(CoinbaseVin)
  /\ InputSound(SpendVin) /\ ~IsCoinbaseVin(SpendVin)
BY DEF InputSound, IsCoinbaseVin, CoinbaseVin, SpendVin

LEMMA CoreTxSound ==
  ASSUME NEW tx, TxAsked(tx), NEW c, c = CoreTx(tx)
  PROVE  TxSound(c) /\ OutputsSound(c) /\ SaysTx(c, tx)
<1> DEFINE vin == c.vin
           Coinbases == {i \in DOMAIN vin : IsCoinbaseVin(vin[i])}
<1>1. /\ c.fields = [f \in TxField |-> "ok"]
      /\ DOMAIN vin = 1..Len(tx.inputs) /\ Len(vin) = Len(tx.inputs)
      /\ Len(tx.inputs) \in Nat \ {0} /\ DOMAIN tx.inputs = 1..Len(tx.inputs)
      /\ \A i \in 1..Len(tx.inputs) :
           /\ tx.inputs[i] \in {"coinbase", "spend"}
           /\ vin[i] = IF tx.inputs[i] = "coinbase" THEN CoinbaseVin ELSE SpendVin
      /\ DOMAIN c.vout = DOMAIN tx.outputs
      /\ Len(c.vout) \in Nat \ {0} /\ DOMAIN c.vout = 1..Len(c.vout)
      /\ \A k \in DOMAIN tx.outputs : c.vout[k] = CoreVout(tx.outputs[k], k - 1)
  BY CoreTxIs
<1>2. AllOk(c.fields)
  BY <1>1 DEF AllOk
<1> HIDE DEF vin
<1>3. \A i \in DOMAIN vin : InputSound(vin[i]) /\ (IsCoinbaseVin(vin[i]) <=> tx.inputs[i] = "coinbase")
  BY <1>1, CoreInputs
<1>4. (\E i \in DOMAIN vin : IsCoinbaseVin(vin[i])) => Len(vin) = 1
  BY <1>1, <1>3 DEF TxAsked, TxOfCore
<1>5. Cardinality(Coinbases) <= 1
  <2>1. CASE Coinbases = {}
    BY <2>1, FS_EmptySet
  <2>2. CASE Coinbases # {}
    <3>1. DOMAIN vin = {1}
      BY <1>1, <1>4, <2>2
    <3>2. Coinbases = {1}
      BY <2>2, <3>1
    <3>3. Cardinality({1}) = 1
      BY FS_Singleton
    <3> HIDE DEF Coinbases
    <3>4. QED
      BY <3>2, <3>3
  <2>3. QED
    BY <2>1, <2>2
<1>6. vin # << >> /\ c.vout # << >>
  BY <1>1
<1>7. TxSound(c)
  BY <1>2, <1>3, <1>4, <1>5, <1>6 DEF TxSound, InputsSound, vin
<1>8. ASSUME NEW k \in DOMAIN tx.outputs
      PROVE  OutputSound(c.vout[k], k, Classify(c.vout[k].bytes)) /\ SaysOutput(c.vout[k], tx.outputs[k])
  <2>1. k \in Nat /\ c.vout[k] = CoreVout(tx.outputs[k], k - 1)
    BY <1>1
  <2>2. OutputOfCore(tx.outputs[k])
    BY DEF TxAsked, TxOfCore
  <2>3. QED
    BY <2>1, <2>2, CoreOutputSound
<1>9. QED
  BY <1>1, <1>7, <1>8 DEF OutputsSound, SaysTx

\* A damaged input that still passes is the input Core gave.
LEMMA DamagedInput ==
  ASSUME NEW v \in {CoinbaseVin, SpendVin}, NEW w \in DamagedVin(v), InputSound(w)
  PROVE  w = v
<1> DEFINE named == {[v EXCEPT ![f] = s] : f \in {"coinbase", "txid", "vout", "scriptSig"},
                                           s \in {"absent", "ok", "bad"}}
<1>1. \/ v = [coinbase |-> "ok", txid |-> "absent", vout |-> "absent",
              scriptSig |-> "absent", sequence |-> "ok", witness |-> "ok"]
      \/ v = [coinbase |-> "absent", txid |-> "ok", vout |-> "ok",
              scriptSig |-> "ok", sequence |-> "ok", witness |-> "ok"]
  BY DEF CoinbaseVin, SpendVin
<1>2. /\ w.witness = "ok" /\ w.sequence = "ok"
      /\ w.coinbase # "absent" => w.coinbase = "ok" /\ w.txid = "absent" /\ w.vout = "absent" /\ w.scriptSig = "absent"
      /\ w.coinbase = "absent" => w.txid = "ok" /\ w.vout = "ok" /\ w.scriptSig = "ok"
  <2>1. /\ w.witness = "ok" /\ w.sequence = "ok"
        /\ IF w.coinbase # "absent"
           THEN w.coinbase = "ok" /\ {w.txid, w.vout, w.scriptSig} = {"absent"}
           ELSE {w.txid, w.vout, w.scriptSig} = {"ok"}
    BY DEF InputSound, IsCoinbaseVin
  <2>2. \A a, b, d, x : {a, b, d} = {x} => a = x /\ b = x /\ d = x
    OBVIOUS
  <2>3. QED
    BY <2>1, <2>2
<1>3. w \in named \/ w = [v EXCEPT !.sequence = "absent"] \/ w = [v EXCEPT !.witness = "bad"]
  BY DEF DamagedVin
<1>4. w \in named
  BY <1>1, <1>2, <1>3
<1>5. PICK f \in {"coinbase", "txid", "vout", "scriptSig"}, s \in {"absent", "ok", "bad"} : w = [v EXCEPT ![f] = s]
  BY <1>4
<1>6. CASE f = "coinbase"
  <2>1. w = [v EXCEPT !.coinbase = s]
    BY <1>5, <1>6
  <2>2. QED
    BY <1>1, <1>2, <2>1
<1>7. CASE f = "txid"
  <2>1. w = [v EXCEPT !.txid = s]
    BY <1>5, <1>7
  <2>2. QED
    BY <1>1, <1>2, <2>1
<1>8. CASE f = "vout"
  <2>1. w = [v EXCEPT !.vout = s]
    BY <1>5, <1>8
  <2>2. QED
    BY <1>1, <1>2, <2>1
<1>9. CASE f = "scriptSig"
  <2>1. w = [v EXCEPT !.scriptSig = s]
    BY <1>5, <1>9
  <2>2. QED
    BY <1>1, <1>2, <2>1
<1>10. QED
  BY <1>5, <1>6, <1>7, <1>8, <1>9

\* Damaged members never pass.
LEMMA DamagedMembers ==
  ASSUME NEW S, NEW f \in DamagedFields([x \in S |-> "ok"])
  PROVE  ~AllOk(f)
<1> DEFINE fields == [x \in S |-> "ok"]
           absent == {[fields EXCEPT ![x] = "absent"] : x \in DOMAIN fields}
           bad == {[fields EXCEPT ![x] = "bad"] : x \in DOMAIN fields \cap Checked}
<1>1. f \in absent \/ f \in bad
  BY DEF DamagedFields
<1>2. \E x \in S : f = [fields EXCEPT ![x] = "absent"] \/ f = [fields EXCEPT ![x] = "bad"]
  BY <1>1
<1>3. PICK x \in S : f = [fields EXCEPT ![x] = "absent"] \/ f = [fields EXCEPT ![x] = "bad"]
  BY <1>2
<1>4. x \in DOMAIN f /\ f[x] # "ok"
  BY <1>3
<1>5. QED
  BY <1>4 DEF AllOk

\* The last entry moves up when an earlier one is lost.
LEMMA LastMovesUp ==
  ASSUME NEW s, IsList(s), NEW i \in 1..(Len(s) - 1), NEW r, r = RemoveAt(s, i)
  PROVE  DOMAIN r = 1..(Len(s) - 1) /\ Len(r) = Len(s) - 1 /\ r[Len(s) - 1] = s[Len(s)]
<1> DEFINE n == Len(s)
           S == Range(s)
           a == SubSeq(s, 1, i - 1)
           b == SubSeq(s, i + 1, n)
<1>1. n \in Nat /\ i \in 1..n /\ s \in Seq(S) /\ i # n
  BY ListHas DEF IsList
<1>2. a = [k \in 1..(i - 1) |-> s[(1 + k) - 1]] /\ b = [k \in 1..(n - i) |-> s[((i + 1) + k) - 1]]
  <2>1. 1 \in 1..(n + 1) /\ i - 1 \in Nat /\ 1 + (i - 1) <= n + 1 /\ (1 + (i - 1)) - 1 = i - 1
    BY <1>1
  <2>2. i + 1 \in 1..(n + 1) /\ n - i \in Nat /\ (i + 1) + (n - i) <= n + 1 /\ ((i + 1) + (n - i)) - 1 = n
    BY <1>1
  <2>3. SubSeq(s, 1, (1 + (i - 1)) - 1) = [k \in 1..(i - 1) |-> s[(1 + k) - 1]]
    BY <1>1, <2>1, SliceIs
  <2>4. SubSeq(s, i + 1, ((i + 1) + (n - i)) - 1) = [k \in 1..(n - i) |-> s[((i + 1) + k) - 1]]
    BY <1>1, <2>2, SliceIs
  <2>5. QED
    BY <2>1, <2>2, <2>3, <2>4
<1>3. \A k \in 1..n : s[k] \in S
  BY <1>1
<1>4. a \in Seq(S) /\ Len(a) = i - 1
  <2>1. \A k \in 1..(i - 1) : s[(1 + k) - 1] \in S
    BY <1>1, <1>3
  <2>2. i - 1 \in Nat
    BY <1>1
  <2> HIDE DEF a, S
  <2>3. QED
    BY <1>2, <2>1, <2>2
<1>5. b \in Seq(S) /\ Len(b) = n - i
  <2>1. \A k \in 1..(n - i) : s[((i + 1) + k) - 1] \in S
    BY <1>1, <1>3
  <2>2. n - i \in Nat
    BY <1>1
  <2> HIDE DEF b, S
  <2>3. QED
    BY <1>2, <2>1, <2>2
<1>6. r = a \o b
  BY DEF RemoveAt
<1>7. b[n - i] = s[n]
  <2>1. n - i \in 1..(n - i) /\ ((i + 1) + (n - i)) - 1 = n
    BY <1>1
  <2> HIDE DEF b
  <2>2. QED
    BY <1>2, <2>1
<1> HIDE DEF a, b, S
<1>8. r \in Seq(S) /\ Len(r) = Len(a) + Len(b) /\ \A k \in 1..Len(b) : r[Len(a) + k] = b[k]
  <2>1. a \in Seq(S) /\ b \in Seq(S) /\ r = a \o b
    BY <1>4, <1>5, <1>6
  <2>2. QED
    BY <2>1, JoinAt
<1>9. Len(r) = n - 1 /\ DOMAIN r = 1..Len(r)
  BY <1>1, <1>4, <1>5, <1>8
<1>10. r[(i - 1) + (n - i)] = b[n - i]
  <2>1. n - i \in 1..Len(b)
    BY <1>1, <1>5
  <2>2. QED
    BY <1>4, <1>8, <2>1
<1>11. (i - 1) + (n - i) = n - 1
  BY <1>1
<1> HIDE DEF n
<1>12. r[n - 1] = s[n]
  BY <1>7, <1>10, <1>11
<1>13. QED
  BY <1>9, <1>12 DEF n

LEMMA DamagedTxSays ==
  ASSUME NEW tx, TxAsked(tx), NEW c, c = CoreTx(tx),
         NEW t \in DamagedTx(c), TxSound(t), OutputsSound(t)
  PROVE  SaysTx(t, tx)
<1> DEFINE n == Len(tx.inputs)
           h == Len(c.vout)
<1>1. /\ c = [fields |-> c.fields, vin |-> c.vin, vout |-> c.vout]
      /\ c.fields = [f \in TxField |-> "ok"]
      /\ IsList(c.vin) /\ DOMAIN c.vin = 1..n /\ Len(c.vin) = n
      /\ n \in Nat \ {0}
      /\ \A i \in 1..n : c.vin[i] \in {CoinbaseVin, SpendVin}
      /\ IsList(c.vout) /\ DOMAIN c.vout = DOMAIN tx.outputs
      /\ h \in Nat \ {0} /\ DOMAIN c.vout = 1..h
      /\ \A k \in 1..h : c.vout[k] = CoreVout(tx.outputs[k], k - 1) /\ c.vout[k].n = k - 1
  <2>1. \A o, k : CoreVout(o, k).n = k
    BY DEF CoreVout
  <2>2. QED
    BY <2>1, CoreTxIs
<1>2. \A k \in 1..h : OutputOfCore(tx.outputs[k])
  BY <1>1 DEF TxAsked, TxOfCore
<1>3. \A k \in 1..h : SaysOutput(c.vout[k], tx.outputs[k])
  BY <1>1, CoreTxSound DEF SaysTx
<1>4. /\ AllOk(t.fields) /\ t.vout # << >> /\ t.vin # << >>
      /\ \A i \in DOMAIN t.vin : InputSound(t.vin[i])
      /\ (\E i \in DOMAIN t.vin : IsCoinbaseVin(t.vin[i])) => Len(t.vin) = 1
      /\ \A k \in DOMAIN t.vout : OutputSound(t.vout[k], k, Classify(t.vout[k].bytes)) /\ t.vout[k].n = k - 1
  BY DEF TxSound, InputsSound, OutputsSound, OutputSound
<1>5. c.vin = CoreTx(tx).vin
  OBVIOUS
<1> HIDE DEF n, h
<1>6. ASSUME NEW f \in DamagedFields(c.fields), t = [c EXCEPT !.fields = f] PROVE FALSE
  <2>1. t.fields = f
    BY <1>1, <1>6
  <2>2. ~AllOk(f)
    BY <1>1, <1>6, DamagedMembers
  <2>3. QED
    BY <1>4, <2>1, <2>2
<1>7. t # [c EXCEPT !.vin = << >>] /\ t # [c EXCEPT !.vout = << >>]
  BY <1>1, <1>4
<1>8. t # [c EXCEPT !.vin = Append(c.vin, CoinbaseVin)]
  <2> SUFFICES ASSUME t = [c EXCEPT !.vin = Append(c.vin, CoinbaseVin)] PROVE FALSE
    OBVIOUS
  <2> DEFINE vin == Append(c.vin, CoinbaseVin)
  <2>1. t.vin = vin
    BY <1>1
  <2>2. Len(vin) = n + 1 /\ DOMAIN vin = 1..(n + 1) /\ vin[n + 1] = CoinbaseVin
    BY <1>1 DEF IsList
  <2> HIDE DEF vin
  <2>3. n + 1 \in DOMAIN vin /\ IsCoinbaseVin(vin[n + 1])
    BY <1>1, <2>2, CoreInputs
  <2>4. QED
    BY <1>1, <1>4, <2>1, <2>2, <2>3
<1>9. ASSUME NEW i \in DOMAIN c.vin, NEW w \in DamagedVin(c.vin[i]), t = [c EXCEPT !.vin = [c.vin EXCEPT ![i] = w]]
      PROVE  t = c
  <2> DEFINE vin == [c.vin EXCEPT ![i] = w]
  <2>1. t.vin = vin
    BY <1>1, <1>9
  <2>2. i \in DOMAIN vin /\ vin[i] = w
    OBVIOUS
  <2>3. InputSound(w)
    BY <1>4, <2>1, <2>2
  <2>4. w = c.vin[i]
    BY <1>1, <2>3, DamagedInput
  <2>5. c.vin = [k \in 1..n |-> c.vin[k]]
    BY <1>1, ListHas
  <2>6. vin = c.vin
    BY <2>4, <2>5
  <2>7. t = [c EXCEPT !.vin = c.vin]
    BY <1>9, <2>6
  <2>8. QED
    BY <1>1, <2>7
<1>10. ASSUME NEW i \in DOMAIN c.vout, NEW w \in DamagedVout(c.vout[i]), t = [c EXCEPT !.vout = [c.vout EXCEPT ![i] = w]]
       PROVE  SaysTx(t, tx)
  <2> DEFINE vout == [c.vout EXCEPT ![i] = w]
  <2>1. t.vout = vout /\ t.vin = c.vin
    BY <1>1, <1>10
  <2>2. i \in DOMAIN vout /\ vout[i] = w /\ DOMAIN vout = 1..h /\ \A k \in 1..h : k # i => vout[k] = c.vout[k]
    BY <1>1
  <2> HIDE DEF vout
  <2>3. OutputSound(w, i, Classify(w.bytes))
    BY <1>4, <2>1, <2>2
  <2>4. i \in 1..h /\ i \in Nat \ {0} /\ c.vout[i] = CoreVout(tx.outputs[i], i - 1)
    BY <1>1
  <2>5. SaysOutput(w, tx.outputs[i])
    BY <1>2, <2>3, <2>4, DamagedOutput
  <2>6. \A k \in 1..h : SaysOutput(vout[k], tx.outputs[k])
    BY <1>3, <2>2, <2>5
  <2>7. QED
    BY <1>1, <1>5, <2>1, <2>2, <2>6 DEF SaysTx
<1>11. ASSUME NEW i \in 1..(Len(c.vout) - 1), t = [c EXCEPT !.vout = RemoveAt(c.vout, i)] PROVE FALSE
  <2> DEFINE vout == RemoveAt(c.vout, i)
  <2>1. t.vout = vout
    BY <1>1, <1>11
  <2>2. DOMAIN vout = 1..(h - 1) /\ vout[h - 1] = c.vout[h]
    BY <1>1, LastMovesUp DEF h
  <2> HIDE DEF vout
  <2>3. i \in 1..(h - 1)
    BY <1>11 DEF h
  <2>4. h - 1 \in 1..(h - 1) /\ h \in 1..h
    BY <1>1, <2>3
  <2>5. vout[h - 1].n = (h - 1) - 1
    BY <1>4, <2>1, <2>2, <2>4
  <2>6. vout[h - 1].n = h - 1
    BY <1>1, <2>2, <2>4
  <2>7. QED
    BY <1>1, <2>5, <2>6
<1>12. ASSUME t = [c EXCEPT !.vout = Reverse(c.vout)] PROVE SaysTx(t, tx)
  <2> DEFINE vout == Reverse(c.vout)
  <2>1. t.vout = vout /\ t.vin = c.vin
    BY <1>1, <1>12
  <2>2. vout = [k \in 1..h |-> c.vout[(h - k) + 1]]
    BY DEF Reverse, h
  <2> HIDE DEF vout
  <2>3. 1 \in 1..h /\ h \in 1..h /\ (h - 1) + 1 = h
    BY <1>1
  <2>4. vout[1] = c.vout[h] /\ 1 \in DOMAIN vout
    BY <2>2, <2>3
  <2>5. h - 1 = 1 - 1
    BY <1>1, <1>4, <2>1, <2>3, <2>4
  <2>6. h = 1
    BY <1>1, <2>5
  <2>7. DOMAIN vout = 1..h /\ \A k \in 1..h : k = 1
    BY <2>2, <2>6
  <2>8. \A k \in 1..h : SaysOutput(vout[k], tx.outputs[k])
    BY <1>3, <2>4, <2>6, <2>7
  <2>9. QED
    BY <1>1, <1>5, <2>1, <2>7, <2>8 DEF SaysTx
<1>13. t = c => SaysTx(t, tx)
  BY CoreTxSound
<1>14. \/ \E f \in DamagedFields(c.fields) : t = [c EXCEPT !.fields = f]
       \/ t = [c EXCEPT !.vin = << >>]
       \/ t = [c EXCEPT !.vout = << >>]
       \/ t = [c EXCEPT !.vin = Append(c.vin, CoinbaseVin)]
       \/ \E i \in DOMAIN c.vin : \E v \in DamagedVin(c.vin[i]) : t = [c EXCEPT !.vin = [c.vin EXCEPT ![i] = v]]
       \/ \E i \in DOMAIN c.vout : \E v \in DamagedVout(c.vout[i]) : t = [c EXCEPT !.vout = [c.vout EXCEPT ![i] = v]]
       \/ \E i \in 1..(Len(c.vout) - 1) : t = [c EXCEPT !.vout = RemoveAt(c.vout, i)]
       \/ t = [c EXCEPT !.vout = Reverse(c.vout)]
  BY DamagedTxIs
<1>15. QED
  BY <1>6, <1>7, <1>8, <1>9, <1>10, <1>11, <1>12, <1>13, <1>14
LEMMA LessByOne ==
  ASSUME NEW s, IsList(s), NEW i \in DOMAIN s
  PROVE  Len(RemoveAt(s, i)) # Len(s)
<1> DEFINE n == Len(s)
           S == Range(s)
           a == SubSeq(s, 1, i - 1)
           b == SubSeq(s, i + 1, n)
<1>1. n \in Nat /\ i \in 1..n /\ s \in Seq(S)
  BY ListHas DEF IsList
<1>2. a \in Seq(S) /\ Len(a) = i - 1
  <2>1. \A k \in 1..(i - 1) : k \in 1..n
    BY <1>1
  <2>2. QED
    BY <1>1, <2>1
<1>3. b \in Seq(S) /\ Len(b) = n - i
  BY <1>1
<1> HIDE DEF a, b, S
<1> DEFINE r == a \o b
<1>4. a \in Seq(S) /\ b \in Seq(S) /\ r = a \o b
  BY <1>2, <1>3
<1> HIDE DEF r
<1>5. Len(r) = Len(a) + Len(b)
  BY <1>4, JoinAt
<1>6. RemoveAt(s, i) = r
  BY DEF RemoveAt, r, a, b
<1> HIDE DEF n
<1>7. Len(r) = n - 1
  BY <1>1, <1>2, <1>3, <1>5
<1>8. QED
  BY <1>1, <1>6, <1>7 DEF n

-----------------------------------------------------------------------------
(* An answer that passes the checks                                        *)

Passes(raw) ==
  HeadSound(raw) /\ \A i \in DOMAIN raw.tx : TxSound(raw.tx[i]) /\ OutputsSound(raw.tx[i])
SaysItem(raw, item) ==
  DOMAIN raw.tx = DOMAIN item.txs /\ \A i \in DOMAIN item.txs : SaysTx(raw.tx[i], item.txs[i])

LEMMA CoreAnswerIs ==
  ASSUME NEW item \in Item, NEW raw, raw = CoreAnswer(item)
  PROVE  /\ raw = [height |-> raw.height, fields |-> raw.fields, previous |-> raw.previous,
                   nTx |-> raw.nTx, tx |-> raw.tx]
         /\ raw.fields = [f \in BlockField |-> "ok"]
         /\ raw.previous = IF raw.height = 0 THEN "absent" ELSE "ok"
         /\ IsList(raw.tx) /\ raw.nTx = Len(raw.tx) /\ Len(raw.tx) \in Nat
         /\ DOMAIN raw.tx = DOMAIN item.txs
         /\ \A i \in DOMAIN item.txs : raw.tx[i] = CoreTx(item.txs[i]) /\ TxAsked(item.txs[i])
<1>1. /\ raw = [height |-> raw.height, fields |-> raw.fields, previous |-> raw.previous,
                nTx |-> raw.nTx, tx |-> raw.tx]
      /\ raw.fields = [f \in BlockField |-> "ok"]
      /\ raw.previous = IF raw.height = 0 THEN "absent" ELSE "ok"
      /\ raw.nTx = Len(item.txs) /\ raw.tx = [i \in DOMAIN item.txs |-> CoreTx(item.txs[i])]
  BY DEF CoreAnswer
<1>2. /\ IsList(item.txs)
      /\ \A i \in DOMAIN item.txs : /\ item.txs[i].inputs \in Seq({"coinbase", "spend"})
                                    /\ IsList(item.txs[i].outputs)
  BY AskedAssumption 
<1>3. \A i \in DOMAIN item.txs : TxAsked(item.txs[i])
  BY <1>2, ItemsOfCore DEF TxAsked
<1>4. IsList(raw.tx) /\ Len(raw.tx) = Len(item.txs) /\ DOMAIN raw.tx = DOMAIN item.txs
  <2>1. raw.tx = [i \in DOMAIN item.txs |-> raw.tx[i]]
    BY <1>1
  <2>2. QED
    BY <1>2, <2>1, ListMap
<1>5. \A i \in DOMAIN item.txs : raw.tx[i] = CoreTx(item.txs[i])
  BY <1>1
<1>6. Len(raw.tx) \in Nat
  BY <1>4, ListHas
<1>7. QED
  BY <1>1, <1>3, <1>4, <1>5, <1>6

LEMMA CoreAnswerPasses ==
  ASSUME NEW item \in Item, NEW raw, raw = CoreAnswer(item)
  PROVE  Passes(raw) /\ SaysItem(raw, item)
<1>1. /\ raw.fields = [f \in BlockField |-> "ok"]
      /\ raw.previous = IF raw.height = 0 THEN "absent" ELSE "ok"
      /\ raw.nTx = Len(raw.tx) /\ DOMAIN raw.tx = DOMAIN item.txs
      /\ \A i \in DOMAIN item.txs : raw.tx[i] = CoreTx(item.txs[i]) /\ TxAsked(item.txs[i])
  BY CoreAnswerIs
<1>2. HeadSound(raw)
  BY <1>1 DEF HeadSound, AllOk, GenesisRelation
<1>3. \A i \in DOMAIN item.txs :
        TxSound(raw.tx[i]) /\ OutputsSound(raw.tx[i]) /\ SaysTx(raw.tx[i], item.txs[i])
  BY <1>1, CoreTxSound
<1>4. QED
  BY <1>1, <1>2, <1>3 DEF Passes, SaysItem

\* A damaged answer that still passes says what Core said.
LEMMA DamagedSays ==
  ASSUME NEW item \in Item, NEW raw, raw = CoreAnswer(item),
         NEW r \in Damaged(raw), Passes(r)
  PROVE  SaysItem(r, item)
<1>1. /\ raw = [height |-> raw.height, fields |-> raw.fields, previous |-> raw.previous,
                nTx |-> raw.nTx, tx |-> raw.tx]
      /\ raw.fields = [f \in BlockField |-> "ok"]
      /\ raw.previous = IF raw.height = 0 THEN "absent" ELSE "ok"
      /\ IsList(raw.tx) /\ raw.nTx = Len(raw.tx) /\ Len(raw.tx) \in Nat
      /\ DOMAIN raw.tx = DOMAIN item.txs
      /\ \A i \in DOMAIN item.txs : raw.tx[i] = CoreTx(item.txs[i]) /\ TxAsked(item.txs[i])
  BY CoreAnswerIs
<1>2. SaysItem(raw, item)
  BY CoreAnswerPasses
<1>3. /\ \/ r.height = Null
         \/ AllOk(r.fields) /\ r.nTx = Len(r.tx)
      /\ \A i \in DOMAIN r.tx : TxSound(r.tx[i]) /\ OutputsSound(r.tx[i])
  BY DEF Passes, HeadSound
<1>4. ASSUME NEW i \in DOMAIN raw.tx, NEW t \in DamagedTx(raw.tx[i]), r = [raw EXCEPT !.tx = [raw.tx EXCEPT ![i] = t]]
      PROVE  SaysItem(r, item)
  <2> DEFINE txs == [raw.tx EXCEPT ![i] = t]
  <2>1. r.tx = txs
    BY <1>1, <1>4
  <2>2. DOMAIN txs = DOMAIN raw.tx /\ txs[i] = t /\ \A k \in DOMAIN raw.tx : k # i => txs[k] = raw.tx[k]
    BY <1>1
  <2> HIDE DEF txs
  <2>3. TxSound(t) /\ OutputsSound(t)
    BY <1>3, <2>1, <2>2
  <2>4. TxAsked(item.txs[i]) /\ raw.tx[i] = CoreTx(item.txs[i])
    BY <1>1
  <2>5. SaysTx(t, item.txs[i])
    BY <2>3, <2>4, DamagedTxSays
  <2>6. QED
    BY <1>1, <1>2, <2>1, <2>2, <2>5 DEF SaysItem
<1>5. ASSUME raw.height # Null, NEW f \in DamagedFields(raw.fields), r = [raw EXCEPT !.fields = f]
      PROVE  FALSE
  <2>1. r.fields = f /\ r.height = raw.height
    BY <1>1, <1>5
  <2>2. ~AllOk(f)
    BY <1>1, DamagedMembers
  <2>3. QED
    BY <1>3, <1>5, <2>1, <2>2
<1>6. ASSUME NEW s, r = [raw EXCEPT !.previous = s] PROVE SaysItem(r, item)
  <2>1. r.tx = raw.tx
    BY <1>1, <1>6
  <2>2. QED
    BY <1>2, <2>1 DEF SaysItem
<1>7. ASSUME raw.height # Null, r = [raw EXCEPT !.nTx = Null] PROVE FALSE
  <2>1. r.nTx = Null /\ r.tx = raw.tx /\ r.height = raw.height
    BY <1>1, <1>7
  <2>2. QED
    BY <1>1, <1>3, <1>7, <2>1, MembersDistinct
<1>8. ASSUME raw.height # Null, NEW i \in DOMAIN raw.tx, r = [raw EXCEPT !.tx = RemoveAt(raw.tx, i)] PROVE FALSE
  <2> DEFINE txs == RemoveAt(raw.tx, i)
  <2>1. r.tx = txs /\ r.nTx = raw.nTx /\ r.height = raw.height
    BY <1>1, <1>8
  <2>2. Len(txs) # Len(raw.tx)
    BY <1>1, LessByOne
  <2> HIDE DEF txs
  <2>3. QED
    BY <1>1, <1>3, <1>8, <2>1, <2>2
<1>9. \/ \E i \in DOMAIN raw.tx : \E t \in DamagedTx(raw.tx[i]) :
           r = [raw EXCEPT !.tx = [raw.tx EXCEPT ![i] = t]]
      \/ /\ raw.height # Null
         /\ \/ \E f \in DamagedFields(raw.fields) : r = [raw EXCEPT !.fields = f]
            \/ \E s \in {"absent", "ok", "bad"} : r = [raw EXCEPT !.previous = s]
            \/ r = [raw EXCEPT !.nTx = Null]
            \/ \E i \in DOMAIN raw.tx : r = [raw EXCEPT !.tx = RemoveAt(raw.tx, i)]
  BY DamagedIs
<1>10. QED
  BY <1>4, <1>5, <1>6, <1>7, <1>8, <1>9

\* A job is sound when the answer it starts with passes.
LEMMA SoundPasses ==
  ASSUME NEW item, NEW raw, RawShape(raw)
  PROVE  Started(item, raw).sound <=> Passes(raw)
<1> DEFINE parts == Parts(raw)
           j == Started(item, raw)
<1>1. j.sound <=> \A p \in Range(parts) : p.sound
  BY StartedIs
<1>2. /\ \E p \in Range(parts) : p.sound = HeadSound(raw)
      /\ \A i \in DOMAIN raw.tx : Range(TxParts(raw.tx[i])) \subseteq Range(parts)
      /\ \A p \in Range(parts) :
           p.sound = HeadSound(raw) \/ \E i \in DOMAIN raw.tx : p \in Range(TxParts(raw.tx[i]))
  BY PartsAre
<1> HIDE DEF parts, j
<1>3. ASSUME NEW i \in DOMAIN raw.tx
      PROVE  (\A p \in Range(TxParts(raw.tx[i])) : p.sound) <=> TxSound(raw.tx[i]) /\ OutputsSound(raw.tx[i])
  <2> DEFINE tx == raw.tx[i]
             own == Range(TxParts(tx))
  <2>1. TxShape(tx)
    BY DEF RawShape
  <2> HIDE DEF tx
  <2>2. /\ \E p \in own : p.sound = TxSound(tx)
        /\ \A k \in DOMAIN tx.vout : \E p \in own :
             p.sound = OutputSound(tx.vout[k], k, Classify(tx.vout[k].bytes))
        /\ \A p \in own : \/ p.sound = TxSound(tx)
                          \/ \E k \in DOMAIN tx.vout :
                               p.sound = OutputSound(tx.vout[k], k, Classify(tx.vout[k].bytes))
    BY <2>1, TxPartsAre
  <2> HIDE DEF own
  <2>3. (\A p \in own : p.sound) <=> TxSound(tx) /\ OutputsSound(tx)
    BY <2>2 DEF OutputsSound
  <2>4. QED
    BY <2>3 DEF own, tx
<1>4. (\A p \in Range(parts) : p.sound) => Passes(raw)
  <2> HAVE \A p \in Range(parts) : p.sound
  <2>1. HeadSound(raw)
    BY <1>2
  <2>2. \A i \in DOMAIN raw.tx : TxSound(raw.tx[i]) /\ OutputsSound(raw.tx[i])
    BY <1>2, <1>3
  <2>3. QED
    BY <2>1, <2>2 DEF Passes
<1>5. Passes(raw) => \A p \in Range(parts) : p.sound
  BY <1>2, <1>3 DEF Passes
<1>6. QED
  BY <1>1, <1>4, <1>5 DEF j
\* Every key of a transaction is resolved, to the address Core derives for it.
OwnersIn(t, resolved) ==
  \A k \in DOMAIN t.vout : \A h \in DOMAIN Classify(t.vout[k].bytes).pubKeys :
    resolved[Classify(t.vout[k].bytes).pubKeys[h]] = pkhAddress(Classify(t.vout[k].bytes).pubKeys[h])

\* A transaction that says what Core said, with the owners Core derives, is the
\* one Core means.
LEMMA TxMeant ==
  ASSUME NEW tx, TxAsked(tx), NEW t, SaysTx(t, tx), NEW resolved, OwnersIn(t, resolved),
         NEW d, d = DecodeTransaction(t)
  PROVE  [d EXCEPT !.outputs = [k \in DOMAIN d.outputs |-> WithOwners(d.outputs[k], resolved)]]
           = [isCoinbase |-> tx.inputs = <<"coinbase">>, inputs |-> tx.inputs,
              outputs |-> [k \in DOMAIN tx.outputs |-> MeantOutput(tx.outputs[k], k)]]
<1> DEFINE n == Len(tx.inputs)
           c == CoreTx(tx)
           owned == [k \in DOMAIN d.outputs |-> WithOwners(d.outputs[k], resolved)]
           meant == [k \in DOMAIN tx.outputs |-> MeantOutput(tx.outputs[k], k)]
           coinbase == \E i \in DOMAIN t.vin : IsCoinbaseVin(t.vin[i])
           inputs == [i \in DOMAIN t.vin |-> IF IsCoinbaseVin(t.vin[i]) THEN "coinbase" ELSE "spend"]
           outputs == [k \in DOMAIN t.vout |-> decodeOutput(t.vout[k], k, Classify(t.vout[k].bytes))]
<1>1. /\ DOMAIN c.vin = 1..n /\ n \in Nat \ {0} /\ DOMAIN tx.inputs = 1..n
      /\ \A i \in 1..n :
           /\ tx.inputs[i] \in {"coinbase", "spend"}
           /\ c.vin[i] = IF tx.inputs[i] = "coinbase" THEN CoinbaseVin ELSE SpendVin
      /\ DOMAIN c.vout = DOMAIN tx.outputs /\ Len(c.vout) \in Nat \ {0} /\ DOMAIN c.vout = 1..Len(c.vout)
  BY CoreTxIs
<1>2. /\ t.vin = c.vin /\ DOMAIN t.vout = DOMAIN tx.outputs
      /\ \A k \in DOMAIN tx.outputs : SaysOutput(t.vout[k], tx.outputs[k])
  BY DEF SaysTx
<1>3. tx.inputs \in Seq({"coinbase", "spend"}) /\ tx.inputs = [i \in 1..n |-> tx.inputs[i]]
  BY <1>1 DEF TxAsked
<1>4. d = [isCoinbase |-> coinbase, inputs |-> inputs, outputs |-> outputs]
  BY DEF DecodeTransaction
<1> HIDE DEF c, n
<1>5. \A i \in 1..n : IsCoinbaseVin(t.vin[i]) <=> tx.inputs[i] = "coinbase"
  BY <1>1, <1>2, CoreInputs
<1>6. inputs = tx.inputs
  <2>1. \A i \in 1..n : (IF IsCoinbaseVin(t.vin[i]) THEN "coinbase" ELSE "spend") = tx.inputs[i]
    BY <1>1, <1>5
  <2>2. inputs = [i \in 1..n |-> tx.inputs[i]]
    BY <1>1, <1>2, <2>1
  <2>3. QED
    BY <1>3, <2>2
<1>7. coinbase <=> tx.inputs = <<"coinbase">>
  <2>1. coinbase <=> \E i \in 1..n : tx.inputs[i] = "coinbase"
    BY <1>1, <1>2, <1>5
  <2>2. (\E i \in 1..n : tx.inputs[i] = "coinbase") => n = 1
    BY <1>1 DEF TxAsked, TxOfCore, n
  <2>3. (\E i \in 1..n : tx.inputs[i] = "coinbase") => tx.inputs = <<"coinbase">>
    <3> HAVE \E i \in 1..n : tx.inputs[i] = "coinbase"
    <3>1. n = 1
      BY <2>2
    <3>2. \A i \in 1..n : tx.inputs[i] = "coinbase"
      BY <3>1
    <3>3. tx.inputs = [i \in 1..1 |-> "coinbase"]
      BY <1>3, <3>1, <3>2
    <3>4. QED
      BY <3>3
  <2>4. tx.inputs = <<"coinbase">> => \E i \in 1..n : tx.inputs[i] = "coinbase"
    <3> HAVE tx.inputs = <<"coinbase">>
    <3>1. 1 \in DOMAIN tx.inputs /\ tx.inputs[1] = "coinbase"
      OBVIOUS
    <3>2. QED
      BY <1>1, <3>1
  <2> HIDE DEF coinbase
  <2>5. QED
    BY <2>1, <2>3, <2>4
<1>8. ASSUME NEW k \in DOMAIN tx.outputs
      PROVE  WithOwners(outputs[k], resolved) = MeantOutput(tx.outputs[k], k)
  <2>1. k \in Nat /\ k \in DOMAIN t.vout
    <3>1. \E m \in Nat : DOMAIN tx.outputs = 1..m
      BY <1>1
    <3>2. k \in Nat
      BY <3>1
    <3>3. QED
      BY <1>2, <3>2
  <2>2. OutputOfCore(tx.outputs[k])
    BY DEF TxAsked, TxOfCore
  <2>3. SaysOutput(t.vout[k], tx.outputs[k])
    BY <1>2
  <2> DEFINE v == t.vout[k]
  <2>4. \A h \in DOMAIN Classify(v.bytes).pubKeys :
          resolved[Classify(v.bytes).pubKeys[h]] = pkhAddress(Classify(v.bytes).pubKeys[h])
    BY <2>1 DEF OwnersIn
  <2>5. WithOwners(decodeOutput(v, k, Classify(v.bytes)), resolved) = MeantOutput(tx.outputs[k], k)
    BY <2>1, <2>2, <2>3, <2>4, OutputMeant
  <2>6. QED
    BY <2>1, <2>5
<1>9. d.outputs = outputs
  <2> HIDE DEF coinbase, inputs, outputs
  <2>1. QED
    BY <1>4
<1>10. owned = meant
  <2>1. DOMAIN outputs = DOMAIN tx.outputs
    BY <1>2
  <2> HIDE DEF outputs
  <2>2. QED
    BY <1>8, <1>9, <2>1
<1>11. [d EXCEPT !.outputs = owned] = [isCoinbase |-> coinbase, inputs |-> inputs, outputs |-> owned]
  <2> HIDE DEF coinbase, inputs, outputs, owned
  <2>1. QED
    BY <1>4
<1> DEFINE alone == tx.inputs = <<"coinbase">>
<1>12. coinbase = alone
  BY <1>7
<1> HIDE DEF coinbase, inputs, owned, meant, alone
<1>13. [d EXCEPT !.outputs = owned] = [isCoinbase |-> alone, inputs |-> tx.inputs, outputs |-> meant]
  BY <1>6, <1>10, <1>11, <1>12
<1>14. QED
  BY <1>13 DEF owned, meant, alone

LEMMA ItemMeant ==
  ASSUME NEW item \in Item, NEW raw, RawShape(raw), Passes(raw), SaysItem(raw, item),
         NEW s, s = Started(item, raw)
  PROVE  Alone(s) = Meant(item)
<1> DEFINE d == Derived(s)
           own(t) == [t EXCEPT !.outputs = [k \in DOMAIN t.outputs |-> WithOwners(t.outputs[k], d)]]
           tx(i) == item.txs[i]
           means(i) == [isCoinbase |-> tx(i).inputs = <<"coinbase">>, inputs |-> tx(i).inputs,
                        outputs |-> [k \in DOMAIN tx(i).outputs |-> MeantOutput(tx(i).outputs[k], k)]]
<1>1. s.sound
  BY SoundPasses
<1>2. KeysAsked(s)
  BY <1>1, StartBegins DEF Begun
<1>3. s.txs = [i \in DOMAIN raw.tx |-> DecodeTransaction(raw.tx[i])]
  <2>1. s.sound => /\ s.calls = FlattenSeq([i \in DOMAIN Parts(raw) |-> Parts(raw)[i].keys])
                   /\ s.txs = [i \in DOMAIN raw.tx |-> DecodeTransaction(raw.tx[i])]
    BY StartedIs
  <2>2. QED
    BY <1>1, <2>1
<1>4. \A key \in Range(s.calls) : d[key] = pkhAddress(key)
  BY DEF Derived
<1> HIDE DEF d
<1>5. ASSUME NEW i \in DOMAIN item.txs PROVE own(s.txs[i]) = means(i)
  <2> DEFINE t == raw.tx[i]
             e == s.txs[i]
  <2>1. i \in DOMAIN raw.tx /\ SaysTx(t, tx(i))
    BY DEF SaysItem
  <2>2. e = DecodeTransaction(t) /\ i \in DOMAIN s.txs
    BY <1>3, <2>1
  <2>3. TxAsked(tx(i))
    BY CoreAnswerIs
  <2>4. ASSUME NEW k \in DOMAIN t.vout, NEW h \in DOMAIN Classify(t.vout[k].bytes).pubKeys
        PROVE  d[Classify(t.vout[k].bytes).pubKeys[h]] = pkhAddress(Classify(t.vout[k].bytes).pubKeys[h])
    <3> DEFINE c == Classify(t.vout[k].bytes)
               o == e.outputs[k]
    <3>1. k \in DOMAIN e.outputs /\ o = decodeOutput(t.vout[k], k, c)
      BY <2>2 DEF DecodeTransaction
    <3> HIDE DEF c, o
    <3>2. o.pubKeys = c.pubKeys
      BY <3>1 DEF decodeOutput
    <3>3. h \in DOMAIN c.pubKeys
      BY DEF c
    <3>4. c.pubKeys[h] \in Range(s.calls)
      BY <1>2, <2>2, <3>1, <3>2, <3>3 DEF KeysAsked, o
    <3>5. QED
      BY <1>4, <3>4 DEF c
  <2> HIDE DEF e, t
  <2> DEFINE u == tx(i)
  <2>5. own(e) = means(i)
    <3>1. TxAsked(u) /\ SaysTx(t, u) /\ e = DecodeTransaction(t) /\ OwnersIn(t, d)
      BY <2>1, <2>2, <2>3, <2>4 DEF OwnersIn
    <3> HIDE DEF u
    <3>2. [e EXCEPT !.outputs = [k \in DOMAIN e.outputs |-> WithOwners(e.outputs[k], d)]]
            = [isCoinbase |-> u.inputs = <<"coinbase">>, inputs |-> u.inputs,
               outputs |-> [k \in DOMAIN u.outputs |-> MeantOutput(u.outputs[k], k)]]
      BY <3>1, TxMeant
    <3>3. QED
      BY <3>2 DEF u
  <2>6. QED
    BY <2>5 DEF e
<1>6. DOMAIN s.txs = DOMAIN item.txs
  BY <1>3 DEF SaysItem
<1>7. Alone(s) = [i \in DOMAIN s.txs |-> own(s.txs[i])]
  BY Zenon DEF Alone, Owned, d
<1>8. Meant(item) = [i \in DOMAIN item.txs |-> means(i)]
  BY DEF Meant
<1> HIDE DEF own, means
<1>9. QED
  BY <1>5, <1>6, <1>7, <1>8

-----------------------------------------------------------------------------
(* Any number of callers                                                   *)

\* What starts from the answer to an item passes, undamaged; and what passes,
\* damaged or not, means the item.
LEMMA StartsMean ==
  /\ \A s \in Undamaged : s.sound
  /\ \A s \in Starts : s.sound => Alone(s) = Meant(s.item)
<1>1. ASSUME NEW item \in Item
      PROVE  LET raw == CoreAnswer(item)
                 s == Started(item, raw)
             IN  s.sound /\ Alone(s) = Meant(s.item)
  <2> DEFINE raw == CoreAnswer(item)
             s == Started(item, raw)
  <2>1. RawShape(raw)
    BY CoreShape
  <2>2. Passes(raw) /\ SaysItem(raw, item)
    BY CoreAnswerPasses
  <2>3. s.sound /\ s.item = item
    BY <2>1, <2>2, SoundPasses, StartedIs
  <2>4. Alone(s) = Meant(item)
    BY <2>1, <2>2, ItemMeant
  <2>5. QED
    BY <2>3, <2>4
<1>2. ASSUME NEW item \in Item, NEW raw \in Damaged(CoreAnswer(item)), Started(item, raw).sound
      PROVE  LET s == Started(item, raw) IN Alone(s) = Meant(s.item)
  <2> DEFINE s == Started(item, raw)
  <2>1. RawShape(raw)
    BY CoreShape, DamagedShape
  <2>2. Passes(raw)
    BY <1>2, <2>1, SoundPasses
  <2>3. SaysItem(raw, item)
    BY <2>2, DamagedSays
  <2>4. s.item = item /\ Alone(s) = Meant(item)
    BY <2>1, <2>2, <2>3, ItemMeant, StartedIs
  <2>5. QED
    BY <2>4
<1>3. \A s \in Undamaged : s.sound /\ Alone(s) = Meant(s.item)
  BY <1>1 DEF Undamaged, Item
<1>4. \A s \in Damaging : s.sound => Alone(s) = Meant(s.item)
  BY <1>2 DEF Damaging, Item
<1>5. QED
  BY <1>3, <1>4 DEF Starts

\* Whatever Core's scripts, whatever of the kinds in Damaged happened to an answer
\* on its way, however many callers decode, fail and retry: what is decoded in
\* full is what Core means, under the explorer's types (TypeOf).
THEOREM NothingIsPartial == DecoderSpec => []NothingPartial
<1>1. \A s \in Starts : s.sound => Alone(s) = Meant(s.item)
  BY StartsMean
<1>2. DecoderInv => NothingPartial
  BY <1>1 DEF DecoderInv, IsJob, Continues, NothingPartial
<1>3. QED
  BY <1>2, DecoderInvHolds, PTL

\* The checks of the decoder pass every answer Core gave.  Whether Core then
\* derives an address for each key it names is another matter.
THEOREM ChecksPassCore == DecoderSpec => []CoreNeverRefused
<1>1. \A s \in Undamaged : s.sound
  BY StartsMean
<1>2. CoreNeverRefused
  BY <1>1 DEF CoreNeverRefused
<1>3. QED
  BY <1>2, PTL
==============================================================================
