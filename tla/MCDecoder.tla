------------------------------ MODULE MCDecoder -------------------------------
(***************************************************************************)
(* Scripts built from an alphabet of elements chosen to sit on both sides  *)
(* of every bound of the classifier, packed into blocks of many outputs; a *)
(* small block and a mempool transaction that share keys and may arrive    *)
(* damaged; and keys that are no point of the curve, in a transaction that *)
(* stays listed and is mined.  Amounts have two fractional digits and a    *)
(* 16-bit integer.                                                         *)
(***************************************************************************)
EXTENDS Decoder

Bytewise(n, first) == [i \in 1 .. n |-> IF i = 1 THEN first ELSE 174]
Op(o) == [op |-> o, len |-> << >>, data |-> << >>, cut |-> FALSE]
Push(d) == [op |-> Len(d), len |-> << >>, data |-> d, cut |-> FALSE]
Push1(d) == [op |-> 76, len |-> <<Len(d)>>, data |-> d, cut |-> FALSE]
Push2(d) == [op |-> 77, len |-> <<Len(d), 0>>, data |-> d, cut |-> FALSE]
Push4(d) == [op |-> 78, len |-> <<Len(d), 0, 0, 0>>, data |-> d, cut |-> FALSE]
Cut(o, l, d) == [op |-> o, len |-> l, data |-> d, cut |-> TRUE]

\* The first coordinate 32 times 174 is one of the curve, with the second
\* below for the uncompressed key; 32 times 5 is none, and a hybrid key is in
\* no descriptor.
KeyA == Bytewise(33, 2)
KeyC == Bytewise(33, 3)
KeyB ==
  Bytewise(33, 4)
    \o <<110, 12, 6, 115, 124, 253, 84, 141, 79, 53, 8, 8, 5, 175, 182, 32,
         87, 152, 249, 0, 248, 54, 24, 115, 63, 45, 93, 241, 226, 158, 143, 124>>
DerivableData == {KeyA, KeyB, KeyC}
MCDerivable == DerivableData
OffCurve == [i \in 1 .. 33 |-> IF i = 1 THEN 2 ELSE 5]
Hybrid == Bytewise(65, 7)

\* Every data byte is OP_CHECKMULTISIG, so that a script may end with it
\* inside a push.
Opcodes == <<0, 79, 80, 81, 82, 96, 97, 106, 118, 135, 136, 169, 172, 174>>
Lengths == <<1, 2, 20, 32, 33, 40, 41, 75>>
Elements ==
  [i \in DOMAIN Opcodes |-> Op(Opcodes[i])] \o [i \in DOMAIN Lengths |-> Push(Bytewise(Lengths[i], 1))]
    \o <<Push(KeyA), Push(KeyB), Push(OffCurve), Push(Hybrid), Push1(KeyA), Push2(KeyC), Push4(KeyA), Push1(Bytewise(32, 1)),
         Push1(<< >>), Push(<<17>>)>>
Tails == <<Cut(33, << >>, Bytewise(32, 2)), Cut(76, << >>, << >>), Cut(76, <<2>>, <<174>>),
           Cut(77, <<1>>, << >>), Cut(78, <<1, 0, 0, 127>>, <<174>>), Cut(20, << >>, << >>)>>

Numbers == <<Op(0), Op(81), Op(82), Op(83), Op(96), Push(<<2>>), Push1(<<17>>), Op(79)>>
KeyRuns == {<< >>, <<Push(KeyA)>>, <<Push(KeyA), Push(KeyB)>>, <<Push1(KeyA), Push(KeyA)>>,
            <<Push(KeyC), Push(Bytewise(33, 5))>>, <<Push(KeyA), Push(Hybrid)>>}
Ends == <<<<Op(174)>>, <<Op(172)>>, << >>, <<Op(174), Op(174)>>, <<Push(<<174>>)>>>>
Many(n) == [i \in 1 .. n |-> Push(KeyA)]

Hash == Push(Bytewise(20, 9))
Templates ==
  <<<<Op(118), Op(169), Hash, Op(136), Op(172)>>, <<Op(118), Op(169), Hash, Op(136)>>,
   <<Op(118), Op(169), Push1(Bytewise(20, 9)), Op(136), Op(172)>>,
   <<Op(118), Op(169), Hash, Op(136), Op(172), Op(97)>>,
   <<Op(118), Op(169), Push(Bytewise(21, 9)), Op(136), Op(172)>>,
   <<Op(169), Hash, Op(135)>>, <<Op(169), Hash, Op(136)>>, <<Op(169), Hash, Op(135), Op(97)>>,
   <<Op(106), Hash, Op(81), Op(79)>>, <<Op(106), Hash, Op(80)>>, <<Op(106), Op(80), Op(97)>>, <<Op(106), Hash, Op(97)>>, <<Op(106), Push1(KeyA), Push4(KeyA)>>,
   <<Push(<<17>>)>> \o Many(17) \o <<Push(<<17>>), Op(174)>>,
   <<Op(81)>> \o Many(20) \o <<Push(<<20>>), Op(174)>>,
   <<Op(81)>> \o Many(21) \o <<Push(<<21>>), Op(174)>>,
   <<Op(81)>> \o Many(16) \o <<Push(<<16>>), Op(174)>>,
   <<Push(<<17>>)>> \o Many(16) \o <<Op(96), Op(174)>>>>

\* Blocks whose coinbase pays to a list of scripts: every pair of elements,
\* by its first; elements before a cut one; multisig skeletons, by m and keys.
CoinbaseBlock(scripts) ==
  [height |-> 1,
   txs |-> <<[inputs |-> <<"coinbase">>,
              outputs |-> [i \in DOMAIN scripts |-> [script |-> scripts[i], amount |-> i]]]>>]
Pairs(e) == <<<<e>>>> \o [i \in DOMAIN Elements |-> <<e, Elements[i]>>]
CutShort(e) == [i \in DOMAIN Tails |-> <<e, Tails[i]>>]
Skeletons(m, keys, end) == [i \in DOMAIN Numbers |-> <<m>> \o keys \o <<Numbers[i]>> \o end]
Lists ==
  {Pairs(e) : e \in Range(Elements)}
    \cup {CutShort(e) : e \in {Op(81), Op(106), Op(0)}}
    \cup {FlattenSeq([k \in DOMAIN Ends |-> Skeletons(m, keys, Ends[k])]) : m \in Range(Numbers), keys \in KeyRuns}
    \cup {Templates, <<<< >>>>}
Batches == {CoinbaseBlock(l) : l \in Lists}

P2PK(key) == <<Push(key), Op(172)>>
SmallBlock ==
  [height |-> 1,
   txs |-> <<[inputs |-> <<"coinbase">>,
              outputs |-> <<[script |-> P2PK(KeyA), amount |-> 32767],
                            [script |-> <<Op(106), Hash>>, amount |-> 0]>>],
             [inputs |-> <<"spend", "spend">>,
              outputs |-> <<[script |-> <<Op(82), Hash>>, amount |-> 99],
                            [script |-> <<Op(81), Push(KeyB), Push(KeyA), Op(82), Op(174)>>, amount |-> 100]>>]>>]
Genesis ==
  [height |-> 0, txs |-> <<[inputs |-> <<"coinbase">>, outputs |-> <<[script |-> P2PK(KeyB), amount |-> 1]>>]>>]
PoolTx ==
  [height |-> Null,
   txs |-> <<[inputs |-> <<"spend">>,
              outputs |-> <<[script |-> <<Op(81), Push(KeyC), Push(KeyB), Op(82), Op(174)>>, amount |-> 5]>>]>>]
\* Listed with a key Core derives no address for, and later mined.
StuckTx ==
  [inputs |-> <<"spend">>,
   outputs |-> <<[script |-> <<Op(81), Push(KeyA), Push(OffCurve), Op(82), Op(174)>>, amount |-> 7]>>]
StuckPool == [height |-> Null, txs |-> <<StuckTx>>]
StuckBlock == [SmallBlock EXCEPT !.txs[2] = StuckTx]

AskedData == [c \in Caller |-> IF c = "indexer" THEN Batches \cup {SmallBlock, Genesis, StuckBlock}
                             ELSE {PoolTx, StuckPool}]
MCAsked == AskedData
FragileData == {SmallBlock, Genesis, PoolTx}
MCFragile == FragileData

\* The texts: none, no digit, two points, an exponent, a plus sign, a digit
\* too many, and one satoshi more than the largest amount.
BadTextData ==
  {<< >>, <<".">>, <<"-">>, <<"1", ".", "0", ".">>, <<"1", "e", "0">>, <<"+", "1">>,
   <<"0", ".", "0", "0", "1">>, <<"3", "2", "7", ".", "6", "8">>}
MCBadTexts == BadTextData
=============================================================================
