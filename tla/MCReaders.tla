------------------------------ MODULE MCReaders ------------------------------
(***************************************************************************)
(* A small chain for Readers.                                              *)
(*                                                                         *)
(*      g -- a1 -- a2        s5    (a chain without genesis)               *)
(*            \--- c2                                                      *)
(*                                                                         *)
(* a2 and c2 both carry t1; t2 (in a2) spends t1's multisig output.        *)
(* Address A is touched three times in a2, so that with pages of two a     *)
(* cursor points into the middle of a block.  t4 waits in the mempool.     *)
(***************************************************************************)
EXTENDS Readers, TLC

BlockData == {"g", "a1", "a2", "c2", "s5"}
AddressData == {"A", "B"}
TxData == {"g", "a1", "a2", "c2", "s5", "t1", "t2", "t4"}

HeightData == [g |-> 0, a1 |-> 1, a2 |-> 2, c2 |-> 2, s5 |-> 5]
PrevData == [g |-> NoBlock, a1 |-> "g", a2 |-> "a1", c2 |-> "a1", s5 |-> NoBlock]
TxsData == [ g |-> <<"g">>, a1 |-> <<"a1">>, a2 |-> <<"a2", "t1", "t2">>,
          c2 |-> <<"c2", "t1">>, s5 |-> <<"s5">> ]
InputsData == [ g |-> {}, a1 |-> {}, a2 |-> {}, c2 |-> {}, s5 |-> {},
             t1 |-> {<<"a1", 0>>}, t2 |-> {<<"t1", 1>>}, t4 |-> {<<"t2", 0>>} ]

\* Outpoints with their values; subsidies are 16, 16, 8, 8, 4, 4, 0, and t1
\* leaves a fee that a2 claims and c2 does not.
ValueData ==
  <<"g", 0>> :> 16 @@ <<"a1", 0>> :> 16 @@ <<"a2", 0>> :> 9 @@ <<"c2", 0>> :> 8 @@
  <<"s5", 0>> :> 4 @@ <<"t1", 0>> :> 1 @@ <<"t1", 1>> :> 12 @@ <<"t1", 2>> :> 2 @@
  <<"t2", 0>> :> 12 @@ <<"t4", 0>> :> 12
OutputData == { <<"g", 0>>, <<"a1", 0>>, <<"a2", 0>>, <<"c2", 0>>, <<"s5", 0>>,
             <<"t1", 0>>, <<"t1", 1>>, <<"t1", 2>>, <<"t2", 0>>, <<"t4", 0>> }
CreatorData ==
  <<"g", 0>> :> "g" @@ <<"a1", 0>> :> "a1" @@ <<"a2", 0>> :> "a2" @@ <<"c2", 0>> :> "c2" @@
  <<"s5", 0>> :> "s5" @@ <<"t1", 0>> :> "t1" @@ <<"t1", 1>> :> "t1" @@ <<"t1", 2>> :> "t1" @@
  <<"t2", 0>> :> "t2" @@ <<"t4", 0>> :> "t4"
UnspendableData == {<<"t1", 2>>}
DestData ==
  <<"g", 0>> :> "A" @@ <<"a1", 0>> :> "A" @@ <<"a2", 0>> :> "A" @@ <<"c2", 0>> :> "B" @@
  <<"s5", 0>> :> "A" @@ <<"t1", 0>> :> "B" @@ <<"t1", 1>> :> NoAddress @@
  <<"t1", 2>> :> NoAddress @@ <<"t2", 0>> :> "A" @@ <<"t4", 0>> :> "B"

TextRankData == [ g |-> 5, a1 |-> 6, a2 |-> 2, c2 |-> 7, s5 |-> 8, t1 |-> 1, t2 |-> 3, t4 |-> 4,
               A |-> 1, B |-> 2 ]

RequestsData ==
  { [op |-> "ExplorerOverview", arg |-> NoRow], [op |-> "RecentBlocks", arg |-> NoRow],
    [op |-> "AddressDetail", arg |-> "A"], [op |-> "TransactionByTxID", arg |-> "t1"],
    [op |-> "BlockByHeight", arg |-> 2], [op |-> "BlockByHash", arg |-> "a2"],
    [op |-> "SupplyOverview", arg |-> NoRow], [op |-> "RichListOverview", arg |-> NoRow],
    [op |-> "MempoolOverview", arg |-> NoRow],
    [op |-> "MempoolTransactionByTxID", arg |-> "t2"],
    [op |-> "DeploymentOverview", arg |-> NoRow], [op |-> "DeploymentByName", arg |-> "d"] }

\* Three rows with tied entry times, and exactly one full page.
PublishedData == << [t1 |-> 7, t2 |-> 7, t4 |-> 7], [t2 |-> 8, t4 |-> 7] >>

\* TLC evaluates a definition like these once, but a definition that a cfg
\* substitutes for a constant at every use.
RBlock == BlockData
RAddress == AddressData
RTx == TxData
RHeight == HeightData
RPrev == PrevData
RTxs == TxsData
RInputs == InputsData
RValue == ValueData
ROutput == OutputData
RCreator == CreatorData
RUnspendable == UnspendableData
RDest == DestData
RTextRank == TextRankData
RRequests == RequestsData
RPublished == PublishedData
RObserved == << {"d", "e"}, {"d"} >>
=============================================================================
