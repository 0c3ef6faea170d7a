------------------------------ MODULE ChainData ------------------------------
(***************************************************************************)
(* The blocks Core can serve, as the decoder hands them to the store       *)
(* (chain.Block, chain.Transaction, chain.Output), and what the store      *)
(* derives from a block's content alone.  A hash stands for the content    *)
(* it commits to, so content is a constant function of the identity.  The  *)
(* same transaction may be carried by blocks of competing branches.        *)
(***************************************************************************)
EXTENDS Sequences, FiniteSets, Functions, BlockTree, Subsidy, Distribution

CONSTANTS
  Tx, Output, Address,       \* identities: txid, outpoint, address
  NoTx, NoAddress, NoRow     \* NULL, "" and "no such row"

CONSTANTS
  txs,           \* chain.Block.Transactions, in block order
  inputs,        \* the outpoints a transaction spends, {} for a coinbase
  creator,       \* the transaction an outpoint belongs to
  value,         \* chain.Output.Value in satoshis
  dest,          \* chain.Output.Address: NoAddress for multisig, nulldata ...
  unspendable    \* outpoints whose script satisfies script.IsUnspendable

\* A row of utxo_state: where the coin was created and, once spent, by what.
CoinRow == [created : Block, spentBy : Tx \cup {NoTx}, spentIn : Block \cup {NoBlock}]

ASSUME IdentityAssumption ==
  NoTx \notin Tx /\ NoAddress \notin Address /\ NoRow \notin CoinRow

ASSUME BlockDataAssumption ==
  /\ txs \in [Block -> Seq(Tx)]
  /\ inputs \in [Tx -> SUBSET Output]
  /\ creator \in [Output -> Tx]
  /\ value \in [Output -> Nat]
  /\ dest \in [Output -> Address \cup {NoAddress}]
  /\ unspendable \subseteq Output

\* A database holds finitely many rows, however many that may be.
ASSUME FiniteRowsAssumption == IsFiniteSet(Output) /\ IsFiniteSet(Address)

-----------------------------------------------------------------------------
TxSet(b) == Range(txs[b])
IsCoinbase(t) == inputs[t] = {}
Outs(t) == {o \in Output : creator[o] = t}
OutsOf(b) == {o \in Output : creator[o] \in TxSet(b)}
ValueOf(outs) == SumFunctionOnSet(value, outs)

\* validateBlockShape: a complete block whose first transaction, and no
\* other, is a coinbase, and whose transactions all have outputs.
validateBlockShape(b) ==
  /\ txs[b] # << >>
  /\ \A i \in DOMAIN txs[b] :
        /\ Outs(txs[b][i]) # {}
        /\ IsCoinbase(txs[b][i]) <=> i = 1

\* applyOutput's utxo_state rule: genesis outputs and unspendable scripts
\* never become coins.
AddsCoin(b, o) ==
  /\ creator[o] \in TxSet(b)
  /\ height[b] # 0
  /\ o \notin unspendable

SpendsCoin(b, o) == \E t \in TxSet(b) : o \in inputs[t]
Spender(b, o) == CHOOSE t \in TxSet(b) : o \in inputs[t]

\* applyTransaction's fee: inputs minus outputs of a non-coinbase transaction.
Fee(t) == ValueOf(inputs[t]) - ValueOf(Outs(t))
Paying(b) == {t \in TxSet(b) : ~IsCoinbase(t)}
BlockFee(b) == SumFunctionOnSet([t \in Tx |-> Fee(t)], Paying(b))
CoinbaseTotal(b) == ValueOf(Outs(txs[b][1]))

\* The checked sums and the fee sign of applyTransaction and ApplyBlock.
FeesAccepted(b) ==
  /\ \A t \in Paying(b) : /\ Fits(ValueOf(inputs[t]))
                          /\ Fits(ValueOf(Outs(t)))
                          /\ Fee(t) >= 0
  /\ Fits(BlockFee(b))

\* sumOutputValues and ComputeBlockFacts as applyBlockAccounting calls them.
CoinbaseAccepted(b) ==
  /\ Fits(CoinbaseTotal(b))
  /\ RewardAccepted(height[b], BlockFee(b), CoinbaseTotal(b))
BlockFacts(b) == ComputeBlockFacts(height[b], BlockFee(b), CoinbaseTotal(b))

\* Wrong on purpose (see CanonicalStore): the genesis outputs are forgotten.
ExcludedUnspendableOnly(b) == OutsOf(b) \cap unspendable

\* localExcludedOutputValue: the value of the outputs that never become coins.
ExcludedOutputs(b) == {o \in OutsOf(b) : height[b] = 0 \/ o \in unspendable}
ExcludedValue(b) == ValueOf(ExcludedOutputs(b))

\* A set of blocks with one block per height, each on top of another of them
\* or their lowest.
LinkedChain(S) ==
  /\ \A b, c \in S : height[b] = height[c] => b = c
  /\ \A b \in S : \/ prev[b] = NoBlock /\ \A c \in S : height[b] <= height[c]
                  \/ prev[b] \in S /\ height[b] = height[prev[b]] + 1

\* Core's rule that a spent coin cannot be spent again: no chain carries a
\* spending transaction twice.
ASSUME NoSecondInclusion ==
  \A S \in SUBSET Block : LinkedChain(S) =>
    \A b, c \in S : (Paying(b) \cap Paying(c) # {}) => b = c
=============================================================================
