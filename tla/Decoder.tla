------------------------------- MODULE Decoder --------------------------------
(***************************************************************************)
(* internal/decode: from an answer of Core to chain.Block or               *)
(* chain.Transaction.  The index command's orchestrator and its mempool    *)
(* synchronizer decode at the same time and share one CoreAddressResolver. *)
(* An error of the synchronizer is logged and the next poll tries again;   *)
(* an error of the orchestrator ends the process, which a supervisor       *)
(* starts again with an empty resolver.                                    *)
(*                                                                         *)
(* Core's side is external: a script is a sequence of elements that Core   *)
(* serialises, the type and destination its Solver and ExtractDestination  *)
(* give it are stated on the elements, and the decoder sees the bytes.  A  *)
(* scalar member of an answer is "ok", "absent", or "bad" when it is there *)
(* and fails its check (validateHash, validateBits, a sign, hex).          *)
(***************************************************************************)
EXTENDS Script, Amount, FiniteSets

CONSTANTS
  Caller,      \* the goroutines that decode
  Orchestrator, \* the one of them whose errors end the process
  Asked,       \* what each of them asks Core for: a set of items
  Fragile,     \* the items whose answers may arrive damaged
  Derivable,   \* the keys Core derives an address for: points of the curve
  BadTexts,    \* texts of no amount
  Null,        \* a member the answer does not have
  Empty        \* the empty string

IsList(s) == s \in Seq(Range(s))

\* An item [height, txs] has a list of transactions, and each of them its
\* inputs and its outputs.
Item == Fragile \cup UNION {Asked[c] : c \in Caller}
ASSUME AskedAssumption ==
  \A item \in Item :
    /\ IsList(item.txs)
    /\ \A i \in DOMAIN item.txs : /\ item.txs[i].inputs \in Seq({"coinbase", "spend"})
                                  /\ IsList(item.txs[i].outputs)

VARIABLES
  cache,   \* CoreAddressResolver.cache
  job      \* what each caller is decoding
decoderVars == <<cache, job>>

-----------------------------------------------------------------------------
(* Core: an element is [op, len, data, cut]; cut marks a last element whose *)
(* data the script ends before.                                             *)
Bytes(script) == FlattenSeq([i \in DOMAIN script |-> <<script[i].op>> \o script[i].len \o script[i].data])

\* An element as Core serialises it, with as many length bytes and data bytes
\* as its opcode announces; the last one of a script may lack some.
Octet == 0 .. 255
Announced(e) == IF LengthWidth(e.op) = 0 THEN e.op ELSE LittleEndian(e.len, 1, LengthWidth(e.op))
Element(e) ==
  /\ e.op \in Octet /\ e.len \in Seq(Octet) /\ e.data \in Seq(Octet) /\ e.cut \in BOOLEAN
  /\ ~HasOperand(e.op) => ~e.cut /\ e.len = << >> /\ e.data = << >>
  /\ HasOperand(e.op) /\ ~e.cut => Len(e.len) = LengthWidth(e.op) /\ Len(e.data) = Announced(e)
  /\ HasOperand(e.op) /\ e.cut =>
       \/ Len(e.len) < LengthWidth(e.op) /\ e.data = << >>
       \/ Len(e.len) = LengthWidth(e.op) /\ Len(e.data) < Announced(e)
Serialised(script) ==
  /\ IsList(script)
  /\ \A i \in 1 .. Len(script) : Element(script[i]) /\ (script[i].cut => i = Len(script))

ValidSize(data) ==
  \/ Len(data) = 33 /\ data[1] \in {2, 3}
  \/ Len(data) = 65 /\ data[1] \in {4, 6, 7}
Encodes(e, v) ==
  IF v <= 16 THEN e.op = 80 + v ELSE e.op = 1 /\ e.data = <<v>>

SolverMultisig(script) ==
  LET n == Len(script)
  IN  /\ n >= 4 /\ script[n].op = opCheckMultisig
      /\ Encodes(script[n - 1], n - 3) /\ n - 3 <= 20
      /\ \E m \in 1 .. n - 3 : Encodes(script[1], m)
      /\ \A i \in 2 .. n - 2 : ValidSize(script[i].data)

Solver(script) ==
  LET ops   == [i \in DOMAIN script |-> script[i].op]
      whole == script # << >> /\ \A i \in DOMAIN script : ~script[i].cut
      version == IF ops[1] = 0 THEN 0 ELSE ops[1] - 80
  IN  CASE ~whole -> "unknown"
        [] whole /\ Len(script) = 2 /\ ops[1] \in {0} \cup 81 .. 96 /\ ops[2] \in 2 .. 40 ->
             WitnessType(version, Len(script[2].data))
        [] whole /\ ops = <<opDup, opHash160, 20, opEqualVerify, opCheckSig>> -> "p2pkh"
        [] whole /\ ops = <<opHash160, 20, opEqual>> -> "p2sh"
        [] whole /\ ops \in {<<33, opCheckSig>>, <<65, opCheckSig>>} /\ ValidSize(script[1].data) -> "p2pk"
        [] whole /\ ops[1] = opReturn /\ \A i \in 2 .. Len(ops) : ops[i] <= 96 -> "nulldata"
        [] whole /\ SolverMultisig(script) -> "multisig"
        [] OTHER -> "unknown"

\* The address Core derives for pkh(key), and the one it writes for a script:
\* none for a type without destination, none for PUBKEY.
pkhAddress(key) == <<"pkh", key>>
ScriptAddress(script) ==
  IF Solver(script) \in {"unknown", "nulldata", "multisig", "p2pk"} THEN Null
  ELSE <<Solver(script), Bytes(script)>>

-----------------------------------------------------------------------------
BlockField == {"hash", "height", "merkleroot", "time", "bits", "difficulty", "nonce",
               "size", "weight"}
TxField == {"txid", "hash", "version", "size", "vsize", "weight", "locktime"}
Checked == {"hash", "height", "merkleroot", "bits", "size", "weight", "txid", "vsize"}

\* What Core answers for an item [height, txs], txs a sequence of
\* [inputs, outputs]; height Null stands for a transaction on its own.
CoinbaseVin == [coinbase |-> "ok", txid |-> "absent", vout |-> "absent",
                scriptSig |-> "absent", sequence |-> "ok", witness |-> "ok"]
SpendVin == [coinbase |-> "absent", txid |-> "ok", vout |-> "ok",
             scriptSig |-> "ok", sequence |-> "ok", witness |-> "ok"]
CoreVout(out, n) ==
  [n |-> n, value |-> String(out.amount), object |-> "ok", hex |-> "ok",
   bytes |-> Bytes(out.script), address |-> ScriptAddress(out.script)]
CoreTx(tx) ==
  [fields |-> [f \in TxField |-> "ok"],
   vin    |-> [i \in DOMAIN tx.inputs |-> IF tx.inputs[i] = "coinbase" THEN CoinbaseVin ELSE SpendVin],
   vout   |-> [i \in DOMAIN tx.outputs |-> CoreVout(tx.outputs[i], i - 1)]]
CoreAnswer(item) ==
  [height |-> item.height,
   fields |-> [f \in BlockField |-> "ok"],
   previous |-> IF item.height = 0 THEN "absent" ELSE "ok",
   nTx |-> Len(item.txs),
   tx |-> [i \in DOMAIN item.txs |-> CoreTx(item.txs[i])]]

\* Core has accepted what it answers about: a coinbase input is alone, and no
\* amount leaves the range.  A missing member, an empty one, an address and a
\* stray one are told apart, and a text of no amount reads as none.
OutputOfCore(out) ==
  /\ Serialised(out.script) /\ out.amount \in 0 .. MaxInt64
  /\ <<Solver(out.script), Bytes(out.script)>> \notin {Null, Empty}
TxOfCore(tx) ==
  /\ tx.inputs # << >> /\ tx.outputs # << >>
  /\ (\E i \in DOMAIN tx.inputs : tx.inputs[i] = "coinbase") => Len(tx.inputs) = 1
  /\ \A k \in DOMAIN tx.outputs : OutputOfCore(tx.outputs[k])
ASSUME CoreAssumption ==
  /\ \A item \in Item : \A i \in DOMAIN item.txs : TxOfCore(item.txs[i])
  /\ Null # Empty /\ Null \notin Nat /\ <<"stray">> \notin {Null, Empty}
  /\ \A t \in BadTexts : DecodeAmount(t) = BadAmount

\* Damage to one member that the answer itself gives away.  The loss of a
\* trailing output, of a witness or of an input's script bytes, or another
\* address, is not of this kind: nothing else in the answer tells.
DamagedFields(fields) ==
  {[fields EXCEPT ![f] = "absent"] : f \in DOMAIN fields}
    \cup {[fields EXCEPT ![f] = "bad"] : f \in DOMAIN fields \cap Checked}
DamagedVin(v) ==
  {[v EXCEPT ![f] = s] : f \in {"coinbase", "txid", "vout", "scriptSig"},
                         s \in {"absent", "ok", "bad"}}
    \cup {[v EXCEPT !.sequence = "absent"], [v EXCEPT !.witness = "bad"]}
DamagedVout(v) ==
  {[v EXCEPT !.n = n] : n \in {Null, v.n + 1}}
    \cup {[v EXCEPT !.value = t] : t \in BadTexts \cup {<<"-">> \o v.value, v.value \o <<"0">>}}
    \cup {[v EXCEPT !.object = "absent"], [v EXCEPT !.hex = "absent"], [v EXCEPT !.hex = "bad"]}
    \cup {[v EXCEPT !.address = a] : a \in {Null, Empty} \cup IF v.address = Null THEN {<<"stray">>} ELSE {}}
DamagedTx(tx) ==
  {[tx EXCEPT !.fields = f] : f \in DamagedFields(tx.fields)}
    \cup {[tx EXCEPT !.vin = << >>], [tx EXCEPT !.vout = << >>],
          [tx EXCEPT !.vin = Append(@, CoinbaseVin)]}
    \cup (UNION {{[tx EXCEPT !.vin[i] = v] : v \in DamagedVin(tx.vin[i])} : i \in DOMAIN tx.vin})
    \cup (UNION {{[tx EXCEPT !.vout[i] = v] : v \in DamagedVout(tx.vout[i])} : i \in DOMAIN tx.vout})
    \cup {[tx EXCEPT !.vout = RemoveAt(@, i)] : i \in 1 .. Len(tx.vout) - 1}
    \cup {[tx EXCEPT !.vout = Reverse(@)]}
Damaged(raw) ==
  (UNION {{[raw EXCEPT !.tx[i] = t] : t \in DamagedTx(raw.tx[i])} : i \in DOMAIN raw.tx})
    \cup IF raw.height = Null THEN {}
         ELSE {[raw EXCEPT !.fields = f] : f \in DamagedFields(raw.fields)}
                \cup {[raw EXCEPT !.previous = s] : s \in {"absent", "ok", "bad"}}
                \cup {[raw EXCEPT !.nTx = Null]}
                \cup {[raw EXCEPT !.tx = RemoveAt(@, i)] : i \in DOMAIN raw.tx}

-----------------------------------------------------------------------------
(* What the decoder requires, in the order it looks.                        *)

\* require and the checks behind it, for the scalar members.
AllOk(fields) == \A f \in DOMAIN fields : fields[f] = "ok"

\* decodeGenesisRelation.
GenesisRelation(raw) == raw.previous = IF raw.height = 0 THEN "absent" ELSE "ok"

\* Wrong: a decoder that takes however many transactions it is given.
HeadSoundAnyCount(raw) ==
  raw.height = Null \/ (AllOk(raw.fields) /\ GenesisRelation(raw) /\ raw.nTx # Null)

\* DecodeBlock up to its transactions; nothing for a transaction on its own.
HeadSound(raw) ==
  \/ raw.height = Null
  \/ /\ AllOk(raw.fields)
     /\ GenesisRelation(raw)
     /\ raw.nTx = Len(raw.tx)

IsCoinbaseVin(v) == v.coinbase # "absent"

\* decodeInput and decodeWitness.
InputSound(v) ==
  /\ v.witness = "ok" /\ v.sequence = "ok"
  /\ IF IsCoinbaseVin(v)
     THEN v.coinbase = "ok" /\ {v.txid, v.vout, v.scriptSig} = {"absent"}
     ELSE {v.txid, v.vout, v.scriptSig} = {"ok"}

\* Wrong: checks that count the coinbase-shaped inputs and no more.
InputsSoundMixed(vin) ==
  /\ vin # << >>
  /\ \A i \in DOMAIN vin : InputSound(vin[i])
  /\ Cardinality({i \in DOMAIN vin : IsCoinbaseVin(vin[i])}) <= 1

\* All inputs of a transaction: at most one is a coinbase, and then it is alone.
InputsSound(vin) ==
  /\ vin # << >>
  /\ \A i \in DOMAIN vin : InputSound(vin[i])
  /\ Cardinality({i \in DOMAIN vin : IsCoinbaseVin(vin[i])}) <= 1
  /\ (\E i \in DOMAIN vin : IsCoinbaseVin(vin[i])) => Len(vin) = 1

\* DecodeTransaction up to its outputs.
TxSound(tx) == AllOk(tx.fields) /\ tx.vout # << >> /\ InputsSound(tx.vin)

\* The types Core writes no address for, and the address member each type
\* must come with.
Ownerless == {"multisig", "p2pk", "nulldata", "unknown"}
AddressFits(type, address) ==
  CASE type \in {"multisig", "p2pk"} -> address = Null
    [] type \in {"nulldata", "unknown"} -> address \in {Null, Empty}
    [] type \notin Ownerless -> address \notin {Null, Empty}

\* decodeOutput up to its use of the resolver, for what Classify makes of the
\* script: whether the checks pass, and the chain.Output before the resolver
\* fills in the owners that Core's answer leaves out.
OutputSound(v, i, classified) ==
  /\ v.n = i - 1
  /\ DecodeAmount(v.value) # BadAmount
  /\ v.object = "ok" /\ v.hex = "ok"
  /\ AddressFits(classified.type, v.address)
decodeOutput(v, i, classified) ==
  [index |-> i - 1, value |-> DecodeAmount(v.value), script |-> v.bytes,
   type |-> classified.type, pubKeys |-> classified.pubKeys,
   participants |-> << >>,
   address |-> IF classified.type \in Ownerless THEN Empty ELSE v.address]

\* resolvePubKey's addresses, in the place each type has for them.
WithOwners(out, resolved) ==
  LET of == [k \in DOMAIN out.pubKeys |-> resolved[out.pubKeys[k]]]
  IN  CASE out.type = "p2pk" -> [out EXCEPT !.address = of[1]]
        [] out.type = "multisig" -> [out EXCEPT !.participants = of]
        [] OTHER -> out

\* The answer in the order it is decoded: its head, then each transaction up
\* to its outputs and each of its outputs.
OutputPart(v, i, classified) == [sound |-> OutputSound(v, i, classified), keys |-> classified.pubKeys]
TxParts(tx) ==
  <<[sound |-> TxSound(tx), keys |-> << >>]>>
    \o [i \in DOMAIN tx.vout |-> OutputPart(tx.vout[i], i, Classify(tx.vout[i].bytes))]
Parts(raw) ==
  <<[sound |-> HeadSound(raw), keys |-> << >>]>>
    \o FlattenSeq([i \in DOMAIN raw.tx |-> TxParts(raw.tx[i])])

DecodeTransaction(tx) ==
  [isCoinbase |-> \E i \in DOMAIN tx.vin : IsCoinbaseVin(tx.vin[i]),
   inputs |-> [i \in DOMAIN tx.vin |-> IF IsCoinbaseVin(tx.vin[i]) THEN "coinbase" ELSE "spend"],
   outputs |-> [i \in DOMAIN tx.vout |->
                  decodeOutput(tx.vout[i], i, Classify(tx.vout[i].bytes))]]

-----------------------------------------------------------------------------
(* Only the resolver's cache is shared, so decoding is atomic from one      *)
(* question to the resolver to the next.  calls are the keys to be resolved *)
(* in front of the first part that is not sound, txs what has been decoded. *)
NoJob == [pc |-> "idle", item |-> Null, sound |-> FALSE,
          calls |-> << >>, resolved |-> << >>, txs |-> << >>]

StartedWith(item, raw, parts) ==
  LET fault == SelectInSeq(parts, LAMBDA p : ~p.sound)
      good  == IF fault = 0 THEN parts ELSE SubSeq(parts, 1, fault - 1)
  IN  [NoJob EXCEPT !.pc = "working", !.item = item, !.sound = fault = 0,
                    !.txs = IF fault = 0 THEN [i \in DOMAIN raw.tx |-> DecodeTransaction(raw.tx[i])] ELSE << >>,
                    !.calls = FlattenSeq([i \in DOMAIN good |-> good[i].keys])]
Started(item, raw) == StartedWith(item, raw, Parts(raw))

\* The jobs an undamaged answer starts, and those any answer may start.
Undamaged == {Started(item, CoreAnswer(item)) : item \in UNION {Asked[c] : c \in Caller}}
Damaging == UNION {{Started(item, raw) : raw \in Damaged(CoreAnswer(item))} : item \in Fragile}
Starts == Undamaged \cup Damaging

DecoderInit == cache = << >> /\ job = [c \in Caller |-> NoJob]

\* The process runs: its orchestrator has not failed.
Running == job[Orchestrator].pc # "failed"

\* A caller asks Core for something.
Take(c) ==
  /\ Running /\ job[c].pc = "idle"
  /\ \E j \in Starts : j.item \in Asked[c] /\ job' = [job EXCEPT ![c] = j]
  /\ UNCHANGED cache

\* After an error the next poll, or the next process, asks for the same again.
AskAgain(c, starts) ==
  /\ job[c].pc = "failed"
  /\ \E j \in starts : j.item = job[c].item /\ job' = [job EXCEPT ![c] = j]
  /\ UNCHANGED cache
Retry(c) == AskAgain(c, Starts)
RetryUndamaged(c) == AskAgain(c, Undamaged)

Failed(c) == [NoJob EXCEPT !.pc = "failed", !.item = job[c].item]

\* An error of the synchronizer leaves nothing behind but the cache.  One of
\* the orchestrator cancels every other goroutine and ends the process.
Fail(c) ==
  IF c = Orchestrator
  THEN /\ job' = [d \in Caller |-> IF d = c THEN Failed(c) ELSE NoJob]
       /\ cache' = << >>
  ELSE job' = [job EXCEPT ![c] = Failed(c)] /\ UNCHANGED cache

\* A check fails: the whole answer is refused.
Reject(c) ==
  /\ job[c].pc = "working" /\ job[c].calls = << >> /\ ~job[c].sound
  /\ Fail(c)

\* The map f with f[x] = y.
Put(f, x, y) == [z \in DOMAIN f \cup {x} |-> IF z = x THEN y ELSE f[z]]

Resolves(c, address) ==
  job' = [job EXCEPT ![c].pc = "working", ![c].calls = Tail(@),
                     ![c].resolved = Put(@, Head(job[c].calls), address)]

\* ResolvePubKeyAddress, the first critical section: a hit answers, a miss
\* leaves the lock and goes to Core.
LookUp(c) ==
  /\ job[c].pc = "working" /\ job[c].calls # << >>
  /\ LET key == Head(job[c].calls)
     IN  IF key \in DOMAIN cache THEN Resolves(c, cache[key])
         ELSE job' = [job EXCEPT ![c].pc = "asking"]
  /\ UNCHANGED cache

\* Wrong: a resolver that forgets what it derived.
Forget(key, address) == cache

\* The second critical section: the derived address is kept.
Memoize(key, address) == Put(cache, key, address)

\* getdescriptorinfo and deriveaddresses both answer, with one address.  Classify
\* looks at the size of a key and its first byte only; the descriptor pkh(key)
\* of one that is no point of the curve is an error, whenever Core is asked.
CoreDerives(c) ==
  /\ job[c].pc = "asking"
  /\ LET key == Head(job[c].calls)
     IN  /\ key \in Derivable
         /\ cache' = Memoize(key, pkhAddress(key))
         /\ Resolves(c, pkhAddress(key))

\* Wrong: a key without an address leaves its place empty.
CoreSkips(c) ==
  /\ job[c].pc = "asking"
  /\ Resolves(c, Empty)
  /\ UNCHANGED cache

\* One of the two fails, or answers with anything but one address.
CoreFails(c) ==
  /\ job[c].pc = "asking"
  /\ Fail(c)

Owned(txs, resolved) ==
  [i \in DOMAIN txs |-> [txs[i] EXCEPT !.outputs =
     [k \in DOMAIN @ |-> WithOwners(@[k], resolved)]]]

\* Every part is sound and every key is resolved.
Finish(c) ==
  /\ job[c].pc = "working" /\ job[c].calls = << >> /\ job[c].sound
  /\ job' = [job EXCEPT ![c].pc = "done", ![c].txs = Owned(@, job[c].resolved)]
  /\ UNCHANGED cache

\* The caller passes what it decoded on.
HandOver(c) ==
  /\ job[c].pc = "done"
  /\ job' = [job EXCEPT ![c] = NoJob]
  /\ UNCHANGED cache

DecoderNext ==
  \E c \in Caller : \/ Take(c) \/ Retry(c) \/ Reject(c) \/ LookUp(c)
                    \/ CoreDerives(c) \/ CoreFails(c) \/ Finish(c) \/ HandOver(c)

\* The mempool loop polls for ever; Core's node and the connection to it recover,
\* so that asking over and over brings an undamaged answer, and an address for a
\* key that has one.  Nothing is promised about a key that has none.
DecoderSpec ==
  /\ DecoderInit /\ [][DecoderNext]_decoderVars
  /\ \A c \in Caller : /\ WF_decoderVars(Reject(c) \/ LookUp(c) \/ Finish(c))
                       /\ SF_decoderVars(RetryUndamaged(c))
                       /\ SF_decoderVars(CoreDerives(c))

-----------------------------------------------------------------------------
\* The explorer's type of a script.  It is Core's but for one case: OP_RESERVED
\* (80) counts as a push for Core, and does not for isPushOnly, so an OP_RETURN
\* script with it is unknown.  Core has no address for either.
ReservedReturn(script) ==
  Solver(script) = "nulldata" /\ \E i \in DOMAIN script : script[i].op = 80
TypeOf(script) == IF ReservedReturn(script) THEN "unknown" ELSE Solver(script)

\* The chain data Core means by an item, under the explorer's types.
MeantOutput(out, i) ==
  LET type == TypeOf(out.script)
      keys == IF type = "multisig" THEN [k \in 1 .. Len(out.script) - 3 |-> out.script[k + 1].data]
              ELSE IF type = "p2pk" THEN <<out.script[1].data>> ELSE << >>
  IN  [index |-> i - 1, value |-> out.amount, script |-> Bytes(out.script), type |-> type,
       pubKeys |-> keys,
       participants |-> IF type = "multisig" THEN [k \in DOMAIN keys |-> pkhAddress(keys[k])] ELSE << >>,
       address |-> CASE type = "p2pk" -> pkhAddress(keys[1])
                     [] type \in {"multisig", "nulldata", "unknown"} -> Empty
                     [] OTHER -> ScriptAddress(out.script)]
Meant(item) ==
  [i \in DOMAIN item.txs |->
     [isCoinbase |-> item.txs[i].inputs = <<"coinbase">>,
      inputs |-> item.txs[i].inputs,
      outputs |-> [k \in DOMAIN item.txs[i].outputs |-> MeantOutput(item.txs[i].outputs[k], k)]]]

\* The keys transactions name as owners of their outputs.
KeysOf(txs) ==
  UNION {UNION {Range(out.pubKeys) : out \in Range(tx.outputs)} : tx \in Range(txs)}

\* The checks of the decoder pass every answer Core gave: whatever its scripts
\* and amounts, the only way decoding it fails is that Core does not derive an
\* address for one of its keys.  A script that Classify and Core's Solver see
\* differently would be refused for its address member at every poll.  That the
\* keys resolve is not said here: one that is no point of the curve never does.
CoreNeverRefused == \A c \in Caller : job[c] \in Undamaged => job[c].sound

\* Of the kinds of damage in Damaged, which the rest of the answer gives away,
\* none passes: with a member lost, added, malformed or misplaced, and whoever
\* filled the resolver's cache before, what is decoded in full is what Core
\* means by the item: its outputs, their owners, its shape.
NothingPartial ==
  \A c \in Caller : job[c].pc = "done" => job[c].txs = Meant(job[c].item)

\* Every owner that a decoded transaction names by key is one Core derives an
\* address for (resolvePubKey): a multisig output one of whose keys has none is
\* refused as a whole, whatever the cache holds for the others, for as long as
\* the transaction exists.  Such a transaction stops the refresh of the mempool
\* while it is listed, and the index at the block it is mined in.
OwnersDerived ==
  \A c \in Caller : job[c].pc = "done" => KeysOf(job[c].txs) \subseteq Derivable

\* Every transaction decoded, from whatever answer, has the shape
\* validateBlockShape and applyOutput demand of it: the coinbase flag says
\* what the inputs are, outputs are numbered by position, and a multisig
\* output has one participant for each key.
StoreShape ==
  \A c \in Caller : job[c].pc = "done" => \A t \in DOMAIN job[c].txs :
     LET tx == job[c].txs[t]
     IN  /\ tx.inputs # << >> /\ tx.outputs # << >>
         /\ tx.isCoinbase <=> tx.inputs = <<"coinbase">>
         /\ \A i \in DOMAIN tx.inputs : tx.inputs[i] = "coinbase" => tx.isCoinbase
         /\ \A k \in DOMAIN tx.outputs :
               /\ tx.outputs[k].index = k - 1
               /\ tx.outputs[k].type = "multisig" =>
                     Len(tx.outputs[k].participants) = Len(tx.outputs[k].pubKeys)

\* A mempool transaction that failed to decode, and names no key but those Core
\* derives an address for, decodes in the end, while the process lives, even if
\* no attempt ever gets through all of its keys: what an attempt resolved before
\* it failed stays in the cache, so the attempts add up
\* (CoreAddressResolver.ResolvePubKeyAddress).
AttemptsAddUp ==
  \A c \in Caller \ {Orchestrator} :
    (job[c].pc = "failed" /\ KeysOf(Meant(job[c].item)) \subseteq Derivable)
      ~> (job[c].pc = "done" \/ ~Running)
=============================================================================
