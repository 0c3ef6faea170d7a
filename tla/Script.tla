-------------------------------- MODULE Script --------------------------------
(***************************************************************************)
(* internal/script: what kind of output a scriptPubKey is, read from its   *)
(* bytes alone.  A script is a sequence of bytes, counted from 1.          *)
(***************************************************************************)
EXTENDS Integers, Sequences, SequencesExt

CONSTANT NoToken    \* ok = false of nextToken

ASSUME NoTokenAssumption == NoToken \notin [opcode : Nat, data : Seq(Nat), next : Nat]

opFalse == 0
opPushData1 == 76
opPushData2 == 77
opPushData4 == 78
op1Negate == 79
op1 == 81
op16 == 96
opReturn == 106
opDup == 118
opEqual == 135
opEqualVerify == 136
opHash160 == 169
opCheckSig == 172
opCheckMultisig == 174

hash160Len == 20
compressedPKLen == 33
uncompressedPKLen == 65
minWitnessProgramLen == 2
maxWitnessProgramLen == 40
maxPubKeysPerMultisig == 20

-----------------------------------------------------------------------------
\* The length operand of a push starts at s[from] and is `width` bytes wide,
\* least significant byte first.
LittleEndian(s, from, width) ==
  LET Byte(k) == IF k < width THEN s[from + k] ELSE 0
  IN  Byte(0) + 256 * (Byte(1) + 256 * (Byte(2) + 256 * Byte(3)))

\* How many bytes of length operand an opcode has.
LengthWidth(op) ==
  CASE op = opPushData1 -> 1
    [] op = opPushData2 -> 2
    [] op = opPushData4 -> 4
    [] OTHER -> 0

HasOperand(op) == op > opFalse /\ op <= opPushData4

\* The element that starts at s[i], with the position after it; NoToken when
\* the script ends before the element's length bytes or its data do.
nextToken(s, i) ==
  IF i > Len(s) THEN NoToken
  ELSE LET op   == s[i]
           body == i + 1 + LengthWidth(op)
           n    == IF LengthWidth(op) = 0 THEN op ELSE LittleEndian(s, i + 1, LengthWidth(op))
       IN  IF ~HasOperand(op) THEN [opcode |-> op, data |-> << >>, next |-> i + 1]
           ELSE IF body > Len(s) + 1 \/ body + n > Len(s) + 1 THEN NoToken
           ELSE [opcode |-> op, data |-> SubSeq(s, body, body + n - 1), next |-> body + n]

\* All elements of a script, from its first byte on; a last one that is not
\* complete is NoToken.
Tokens(s) ==
  LET From[i \in 1 .. Len(s) + 1] ==
        LET t == nextToken(s, i)
        IN  IF i = Len(s) + 1 THEN << >>
            ELSE IF t = NoToken THEN <<t>> ELSE <<t>> \o From[t.next]
  IN  From[1]

IsPushOpcode(op) == op <= op1Negate \/ op \in op1 .. op16

\* Only data pushes, every one of them complete: isPushOnly walks the script
\* with the same bounds as nextToken and stops at the first other opcode.
isPushOnly(s) == \A t \in Range(Tokens(s)) : t # NoToken /\ IsPushOpcode(t.opcode)

\* CPubKey::ValidSize, as isPubKeyPush mirrors it.
isPubKeyPush(data) ==
  \/ /\ Len(data) = compressedPKLen
     /\ data[1] \in {2, 3}
  \/ /\ Len(data) = uncompressedPKLen
     /\ data[1] \in {4, 6, 7}

\* The number a token stands for within lo .. hi, 0 when it stands for none.
multisigScriptNumber(t, lo, hi) ==
  LET v == IF t.opcode \in op1 .. op16 THEN t.opcode - op1 + 1
           ELSE IF t.opcode = 1 /\ t.data[1] \in 17 .. maxPubKeysPerMultisig THEN t.data[1]
           ELSE 0
  IN  IF v \in lo .. hi THEN v ELSE 0

-----------------------------------------------------------------------------
matchP2PKH(s) ==
  /\ Len(s) = 25
  /\ s[1] = opDup /\ s[2] = opHash160 /\ s[3] = hash160Len
  /\ s[24] = opEqualVerify /\ s[25] = opCheckSig

matchP2SH(s) ==
  /\ Len(s) = 23
  /\ s[1] = opHash160 /\ s[2] = hash160Len /\ s[23] = opEqual

matchP2PK(s) ==
  \E n \in {compressedPKLen, uncompressedPKLen} :
     /\ Len(s) = n + 2 /\ s[1] = n /\ s[n + 2] = opCheckSig
     /\ isPubKeyPush(SubSeq(s, 2, n + 1))

matchNullData(s) ==
  /\ s # << >> /\ s[1] = opReturn
  /\ isPushOnly(Tail(s))

\* The loop of matchMultisig: the first token behind m that is no public key.
KeysEnd(toks) ==
  Min({k \in 2 .. Len(toks) + 1 :
         k = Len(toks) + 1 \/ toks[k] = NoToken \/ ~isPubKeyPush(toks[k].data)})

\* The public keys of a bare m-of-n script, << >> when it is none: n is the
\* number of keys and ends right in front of the last byte.
matchMultisig(s) ==
  LET toks == Tokens(s)
      m    == multisigScriptNumber(toks[1], 1, maxPubKeysPerMultisig)
      end  == KeysEnd(toks)
      n    == multisigScriptNumber(toks[end], m, maxPubKeysPerMultisig)
  IN  IF /\ Len(s) >= 3 /\ Last(s) = opCheckMultisig
         /\ toks[1] # NoToken /\ m # 0
         /\ end <= Len(toks) /\ toks[end] # NoToken /\ n # 0
         /\ n = end - 2 /\ toks[end].next = Len(s)
      THEN [k \in 1 .. n |-> toks[k + 1].data] ELSE << >>

\* Wrong: the push need not end where the script does.
IsWitnessPrefix(s) ==
  /\ Len(s) >= 2 + minWitnessProgramLen /\ Len(s) <= 2 + maxWitnessProgramLen
  /\ s[1] = opFalse \/ s[1] \in op1 .. op16
  /\ s[2] \in minWitnessProgramLen .. maxWitnessProgramLen

\* Version and program length of a script of the shape
\* CScript::IsWitnessProgram accepts.
IsWitnessProgram(s) ==
  /\ Len(s) >= 2 + minWitnessProgramLen /\ Len(s) <= 2 + maxWitnessProgramLen
  /\ s[1] = opFalse \/ s[1] \in op1 .. op16
  /\ s[2] \in minWitnessProgramLen .. maxWitnessProgramLen
  /\ Len(s) = 2 + s[2]
WitnessVersion(s) == IF s[1] = opFalse THEN 0 ELSE s[1] - op1 + 1

WitnessType(version, length) ==
  CASE version = 0 /\ length = hash160Len -> "p2wpkh"
    [] version = 0 /\ length = 32 -> "p2wsh"
    [] version = 1 /\ length = 32 -> "p2tr"
    [] version = 2 /\ length = 32 -> "p2qpk"
    [] version = 0 /\ length \notin {hash160Len, 32} -> "unknown"
    [] OTHER -> "unknown_witness"

\* Classify: the witness shape first, then the legacy matchers.  No script
\* satisfies two of the latter, so the order the code tries them in is moot.
Result(type, pubKeys) == [type |-> type, pubKeys |-> pubKeys]
ClassifyLegacy(s, multisigKeys) ==
  CASE matchP2PKH(s) -> Result("p2pkh", << >>)
    [] matchP2SH(s) -> Result("p2sh", << >>)
    [] matchP2PK(s) -> Result("p2pk", <<SubSeq(s, 2, Len(s) - 1)>>)
    [] matchNullData(s) -> Result("nulldata", << >>)
    [] multisigKeys # << >> -> Result("multisig", multisigKeys)
    [] OTHER -> Result("unknown", << >>)
Classify(s) ==
  IF IsWitnessProgram(s) THEN Result(WitnessType(WitnessVersion(s), s[2]), << >>)
  ELSE ClassifyLegacy(s, matchMultisig(s))
=============================================================================
