-------------------------------- MODULE Amount --------------------------------
(***************************************************************************)
(* Amounts as text: decode.DecodeAmount, which reads Core's decimal QOGE   *)
(* into satoshis, and chain.Amount.String, which writes satoshis the way   *)
(* Core writes them.  A text is a sequence of one-character strings.       *)
(***************************************************************************)
EXTENDS Integers, Sequences, SequencesExt

CONSTANTS
  FractionDigits,   \* 8: one QOGE is 10^8 satoshis
  MaxInt64,         \* the largest int64
  BadAmount         \* the error of DecodeAmount

ASSUME AmountAssumption ==
  /\ FractionDigits \in Nat \ {0}
  /\ MaxInt64 \in Nat
  /\ BadAmount \notin Int

Digits == <<"0", "1", "2", "3", "4", "5", "6", "7", "8", "9">>
IsDigit(c) == c \in {Digits[i] : i \in 1 .. 10}
Zeros(n) == [i \in 1 .. n |-> "0"]

\* strconv.ParseInt on digits, before its range check.
Digit(c) == CHOOSE d \in 0 .. 9 : Digits[d + 1] = c
Number(text) ==
  LET Value[i \in 0 .. Len(text)] == IF i = 0 THEN 0 ELSE 10 * Value[i - 1] + Digit(text[i])
  IN  Value[Len(text)]

\* A one with FractionDigits zeros behind it.
SatoshisPerQOGE == Number(<<"1">> \o Zeros(FractionDigits))

\* The digits before and after the point of an unsigned text.
Whole(text) == IF Contains(text, ".") THEN SubSeq(text, 1, SelectInSeq(text, LAMBDA c : c = ".") - 1)
               ELSE text
Fraction(text) == SubSeq(text, Len(Whole(text)) + 2, Len(text))

\* The shape the scan of DecodeAmount accepts: digits around at most one
\* point, and at least one digit.
WellFormed(text) ==
  /\ \A i \in DOMAIN Whole(text) : IsDigit(text[i])
  /\ \A i \in DOMAIN Fraction(text) : IsDigit(Fraction(text)[i])
  /\ Whole(text) # << >> \/ Fraction(text) # << >>

\* DecodeAmount: a signed text is refused, more than FractionDigits digits
\* after the point are refused, and the padded digits must fit an int64.
DecodeAmount(text) ==
  LET padded == Whole(text) \o Fraction(text) \o Zeros(FractionDigits - Len(Fraction(text)))
      signed == text # << >> /\ text[1] \in {"-", "+"}
  IN  IF \/ signed
         \/ ~WellFormed(text)
         \/ Len(Fraction(text)) > FractionDigits
         \/ Number(padded) > MaxInt64
      THEN BadAmount ELSE Number(padded)

-----------------------------------------------------------------------------
\* %d and %0wd of fmt.Sprintf.
Decimal(n) ==
  LET Of[m \in 0 .. n] == IF m < 10 THEN <<Digits[m + 1]>> ELSE Append(Of[m \div 10], Digits[(m % 10) + 1])
  IN  Of[n]
DecimalPadded(n, width) == Zeros(width - Len(Decimal(n))) \o Decimal(n)

\* Amount.String: the magnitude is an unsigned word, so that the smallest
\* int64 has one.
String(a) ==
  LET mag == IF a < 0 THEN -(a + 1) + 1 ELSE a
  IN  (IF a < 0 THEN <<"-">> ELSE << >>)
      \o Decimal(mag \div SatoshisPerQOGE) \o <<".">>
      \o DecimalPadded(mag % SatoshisPerQOGE, FractionDigits)
=============================================================================
