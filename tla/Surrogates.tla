------------------------------ MODULE Surrogates ------------------------------
(***************************************************************************)
(* internal/jsonstrict: validateEscapedSurrogates, the scan of JSON source *)
(* for \u escapes whose UTF-16 code unit would be replaced when decoded.   *)
(* It knows only strings and escapes, and leaves syntax to the decoder.    *)
(* Indices count from 1.                                                   *)
(***************************************************************************)
EXTENDS SourcePieces, FiniteSets

CONSTANT Spellings        \* the sources to scan, and what they are spelled of

VARIABLES data, index, insideString, verdict, spelling

vars == <<data, index, insideString, verdict, spelling>>

\* decodeHexEscape: four digits, no fewer.
IsHex(bytes) == Len(bytes) = 4 /\ \A i \in 1 .. 4 : bytes[i] \in DOMAIN Digits
Unit(bytes) == LET d == [i \in 1 .. 4 |-> Digits[bytes[i]]] IN
               ((d[1] * 16 + d[2]) * 16 + d[3]) * 16 + d[4]

IsHigh(unit) == 55296 <= unit /\ unit <= 56319     \* 0xD800 .. 0xDBFF
IsLow(unit) == 56320 <= unit /\ unit <= 57343      \* 0xDC00 .. 0xDFFF

Init ==
  /\ spelling \in Spellings /\ data = spelling.data
  /\ index = 1 /\ insideString = FALSE /\ verdict = "scanning"

Skip(n) == index' = index + n /\ UNCHANGED <<insideString, verdict>>
Reject == verdict' = "invalid" /\ UNCHANGED <<index, insideString>>

\* A \u escape of a low surrogate follows the one at index.
HasPartner ==
  LET next == SubSeq(data, index + 8, index + 11) IN
  /\ index + 11 <= Len(data)
  /\ data[index + 6] = Backslash /\ data[index + 7] = "u"
  /\ IsHex(next) /\ IsLow(Unit(next))

\* What follows the backslash at index is a \u escape.
EscapedUnit ==
  LET escape == SubSeq(data, index + 2, index + 5) IN
  IF \/ index + 5 > Len(data) \/ ~IsHex(escape)
     \/ IsLow(Unit(escape))
     \/ IsHigh(Unit(escape)) /\ ~HasPartner
  THEN Reject
  ELSE Skip(IF IsHigh(Unit(escape)) THEN 12 ELSE 6)

\* Backslashed, mutated: the escaped byte is looked at again.
BackslashedOnce ==
  IF index + 1 <= Len(data) /\ data[index + 1] = "u" THEN EscapedUnit ELSE Skip(1)

\* An escape of one byte hides that byte, a quote or backslash included.
Backslashed ==
  IF index + 1 > Len(data) THEN Skip(1)
  ELSE IF data[index + 1] # "u" THEN Skip(2) ELSE EscapedUnit

Scan ==
  /\ verdict = "scanning" /\ index <= Len(data)
  /\ \/ /\ data[index] = Quote
        /\ insideString' = ~insideString
        /\ index' = index + 1 /\ UNCHANGED verdict
     \/ data[index] # Quote /\ (~insideString \/ data[index] # Backslash) /\ Skip(1)
     \/ insideString /\ data[index] = Backslash /\ Backslashed
  /\ UNCHANGED <<data, spelling>>

Accept ==
  /\ verdict = "scanning" /\ index > Len(data)
  /\ verdict' = "valid"
  /\ UNCHANGED <<data, index, insideString, spelling>>

Next == Scan \/ Accept
Spec == Init /\ [][Next]_vars

-----------------------------------------------------------------------------
(* Sources are spelled of the pieces that JSON strings have, so that what a  *)
(* string means is known without scanning it.                                *)

\* The pieces of s.text stand in s.data, each where s.at says, and leave no gap.
IsSpelled(s) ==
  /\ s.text \in Seq(DOMAIN Pieces) /\ s.data \in Seq(Bytes) /\ s.at \in Seq(1 .. Len(s.data) + 1)
  /\ Len(s.at) = Len(s.text) + 1 /\ s.at[1] = 1 /\ s.at[Len(s.at)] = Len(s.data) + 1
  /\ \A i \in DOMAIN s.text :
       LET piece == Pieces[s.text[i]] IN
       /\ s.at[i + 1] = s.at[i] + Len(piece)
       /\ \A k \in DOMAIN piece : s.data[s.at[i] + k - 1] = piece[k]

SourcesAreSpelled == \A s \in Spellings : IsSpelled(s)

text == spelling.text
InString(i) == Cardinality({j \in 1 .. i - 1 : text[j] = "quote"}) % 2 = 1

\* Escapes are in strings only, complete, and the last string is closed.
WellFormed ==
  /\ ~InString(Len(text) + 1)
  /\ \A i \in DOMAIN text :
       /\ text[i] # "short"
       /\ text[i] \notin {"quote", "letter", "hexText"} => InString(i)

Paired ==
  \A i \in DOMAIN text :
    /\ text[i] = "high" => i < Len(text) /\ text[i + 1] = "low"
    /\ text[i] = "low" => i > 1 /\ text[i - 1] = "high"

(***************************************************************************)
(* Of the well-formed sources the scan accepts exactly those whose         *)
(* surrogates come in pairs, whatever is escaped around them               *)
(* (validateEscapedSurrogates).                                            *)
(***************************************************************************)
OnlyPairsPass == verdict # "scanning" /\ WellFormed => (verdict = "valid" <=> Paired)
=============================================================================
