----------------------------- MODULE SourcePieces -----------------------------
(***************************************************************************)
(* The bytes that the surrogate scan of internal/jsonstrict tells apart,   *)
(* and the pieces that the JSON source it is given is spelled of.          *)
(***************************************************************************)
EXTENDS Naturals, Sequences

Quote == "quote"
Backslash == "backslash"
Digits == [zero |-> 0, eight |-> 8, C |-> 12, D |-> 13]    \* of the hexadecimal digits

Bytes == {Quote, Backslash, "u", "x"} \union DOMAIN Digits

Escape(d1, d2) == <<Backslash, "u", d1, d2, "zero", "zero">>
Pieces ==
  [quote |-> <<Quote>>, letter |-> <<"x">>,
   hexText |-> <<"u", "D", "eight", "zero", "zero">>,          \* uD800, not an escape
   escapedQuote |-> <<Backslash, Quote>>, escapedBackslash |-> <<Backslash, Backslash>>,
   high |-> Escape("D", "eight"), low |-> Escape("D", "C"), other |-> Escape("zero", "C"),
   short |-> <<Backslash, "u", "D", "eight">>]
===============================================================================
