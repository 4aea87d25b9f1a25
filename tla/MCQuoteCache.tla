---------------------------- MODULE MCQuoteCache ----------------------------
(* Small instances of QuoteCache: calls ask for symbol s, or for u.         *)
EXTENDS QuoteCache

CONSTANTS c1, c2, c3, d1, d2, s, u

ThreeAndTwo == [c \in {c1, c2, c3} |-> s] @@ [c \in {d1, d2} |-> u]
\* Calls for the same symbol are interchangeable in a run that checks safety alone.
SameSymbol  == Permutations({c1, c2, c3}) \union Permutations({d1, d2})

AllOfOne    == [c \in {c1, c2, c3} |-> s]
=============================================================================
