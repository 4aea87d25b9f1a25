--------------------------- MODULE MCProviderRouter ---------------------------
(* Small instances of ProviderRouter: two providers, a first in priority.   *)
EXTENDS ProviderRouter

CONSTANTS a, b, g1, g2, s1, l1, h1, m1, m2, m3

TwoProviders == {a, b}
PriorityAB   == (a :> 0) @@ (b :> 1)
RetryA       == (a :> 1) @@ (b :> 0)

\* Catalogs: a model at each provider, two at a alone, or none.
Models3      == {m1, m2, m3}
OneEach      == (a :> {m1}) @@ (b :> {m3})
TwoAtA       == (a :> {m1, m2}) @@ (b :> {})
NoModels     == (a :> {}) @@ (b :> {})

OneGenerate     == g1 :> "generate"
GenerateStream  == (g1 :> "generate") @@ (s1 :> "stream")
OneStream       == s1 :> "stream"
OneList         == l1 :> "list"
NoCalls         == [c \in {} |-> "generate"]
=============================================================================
