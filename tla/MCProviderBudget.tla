--------------------------- MODULE MCProviderBudget ---------------------------
(* Small instances of ProviderBudget: a has daily and monthly limits, b a    *)
(* limit for one request and a daily one; a month is two days long.          *)
EXTENDS ProviderBudget

CONSTANTS a, b, a1, a2, b1, r1, r2

TwoAndOne == (a1 :> a) @@ (a2 :> a) @@ (b1 :> b)
OneEach   == (a1 :> a) @@ (b1 :> b)

DailyAB   == (a :> 2) @@ (b :> 1)
MonthlyAB == (a :> 3) @@ (b :> NoLimit)
RequestAB == (a :> NoLimit) @@ (b :> 1)
TwoDays   == [d \in Day |-> d \div 2]

\* Requests are interchangeable.
SameRequests == Permutations({r1, r2})
=============================================================================
