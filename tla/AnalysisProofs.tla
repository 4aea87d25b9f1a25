--------------------------- MODULE AnalysisProofs ---------------------------
(***************************************************************************)
(* What holds of the analysis tool for every catalogue, task, priority and *)
(* limit: which models are pinned, in which order, and what is recorded;   *)
(* what holds of the start-up for all settings; and, with what is known of *)
(* the other parts, that every variable keeps its type.                    *)
(***************************************************************************)
EXTENDS OutboundProofs, FilesProofs

-----------------------------------------------------------------------------
(* Sorting by counting predecessors                                         *)

\* The module of the ranking counts as this module does.
LEMMA SameCount == \A S : Analysis!Cardinality(S) = Cardinality(S)
BY Zenon DEF Analysis!Cardinality, Analysis!IsFiniteSet, Cardinality, IsFiniteSet

\* What a sort by a key and an identifier gives: a strict total order.
StrictTotal(R, S) ==
  /\ \A a \in S : <<a, a>> \notin R
  /\ \A a, b \in S : a # b => <<a, b>> \in R \/ <<b, a>> \in R
  /\ \A a, b, c \in S : <<a, b>> \in R /\ <<b, c>> \in R => <<a, c>> \in R

Before(R, S, m) == {n \in S : <<n, m>> \in R}

\* Every member precedes fewer others than there are, and the order agrees with
\* the numbers of predecessors.
LEMMA CountsPredecessors ==
  ASSUME NEW S, IsFiniteSet(S), NEW R, StrictTotal(R, S)
  PROVE  /\ \A m \in S : /\ Cardinality(Before(R, S, m)) \in Nat
                         /\ Cardinality(Before(R, S, m)) < Cardinality(S)
         /\ \A a, b \in S : <<a, b>> \in R =>
              Cardinality(Before(R, S, a)) < Cardinality(Before(R, S, b))
<1>1. \A m \in S : IsFiniteSet(Before(R, S, m)) /\ Cardinality(Before(R, S, m)) \in Nat
  BY FS_Subset, FS_CardinalityType DEF Before
<1>2. Cardinality(S) \in Nat
  BY FS_CardinalityType
<1>3. ASSUME NEW m \in S PROVE Cardinality(Before(R, S, m)) < Cardinality(S)
  <2>1. Before(R, S, m) \in SUBSET S /\ m \notin Before(R, S, m)
    BY DEF Before, StrictTotal
  <2>2. Before(R, S, m) # S
    BY <2>1
  <2>3. /\ Cardinality(Before(R, S, m)) <= Cardinality(S)
        /\ Cardinality(S) = Cardinality(Before(R, S, m)) => S = Before(R, S, m)
    BY <2>1, FS_Subset
  <2> QED
    BY <1>1, <1>2, <2>2, <2>3
<1>4. ASSUME NEW a \in S, NEW b \in S, <<a, b>> \in R
      PROVE  Cardinality(Before(R, S, a)) < Cardinality(Before(R, S, b))
  <2>1. Before(R, S, a) \in SUBSET Before(R, S, b)
    BY <1>4 DEF Before, StrictTotal
  <2>2. a \in Before(R, S, b) /\ a \notin Before(R, S, a)
    BY <1>4 DEF Before, StrictTotal
  <2>3. Before(R, S, a) # Before(R, S, b)
    BY <2>2
  <2>4. /\ Cardinality(Before(R, S, a)) <= Cardinality(Before(R, S, b))
        /\ Cardinality(Before(R, S, b)) = Cardinality(Before(R, S, a))
             => Before(R, S, b) = Before(R, S, a)
    BY <1>1, <2>1, FS_Subset
  <2> QED
    BY <1>1, <2>3, <2>4
<1> QED
  BY <1>1, <1>3, <1>4

\* For every place there is the member that stands there.
LEMMA EveryPlaceTaken ==
  ASSUME NEW S, IsFiniteSet(S), NEW R, StrictTotal(R, S), NEW i \in 1..Cardinality(S)
  PROVE  \E m \in S : Cardinality(Before(R, S, m)) = i - 1
<1> DEFINE k == Cardinality(S)
           T == 0..(k - 1)
           f == [m \in S |-> Cardinality(Before(R, S, m))]
<1>1. k \in Nat
  BY FS_CardinalityType
<1>2. /\ \A m \in S : f[m] \in Nat /\ f[m] < k
      /\ \A a, b \in S : <<a, b>> \in R => f[a] < f[b]
  BY CountsPredecessors
<1>3. f \in [S -> T]
  BY <1>1, <1>2
<1>4. ASSUME NEW a \in S, NEW b \in S, f[a] = f[b] PROVE a = b
  <2>1. <<a, b>> \notin R /\ <<b, a>> \notin R
    <3> HIDE DEF f, k
    <3> QED
      BY <1>2, <1>4
  <2> QED
    BY <2>1 DEF StrictTotal
<1>5. f \in Injection(S, T)
  BY <1>3, <1>4 DEF Injection, IsInjective
<1>6. IsFiniteSet(T) /\ Cardinality(T) = k
  <2>1. 0 \in Int /\ k - 1 \in Int
    BY <1>1
  <2>2. IsFiniteSet(T) /\ Cardinality(T) = IF 0 > k - 1 THEN 0 ELSE (k - 1) - 0 + 1
    BY <2>1, FS_Interval, Zenon
  <2> QED
    BY <1>1, <2>2
<1>7. f \in Surjection(S, T)
  BY <1>5, <1>6, FS_Injection
<1>8. i - 1 \in T
  BY <1>1
<1> HIDE DEF T
<1> QED
  BY <1>7, <1>8 DEF Surjection

\* Ordered is a sequence of all members, each once, in the given order.
LEMMA OrderedSorts ==
  ASSUME NEW S, IsFiniteSet(S), NEW R, StrictTotal(R, S)
  PROVE  /\ Analysis!Ordered(S, R) \in Seq(S)
         /\ Len(Analysis!Ordered(S, R)) = Cardinality(S)
         /\ \A i, j \in 1..Cardinality(S) : i < j =>
              /\ Analysis!Ordered(S, R)[i] # Analysis!Ordered(S, R)[j]
              /\ <<Analysis!Ordered(S, R)[i], Analysis!Ordered(S, R)[j]>> \in R
<1> DEFINE s == Analysis!Ordered(S, R)
<1>1. Cardinality(S) \in Nat
  BY FS_CardinalityType
<1>2. s = [i \in 1..Analysis!Cardinality(S) |->
             CHOOSE m \in S : Analysis!Cardinality({n \in S : <<n, m>> \in R}) = i - 1]
  BY DEF Analysis!Ordered
<1>3. DOMAIN s = 1..Cardinality(S)
      /\ \A i \in 1..Cardinality(S) : s[i] \in S /\ Cardinality(Before(R, S, s[i])) = i - 1
  <2>1. DOMAIN s = 1..Cardinality(S)
    BY <1>2, SameCount
  <2>2. ASSUME NEW i \in 1..Cardinality(S)
        PROVE  s[i] \in S /\ Cardinality(Before(R, S, s[i])) = i - 1
    <3> DEFINE At(m) == Analysis!Cardinality({n \in S : <<n, m>> \in R}) = i - 1
    <3>1. s[i] = CHOOSE m \in S : At(m)
      BY <1>2, SameCount
    <3>2. \A m \in S : At(m) <=> Cardinality(Before(R, S, m)) = i - 1
      BY SameCount DEF Before
    <3>3. \E m \in S : At(m)
      BY <3>2, EveryPlaceTaken
    <3> HIDE DEF At
    <3> QED
      BY <3>1, <3>2, <3>3
  <2> QED
    BY <2>1, <2>2
<1> HIDE DEF s
<1>4. s \in Seq(S) /\ Len(s) = Cardinality(S)
  <2>1. s = [i \in 1..Cardinality(S) |-> s[i]]
    BY <1>2, <1>3 DEF s
  <2> QED
    BY <1>1, <1>3, <2>1
<1>5. ASSUME NEW i \in 1..Cardinality(S), NEW j \in 1..Cardinality(S), i < j
      PROVE  s[i] # s[j] /\ <<s[i], s[j]>> \in R
  <2>1. s[i] \in S /\ s[j] \in S /\ s[i] # s[j]
    BY <1>3, <1>5
  <2>2. <<s[i], s[j]>> \in R \/ <<s[j], s[i]>> \in R
    BY <2>1 DEF StrictTotal
  <2>3. <<s[j], s[i]>> \in R => Cardinality(Before(R, S, s[j])) < Cardinality(Before(R, S, s[i]))
    BY <2>1, CountsPredecessors
  <2> QED
    BY <1>3, <1>5, <2>1, <2>2, <2>3
<1> QED
  BY <1>4, <1>5 DEF s

-----------------------------------------------------------------------------
(* The low-budget choice                                                    *)

\* A sort by quality and one by price are strict total orders of any models of
\* one catalogue, as their names differ.
LEMMA KeysAreOrders ==
  ASSUME NEW models \in Catalogs, NEW suited \in SUBSET models, NEW S \in SUBSET suited
  PROVE  StrictTotal(Analysis!ByQuality(suited), S) /\ StrictTotal(Analysis!ByPrice(suited), S)
<1>1. \A m \in suited : m.id \in Nat /\ m.word \in Nat /\ m.quality \in Nat /\ m.cost \in Nat
  BY CatalogAssumption
<1>2. \A m, n \in suited : m.id = n.id => m = n
  BY CatalogAssumption
<1> DEFINE N(a, b) == Analysis!NamedBefore(a, b)
<1>3. /\ \A a \in suited : ~N(a, a)
      /\ \A a, b \in suited : a # b => N(a, b) \/ N(b, a)
      /\ \A a, b, c \in suited : N(a, b) /\ N(b, c) => N(a, c)
  BY <1>1, <1>2 DEF Analysis!NamedBefore
<1>4. \A a, b \in suited : <<a, b>> \in Analysis!ByQuality(suited) <=>
        a.quality > b.quality \/ (a.quality = b.quality /\ N(a, b))
  BY DEF Analysis!ByQuality
<1>5. \A a, b \in suited : <<a, b>> \in Analysis!ByPrice(suited) <=>
        a.cost < b.cost \/ (a.cost = b.cost /\ N(a, b))
  BY DEF Analysis!ByPrice
<1> HIDE DEF N
<1>6. StrictTotal(Analysis!ByQuality(suited), S)
  BY <1>1, <1>3, <1>4 DEF StrictTotal
<1>7. StrictTotal(Analysis!ByPrice(suited), S)
  BY <1>1, <1>3, <1>5 DEF StrictTotal
<1> QED
  BY <1>6, <1>7

\* No model twice, and none that costs before a free one.
Graded(s) ==
  \A i, j \in 1..Len(s) : i < j => s[i].id # s[j].id /\ (s[j].free => s[i].free)

\* The free models in their order and then the others in theirs.
LEMMA FreeThenPaid ==
  ASSUME NEW models \in Catalogs, NEW suited \in SUBSET models
  PROVE  LET s == Analysis!Ordered({m \in suited : m.free}, Analysis!ByQuality(suited))
                   \o Analysis!Ordered({m \in suited : ~m.free}, Analysis!ByPrice(suited))
         IN  s \in Seq(models) /\ Graded(s)
<1> DEFINE F == {m \in suited : m.free}
           P == {m \in suited : ~m.free}
           f == Analysis!Ordered(F, Analysis!ByQuality(suited))
           p == Analysis!Ordered(P, Analysis!ByPrice(suited))
           s == f \o p
<1>1. IsFiniteSet(F) /\ IsFiniteSet(P)
  BY CatalogAssumption, FS_Subset
<1>2. StrictTotal(Analysis!ByQuality(suited), F) /\ StrictTotal(Analysis!ByPrice(suited), P)
  BY KeysAreOrders
<1>3. f \in Seq(F) /\ \A i, j \in 1..Len(f) : i < j => f[i] # f[j]
  BY <1>1, <1>2, OrderedSorts
<1>4. p \in Seq(P) /\ \A i, j \in 1..Len(p) : i < j => p[i] # p[j]
  BY <1>1, <1>2, OrderedSorts
<1> HIDE DEF f, p
<1>5. f \in Seq(models) /\ p \in Seq(models)
  BY <1>3, <1>4
<1>6. /\ s \in Seq(models) /\ Len(s) = Len(f) + Len(p)
      /\ \A i \in 1..(Len(f) + Len(p)) : s[i] = IF i <= Len(f) THEN f[i] ELSE p[i - Len(f)]
  BY <1>5, ConcatProperties
<1>7. \A i \in 1..Len(f) : f[i] \in F
  BY <1>3
<1>8. \A i \in 1..Len(p) : p[i] \in P
  BY <1>4
<1>9. \A m, n \in suited : m.id = n.id => m = n
  BY CatalogAssumption
<1>10. Len(f) \in Nat /\ Len(p) \in Nat
  BY <1>3, <1>4
<1> HIDE DEF s
<1>11. ASSUME NEW i \in 1..Len(s), NEW j \in 1..Len(s), i < j
       PROVE  s[i].id # s[j].id /\ (s[j].free => s[i].free)
  <2>1. CASE j <= Len(f)
    <3>1. i \in 1..Len(f) /\ j \in 1..Len(f) /\ s[i] = f[i] /\ s[j] = f[j]
      BY <1>6, <1>10, <1>11, <2>1
    <3> QED
      BY <1>3, <1>7, <1>9, <1>11, <3>1
  <2>2. CASE i <= Len(f) /\ j > Len(f)
    <3>1. i \in 1..Len(f) /\ j - Len(f) \in 1..Len(p) /\ s[i] = f[i] /\ s[j] = p[j - Len(f)]
      BY <1>6, <1>10, <2>2
    <3> QED
      BY <1>7, <1>8, <1>9, <3>1
  <2>3. CASE i > Len(f)
    <3>1. /\ i - Len(f) \in 1..Len(p) /\ j - Len(f) \in 1..Len(p)
          /\ s[i] = p[i - Len(f)] /\ s[j] = p[j - Len(f)] /\ i - Len(f) < j - Len(f)
      BY <1>6, <1>10, <1>11, <2>3
    <3> QED
      BY <1>4, <1>8, <1>9, <3>1
  <2> QED
    BY <1>6, <1>10, <2>1, <2>2, <2>3
<1>12. Graded(s)
  BY <1>11 DEF Graded
<1> QED
  BY <1>6, <1>12 DEF s, f, p

\* The choice has at most MaxCandidates models of the catalogue, graded.
LEMMA BudgetGraded ==
  ASSUME NEW models \in Catalogs, NEW provider, NEW task, NEW n
  PROVE  LET b == Analysis!BudgetModels(models, provider, task, n)
         IN  b \in Seq(models) /\ Len(b) <= MaxCandidates /\ Graded(b)
<1> DEFINE fitting == {m \in models : /\ m.available /\ provider \in {m.provider, "any"}
                                      /\ Analysis!Fits(m, task.tokens + n)}
           strong  == {m \in fitting : m.quality >= 50}
           suited    == IF Analysis!Heavy(task) /\ strong # {} THEN strong ELSE fitting
           s == Analysis!Ordered({m \in suited : m.free}, Analysis!ByQuality(suited))
                  \o Analysis!Ordered({m \in suited : ~m.free}, Analysis!ByPrice(suited))
           k == Analysis!Lesser(MaxCandidates, Len(s))
           b == SubSeq(s, 1, k)
<1>1. Analysis!BudgetModels(models, provider, task, n) = b
  BY DEF Analysis!BudgetModels
<1>2. suited \in SUBSET models
  OBVIOUS
<1> HIDE DEF suited
<1>3. s \in Seq(models) /\ Graded(s)
  BY <1>2, FreeThenPaid
<1> HIDE DEF s
<1>4. Len(s) \in Nat /\ MaxCandidates \in Nat
  BY <1>3, BoundsAssumption
<1>5. k \in Nat /\ k <= MaxCandidates /\ k <= Len(s)
  BY <1>4 DEF Analysis!Lesser
<1> HIDE DEF k
<1>6. \A i \in 1..k : s[i] \in models
  BY <1>3, <1>4, <1>5
<1>7. 1 \in Int /\ k \in Int
  BY <1>5
<1>8. /\ b \in Seq(models)
      /\ Len(b) = IF 1 <= k THEN k - 1 + 1 ELSE 0
      /\ \A i \in 1..(k - 1 + 1) : b[i] = s[1 + i - 1]
  BY <1>6, <1>7, SubSeqProperties
<1>9. Len(b) = k /\ \A i \in 1..k : b[i] = s[i]
  <2>1. Len(b) = k
    BY <1>5, <1>8
  <2>2. ASSUME NEW i \in 1..k PROVE b[i] = s[i]
    <3>1. i \in 1..(k - 1 + 1) /\ 1 + i - 1 = i
      BY <1>5
    <3>2. b[i] = s[1 + i - 1]
      BY <1>8, <3>1
    <3> QED
      BY <3>1, <3>2
  <2> QED
    BY <2>1, <2>2
<1> HIDE DEF b
<1>10. Graded(b)
  BY <1>3, <1>4, <1>5, <1>9 DEF Graded
<1> QED
  BY <1>1, <1>5, <1>8, <1>9, <1>10

-----------------------------------------------------------------------------
(* The score                                                                *)

\* The part of the latency, and that of the cost.
LEMMA LatencyPart ==
  ASSUME NEW l \in Nat, l <= 10000
  PROVE  LET p == (15000 * (10000 - l)) \div 10000
         IN  p \in Int /\ p >= 0 /\ p <= 15000
OBVIOUS

LEMMA Quotient ==
  ASSUME NEW a \in Nat, NEW b \in Nat \ {0}
  PROVE  a \div b \in Int /\ a \div b >= 0 /\ a \div b <= a /\ (b <= a => a \div b >= 1)
OBVIOUS

LEMMA CostPart ==
  ASSUME NEW cost \in Nat
  PROVE  LET p == 15000 \div (1 + cost)
         IN  p \in Int /\ p >= 0 /\ p <= 15000 /\ (cost < 15000 => p >= 1)
<1>1. 15000 \in Nat /\ 1 + cost \in Nat \ {0} /\ (cost < 15000 => 1 + cost <= 15000)
  OBVIOUS
<1> QED
  BY <1>1, Quotient

\* Without a priority the scores lie within 100,000 of each other, and but for
\* the soft limit and an unheard-of price they are positive.
LEMMA MeritBounds ==
  ASSUME NEW models \in Catalogs, NEW m \in models
  PROVE  /\ Analysis!Merit(m, SoftLimited) \in Int
         /\ Analysis!Merit(m, SoftLimited) <= 100000
         /\ m.provider \notin SoftLimited /\ (m.free \/ m.cost < 15000)
              => Analysis!Merit(m, SoftLimited) > 0
<1> DEFINE latency == Analysis!Lesser(m.latency, 10000)
           l == (15000 * (10000 - latency)) \div 10000
           c == IF m.free THEN 15000 ELSE 15000 \div (1 + m.cost)
           f == IF m.free THEN 1 ELSE 0
           r == IF m.context >= 100000 THEN 1 ELSE 0
           d == IF m.provider \in SoftLimited THEN 30000 ELSE 0
           h == m.health * 400
           q == m.quality * 200
<1>1. /\ m.health \in 0..100 /\ m.quality \in 0..100 /\ m.latency \in Nat /\ m.cost \in Nat
      /\ m.free \in BOOLEAN
  BY CatalogAssumption
<1>2. latency \in Nat /\ latency <= 10000
  BY <1>1 DEF Analysis!Lesser
<1>3. l \in Int /\ l >= 0 /\ l <= 15000
  <2> HIDE DEF latency
  <2> QED
    BY <1>2, LatencyPart
<1>4. c \in Int /\ c >= 0 /\ c <= 15000 /\ (m.free \/ m.cost < 15000 => c >= 1)
  <2>1. CASE m.free
    BY <2>1
  <2>2. CASE ~m.free
    BY <1>1, <2>2, CostPart
  <2> QED
    BY <2>1, <2>2
<1>5. f \in 0..1 /\ r \in 0..1 /\ d \in {0, 30000} /\ (m.provider \notin SoftLimited => d = 0)
  OBVIOUS
<1>6. Analysis!Merit(m, SoftLimited) = h + l + c + q + 5000 * f + 5000 * r - d
  BY DEF Analysis!Merit
<1>7. /\ h \in Int /\ h >= 0 /\ h <= 40000
      /\ q \in Int /\ q >= 0 /\ q <= 20000
  BY <1>1
<1> HIDE DEF l, c, f, r, d, h, q
<1>8. /\ f \in Int /\ f >= 0 /\ f <= 1 /\ r \in Int /\ r >= 0 /\ r <= 1
      /\ d \in Int /\ d >= 0
  BY <1>5
<1>9. h + l + c + q + 5000 * f + 5000 * r - d \in Int
  BY <1>3, <1>4, <1>7, <1>8
<1>10. h + l + c + q + 5000 * f + 5000 * r - d <= 100000
  BY <1>3, <1>4, <1>7, <1>8
<1>11. c >= 1 /\ d = 0 => h + l + c + q + 5000 * f + 5000 * r - d > 0
  BY <1>3, <1>4, <1>7, <1>8
<1> QED
  BY <1>4, <1>5, <1>6, <1>9, <1>10, <1>11

\* A provider of the priority has the part of its only place.
LEMMA PriorityPlace ==
  ASSUME NEW i \in DOMAIN Priority
  PROVE  Analysis!PriorityPart(Priority[i], Priority) = 100000 * (Len(Priority) - i + 1)
<1> DEFINE places == {k \in DOMAIN Priority : Priority[k] = Priority[i]}
<1>1. places = {i}
  BY PriorityAssumption
<1>2. i \in Int
  BY PriorityAssumption
<1>3. Analysis!Max({i}) = i
  BY <1>2 DEF Analysis!Max
<1>4. Analysis!PriorityPart(Priority[i], Priority)
        = IF places = {} THEN 0 ELSE 100000 * (Len(Priority) - Analysis!Max(places) + 1)
  BY DEF Analysis!PriorityPart
<1> HIDE DEF places
<1> QED
  BY <1>1, <1>3, <1>4

\* The place in the priority decides between two models.
LEMMA PriorityDecides ==
  ASSUME NEW models \in Catalogs, NEW m \in models, NEW n \in models,
         NEW i \in DOMAIN Priority, NEW j \in DOMAIN Priority, i < j,
         m.provider = Priority[i], n.provider = Priority[j],
         m.provider \notin SoftLimited, m.free \/ m.cost < 15000
  PROVE  Analysis!Score(m, SoftLimited, Priority) > Analysis!Score(n, SoftLimited, Priority)
<1> DEFINE a == Analysis!Merit(m, SoftLimited)
           b == Analysis!Merit(n, SoftLimited)
<1>1. a \in Int /\ b \in Int /\ a > 0 /\ b <= 100000
  BY MeritBounds
<1>2. i \in Int /\ j \in Int /\ Len(Priority) \in Int
  BY PriorityAssumption
<1>3. Analysis!Score(m, SoftLimited, Priority) = a + 100000 * (Len(Priority) - i + 1)
  BY PriorityPlace DEF Analysis!Score
<1>4. Analysis!Score(n, SoftLimited, Priority) = b + 100000 * (Len(Priority) - j + 1)
  BY PriorityPlace DEF Analysis!Score
<1> HIDE DEF a, b
<1> DEFINE z == Len(Priority)
           u == 100000 * (z - i + 1)
           v == 100000 * (z - j + 1)
<1>5. z \in Int
  BY <1>2
<1> HIDE DEF z
<1>6. u \in Int /\ v \in Int /\ u >= v + 100000
  BY <1>2, <1>5
<1> HIDE DEF u, v
<1>7. a + u > b + v
  BY <1>1, <1>6
<1> QED
  BY <1>3, <1>4, <1>7 DEF u, v, z

-----------------------------------------------------------------------------
(* The requests: the invariant                                              *)

Tries   == [model : Nat, free : BOOLEAN, ok : BOOLEAN, pinned : BOOLEAN]
Records == [request : Nat, attempts : Seq(Tries), status : {"succeeded", "failed"},
            selected : Nat, failover : BOOLEAN]

AnalysisTypes ==
  /\ analysisPlace \in {"idle", "asking", "answered", "failed", "refused", "abandoned"}
  /\ requests \in 0..MaxRequests /\ routerCalls \in Nat
  /\ catalog \in Catalogs \cup {{}} /\ choices \in Seq(catalog)
  /\ attempts \in Seq(Tries)
  /\ history \in Seq(Records) /\ Len(history) <= HistoryLimit
  /\ unrecorded \subseteq catalog

\* While the tool asks, what has failed comes before what is left, in the order
\* of the choice; together they are never more than the choice had.
AskingInOrder ==
  analysisPlace = "asking" =>
    /\ routerCalls = Len(attempts) /\ Len(attempts) + Len(choices) <= MaxCandidates
    /\ Graded(choices)
    /\ \A i \in 1..Len(attempts) : attempts[i].pinned /\ ~attempts[i].ok
    /\ \A i \in 1..Len(attempts), j \in 1..Len(choices) :
         attempts[i].model # choices[j].id /\ (choices[j].free => attempts[i].free)

\* What has failed was asked in that order.
TriedInOrder ==
  /\ routerCalls <= MaxCandidates + 1
  /\ \A i, j \in 1..Len(attempts) :
       /\ i < j /\ attempts[i].pinned /\ attempts[j].pinned
       /\ ~attempts[i].ok /\ ~attempts[j].ok
       => attempts[i].model # attempts[j].model /\ (attempts[j].free => attempts[i].free)

\* The newest record tells the whole request (AnswerExplained).
Told ==
  analysisPlace \in {"answered", "failed"} =>
    /\ history # <<>>
    /\ history[Len(history)].request = requests /\ history[Len(history)].attempts = attempts
    /\ Len(attempts) = routerCalls
    /\ \A i \in 1..Len(attempts) : attempts[i].ok <=> i = Len(attempts) /\ analysisPlace = "answered"
    /\ history[Len(history)].failover <=> routerCalls > 1 \/ analysisPlace = "failed"
    /\ unrecorded # {} /\ ~(routerCalls > 1) => ~attempts[1].pinned \/ Analysis!NameShared
    /\ analysisPlace = "answered" => history[Len(history)].selected \in {m.id : m \in catalog}

AnalysisInv == AnalysisTypes /\ AskingInOrder /\ TriedInOrder /\ Told

\* The numbers that bound a request.
LEMMA AnalysisBounds ==
  MaxCandidates \in Nat /\ MaxRequests \in Nat /\ HistoryLimit \in Nat \ {0}
BY BoundsAssumption

LEMMA AnalysisInit == Analysis!Init => AnalysisInv
<1> SUFFICES ASSUME Analysis!Init PROVE AnalysisInv
  OBVIOUS
<1>1. AnalysisTypes
  BY AnalysisBounds DEF Analysis!Init, AnalysisTypes
<1>2. AskingInOrder /\ TriedInOrder /\ Told
  BY AnalysisBounds DEF Analysis!Init, AskingInOrder, TriedInOrder, Told
<1> QED
  BY <1>1, <1>2 DEF AnalysisInv

-----------------------------------------------------------------------------
(* The requests: the steps, of the tool in auto mode and with a fixed model *)

\* A request arrives, is too long, or is asked of the low-budget choice.
Received ==
  /\ analysisPlace # "asking" /\ requests < MaxRequests
  /\ requests' = requests + 1
  /\ attempts' = <<>> /\ routerCalls' = 0 /\ history' = history /\ unrecorded' = {}
  /\ \/ analysisPlace' = "refused" /\ catalog' = {} /\ choices' = <<>>
     \/ /\ analysisPlace' = "asking" /\ catalog' \in Catalogs
        /\ choices' \in Seq(catalog') /\ Len(choices') <= MaxCandidates /\ Graded(choices')

\* The last attempt of a request succeeds.
Answered ==
  \E try \in Tries, within \in SUBSET catalog :
    /\ analysisPlace = "asking" /\ try.ok /\ try.model \in {m.id : m \in catalog}
    /\ within # {} => ~try.pinned \/ Analysis!NameShared
    /\ Analysis!Conclude(Append(attempts, try), TRUE, within)

\* What is chosen with a fixed model is nothing, and otherwise it is graded.
LEMMA ReceivedEither ==
  ASSUME NEW models \in Catalogs, NEW task,
         Analysis!Receive(models, task) \/ Fixed!Receive(models, task)
  PROVE  Received
<1>1. <<>> \in Seq(models) /\ Len(<<>>) <= MaxCandidates /\ Graded(<<>>)
  BY AnalysisBounds DEF Graded
<1>2. CASE Fixed!Receive(models, task)
  <2>1. Fixed!BudgetChoices(models, task) = <<>>
    BY DataAssumption DEF Fixed!BudgetChoices
  <2> QED
    BY <1>1, <1>2, <2>1 DEF Fixed!Receive, Received
<1>3. CASE Analysis!Receive(models, task)
  <2> DEFINE b == Analysis!BudgetChoices(models, task)
  <2>1. PICK p : b = Analysis!BudgetModels(models, p, task, MaxOutput)
    BY DEF Analysis!BudgetChoices
  <2>2. b \in Seq(models) /\ Len(b) <= MaxCandidates /\ Graded(b)
    BY <2>1, BudgetGraded
  <2> HIDE DEF b
  <2>3. /\ analysisPlace # "asking" /\ requests < MaxRequests
        /\ requests' = requests + 1
        /\ attempts' = <<>> /\ routerCalls' = 0 /\ history' = history /\ unrecorded' = {}
        /\ \/ analysisPlace' = "refused" /\ catalog' = {} /\ choices' = <<>>
           \/ analysisPlace' = "asking" /\ catalog' = models /\ choices' = b
    BY <1>3 DEF Analysis!Receive, b
  <2> QED
    BY <2>2, <2>3 DEF Received
<1> QED
  BY <1>2, <1>3

\* Both instances conclude a request in the same way.
LEMMA SameConclusion ==
  ASSUME NEW tries, NEW ok, NEW within
  PROVE  Fixed!Conclude(tries, ok, within) <=> Analysis!Conclude(tries, ok, within)
BY DEF Fixed!Conclude, Analysis!Conclude, Fixed!Record, Analysis!Record,
       Fixed!Remembered, Analysis!Remembered, Fixed!Last, Analysis!Last

\* The models of a catalogue have natural numbers and are free or not.
LEMMA CatalogFields ==
  ASSUME AnalysisTypes, NEW m \in catalog
  PROVE  m.id \in Nat /\ m.free \in BOOLEAN
BY CatalogAssumption DEF AnalysisTypes

\* No model ranks before itself.
LEMMA NotBeforeItself ==
  ASSUME AnalysisTypes, NEW m \in catalog
  PROVE  <<m, m>> \notin Analysis!ByScore(catalog, SoftLimited, Priority)
<1> DEFINE s == Analysis!Score(m, SoftLimited, Priority)
<1>1. catalog \in Catalogs /\ m.id \in Nat
  BY CatalogFields DEF AnalysisTypes
<1>2. Analysis!Merit(m, SoftLimited) \in Int
  BY <1>1, MeritBounds
<1>3. Analysis!PriorityPart(m.provider, Priority) \in Int
  <2>1. CASE \E i \in DOMAIN Priority : Priority[i] = m.provider
    <3>1. PICK i \in DOMAIN Priority : Priority[i] = m.provider
      BY <2>1
    <3>2. Len(Priority) \in Int /\ i \in Int
      BY PriorityAssumption
    <3>3. 100000 * (Len(Priority) - i + 1) \in Int
      BY <3>2
    <3> QED
      BY <3>1, <3>3, PriorityPlace
  <2>2. CASE {i \in DOMAIN Priority : Priority[i] = m.provider} = {}
    BY <2>2 DEF Analysis!PriorityPart
  <2> QED
    BY <2>1, <2>2
<1>4. s \in Int
  BY <1>2, <1>3 DEF Analysis!Score
<1>5. <<m, m>> \in Analysis!ByScore(catalog, SoftLimited, Priority) => s > s \/ m.id < m.id
  BY DEF Analysis!ByScore
<1> HIDE DEF s
<1> QED
  BY <1>1, <1>4, <1>5

\* What a router call asked in vain before a pinned answer has the name of the model
\* that answered.
LEMMA EarlierShared ==
  ASSUME AnalysisTypes, NEW name, name # "none", NEW served \in catalog,
         served \in Analysis!Eligible(catalog, Analysis!Chat, name),
         NEW within \in SUBSET Analysis!Earlier(name, served), within # {}
  PROVE  Analysis!NameShared
<1>1. PICK m \in within : TRUE
  OBVIOUS
<1>2. /\ m \in Analysis!Eligible(catalog, Analysis!Chat, name)
      /\ <<m, served>> \in Analysis!ByScore(catalog, SoftLimited, Priority)
  BY <1>1 DEF Analysis!Earlier
<1>3. m \in catalog /\ m.name = name /\ served.name = name
  BY <1>2 DEF Analysis!Eligible
<1>4. m # served
  BY <1>2, NotBeforeItself
<1> QED
  BY <1>3, <1>4 DEF Analysis!NameShared

\* Both instances rank alike.
LEMMA SameEarlier ==
  ASSUME NEW name, NEW m
  PROVE  /\ Fixed!Earlier(name, m) = Analysis!Earlier(name, m)
         /\ Fixed!Eligible(catalog, Fixed!Chat, name) = Analysis!Eligible(catalog, Analysis!Chat, name)
<1>1. \A n : Fixed!Merit(n, SoftLimited) = Analysis!Merit(n, SoftLimited)
  BY DEF Fixed!Merit, Analysis!Merit, Fixed!Lesser, Analysis!Lesser
<1>2. \A p : Fixed!PriorityPart(p, Priority) = Analysis!PriorityPart(p, Priority)
  BY DEF Fixed!PriorityPart, Analysis!PriorityPart, Fixed!Max, Analysis!Max
<1>3. Fixed!ByScore(catalog, SoftLimited, Priority) = Analysis!ByScore(catalog, SoftLimited, Priority)
  BY <1>1, <1>2 DEF Fixed!ByScore, Analysis!ByScore, Fixed!Score, Analysis!Score
<1>4. Fixed!Eligible(catalog, Fixed!Chat, name) = Analysis!Eligible(catalog, Analysis!Chat, name)
  BY DEF Fixed!Eligible, Analysis!Eligible, Fixed!Chat, Analysis!Chat
<1> QED
  BY <1>3, <1>4 DEF Fixed!Earlier, Analysis!Earlier

\* A pinned and a ranked answer.
LEMMA AnsweredEither ==
  ASSUME AnalysisTypes, NEW m \in catalog,
         \/ Analysis!PinnedAnswers(m) \/ Analysis!RankedAnswers(m)
         \/ Fixed!PinnedAnswers(m) \/ Fixed!RankedAnswers(m)
  PROVE  Answered
<1> DEFINE pinned == [model |-> m.id, free |-> m.free, ok |-> TRUE, pinned |-> TRUE]
           ranked == [model |-> m.id, free |-> FALSE, ok |-> TRUE, pinned |-> FALSE]
<1>1. pinned \in Tries /\ ranked \in Tries
  BY CatalogFields DEF Tries
<1>2. pinned.ok /\ ranked.ok /\ pinned.model \in {n.id : n \in catalog}
      /\ ranked.model \in {n.id : n \in catalog} /\ ~ranked.pinned
  OBVIOUS
<1>3. /\ analysisPlace = "asking"
      /\ \E within \in SUBSET catalog :
           \/ /\ Analysis!Conclude(Append(attempts, pinned), TRUE, within)
              /\ within # {} => Analysis!NameShared
           \/ Analysis!Conclude(Append(attempts, ranked), TRUE, within)
  <2>1. Analysis!Attempt(m, TRUE) = pinned /\ Analysis!RankedAttempt(m.id, TRUE) = ranked
    BY DEF Analysis!Attempt, Analysis!RankedAttempt
  <2>2. Fixed!Attempt(m, TRUE) = pinned /\ Fixed!RankedAttempt(m.id, TRUE) = ranked
    BY DEF Fixed!Attempt, Fixed!RankedAttempt
  <2>3. \A name : Analysis!Earlier(name, m) \subseteq catalog
    BY Zenon DEF Analysis!Earlier, Analysis!Eligible
  <2>4. \A name : Fixed!Earlier(name, m) = Analysis!Earlier(name, m)
    BY SameEarlier
  <2> HIDE DEF pinned, ranked
  <2>5. CASE Analysis!RankedAnswers(m) \/ Fixed!RankedAnswers(m)
    BY <2>1, <2>2, <2>3, <2>4, <2>5, SameConclusion, Zenon
    DEF Analysis!RankedAnswers, Fixed!RankedAnswers
  <2>6. CASE Analysis!PinnedAnswers(m) \/ Fixed!PinnedAnswers(m)
    <3> DEFINE name == Head(choices).name
    <3>1. /\ analysisPlace = "asking" /\ choices # <<>>
          /\ m \in Analysis!Eligible(catalog, Analysis!Chat, name)
      BY <2>6, SameEarlier, Zenon DEF Analysis!PinnedAnswers, Fixed!PinnedAnswers
    <3>2. PICK within \in SUBSET Analysis!Earlier(name, m) :
             Analysis!Conclude(Append(attempts, pinned), TRUE, within)
      BY <2>1, <2>2, <2>4, <2>6, SameConclusion, Zenon
      DEF Analysis!PinnedAnswers, Fixed!PinnedAnswers
    <3>3. name # "none"
      <4>1. Head(choices) \in catalog
        BY <3>1 DEF AnalysisTypes
      <4> QED
        BY <4>1, CatalogAssumption DEF AnalysisTypes
    <3> HIDE DEF name
    <3>4. within # {} => Analysis!NameShared
      BY <3>1, <3>2, <3>3, EarlierShared
    <3>5. within \in SUBSET catalog
      BY <2>3, <3>2
    <3> QED
      BY <3>1, <3>2, <3>4, <3>5
  <2> QED
    BY <2>5, <2>6
<1> HIDE DEF pinned, ranked
<1>4. PICK within \in SUBSET catalog :
         \/ /\ Analysis!Conclude(Append(attempts, pinned), TRUE, within)
            /\ within # {} => Analysis!NameShared
         \/ Analysis!Conclude(Append(attempts, ranked), TRUE, within)
  BY <1>3
<1>5. CASE /\ Analysis!Conclude(Append(attempts, pinned), TRUE, within)
           /\ within # {} => Analysis!NameShared
  BY <1>1, <1>2, <1>3, <1>5, Zenon DEF Answered
<1>6. CASE Analysis!Conclude(Append(attempts, ranked), TRUE, within)
  BY <1>1, <1>2, <1>3, <1>6, Zenon DEF Answered
<1> QED
  BY <1>4, <1>5, <1>6

\* A failed candidate, the failure of the last resort and an abandoned request
\* are the same steps in both instances.
LEMMA SameFailures ==
  /\ Fixed!PinnedFails => Analysis!PinnedFails
  /\ Fixed!RankedFails => Analysis!RankedFails
  /\ Fixed!Abandoned => Analysis!Abandoned
<1>1. Fixed!PinnedFails => Analysis!PinnedFails
  BY DEF Fixed!PinnedFails, Analysis!PinnedFails, Fixed!Attempt, Analysis!Attempt
<1>2. Fixed!RankedFails => Analysis!RankedFails
  BY SameConclusion, Zenon DEF Fixed!RankedFails, Analysis!RankedFails, Fixed!RankedAttempt, Analysis!RankedAttempt
<1>3. Fixed!Abandoned => Analysis!Abandoned
  BY DEF Fixed!Abandoned, Analysis!Abandoned
<1> QED
  BY <1>1, <1>2, <1>3

\* Whatever the mode, a step of the tool is one of these.
LEMMA AnalysisSteps ==
  ASSUME AnalysisTypes, Analysis!Next \/ Fixed!Next
  PROVE  \/ Received \/ Answered
         \/ Analysis!PinnedFails \/ Analysis!RankedFails \/ Analysis!Abandoned
BY ReceivedEither, AnsweredEither, SameFailures DEF Analysis!Next, Fixed!Next

-----------------------------------------------------------------------------
(* The requests: every step keeps the invariant                             *)

LEMMA ReceivedKeeps == AnalysisInv /\ Received => AnalysisInv'
<1> SUFFICES ASSUME AnalysisInv, Received PROVE AnalysisInv'
  OBVIOUS
<1>1. /\ requests \in 0..MaxRequests /\ requests < MaxRequests /\ MaxRequests \in Nat
      /\ history \in Seq(Records) /\ Len(history) <= HistoryLimit
  BY AnalysisBounds DEF AnalysisInv, AnalysisTypes, Received
<1>2. analysisPlace' \in {"refused", "asking"}
  BY DEF Received
<1>3. attempts' = <<>> /\ Len(attempts') = 0 /\ routerCalls' = 0
  BY DEF Received
<1>4. AnalysisTypes'
  <2>1. catalog' \in Catalogs \cup {{}} /\ choices' \in Seq(catalog')
    <3>1. CASE catalog' = {} /\ choices' = <<>>
      BY <3>1
    <3>2. CASE catalog' \in Catalogs /\ choices' \in Seq(catalog')
      BY <3>2
    <3> QED
      BY <3>1, <3>2 DEF Received
  <2> QED
    BY <1>1, <1>2, <1>3, <2>1 DEF AnalysisTypes, Received
<1>5. AskingInOrder'
  <2> SUFFICES ASSUME analysisPlace' = "asking"
               PROVE  Len(choices') <= MaxCandidates /\ Graded(choices') /\ Len(choices') \in Nat
    BY <1>3 DEF AskingInOrder
  <2> QED
    BY DEF Received
<1>6. TriedInOrder'
  BY <1>3, AnalysisBounds DEF TriedInOrder
<1>7. Told'
  BY <1>2 DEF Told
<1> QED
  BY <1>4, <1>5, <1>6, <1>7 DEF AnalysisInv

\* A failed candidate moves from the choices to the attempts.
LEMMA PinnedFailsKeeps == AnalysisInv /\ Analysis!PinnedFails => AnalysisInv'
<1> SUFFICES ASSUME AnalysisInv, Analysis!PinnedFails PROVE AnalysisInv'
  OBVIOUS
<1> DEFINE c == Head(choices)
           try == [model |-> c.id, free |-> c.free, ok |-> FALSE, pinned |-> TRUE]
<1>1. /\ analysisPlace = "asking" /\ analysisPlace' = "asking" /\ choices # <<>>
      /\ attempts' = Append(attempts, try) /\ choices' = Tail(choices)
      /\ routerCalls' = routerCalls + 1
      /\ UNCHANGED <<catalog, history, requests, unrecorded>>
  BY DEF Analysis!PinnedFails, Analysis!Attempt
<1>2. /\ choices \in Seq(catalog) /\ attempts \in Seq(Tries) /\ routerCalls \in Nat
  BY DEF AnalysisInv, AnalysisTypes
<1>3. /\ routerCalls = Len(attempts) /\ Len(attempts) + Len(choices) <= MaxCandidates
      /\ Graded(choices)
      /\ \A i \in 1..Len(attempts) : attempts[i].pinned /\ ~attempts[i].ok
      /\ \A i \in 1..Len(attempts), j \in 1..Len(choices) :
           attempts[i].model # choices[j].id /\ (choices[j].free => attempts[i].free)
  BY <1>1 DEF AnalysisInv, AskingInOrder
<1>4. c \in catalog /\ c = choices[1] /\ Len(choices) \in Nat /\ Len(choices) > 0
  BY <1>1, <1>2
<1>5. /\ choices' \in Seq(catalog) /\ Len(choices') = Len(choices) - 1
      /\ \A j \in 1..Len(choices') : choices'[j] = choices[j + 1]
  BY <1>1, <1>2
<1>6. try \in Tries
  BY <1>4, CatalogFields DEF Tries, AnalysisInv
<1>7. try.model = c.id /\ (try.free <=> c.free) /\ try.pinned /\ ~try.ok
  OBVIOUS
<1> HIDE DEF try, c
<1>8. /\ attempts' \in Seq(Tries) /\ Len(attempts') = Len(attempts) + 1
      /\ \A i \in 1..Len(attempts) : attempts'[i] = attempts[i]
      /\ attempts'[Len(attempts) + 1] = try
  BY <1>1, <1>2, <1>6, AppendProperties
<1>9. Len(attempts) \in Nat /\ MaxCandidates \in Nat
  BY <1>2, AnalysisBounds
<1>10. AnalysisTypes'
  BY <1>1, <1>2, <1>5, <1>8 DEF AnalysisTypes, AnalysisInv
<1>11. \A i \in 1..Len(attempts') : attempts'[i].pinned /\ ~attempts'[i].ok
  BY <1>3, <1>7, <1>8, <1>9
<1>12. Graded(choices')
  <2> SUFFICES ASSUME NEW i \in 1..Len(choices'), NEW j \in 1..Len(choices'), i < j
               PROVE  choices'[i].id # choices'[j].id /\ (choices'[j].free => choices'[i].free)
    BY DEF Graded
  <2>1. i + 1 \in 1..Len(choices) /\ j + 1 \in 1..Len(choices) /\ i + 1 < j + 1
    BY <1>4, <1>5
  <2>2. /\ choices[i + 1].id # choices[j + 1].id
        /\ choices[j + 1].free => choices[i + 1].free
    BY <1>3, <2>1 DEF Graded
  <2>3. choices'[i] = choices[i + 1] /\ choices'[j] = choices[j + 1]
    BY <1>5
  <2> QED
    BY <2>2, <2>3
<1>13. ASSUME NEW i \in 1..Len(attempts'), NEW j \in 1..Len(choices')
       PROVE  attempts'[i].model # choices'[j].id /\ (choices'[j].free => attempts'[i].free)
  <2>1. j + 1 \in 1..Len(choices) /\ 1 \in 1..Len(choices) /\ 1 < j + 1 /\ choices'[j] = choices[j + 1]
    BY <1>4, <1>5
  <2>2. CASE i <= Len(attempts)
    <3>1. i \in 1..Len(attempts) /\ attempts'[i] = attempts[i]
      BY <1>8, <1>9, <2>2
    <3> QED
      BY <1>3, <2>1, <3>1
  <2>3. CASE i = Len(attempts) + 1
    <3>1. attempts'[i] = try
      BY <1>8, <2>3
    <3>2. choices[1].id # choices[j + 1].id /\ (choices[j + 1].free => choices[1].free)
      BY <1>3, <2>1 DEF Graded
    <3> QED
      BY <1>4, <1>7, <2>1, <3>1, <3>2
  <2> QED
    BY <1>8, <1>9, <2>2, <2>3
<1>14. routerCalls' = Len(attempts') /\ Len(attempts') + Len(choices') <= MaxCandidates
  BY <1>1, <1>3, <1>4, <1>5, <1>8, <1>9
<1>15. AskingInOrder'
  BY <1>11, <1>12, <1>13, <1>14 DEF AskingInOrder
<1>16. TriedInOrder'
  <2>1. routerCalls' <= MaxCandidates + 1
    BY <1>3, <1>4, <1>9, <1>1
  <2>2. ASSUME NEW i \in 1..Len(attempts'), NEW j \in 1..Len(attempts'), i < j
        PROVE  attempts'[i].model # attempts'[j].model /\ (attempts'[j].free => attempts'[i].free)
    <3>1. i \in 1..Len(attempts) /\ attempts'[i] = attempts[i]
      BY <1>8, <1>9, <2>2
    <3>2. CASE j <= Len(attempts)
      <4>1. j \in 1..Len(attempts) /\ attempts'[j] = attempts[j]
        BY <1>8, <1>9, <3>2
      <4> QED
        BY <1>3, <2>2, <3>1, <4>1 DEF AnalysisInv, TriedInOrder
    <3>3. CASE j = Len(attempts) + 1
      <4>1. attempts'[j] = try /\ 1 \in 1..Len(choices)
        BY <1>4, <1>8, <3>3
      <4>2. attempts[i].model # choices[1].id /\ (choices[1].free => attempts[i].free)
        BY <1>3, <3>1, <4>1
      <4> QED
        BY <1>4, <1>7, <3>1, <4>1, <4>2
    <3> QED
      BY <1>8, <1>9, <3>2, <3>3
  <2> QED
    BY <2>1, <2>2 DEF TriedInOrder
<1>17. Told'
  BY <1>1 DEF Told
<1> QED
  BY <1>10, <1>15, <1>16, <1>17 DEF AnalysisInv

\* The history keeps its limit and has the new record as its last.
LEMMA RememberedLast ==
  ASSUME history \in Seq(Records), Len(history) <= HistoryLimit, NEW record \in Records
  PROVE  /\ Analysis!Remembered(record) \in Seq(Records)
         /\ Len(Analysis!Remembered(record)) <= HistoryLimit
         /\ Analysis!Remembered(record) # <<>>
         /\ Analysis!Remembered(record)[Len(Analysis!Remembered(record))] = record
<1> DEFINE h == IF Len(history) < HistoryLimit THEN history ELSE Tail(history)
<1>1. HistoryLimit \in Nat \ {0} /\ Len(history) \in Nat
  BY AnalysisBounds
<1>2. h \in Seq(Records) /\ Len(h) < HistoryLimit
  <2>1. CASE Len(history) < HistoryLimit
    BY <2>1
  <2>2. CASE ~(Len(history) < HistoryLimit)
    <3>1. history # <<>>
      BY <1>1, <2>2
    <3>2. Tail(history) \in Seq(Records) /\ Len(Tail(history)) = Len(history) - 1
      BY <3>1
    <3> QED
      BY <1>1, <2>2, <3>2
  <2> QED
    BY <2>1, <2>2
<1>3. Analysis!Remembered(record) = Append(h, record)
  BY DEF Analysis!Remembered
<1> HIDE DEF h
<1>4. /\ Append(h, record) \in Seq(Records) /\ Append(h, record) # <<>>
      /\ Len(Append(h, record)) = Len(h) + 1 /\ Append(h, record)[Len(h) + 1] = record
  BY <1>2, AppendProperties
<1>5. Len(h) \in Nat
  BY <1>2
<1> QED
  BY <1>1, <1>2, <1>3, <1>4, <1>5

\* The last attempt is recorded and ends the request: it succeeded with a model
\* of the catalogue, or it was the router's own choice and failed.
LEMMA ConcludedKeeps ==
  ASSUME AnalysisInv, analysisPlace = "asking", NEW try \in Tries, NEW ok \in BOOLEAN,
         try.ok <=> ok, ok => try.model \in {m.id : m \in catalog}, ~ok => ~try.pinned,
         NEW within \in SUBSET catalog, within # {} => ~try.pinned \/ Analysis!NameShared,
         Analysis!Conclude(Append(attempts, try), ok, within)
  PROVE  AnalysisInv'
<1> DEFINE tries == Append(attempts, try)
           record == Analysis!Record(tries, ok)
<1>1. /\ choices \in Seq(catalog) /\ attempts \in Seq(Tries) /\ routerCalls \in Nat
      /\ requests \in 0..MaxRequests /\ history \in Seq(Records) /\ Len(history) <= HistoryLimit
      /\ catalog \in Catalogs \cup {{}} /\ MaxRequests \in Nat /\ MaxCandidates \in Nat
  BY AnalysisBounds DEF AnalysisInv, AnalysisTypes
<1>2. /\ routerCalls = Len(attempts) /\ Len(attempts) + Len(choices) <= MaxCandidates
      /\ \A i \in 1..Len(attempts) : attempts[i].pinned /\ ~attempts[i].ok
  BY DEF AnalysisInv, AskingInOrder
<1>3. Len(attempts) \in Nat /\ Len(choices) \in Nat
  BY <1>1
<1>4. /\ tries \in Seq(Tries) /\ tries # <<>> /\ Len(tries) = Len(attempts) + 1
      /\ \A i \in 1..Len(attempts) : tries[i] = attempts[i]
      /\ tries[Len(attempts) + 1] = try
  BY <1>1, AppendProperties
<1>5. /\ attempts' = tries /\ history' = Analysis!Remembered(record)
      /\ analysisPlace' = (IF ok THEN "answered" ELSE "failed")
      /\ choices' = <<>> /\ routerCalls' = routerCalls + 1
      /\ catalog' = catalog /\ requests' = requests /\ unrecorded' = within
  BY DEF Analysis!Conclude
<1>6. record = [request |-> requests, attempts |-> tries,
                status |-> IF ok THEN "succeeded" ELSE "failed",
                selected |-> IF ok THEN tries[Len(tries)].model ELSE 0,
                failover |-> \E i \in DOMAIN tries : ~tries[i].ok]
  BY DEF Analysis!Record, Analysis!Last
<1> HIDE DEF tries, record
<1>7. \A i \in 1..Len(tries) : tries[i].ok <=> i = Len(tries) /\ ok
  BY <1>2, <1>3, <1>4
<1>8. (\E i \in DOMAIN tries : ~tries[i].ok) <=> Len(tries) > 1 \/ ~ok
  <2>1. DOMAIN tries = 1..Len(tries) /\ Len(tries) \in Nat /\ Len(tries) >= 1
    BY <1>3, <1>4
  <2>2. 1 \in DOMAIN tries /\ Len(tries) \in DOMAIN tries
    BY <2>1
  <2>3. CASE ok
    <3>1. \A i \in DOMAIN tries : ~tries[i].ok <=> i # Len(tries)
      BY <1>7, <2>1, <2>3
    <3>2. CASE Len(tries) > 1
      BY <2>2, <3>1, <3>2
    <3>3. CASE ~(Len(tries) > 1)
      <4>1. \A i \in DOMAIN tries : i = Len(tries)
        BY <2>1, <3>3
      <4> QED
        BY <2>3, <3>1, <3>3, <4>1
    <3> QED
      BY <3>2, <3>3
  <2>4. CASE ~ok
    <3>1. ~tries[Len(tries)].ok
      BY <1>7, <2>1, <2>2, <2>4
    <3> QED
      BY <2>2, <2>4, <3>1
  <2> QED
    BY <2>3, <2>4
<1>9. /\ record.request = requests /\ record.attempts = tries
      /\ record.selected = (IF ok THEN try.model ELSE 0)
      /\ record.failover <=> (\E i \in DOMAIN tries : ~tries[i].ok)
  BY <1>4, <1>6
<1>10. record \in Records
  <2>1. try.model \in Nat
    BY DEF Tries
  <2>2. (\E i \in DOMAIN tries : ~tries[i].ok) \in BOOLEAN
    OBVIOUS
  <2>3. (IF ok THEN tries[Len(tries)].model ELSE 0) \in Nat
    BY <1>4, <2>1
  <2> QED
    BY <1>1, <1>4, <1>6, <2>2, <2>3 DEF Records
<1>11. /\ history' \in Seq(Records) /\ Len(history') <= HistoryLimit /\ history' # <<>>
       /\ history'[Len(history')] = record
  BY <1>1, <1>5, <1>10, RememberedLast
<1>12. AnalysisTypes'
  <2>1. choices' \in Seq(catalog') /\ analysisPlace' \in {"answered", "failed"}
    BY <1>5
  <2> QED
    BY <1>1, <1>4, <1>5, <1>11, <2>1 DEF AnalysisTypes
<1>13. AskingInOrder'
  BY <1>5 DEF AskingInOrder
<1>14. TriedInOrder'
  <2>1. routerCalls' <= MaxCandidates + 1
    BY <1>1, <1>2, <1>3, <1>5
  <2>2. ASSUME NEW i \in 1..Len(tries), NEW j \in 1..Len(tries), i < j,
               tries[j].pinned, ~tries[j].ok
        PROVE  tries[i].model # tries[j].model /\ (tries[j].free => tries[i].free)
    <3>1. j # Len(attempts) + 1
      BY <1>4, <2>2
    <3>2. i \in 1..Len(attempts) /\ j \in 1..Len(attempts)
      BY <1>3, <1>4, <2>2, <3>1
    <3>3. tries[i] = attempts[i] /\ tries[j] = attempts[j]
      BY <1>4, <3>2
    <3> QED
      BY <1>2, <2>2, <3>2, <3>3 DEF AnalysisInv, TriedInOrder
  <2> QED
    BY <1>5, <2>1, <2>2 DEF TriedInOrder
<1>15. Told'
  <2>1. Len(tries) = routerCalls'
    BY <1>2, <1>4, <1>5
  <2>2. analysisPlace' = "answered" <=> ok
    BY <1>5
  <2>3. analysisPlace' = "failed" <=> ~ok
    BY <1>5
  <2>4. \A i \in 1..Len(tries) : tries[i].ok <=> i = Len(tries) /\ analysisPlace' = "answered"
    BY <1>7, <2>2
  <2>5. record.failover <=> routerCalls' > 1 \/ analysisPlace' = "failed"
    BY <1>8, <1>9, <2>1, <2>3
  <2>6. analysisPlace' = "answered" => record.selected \in {m.id : m \in catalog}
    BY <1>9, <2>2
  <2>7. unrecorded' # {} /\ ~(routerCalls' > 1)
          => ~attempts'[1].pinned \/ Analysis!NameShared'
    <3> SUFFICES ASSUME unrecorded' # {}, ~(routerCalls' > 1)
                 PROVE  ~attempts'[1].pinned \/ Analysis!NameShared'
      OBVIOUS
    <3>1. within # {} /\ attempts'[1] = try
      BY <1>3, <1>4, <1>5, <2>1
    <3>2. Analysis!NameShared' <=> Analysis!NameShared
      BY <1>5 DEF Analysis!NameShared
    <3> QED
      BY <3>1, <3>2
  <2> QED
    BY <1>5, <1>9, <1>11, <2>1, <2>4, <2>5, <2>6, <2>7 DEF Told
<1> QED
  BY <1>12, <1>13, <1>14, <1>15 DEF AnalysisInv

\* A deadline or a cancellation leaves everything but the place.
LEMMA AbandonedKeeps == AnalysisInv /\ Analysis!Abandoned => AnalysisInv'
<1> SUFFICES ASSUME AnalysisInv, Analysis!Abandoned PROVE AnalysisInv'
  OBVIOUS
<1>1. analysisPlace' = "abandoned"
      /\ UNCHANGED <<catalog, choices, attempts, history, requests, routerCalls, unrecorded>>
  BY DEF Analysis!Abandoned
<1> QED
  BY <1>1 DEF AnalysisInv, AnalysisTypes, AskingInOrder, TriedInOrder, Told

\* Every step of the tool keeps the invariant.
LEMMA AnalysisStep ==
  ASSUME AnalysisInv, Analysis!Next \/ Fixed!Next \/ UNCHANGED analysisVars
  PROVE  AnalysisInv'
<1>1. CASE Answered
  <2>1. PICK try \in Tries, within \in SUBSET catalog :
          /\ analysisPlace = "asking" /\ try.ok /\ try.model \in {m.id : m \in catalog}
          /\ within # {} => ~try.pinned \/ Analysis!NameShared
          /\ Analysis!Conclude(Append(attempts, try), TRUE, within)
    BY <1>1 DEF Answered
  <2>2. try.ok <=> TRUE
    BY <2>1
  <2> QED
    BY <2>1, <2>2, ConcludedKeeps, Zenon
<1>2. CASE Analysis!RankedFails
  <2> DEFINE try == [model |-> 0, free |-> FALSE, ok |-> FALSE, pinned |-> FALSE]
  <2>1. try \in Tries /\ ~try.ok /\ ~try.pinned
    BY DEF Tries
  <2>2. analysisPlace = "asking" /\ Analysis!Conclude(Append(attempts, try), FALSE, {})
    BY <1>2 DEF Analysis!RankedFails, Analysis!RankedAttempt
  <2>3. {} \in SUBSET catalog /\ FALSE \in BOOLEAN /\ (try.ok <=> FALSE)
    BY <2>1
  <2> HIDE DEF try
  <2> QED
    BY <2>1, <2>2, <2>3, ConcludedKeeps, Zenon
<1>3. CASE UNCHANGED analysisVars
  BY <1>3 DEF analysisVars, AnalysisInv, AnalysisTypes, AskingInOrder, TriedInOrder, Told,
              Analysis!NameShared
<1> QED
  BY <1>1, <1>2, <1>3, AnalysisSteps, ReceivedKeeps, PinnedFailsKeeps, AbandonedKeeps
  DEF AnalysisInv

-----------------------------------------------------------------------------
(* The configuration                                                        *)

\* The configuration counts as this module does.
LEMMA ConfigCount == \A S : Config!Cardinality(S) = Cardinality(S)
BY Zenon DEF Config!Cardinality, Config!IsFiniteSet, Cardinality, IsFiniteSet

\* A list without duplicates has each name at one place.
LEMMA NamedOnce ==
  ASSUME NEW T, NEW names \in Seq(T)
  PROVE  ~Config!Duplicates(names) <=>
           \A i, j \in DOMAIN names : names[i] = names[j] => i = j
<1> DEFINE D == 1..Len(names)
           V == Config!Range(names)
<1>1. DOMAIN names = D /\ Len(names) \in Nat
  OBVIOUS
<1>2. IsFiniteSet(D) /\ Cardinality(D) = Len(names)
  <2>1. 1 \in Int /\ Len(names) \in Int
    BY <1>1
  <2>2. IsFiniteSet(D) /\ Cardinality(D) = IF 1 > Len(names) THEN 0 ELSE Len(names) - 1 + 1
    BY <2>1, FS_Interval, Zenon
  <2> QED
    BY <1>1, <2>2
<1>3. names \in Surjection(D, V)
  <2>1. names = [i \in D |-> names[i]]
    BY <1>1
  <2>2. \A i \in D : names[i] \in V
    BY <1>1 DEF Config!Range
  <2>3. names \in [D -> V]
    BY <2>1, <2>2, Zenon
  <2>4. \A v \in V : \E i \in D : names[i] = v
    BY <1>1 DEF Config!Range
  <2> QED
    BY <2>3, <2>4, Zenon DEF Surjection
<1> HIDE DEF D, V
<1>4. IsFiniteSet(V) /\ (Cardinality(V) = Cardinality(D) <=> names \in Injection(D, V))
  BY <1>2, <1>3, FS_Surjection
<1>5. names \in [D -> V]
  BY <1>3, Zenon DEF Surjection
<1>6. names \in Injection(D, V) <=> \A i, j \in D : names[i] = names[j] => i = j
  BY <1>5, Zenon DEF Injection, IsInjective
<1>7. Config!Duplicates(names) <=> Cardinality(V) # Len(names)
  BY ConfigCount DEF Config!Duplicates, V
<1> QED
  BY <1>1, <1>2, <1>4, <1>6, <1>7

\* The places of a list come in order.
InOrder(places) == {p \in places \X places : p[1] < p[2]}

\* What is kept of a list are the names of the set, each as often as before.
LEMMA KeptNames ==
  ASSUME NEW T, NEW names \in Seq(T), NEW chosen
  PROVE  LET kept == Config!Kept(names, chosen) IN
         /\ kept \in Seq(T)
         /\ Config!Range(kept) = Config!Range(names) \cap chosen
         /\ (\A i, j \in DOMAIN names : names[i] = names[j] => i = j)
              => \A k, l \in DOMAIN kept : kept[k] = kept[l] => k = l
<1> DEFINE kept   == Config!Kept(names, chosen)
           places == {i \in DOMAIN names : names[i] \in chosen}
           R      == InOrder(places)
           n      == Cardinality(places)
           At(k)  == CHOOSE i \in places : Cardinality(Before(R, places, i)) = k - 1
<1>1. places \subseteq Nat /\ IsFiniteSet(places) /\ n \in Nat
  <2>1. DOMAIN names = 1..Len(names) /\ Len(names) \in Nat
    OBVIOUS
  <2>2. IsFiniteSet(1..Len(names))
    BY <2>1, FS_Interval
  <2>3. places \subseteq 1..Len(names)
    BY <2>1
  <2> QED
    BY <2>1, <2>2, <2>3, FS_Subset, FS_CardinalityType
<1>2. StrictTotal(R, places)
  BY <1>1 DEF StrictTotal, InOrder
<1>3. ASSUME NEW i \in places
      PROVE  {j \in places : j < i} = Before(R, places, i)
  BY <1>3 DEF Before, InOrder
<1>4. kept = [k \in 1..n |-> names[At(k)]]
  <2>1. kept = [k \in 1..Config!Cardinality(places) |->
                  names[CHOOSE i \in places : Config!Cardinality({j \in places : j < i}) = k - 1]]
    BY DEF Config!Kept
  <2>2. ASSUME NEW k \in 1..n
        PROVE  (CHOOSE i \in places : Config!Cardinality({j \in places : j < i}) = k - 1) = At(k)
    <3> DEFINE A(i) == Config!Cardinality({j \in places : j < i}) = k - 1
               B(i) == Cardinality(Before(R, places, i)) = k - 1
    <3>1. \A i \in places : A(i) <=> B(i)
      BY <1>3, ConfigCount
    <3> HIDE DEF A, B, places
    <3>2. (CHOOSE i \in places : A(i)) = (CHOOSE i \in places : B(i))
      BY <3>1
    <3> QED
      BY <3>2 DEF A, B, places
  <2>3. Config!Cardinality(places) = n
    BY ConfigCount
  <2> QED
    BY <2>1, <2>2, <2>3
<1> HIDE DEF places, R
<1>5. ASSUME NEW k \in 1..n
      PROVE  At(k) \in places /\ Cardinality(Before(R, places, At(k))) = k - 1
  <2>1. \E i \in places : Cardinality(Before(R, places, i)) = k - 1
    BY <1>1, <1>2, EveryPlaceTaken
  <2> QED
    BY <2>1
<1>6. ASSUME NEW i \in places
      PROVE  \E k \in 1..n : At(k) = i
  <2> DEFINE c == Cardinality(Before(R, places, i))
  <2>1. c \in Nat /\ c < n
    BY <1>1, <1>2, CountsPredecessors
  <2>2. PICK k \in 1..n : k - 1 = c
    <3> HIDE DEF c, n
    <3>1. c + 1 \in 1..n /\ (c + 1) - 1 = c
      BY <1>1, <2>1 DEF n
    <3> QED
      BY <3>1
  <2>3. At(k) \in places /\ Cardinality(Before(R, places, At(k))) = c
    BY <1>5, <2>2
  <2>4. \A a, b \in places : <<a, b>> \in R
           => Cardinality(Before(R, places, a)) < Cardinality(Before(R, places, b))
    BY <1>1, <1>2, CountsPredecessors
  <2> HIDE DEF At
  <2>5. <<At(k), i>> \notin R /\ <<i, At(k)>> \notin R
    BY <2>1, <2>3, <2>4
  <2>6. At(k) = i
    BY <1>2, <2>3, <2>5 DEF StrictTotal
  <2> QED
    BY <2>2, <2>6
<1> HIDE DEF At
<1>7. \A i \in places : i \in DOMAIN names /\ names[i] \in chosen /\ names[i] \in T
  BY DEF places
<1>8. \A i \in DOMAIN names : names[i] \in chosen => i \in places
  BY DEF places
<1> HIDE DEF kept, n
<1>9. DOMAIN kept = 1..n /\ \A k \in 1..n : kept[k] = names[At(k)] /\ At(k) \in places
  BY <1>4, <1>5
<1>a. kept \in Seq(T)
  <2>1. \A k \in 1..n : names[At(k)] \in T
    BY <1>5, <1>7
  <2> QED
    BY <1>1, <1>4, <2>1 DEF n
<1>b. Config!Range(kept) = Config!Range(names) \cap chosen
  <2>1. ASSUME NEW v \in Config!Range(kept) PROVE v \in Config!Range(names) \cap chosen
    BY <1>7, <1>9 DEF Config!Range
  <2>2. ASSUME NEW v \in Config!Range(names) \cap chosen PROVE v \in Config!Range(kept)
    <3>1. PICK i \in DOMAIN names : names[i] = v
      BY DEF Config!Range
    <3>2. PICK k \in 1..n : At(k) = i
      BY <1>6, <1>8, <3>1
    <3> QED
      BY <1>9, <3>1, <3>2 DEF Config!Range
  <2> QED
    BY <2>1, <2>2
<1>c. ASSUME \A i, j \in DOMAIN names : names[i] = names[j] => i = j,
             NEW k \in 1..n, NEW l \in 1..n, kept[k] = kept[l]
      PROVE  k = l
  <2>1. At(k) = At(l)
    BY <1>7, <1>9, <1>c
  <2>2. k - 1 = l - 1
    BY <1>5, <2>1
  <2> QED
    BY <2>2, <1>1 DEF n
<1> QED
  BY <1>9, <1>a, <1>b, <1>c DEF kept

\* So is the explicit priority of the router: the names of the providers.
LEMMA PriorityKept ==
  ASSUME NEW s \in Environments, NEW providers, Config!ListAccepted(s.priority)
  PROVE  LET priority == Config!ExplicitPriority(s, providers) IN
         /\ ~Config!Duplicates(priority)
         /\ Config!Range(priority) = Config!Range(s.priority) \cap providers
         /\ priority # <<>> => Config!Range(s.priority) \cap providers # {}
<1> DEFINE T == Config!Range(s.priority)
           priority == Config!ExplicitPriority(s, providers)
<1>1. s.priority \in Seq(T)
  BY SettingsAssumption
<1>2. \A i, j \in DOMAIN s.priority : s.priority[i] = s.priority[j] => i = j
  BY <1>1, NamedOnce DEF Config!ListAccepted
<1>3. /\ priority \in Seq(T) /\ Config!Range(priority) = T \cap providers
      /\ \A k, l \in DOMAIN priority : priority[k] = priority[l] => k = l
  BY <1>1, <1>2, KeptNames DEF Config!ExplicitPriority
<1>4. ~Config!Duplicates(priority)
  BY <1>3, NamedOnce
<1>5. priority # <<>> => Config!Range(priority) # {}
  <2> HIDE DEF priority, T
  <2>1. ASSUME priority # <<>> PROVE 1 \in DOMAIN priority
    BY <1>3, <2>1
  <2> QED
    BY <2>1 DEF Config!Range
<1> QED
  BY <1>3, <1>4, <1>5

\* What the start of the process has established at each phase.
ConfigInv ==
  /\ Config!TypeOK
  /\ phase \notin {"start", "rejected"} => settings \in Environments /\ Config!SettingsAccepted(settings)
  /\ installed \in {{}, Config!Plugins(settings)}
  /\ phase = "start" => installed = {}
  /\ phase = "failed" => Config!Unjudged(settings)
  /\ phase \in {"routed", "built"} =>
       /\ router.providers = Config!Enabled(settings)
       /\ router.priority # <<>> => Config!Range(router.priority) = router.providers
       /\ Config!Range(settings.priority) \cap router.providers = Config!Range(router.priority)

LEMMA ConfigInit == Config!Init => ConfigInv
<1> SUFFICES ASSUME Config!Init PROVE ConfigInv
  OBVIOUS
<1>1. DOMAIN settings = {}
  BY DEF Config!Init
<1>2. router.providers = {}
  BY DEF Config!Init, Config!NoRouter
<1> QED
  BY <1>1, <1>2 DEF Config!Init, ConfigInv, Config!TypeOK

LEMMA LoadKeeps ==
  ASSUME ConfigInv, NEW found \in Environments, Config!Load(found)
  PROVE  ConfigInv'
<1>1. /\ phase = "start" /\ settings' = found /\ UNCHANGED <<installed, router, tools>>
      /\ phase' = IF Config!SettingsAccepted(found) THEN "accepted" ELSE "rejected"
  BY DEF Config!Load
<1>2. installed = {}
  BY <1>1 DEF ConfigInv
<1>3. DOMAIN settings' = Config!Sections
  BY <1>1, SettingsAssumption
<1>4. Config!TypeOK'
  BY <1>1, <1>3 DEF ConfigInv, Config!TypeOK
<1>5. phase' = "accepted" => Config!SettingsAccepted(settings')
  BY <1>1, Zenon
<1>6. phase' \in {"accepted", "rejected"}
  BY <1>1
<1> QED
  BY <1>1, <1>2, <1>4, <1>5, <1>6 DEF ConfigInv

LEMMA DiscoverKeeps ==
  ASSUME ConfigInv, Config!Discover
  PROVE  ConfigInv'
<1>1. /\ phase = "accepted" /\ installed = {} /\ installed' = Config!Plugins(settings)
      /\ UNCHANGED <<phase, settings, router, tools>>
  BY DEF Config!Discover
<1>2. Config!Plugins(settings) \subseteq BuiltIn \cup Presets
  BY DEF Config!Plugins
<1>3. Config!TypeOK'
  BY <1>1, <1>2 DEF ConfigInv, Config!TypeOK
<1> QED
  BY <1>1, <1>3 DEF ConfigInv

\* A router that cannot be built has a fault no validator could see.
LEMMA RouterFault ==
  ASSUME NEW s \in Environments, Config!SettingsAccepted(s), NEW plugins, plugins = Config!Plugins(s),
         ~Config!Unjudged(s)
  PROVE  LET providers == Config!Enabled(s) \cap plugins
             priority  == Config!ExplicitPriority(s, providers)
         IN /\ Config!Enabled(s) \subseteq plugins /\ Config!Range(s.priority) \subseteq plugins
            /\ \A name \in providers : Config!AdapterAccepts(name, s.providers[name])
            /\ Config!RouterAccepts(providers, priority, s.backoff)
<1> DEFINE providers == Config!Enabled(s) \cap plugins
           priority  == Config!ExplicitPriority(s, providers)
<1>1. /\ Config!Enabled(s) \subseteq plugins /\ Config!Range(s.priority) \subseteq plugins
      /\ "openrouter" \in Config!Enabled(s) => s.providers["openrouter"].via = "attribute"
      /\ Config!Range(s.priority) \cap Config!Enabled(s) # {}
           => Config!Enabled(s) \subseteq Config!Range(s.priority)
  BY DEF Config!Unjudged
<1>2. providers = Config!Enabled(s)
  BY <1>1
<1>3. /\ \A name \in DOMAIN s.providers : Config!ProviderAccepted(s.providers[name])
      /\ Config!ListAccepted(s.priority) /\ s.backoff[1] >= 0 /\ s.backoff[2] >= s.backoff[1]
  BY DEF Config!SettingsAccepted
<1>4. ASSUME NEW name \in providers PROVE Config!AdapterAccepts(name, s.providers[name])
  <2>1. name \in DOMAIN s.providers /\ s.providers[name].enabled
    BY DEF Config!Enabled
  <2>2. /\ s.providers[name].url = "https"
        /\ s.providers[name].key = "set" /\ s.providers[name].model = "named"
    BY <1>3, <2>1 DEF Config!ProviderAccepted
  <2>3. name = "openrouter" => s.providers[name].via = "attribute"
    BY <1>1, <1>2
  <2> QED
    BY <2>2, <2>3 DEF Config!AdapterAccepts
<1>5. /\ ~Config!Duplicates(priority)
      /\ Config!Range(priority) = Config!Range(s.priority) \cap providers
      /\ priority # <<>> => Config!Range(s.priority) \cap providers # {}
  BY <1>3, PriorityKept
<1> HIDE DEF priority, providers
<1>6. priority # <<>> => Config!Range(priority) = providers
  BY <1>1, <1>2, <1>5
<1>7. Config!RouterAccepts(providers, priority, s.backoff)
  BY <1>3, <1>5, <1>6 DEF Config!RouterAccepts
<1> QED
  BY <1>1, <1>4, <1>7 DEF priority, providers

\* Nor can it see which of the stock sources the priority leaves.
LEMMA StockFault ==
  ASSUME NEW s \in Environments, Config!SettingsAccepted(s), ~Config!Unjudged(s)
  PROVE  Config!StockBuilds(s.stock)
<1> DEFINE stock == s.stock
           names == {"yahoo_finance", "alpha_vantage"}
<1>1. SUFFICES ASSUME stock.enabled
               PROVE  /\ Config!Range(Config!StockOrder(stock)) \subseteq names
                      /\ Config!StockProviders(stock) # <<>> /\ stock.maxBackoff >= stock.backoff
  BY DEF Config!StockBuilds
<1>2. Config!StockProviders(stock) # <<>> /\ Config!Range(stock.priority) \subseteq names
  BY <1>1 DEF Config!Unjudged
<1>3. stock.maxBackoff >= stock.backoff
  BY DEF Config!SettingsAccepted, Config!StockAccepted
<1>4. ASSUME stock.priority = <<>> PROVE FALSE
  <2> DEFINE sources == Config!StockSources(stock)
             kept    == Config!Kept(<<"nameless">>, sources)
  <2>1. Config!StockProviders(stock) = kept
    BY <1>4 DEF Config!StockProviders, Config!StockOrder
  <2>2. <<"nameless">> \in Seq({"nameless"})
    OBVIOUS
  <2>3. Config!Range(<<"nameless">>) \cap sources = {}
    BY DEF Config!Range, Config!StockSources
  <2>4. kept \in Seq({"nameless"}) /\ Config!Range(kept) = {}
    <3> HIDE DEF sources
    <3> QED
      BY <2>2, <2>3, KeptNames
  <2> HIDE DEF kept
  <2>5. kept # <<>> => 1 \in DOMAIN kept
    BY <2>4
  <2>6. kept = <<>>
    BY <2>4, <2>5 DEF Config!Range
  <2> QED
    BY <1>2, <2>1, <2>6
<1>5. Config!StockOrder(stock) = stock.priority
  BY <1>4 DEF Config!StockOrder
<1> QED
  BY <1>2, <1>3, <1>5

LEMMA BuildRouterKeeps ==
  ASSUME ConfigInv, Config!BuildRouter
  PROVE  ConfigInv'
<1> DEFINE providers == Config!Enabled(settings) \cap installed
           priority  == Config!ExplicitPriority(settings, providers)
           builds    == /\ Config!Enabled(settings) \subseteq installed
                        /\ Config!Range(settings.priority) \subseteq installed
                        /\ \A name \in providers :
                             Config!AdapterAccepts(name, settings.providers[name])
                        /\ Config!RouterAccepts(providers, priority, settings.backoff)
<1>1. /\ phase = "accepted" /\ installed # {} /\ UNCHANGED <<settings, installed, tools>>
      /\ IF builds THEN phase' = "routed" /\ router' = [providers |-> providers, priority |-> priority]
                   ELSE phase' = "failed" /\ UNCHANGED router
  BY DEF Config!BuildRouter
<1>2. /\ settings \in Environments /\ Config!SettingsAccepted(settings)
      /\ installed = Config!Plugins(settings)
  BY <1>1 DEF ConfigInv
<1>3. CASE builds
  <2>1. Config!ListAccepted(settings.priority)
    BY <1>2 DEF Config!SettingsAccepted
  <2>2. Config!Range(priority) = Config!Range(settings.priority) \cap providers
    BY <1>2, <2>1, PriorityKept
  <2>3. priority # <<>> => Config!Range(priority) = providers
    BY <1>3 DEF Config!RouterAccepts
  <2>4. providers = Config!Enabled(settings)
    BY <1>3
  <2>5. phase' = "routed" /\ router'.providers = providers /\ router'.priority = priority
    BY <1>1, <1>3
  <2>6. providers \subseteq installed
    OBVIOUS
  <2> HIDE DEF providers, priority, builds
  <2>7. Config!TypeOK'
    BY <1>1, <2>5, <2>6 DEF ConfigInv, Config!TypeOK
  <2> QED
    BY <1>1, <1>2, <2>2, <2>3, <2>4, <2>5, <2>7 DEF ConfigInv
<1>4. CASE ~builds
  <2>1. Config!Unjudged(settings)
    BY <1>2, <1>4, RouterFault
  <2>2. phase' = "failed" /\ UNCHANGED router
    BY <1>1, <1>4
  <2> HIDE DEF builds
  <2>3. Config!TypeOK'
    BY <1>1, <2>2 DEF ConfigInv, Config!TypeOK
  <2>4. Config!Unjudged(settings)'
    BY <1>1, <2>1
  <2> QED
    BY <1>1, <1>2, <2>2, <2>3, <2>4 DEF ConfigInv
<1> QED
  BY <1>3, <1>4

LEMMA BuildToolsKeeps ==
  ASSUME ConfigInv, Config!BuildTools
  PROVE  ConfigInv'
<1>1. /\ phase = "routed" /\ UNCHANGED <<settings, installed, router>>
      /\ IF Config!StockBuilds(settings.stock)
         THEN phase' = "built" /\ tools' = Config!ToolsOf(settings)
         ELSE phase' = "failed" /\ UNCHANGED tools
  BY DEF Config!BuildTools
<1>2. settings \in Environments /\ Config!SettingsAccepted(settings)
  BY <1>1 DEF ConfigInv
<1>3. Config!ToolsOf(settings) \subseteq {"system_status", "stock_price", "website_reader", "sql_query",
                                          "csv_analysis", "currency_converter", "llm_analysis"}
  BY DEF Config!ToolsOf
<1>4. phase' = "failed" => Config!Unjudged(settings)
  BY <1>1, <1>2, StockFault
<1>5. phase' \in {"failed", "built"} /\ tools' \in {tools, Config!ToolsOf(settings)}
  BY <1>1
<1>6. Config!TypeOK'
  BY <1>1, <1>3, <1>5 DEF ConfigInv, Config!TypeOK
<1>7. phase' = "failed" => Config!Unjudged(settings)'
  BY <1>1, <1>4
<1> QED
  BY <1>1, <1>2, <1>5, <1>6, <1>7 DEF ConfigInv

LEMMA ConfigStep ==
  ASSUME ConfigInv, Config!Next \/ UNCHANGED configVars
  PROVE  ConfigInv'
<1>1. CASE UNCHANGED configVars
  BY <1>1 DEF configVars, ConfigInv, Config!TypeOK
<1> QED
  BY <1>1, LoadKeeps, DiscoverKeeps, BuildRouterKeeps, BuildToolsKeeps DEF Config!Next

-----------------------------------------------------------------------------
(* The process                                                              *)

LEMMA AnalysisParts ==
  ASSUME [Next]_requestVars
  PROVE  Analysis!Next \/ Fixed!Next \/ UNCHANGED analysisVars
BY DEF Next, requestVars, Alone

\* The invariant of the tool is inductive.
THEOREM AnalysisTheorem == Spec => []AnalysisInv
<1>1. Init => AnalysisInv
  BY AnalysisInit DEF Init
<1>2. AnalysisInv /\ [Next]_requestVars => AnalysisInv'
  BY AnalysisParts, AnalysisStep
<1> QED
  BY <1>1, <1>2, PTL DEF Spec

\* However many candidates fail, the newest record of the history has the request
\* that ended last, one attempt for each call of the router that it made, and
\* says failover exactly when a call failed; it denies the router's own failover
\* only within a single call that left a choice (llm_analysis.py, _record_routing).
THEOREM ExplainedTheorem == Spec => []AnswerExplained
<1>1. AnalysisInv => AnswerExplained
  <2> SUFFICES ASSUME AnalysisInv PROVE AnswerExplained
    OBVIOUS
  <2>1. attempts \in Seq(Tries) /\ DOMAIN attempts = 1..Len(attempts)
    BY DEF AnalysisInv, AnalysisTypes
  <2>2. Told
    BY DEF AnalysisInv
  <2> SUFFICES ASSUME analysisPlace \in {"answered", "failed"},
                      NEW record, record = history[Len(history)]
               PROVE  /\ record.request = requests /\ record.attempts = attempts
                      /\ Len(attempts) = routerCalls
                      /\ \A i \in DOMAIN attempts :
                           attempts[i].ok <=> i = Len(attempts) /\ analysisPlace = "answered"
                      /\ record.failover <=> routerCalls > 1 \/ analysisPlace = "failed"
                      /\ unrecorded # {} /\ ~record.failover
                           => ~attempts[1].pinned \/ Analysis!NameShared
                      /\ analysisPlace = "answered" => record.selected \in {m.id : m \in catalog}
    BY DEF AnswerExplained, Analysis!AnswerExplained, Analysis!Last
  <2> QED
    BY <2>1, <2>2 DEF Told
<1> QED
  BY <1>1, AnalysisTheorem, PTL

\* For every catalogue and task, of the pinned candidates that failed none is
\* there twice and none that costs before a free one, and the router is called at
\* most once more than the limit (budget_selection.py, llm_analysis.py).
THEOREM FreeFirstTheorem == Spec => []FreeBeforePaid
<1>1. AnalysisInv => FreeBeforePaid
  <2> SUFFICES ASSUME AnalysisInv PROVE FreeBeforePaid
    OBVIOUS
  <2>1. attempts \in Seq(Tries) /\ DOMAIN attempts = 1..Len(attempts)
    BY DEF AnalysisInv, AnalysisTypes
  <2>2. TriedInOrder
    BY DEF AnalysisInv
  <2> QED
    BY <2>1, <2>2 DEF FreeBeforePaid, Analysis!FreeBeforePaid, Analysis!Pinned, TriedInOrder
<1> QED
  BY <1>1, AnalysisTheorem, PTL

\* Whatever the catalogue, a model of an earlier provider of the priority scores
\* above every model of a later one (scoring.py).
THEOREM PriorityTheorem == Spec => []PriorityOutweighs
<1>1. AnalysisInv => PriorityOutweighs
  <2> SUFFICES ASSUME AnalysisInv, NEW m \in catalog, NEW n \in catalog,
                      NEW i \in DOMAIN Priority, NEW j \in DOMAIN Priority, i < j,
                      m.provider = Priority[i], n.provider = Priority[j],
                      m.provider \notin SoftLimited, m.free \/ m.cost < 15000
               PROVE  Analysis!Score(m, SoftLimited, Priority)
                        > Analysis!Score(n, SoftLimited, Priority)
    BY DEF PriorityOutweighs, Analysis!PriorityOutweighs
  <2>1. catalog \in Catalogs
    BY DEF AnalysisInv, AnalysisTypes
  <2> QED
    BY <2>1, PriorityDecides
<1> QED
  BY <1>1, AnalysisTheorem, PTL

LEMMA ConfigParts ==
  ASSUME [Next]_requestVars
  PROVE  Config!Next \/ UNCHANGED configVars
BY DEF Next, requestVars, Alone

\* The invariant of the start-up is inductive.
THEOREM ConfigTheorem == Spec => []ConfigInv
<1>1. Init => ConfigInv
  BY ConfigInit DEF Init
<1>2. ConfigInv /\ [Next]_requestVars => ConfigInv'
  BY ConfigParts, ConfigStep
<1> QED
  BY <1>1, <1>2, PTL DEF Spec

\* Whatever the settings, the process starts with exactly the enabled providers,
\* or there is a fault the validators cannot see (config.py, factory.py).
THEOREM BuildsTheorem == Spec => []AcceptedBuilds
<1>1. ConfigInv => AcceptedBuilds
  BY DEF ConfigInv, AcceptedBuilds, Config!AcceptedBuilds
<1> QED
  BY <1>1, ConfigTheorem, PTL

LEMMA AnalysisTypeOK == AnalysisInv => Analysis!TypeOK
<1> SUFFICES ASSUME AnalysisInv
             PROVE  Analysis!TypeOK
  OBVIOUS
<1>1. AnalysisTypes
  BY DEF AnalysisInv
<1>2. choices \in Seq(catalog)
  BY <1>1 DEF AnalysisTypes
<1>3. Analysis!Range(choices) \subseteq catalog
  BY <1>2 DEF Analysis!Range
<1> QED
  BY <1>1, <1>3 DEF AnalysisTypes, Analysis!TypeOK

\* Every variable of every part keeps its type, whatever the inputs and limits.
THEOREM RequestsTypeTheorem == Spec => []RequestsTypeOK
<1>1. Init => part \in Parts
  BY DEF Init
<1>2. part \in Parts /\ [Next]_requestVars => (part \in Parts)'
  BY DEF Next, requestVars, Alone
<1>3. Spec => [](part \in Parts)
  BY <1>1, <1>2, PTL DEF Spec
<1>4. OutboundInv => LLM!TypeOK /\ Market!TypeOK /\ Website!TypeOK /\ Sql!TypeOK
  BY DEF OutboundInv, ChatInv, MarketInv, WebsiteInv, SqlInv
<1>5. FilesInv => Env!TypeOK /\ Csv!TypeOK
  BY EnvTypeOK, CsvTypeOK DEF FilesInv
<1>6. ConfigInv => Config!TypeOK
  BY DEF ConfigInv
<1>7. part \in Parts /\ OutboundInv /\ FilesInv /\ ConfigInv /\ AnalysisInv => RequestsTypeOK
  BY <1>4, <1>5, <1>6, AnalysisTypeOK DEF RequestsTypeOK
<1> QED
  BY <1>3, <1>7, OutboundTheorem, FilesTheorem, ConfigTheorem, AnalysisTheorem, PTL

=============================================================================
