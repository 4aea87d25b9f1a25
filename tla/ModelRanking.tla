---------------------------- MODULE ModelRanking ----------------------------
(* How a model is chosen: the ranking the router walks when it fails over,    *)
(* and the low-budget choice the analysis tool tries before it.  A model is a *)
(* record: id numbers the pairs (provider, name) in their order, word the     *)
(* names alone, both break ties; name is what a request may fix, health and   *)
(* quality are percentages, costs dollars per million tokens, scores          *)
(* thousandths.                                                               *)
EXTENDS Naturals, Integers, Sequences, FiniteSets, FiniteSetsExt, SequencesExt

CONSTANTS MaxCandidates,    \* MAX_CANDIDATES
          LongPromptTokens  \* LONG_PROMPT_TOKENS

\* A finite set in a strict total order, a set of pairs: each member stands
\* behind as many others as precede it.
Ordered(S, order) ==
  [i \in 1..Cardinality(S) |->
     CHOOSE m \in S : Cardinality({n \in S : <<n, m>> \in order}) = i - 1]

(* ------------------------------------------------------------------------ *)
(* ModelRankingEngine.rank                                                    *)

Lesser(m, n) == IF m < n THEN m ELSE n

\* The worth of a model before any explicit priority.
Merit(m, softLimited) ==
  LET free     == IF m.free THEN 1 ELSE 0
      roomy    == IF m.context >= 100000 THEN 1 ELSE 0
      costPart == IF m.free THEN 15000 ELSE 15000 \div (1 + m.cost)
      latency  == Lesser(m.latency, 10000)
  IN m.health * 400 + (15000 * (10000 - latency)) \div 10000 + costPart
     + m.quality * 200 + 5000 * free + 5000 * roomy
     - (IF m.provider \in softLimited THEN 30000 ELSE 0)

\* Mutant: the priority weighs half as much.
HalfPriority(provider, priority) ==
  LET places == {i \in DOMAIN priority : priority[i] = provider}
  IN IF places = {} THEN 0 ELSE 50000 * (Len(priority) - Max(places) + 1)

PriorityPart(provider, priority) ==
  LET places == {i \in DOMAIN priority : priority[i] = provider}
  IN IF places = {} THEN 0 ELSE 100000 * (Len(priority) - Max(places) + 1)

Score(m, softLimited, priority) ==
  Merit(m, softLimited) + PriorityPart(m.provider, priority)

Eligible(models, capabilities, fixed) ==
  {m \in models : /\ m.available /\ capabilities \subseteq m.capabilities
                  /\ fixed # "none" => m.name = fixed}

\* The higher score, then the provider and the name of the model.
ByScore(models, softLimited, priority) ==
  {x \in models \X models :
     LET a == Score(x[1], softLimited, priority)
         b == Score(x[2], softLimited, priority)
     IN a > b \/ (a = b /\ x[1].id < x[2].id)}

Rank(models, capabilities, fixed, softLimited, priority) ==
  Ordered(Eligible(models, capabilities, fixed), ByScore(models, softLimited, priority))

(* ------------------------------------------------------------------------ *)
(* select_budget_models                                                       *)

\* Nobody is told a context window: the model fits whatever is asked.
Fits(m, tokens) == m.context = 0 \/ m.context >= (tokens * 12) \div 10

Heavy(task) ==
  task.operation = "analyze" \/ task.complex \/ task.tokens >= LongPromptTokens

\* The name of the model alone decides a tie; the same name at two providers
\* stays in the order of discovery.
NamedBefore(m, n) == m.word < n.word \/ (m.word = n.word /\ m.id < n.id)

ByQuality(models) ==
  {x \in models \X models :
     x[1].quality > x[2].quality \/ (x[1].quality = x[2].quality /\ NamedBefore(x[1], x[2]))}

ByPrice(models) ==
  {x \in models \X models :
     x[1].cost < x[2].cost \/ (x[1].cost = x[2].cost /\ NamedBefore(x[1], x[2]))}

\* Mutant: one order by quality, whatever a model costs.
BudgetByQuality(models, provider, task, maxOutput) ==
  LET pool    == {m \in models : m.available /\ provider \in {m.provider, "any"}}
      choices == Ordered(pool, ByQuality(pool))
  IN SubSeq(choices, 1, Lesser(MaxCandidates, Len(choices)))

\* Free models by quality, then paid ones by price; at most MaxCandidates.
BudgetModels(models, provider, task, maxOutput) ==
  LET fitting == {m \in models : /\ m.available /\ provider \in {m.provider, "any"}
                                 /\ Fits(m, task.tokens + maxOutput)}
      strong  == {m \in fitting : m.quality >= 50}
      pool    == IF Heavy(task) /\ strong # {} THEN strong ELSE fitting
      choices == Ordered({m \in pool : m.free}, ByQuality(pool))
                 \o Ordered({m \in pool : ~m.free}, ByPrice(pool))
  IN SubSeq(choices, 1, Lesser(MaxCandidates, Len(choices)))
=============================================================================
