----------------------------- MODULE LLMAnalysis -----------------------------
(* The llm_analysis tool: it asks the router for the low-budget models one    *)
(* after the other, each pinned by name, then for whatever the router ranks   *)
(* best, and leaves one routing record for every answer.  The router is seen  *)
(* through its answers: a response of some model, or a ProviderError.         *)
EXTENDS ModelRanking

CONSTANTS Catalogs,      \* the sets of models the router may have discovered
          Tasks,         \* [operation, complex, tokens] of the requests
          FixedModel,    \* the name of the configured model, "none" in auto mode
          Priority,      \* the router's priority, a sequence of providers
          SoftLimited,   \* providers past their soft budget
          MaxOutput,     \* max_tokens of a response
          MaxInput,      \* the tokens of max_input_characters
          HistoryLimit,  \* size of the routing history
          MaxRequests    \* bound: requests handled, one after the other

VARIABLES place,     \* where the request is, or how the last one ended
          catalog,   \* what the router had discovered when it arrived
          choices,   \* low-budget models still to be asked
          attempts,  \* ModelRoutingAttempts so far
          history,   \* the ring buffer of routing records
          requests,  \* requests received
          calls,     \* history variable: router calls made for this request
          unrecorded \* history variable: models the router asked in vain within
                     \* the call that answered

analysisVars == <<place, catalog, choices, attempts, history, requests, calls, unrecorded>>

Attempt(m, ok) == [model |-> m.id, free |-> m.free, ok |-> ok, pinned |-> TRUE]
RankedAttempt(id, ok) == [model |-> id, free |-> FALSE, ok |-> ok, pinned |-> FALSE]

TypeOK ==
  /\ place \in {"idle", "asking", "answered", "failed", "refused", "abandoned"}
  /\ catalog \in Catalogs \cup {{}} /\ Range(choices) \subseteq catalog
  /\ requests \in 0..MaxRequests /\ Len(history) <= HistoryLimit
  /\ unrecorded \subseteq catalog

Init ==
  /\ place = "idle" /\ catalog = {} /\ choices = <<>>
  /\ attempts = <<>> /\ history = <<>> /\ requests = 0
  /\ calls = 0 /\ unrecorded = {}

(* ------------------------------------------------------------------------ *)

\* Mutant: the history is a list without a limit.
RememberedAll(record) == Append(history, record)

\* deque(maxlen): the oldest record makes room.
Remembered(record) ==
  Append(IF Len(history) < HistoryLimit THEN history ELSE Tail(history), record)

\* _record_routing: failover is any failed attempt of the tool, the selected model
\* is the response's.
Record(tries, ok) ==
  [request  |-> requests, attempts |-> tries,
   status   |-> IF ok THEN "succeeded" ELSE "failed",
   selected |-> IF ok THEN Last(tries).model ELSE 0,
   failover |-> \E i \in DOMAIN tries : ~tries[i].ok]

Conclude(tries, ok, within) ==
  /\ attempts' = tries
  /\ history' = Remembered(Record(tries, ok))
  /\ place' = IF ok THEN "answered" ELSE "failed"
  /\ choices' = <<>> /\ calls' = calls + 1 /\ unrecorded' = within
  /\ UNCHANGED <<catalog, requests>>

\* _budget_choices: auto mode only, of the provider that is first in priority.
BudgetChoices(models, task) ==
  IF FixedModel # "none" THEN <<>>
  ELSE BudgetModels(models, IF Priority = <<>> THEN "any" ELSE Head(Priority), task, MaxOutput)

Receive(models, task) ==
  /\ place # "asking" /\ requests < MaxRequests
  /\ requests' = requests + 1
  /\ attempts' = <<>> /\ calls' = 0 /\ unrecorded' = {}
  /\ IF task.tokens > MaxInput
     THEN place' = "refused" /\ catalog' = {} /\ choices' = <<>>
     ELSE place' = "asking" /\ catalog' = models /\ choices' = BudgetChoices(models, task)
  /\ UNCHANGED history

Chat == {"chat"}

\* The candidates of one router call that rank before the one that answers: those
\* of them that failed are left by the router's own failover.
Earlier(name, served) ==
  {m \in Eligible(catalog, Chat, name) : <<m, served>> \in ByScore(catalog, SoftLimited, Priority)}

\* A pinned request is served by a model of that name that can chat, of whichever
\* provider; the choice itself did not look at capabilities.
PinnedAnswers(served) ==
  /\ place = "asking" /\ choices # <<>>
  /\ served \in Eligible(catalog, Chat, Head(choices).name)
  /\ \E within \in SUBSET Earlier(Head(choices).name, served) :
       Conclude(Append(attempts, Attempt(served, TRUE)), TRUE, within)

\* Mutant: a failed candidate is not noted.
PinnedForgotten ==
  /\ place = "asking" /\ choices # <<>>
  /\ choices' = Tail(choices) /\ calls' = calls + 1
  /\ UNCHANGED <<place, catalog, attempts, history, requests, unrecorded>>

\* Any ProviderError, also one the router would not fail over, moves on.
PinnedFails ==
  /\ place = "asking" /\ choices # <<>>
  /\ attempts' = Append(attempts, Attempt(Head(choices), FALSE))
  /\ choices' = Tail(choices) /\ calls' = calls + 1
  /\ UNCHANGED <<place, catalog, history, requests, unrecorded>>

\* The last resort is one of the models the router ranks, after its failover.
RankedAnswers(served) ==
  /\ place = "asking" /\ choices = <<>>
  /\ served \in Range(Rank(catalog, Chat, FixedModel, SoftLimited, Priority))
  /\ \E within \in SUBSET Earlier(FixedModel, served) :
       Conclude(Append(attempts, RankedAttempt(served.id, TRUE)), TRUE, within)

RankedFails ==
  /\ place = "asking" /\ choices = <<>>
  /\ Conclude(Append(attempts, RankedAttempt(0, FALSE)), FALSE, {})

\* A deadline, a cancellation, or an error that is no ProviderError: the call
\* ends without a record.
Abandoned ==
  /\ place = "asking" /\ place' = "abandoned"
  /\ UNCHANGED <<catalog, choices, attempts, history, requests, calls, unrecorded>>

Next ==
  \/ \E models \in Catalogs, task \in Tasks : Receive(models, task)
  \/ \E served \in catalog : PinnedAnswers(served) \/ RankedAnswers(served)
  \/ PinnedFails \/ RankedFails \/ Abandoned

Spec == Init /\ [][Next]_analysisVars

(* ------------------------------------------------------------------------ *)
(* Properties.                                                                *)

Pinned == {i \in DOMAIN attempts : attempts[i].pinned /\ ~attempts[i].ok}

\* Two models have one name: a pinned request may be served by either.
NameShared == \E m, n \in catalog : m # n /\ m.name = n.name

\* Every answer of the router, and its failure at the last resort, leaves the
\* newest record: it has one attempt for each call of the router that the tool
\* made, in order, of which the last alone may have succeeded, and says failover
\* exactly when one of those calls failed.  Which models the router asked within
\* a call is not in the record: a failover that the record denies is the router's
\* own in a first and only call that left it a choice, as it was not pinned or
\* pinned to a name that several models have.
AnswerExplained ==
  place \in {"answered", "failed"} =>
    LET record == Last(history) IN
    /\ record.request = requests /\ record.attempts = attempts
    /\ Len(attempts) = calls
    /\ \A i \in DOMAIN attempts : attempts[i].ok <=> i = Len(attempts) /\ place = "answered"
    /\ record.failover <=> calls > 1 \/ place = "failed"
    /\ unrecorded # {} /\ ~record.failover => ~attempts[1].pinned \/ NameShared
    /\ place = "answered" => record.selected \in {m.id : m \in catalog}

\* No request makes more than MaxCandidates + 1 calls of the router.  Of the
\* low-budget candidates that failed, as the tool pinned them, none is there
\* twice and none that costs stands before a free one.  It says nothing of the
\* models within a call: the last resort may ask a failed one again, and a pinned
\* name may be served by another provider's model, which costs.
FreeBeforePaid ==
  /\ calls <= MaxCandidates + 1
  /\ \A i, j \in Pinned : i < j =>
       attempts[i].model # attempts[j].model /\ (attempts[j].free => attempts[i].free)

\* An explicit priority outweighs every difference of health, latency, price
\* and quality; only a soft budget limit can put a provider behind the next one.
\* A price that leaves nothing of the cost part can make the worst model of a
\* provider tie with the best of the next: the name would then decide.
PriorityOutweighs ==
  \A m, n \in catalog, i, j \in DOMAIN Priority :
    /\ i < j /\ m.provider = Priority[i] /\ n.provider = Priority[j]
    /\ m.provider \notin SoftLimited /\ (m.free \/ m.cost < 15000)
    => Score(m, SoftLimited, Priority) > Score(n, SoftLimited, Priority)
=============================================================================
