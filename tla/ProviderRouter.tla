---------------------------- MODULE ProviderRouter ----------------------------
(***************************************************************************)
(* The provider router: toolbridge/providers/application/router.py.        *)
(*                                                                         *)
(* One ProviderRouter object owns a set of provider plugins.  Concurrent   *)
(* asyncio tasks call generate, stream_generate, list_models and           *)
(* health_check on it while initialize and close run under a lifecycle     *)
(* lock that the calls do not take.  Every step below is the code between  *)
(* two awaits, which asyncio runs without interruption.                    *)
(*                                                                         *)
(* Abstractions.  A candidate is a provider and one of its models.  What   *)
(* decides the ranking of the candidates (latency, price, quality, task)   *)
(* and which of them a request may use (capabilities, cost, budget) is     *)
(* data: a request gets any list of distinct eligible candidates.  Latency *)
(* and time stamps are left out.                                           *)
(***************************************************************************)
EXTENDS Integers, Sequences, FiniteSets, SequencesExt

CONSTANTS
  Providers,   \* names of the registered providers
  Rank,        \* position of a provider in _ordered_names()
  Retry,       \* retry_count of each registration
  Discovery,   \* the providers registered with startup_discovery
  Model,       \* model identifiers
  Default,     \* _default_models of each registration, a set of models
  Catalog,     \* the models a provider may report when it is asked
  Calls,       \* calls made by clients of the router, each made once
  Kind,        \* the operation each call invokes
  Checks,      \* invocations of health_check
  Faults,      \* categories of the errors the providers raise
  Deadline,    \* TRUE when stream_timeout_seconds is configured
  MaxOpens,    \* bound: how many times initialize does its work
  NoProvider, NoModel, NoError

ErrorCategory ==
  {"timeout", "authentication", "rate_limit", "unavailable", "invalid_request",
   "invalid_response", "budget_exceeded", "capability_unavailable", "internal"}

Retryable == {"timeout", "rate_limit", "unavailable"}

FailoverEligible ==
  Retryable \union {"authentication", "invalid_response", "internal"}

ProviderStatus ==
  {"uninitialized", "healthy", "degraded", "unavailable", "closed"}

OutOfService == {"unavailable", "closed"}

ASSUME RouterAssumption ==
  /\ IsFiniteSet(Providers) /\ Providers # {}
  /\ Rank \in [Providers -> Nat] /\ IsInjective(Rank)
  /\ Retry \in [Providers -> Nat]
  /\ Discovery \subseteq Providers
  /\ IsFiniteSet(Model)
  /\ Default \in [Providers -> SUBSET Model]
  /\ Catalog \in [Providers -> SUBSET Model]
  /\ IsFiniteSet(Calls) /\ IsFiniteSet(Checks)
  /\ Calls \intersect (Checks \X Providers) = {}
  /\ Kind \in [Calls -> {"generate", "stream", "list"}]
  /\ Faults \subseteq ErrorCategory
  /\ Deadline \in BOOLEAN
  /\ MaxOpens \in Nat
  /\ NoProvider \notin Providers /\ NoModel \notin Model
  /\ NoError \notin ErrorCategory

\* gather() runs one probe task per provider for each health check.
Probes    == Checks \X Providers
Task      == Calls \union Probes
Candidate == Providers \X (Model \union {NoModel})
Nobody    == <<NoProvider, NoModel>>
ProviderOf(c) == c[1]

VARIABLES
  initialized, closed,       \* the two lifecycle flags
  life, todo, opens,         \* holder of _lifecycle_lock, providers left, bound
  models,                    \* _models
  status, lastError,         \* _ProviderState.status, last_error_category
  requests, successes, errors, retries,  \* _ProviderState counters
  active, activeModel,       \* _active_provider, owner of _active_model
  pc, at, attempt, queue,    \* each task: where it is, candidate, attempt, rest
  outcome,                   \* what the task returned or raised
  check,                     \* each health_check
  startupRecords,            \* history: outcomes initialize() recorded
  offered, failed            \* history: candidates of a call, those that failed

lifecycle == <<initialized, closed, life, todo, opens, models>>
health    == <<status, lastError, successes, errors>>
counters  == <<requests, retries, startupRecords>>
selection == <<active, activeModel>>
tasks     == <<pc, at, attempt, queue, outcome, offered, failed>>
vars      == <<lifecycle, health, counters, selection, tasks, check>>

-----------------------------------------------------------------------------
(* Derived state *)

Ready == initialized /\ ~closed

FirstOf(S) ==
  IF S = {} THEN NoProvider
  ELSE CHOOSE p \in S : \A q \in S : Rank[p] <= Rank[q]

\* CLOSED providers are not excluded here, as in the code.
FirstCandidate(st) == FirstOf({p \in Providers : st[p] # "unavailable"})

FirstHealthyOrCandidate(st) ==
  LET healthy == {p \in Providers : st[p] = "healthy"}
  IN  IF healthy # {} THEN FirstOf(healthy) ELSE FirstCandidate(st)

\* Mutation: only CLOSED is excluded from routing.
InServiceUnlessClosed == {p \in Providers : status[p] # "closed"}

InService == {p \in Providers : status[p] \notin OutOfService}

HasCatalog == \E p \in Providers : models[p] # {}

Eligible == {c \in Candidate : ProviderOf(c) \in InService /\ c[2] \in models[ProviderOf(c)]}

LegacyCandidates ==
  LET before(p, q) == p = active \/ (q # active /\ Rank[p] < Rank[q])
  IN  {s \in SetToSeqs(InService \X {NoModel}) :
         \A i, j \in DOMAIN s : i < j => before(ProviderOf(s[i]), ProviderOf(s[j]))}

\* The lists _generation_candidates and _route may produce for the call.
CandidateLists(t) ==
  IF HasCatalog THEN SetToAllKPermutations(Eligible) ELSE LegacyCandidates

\* Mutation: last_error is raised although no candidate was tried.
NoCandidateErrorUnset(t) == NoError

NoCandidateError(t) ==
  IF Kind[t] = "generate" THEN "capability_unavailable" ELSE "unavailable"

RangeOf(s) == {s[i] : i \in DOMAIN s}

Ended(t) == pc[t] \in {"done", "abandoned"}

-----------------------------------------------------------------------------
Init ==
  /\ initialized = FALSE /\ closed = FALSE
  /\ life = "idle" /\ todo = {} /\ opens = 0
  /\ models = [p \in Providers |-> {}]
  /\ status = [p \in Providers |-> "uninitialized"]
  /\ lastError = [p \in Providers |-> NoError]
  /\ requests = [p \in Providers |-> 0]
  /\ successes = [p \in Providers |-> 0]
  /\ errors = [p \in Providers |-> 0]
  /\ retries = [p \in Providers |-> 0]
  /\ startupRecords = [p \in Providers |-> 0]
  /\ active = NoProvider /\ activeModel = NoProvider
  /\ pc = [t \in Task |-> "idle"]
  /\ at = [t \in Task |-> Nobody]
  /\ attempt = [t \in Task |-> 0]
  /\ queue = [t \in Task |-> <<>>]
  /\ outcome = [t \in Task |-> "none"]
  /\ check = [h \in Checks |-> "idle"]
  /\ offered = [t \in Task |-> {}]
  /\ failed = [t \in Task |-> {}]

\* Mutation: the error of an earlier failure is not cleared.
RecordSuccessKeepsError(p) ==
  /\ status' = [status EXCEPT ![p] = "healthy"]
  /\ successes' = [successes EXCEPT ![p] = @ + 1]
  /\ UNCHANGED <<lastError, errors>>

RecordSuccess(p) ==
  /\ status' = [status EXCEPT ![p] = "healthy"]
  /\ lastError' = [lastError EXCEPT ![p] = NoError]
  /\ successes' = [successes EXCEPT ![p] = @ + 1]
  /\ errors' = errors

\* Mutation: an invalid request returns before it is counted.
RecordFailureSkipsInvalid(p, e) ==
  IF e = "invalid_request" THEN UNCHANGED health
  ELSE /\ status' = [status EXCEPT ![p] =
              IF e \in {"timeout", "rate_limit"} THEN "degraded" ELSE "unavailable"]
       /\ lastError' = [lastError EXCEPT ![p] = e]
       /\ errors' = [errors EXCEPT ![p] = @ + 1]
       /\ successes' = successes

StatusAfter(st, e) ==
  IF e = "invalid_request" THEN st
  ELSE IF e \in {"timeout", "rate_limit"} THEN "degraded" ELSE "unavailable"

RecordFailure(p, e) ==
  /\ status' = [status EXCEPT ![p] = StatusAfter(@, e)]
  /\ lastError' = [lastError EXCEPT ![p] = e]
  /\ errors' = [errors EXCEPT ![p] = @ + 1]
  /\ successes' = successes

-----------------------------------------------------------------------------
(* Lifecycle: initialize and close hold _lifecycle_lock; each awaits one    *)
(* provider at a time, and the calls go on meanwhile.                       *)

InitializeBegin ==
  /\ life = "idle" /\ ~Ready
  /\ opens < MaxOpens
  /\ opens' = opens + 1
  /\ closed' = FALSE
  /\ life' = "initializing" /\ todo' = Providers
  /\ UNCHANGED <<initialized, models, health, counters, selection, tasks, check>>

\* Mutation: initialize waits for a provider it can activate.
InitializeTurnWaits(p) ==
  /\ life = "initializing" /\ p \in todo
  /\ todo' = todo \ {p}
  /\ IF todo = {p} /\ FirstCandidate(status') # NoProvider
     THEN /\ initialized' = TRUE /\ life' = "idle"
          /\ active' = FirstCandidate(status')
     ELSE UNCHANGED <<initialized, life, active>>
  /\ UNCHANGED <<closed, opens, activeModel, requests, retries, tasks, check>>

\* A provider's turn in initialize() is over; the last one completes it.
InitializeTurn(p) ==
  /\ life = "initializing" /\ p \in todo
  /\ todo' = todo \ {p}
  /\ IF todo = {p}
     THEN /\ initialized' = TRUE /\ life' = "idle"
          /\ active' = FirstCandidate(status')
     ELSE UNCHANGED <<initialized, life, active>>
  /\ UNCHANGED <<closed, opens, activeModel, requests, retries, tasks, check>>

Discover(p) ==
  /\ p \in Discovery
  /\ \E found \in SUBSET Catalog[p] :
       models' = [models EXCEPT ![p] = IF found = {} THEN Default[p] ELSE found]
  /\ RecordSuccess(p)
  /\ startupRecords' = [startupRecords EXCEPT ![p] = @ + 1]
  /\ InitializeTurn(p)

UseDefault(p) ==
  /\ p \notin Discovery
  /\ models' = [models EXCEPT ![p] = Default[p]]
  /\ UNCHANGED <<health, startupRecords>>
  /\ InitializeTurn(p)

StartupFails(p, e) ==
  /\ RecordFailure(p, e)
  /\ startupRecords' = [startupRecords EXCEPT ![p] = @ + 1]
  /\ UNCHANGED models
  /\ InitializeTurn(p)

CloseBegin ==
  /\ life = "idle" /\ ~closed
  /\ life' = "closing" /\ todo' = Providers
  /\ UNCHANGED <<initialized, closed, opens, models, health, counters, selection,
                 tasks, check>>

CloseProvider(p) ==
  /\ life = "closing" /\ p \in todo
  /\ todo' = todo \ {p}
  /\ status' = [status EXCEPT ![p] = "closed"]
  /\ IF todo = {p}
     THEN /\ closed' = TRUE /\ life' = "idle"
          /\ active' = NoProvider /\ activeModel' = NoProvider
     ELSE UNCHANGED <<closed, life, active, activeModel>>
  /\ UNCHANGED <<initialized, opens, models, lastError, successes, errors, counters,
                 tasks, check>>

\* CancelledError in an await of initialize or close releases the lock.
LifecycleCancelled ==
  /\ life # "idle"
  /\ life' = "idle" /\ todo' = {}
  /\ UNCHANGED <<initialized, closed, opens, models, health, counters, selection,
                 tasks, check>>

-----------------------------------------------------------------------------
(* Calls: generate, stream_generate and list_models.                        *)

Finish(t, o) ==
  /\ pc' = [pc EXCEPT ![t] = "done"]
  /\ outcome' = [outcome EXCEPT ![t] = o]

\* Mutation: only the first candidate of a call counts as a request.
AttemptUncounted(t, s) ==
  /\ pc' = [pc EXCEPT ![t] = "calling"]
  /\ at' = [at EXCEPT ![t] = Head(s)]
  /\ attempt' = [attempt EXCEPT ![t] = 0]
  /\ queue' = [queue EXCEPT ![t] = Tail(s)]
  /\ requests' = IF pc[t] = "idle"
                  THEN [requests EXCEPT ![ProviderOf(Head(s))] = @ + 1] ELSE requests

\* _call_with_retries begins on the first candidate of the list s.
Attempt(t, s) ==
  /\ pc' = [pc EXCEPT ![t] = "calling"]
  /\ at' = [at EXCEPT ![t] = Head(s)]
  /\ attempt' = [attempt EXCEPT ![t] = 0]
  /\ queue' = [queue EXCEPT ![t] = Tail(s)]
  /\ requests' = [requests EXCEPT ![ProviderOf(Head(s))] = @ + 1]

\* Not ready, or a generation request that exceeds max_request_bytes.
Refuse(t) ==
  /\ pc[t] = "idle"
  /\ \/ ~Ready /\ Finish(t, "unavailable")
     \/ Ready /\ Kind[t] # "list" /\ Finish(t, "invalid_request")
  /\ UNCHANGED <<lifecycle, health, counters, selection, at, attempt, queue,
                 offered, failed, check>>

\* The catalog answers list_models; otherwise some list has no candidate.
AnswerAtOnce(t) ==
  /\ pc[t] = "idle" /\ Ready
  /\ \/ Kind[t] = "list" /\ HasCatalog /\ Finish(t, "ok")
     \/ /\ ~(Kind[t] = "list" /\ HasCatalog)
        /\ <<>> \in CandidateLists(t)
        /\ Finish(t, NoCandidateError(t))
  /\ UNCHANGED <<lifecycle, health, counters, selection, at, attempt, queue,
                 offered, failed, check>>

\* The candidate list is computed once, here.
Start(t) ==
  /\ pc[t] = "idle" /\ Ready
  /\ ~(Kind[t] = "list" /\ HasCatalog)
  /\ \E s \in CandidateLists(t) \ {<<>>} :
       /\ Attempt(t, s)
       /\ offered' = [offered EXCEPT ![t] = RangeOf(s)]
  /\ UNCHANGED <<lifecycle, health, retries, startupRecords, selection, outcome,
                 failed, check>>

\* Mutation: one retry too many.
WillRetryOnceMore(t, e) == e \in Retryable /\ attempt[t] <= Retry[ProviderOf(at[t])]

WillRetry(t, e) == e \in Retryable /\ attempt[t] < Retry[ProviderOf(at[t])]

AttemptSucceeds(t) ==
  /\ pc[t] = "calling"
  /\ RecordSuccess(ProviderOf(at[t]))
  /\ active' = ProviderOf(at[t])
  /\ activeModel' = IF t \in Calls /\ Kind[t] # "list" THEN ProviderOf(at[t])
                    ELSE activeModel
  /\ IF t \in Calls /\ Kind[t] = "stream"
     THEN pc' = [pc EXCEPT ![t] = "yielded"] /\ UNCHANGED outcome
     ELSE Finish(t, "ok")
  /\ UNCHANGED <<lifecycle, counters, at, attempt, queue, offered, failed, check>>

\* The failure is recorded and the task sleeps before the next attempt.
RetryLater(t, e) ==
  /\ pc[t] = "calling" /\ WillRetry(t, e)
  /\ RecordFailure(ProviderOf(at[t]), e)
  /\ retries' = [retries EXCEPT ![ProviderOf(at[t])] = @ + 1]
  /\ pc' = [pc EXCEPT ![t] = "backoff"]
  /\ UNCHANGED <<lifecycle, requests, startupRecords, selection, at, attempt, queue,
                 outcome, offered, failed, check>>

BackoffEnds(t) ==
  /\ pc[t] = "backoff"
  /\ pc' = [pc EXCEPT ![t] = "calling"]
  /\ attempt' = [attempt EXCEPT ![t] = @ + 1]
  /\ UNCHANGED <<lifecycle, health, counters, selection, at, queue, outcome,
                 offered, failed, check>>

\* The failure is recorded and the next candidate is called at once.
FailOver(t, e) ==
  /\ pc[t] = "calling" /\ ~WillRetry(t, e)
  /\ e \in FailoverEligible /\ queue[t] # <<>>
  /\ RecordFailure(ProviderOf(at[t]), e)
  /\ Attempt(t, queue[t])
  /\ failed' = [failed EXCEPT ![t] = @ \union {at[t]}]
  /\ UNCHANGED <<lifecycle, retries, startupRecords, selection, outcome, offered, check>>

\* Mutation: a failure is raised although a candidate is left.
GiveUpEarly(t, e) ==
  /\ pc[t] = "calling" /\ ~WillRetry(t, e)
  /\ RecordFailure(ProviderOf(at[t]), e)
  /\ Finish(t, e)
  /\ failed' = [failed EXCEPT ![t] = @ \union {at[t]}]
  /\ UNCHANGED <<lifecycle, counters, selection, at, attempt, queue, offered, check>>

GiveUp(t, e) ==
  /\ pc[t] = "calling" /\ ~WillRetry(t, e)
  /\ e \notin FailoverEligible \/ queue[t] = <<>>
  /\ RecordFailure(ProviderOf(at[t]), e)
  /\ Finish(t, e)
  /\ failed' = [failed EXCEPT ![t] = @ \union {at[t]}]
  /\ UNCHANGED <<lifecycle, counters, selection, at, attempt, queue, offered, check>>

\* The task ends with o and leaves its attempt without a record.
Abandon(t, o) ==
  /\ pc[t] \in {"calling", "backoff", "yielded", "streaming"}
  /\ pc' = [pc EXCEPT ![t] = IF @ \in {"yielded", "streaming"} THEN "done" ELSE "abandoned"]
  /\ outcome' = [outcome EXCEPT ![t] = o]
  /\ UNCHANGED <<lifecycle, health, counters, selection, at, attempt, queue,
                 offered, failed, check>>

\* The client's task is cancelled, or the client closes a stream it holds.
Cancel(t) == t \in Calls /\ Abandon(t, "cancelled")

\* Mutation: the deadline covers the first chunk only.
StreamDeadlineFirstChunk(t) ==
  /\ t \in Calls /\ Kind[t] = "stream" /\ Deadline
  /\ pc[t] \notin {"yielded", "streaming"}
  /\ Abandon(t, "deadline")

\* The overall deadline is armed around the attempts and around each awaited chunk,
\* not while the client holds a chunk: the generator is suspended there.  The error
\* is a ProviderError of category TIMEOUT; "deadline" tells it from a provider's.
StreamDeadline(t) ==
  /\ t \in Calls /\ Kind[t] = "stream" /\ Deadline
  /\ pc[t] # "yielded"
  /\ Abandon(t, "deadline")

\* The client asks for the next chunk.
StreamPull(t) ==
  /\ pc[t] = "yielded"
  /\ pc' = [pc EXCEPT ![t] = "streaming"]
  /\ UNCHANGED <<lifecycle, health, counters, selection, at, attempt, queue, outcome,
                 offered, failed, check>>

\* The awaited chunk arrives and is handed to the client.
StreamChunk(t) ==
  /\ pc[t] = "streaming"
  /\ pc' = [pc EXCEPT ![t] = "yielded"]
  /\ UNCHANGED <<lifecycle, health, counters, selection, at, attempt, queue, outcome,
                 offered, failed, check>>

\* After its first chunk a stream ends well, or an error of any category breaks it;
\* neither is recorded and no other candidate is tried.
StreamEnds(t) ==
  /\ pc[t] = "streaming"
  /\ \E o \in {"ok", "broken"} : Finish(t, o)
  /\ UNCHANGED <<lifecycle, health, counters, selection, at, attempt, queue,
                 offered, failed, check>>

-----------------------------------------------------------------------------
(* health_check: one probe per provider, gathered.                          *)

CheckBegin(h) ==
  /\ check[h] = "idle"
  /\ check' = [check EXCEPT ![h] = IF Ready THEN "probing" ELSE "refused"]
  /\ UNCHANGED <<lifecycle, health, counters, selection, tasks>>

ProbeStart(h, p) ==
  /\ check[h] = "probing" /\ pc[<<h, p>>] = "idle"
  /\ Attempt(<<h, p>>, <<<<p, NoModel>>>>)
  /\ UNCHANGED <<lifecycle, health, retries, startupRecords, selection, outcome,
                 offered, failed, check>>

CheckEnd(h) ==
  /\ check[h] = "probing"
  /\ \A p \in Providers : Ended(<<h, p>>)
  /\ check' = [check EXCEPT ![h] = "done"]
  /\ active' = FirstHealthyOrCandidate(status)
  /\ UNCHANGED <<lifecycle, health, counters, activeModel, tasks>>

\* Cancelling the gather cancels the probes that have not ended.
CheckCancelled(h) ==
  /\ check[h] = "probing"
  /\ check' = [check EXCEPT ![h] = "cancelled"]
  /\ LET gone(t) == t \in Probes /\ t[1] = h /\ ~Ended(t)
     IN  /\ pc' = [t \in Task |-> IF ~gone(t) THEN pc[t]
                                  ELSE IF pc[t] \in {"calling", "backoff"}
                                       THEN "abandoned" ELSE "done"]
         /\ outcome' = [t \in Task |-> IF gone(t) THEN "cancelled" ELSE outcome[t]]
  /\ UNCHANGED <<lifecycle, health, counters, selection, at, attempt, queue,
                 offered, failed>>

-----------------------------------------------------------------------------
LifecycleStep ==
  \/ \E p \in Providers : \/ Discover(p) \/ UseDefault(p) \/ CloseProvider(p)
                          \/ \E e \in Faults : StartupFails(p, e)

AttemptReturns(t) ==
  \/ AttemptSucceeds(t)
  \/ \E e \in Faults : RetryLater(t, e) \/ FailOver(t, e) \/ GiveUp(t, e)

Next ==
  \/ InitializeBegin \/ CloseBegin \/ LifecycleStep \/ LifecycleCancelled
  \/ \E t \in Calls : \/ Refuse(t) \/ AnswerAtOnce(t) \/ Start(t) \/ Cancel(t)
                      \/ StreamDeadline(t) \/ StreamPull(t) \/ StreamChunk(t)
                      \/ StreamEnds(t)
  \/ \E t \in Task : AttemptReturns(t) \/ BackoffEnds(t)
  \/ \E h \in Checks : \/ CheckBegin(h) \/ CheckEnd(h) \/ CheckCancelled(h)
                       \/ \E p \in Providers : ProbeStart(h, p)

Spec == Init /\ [][Next]_vars

\* Providers answer or time out (httpx.Timeout), sleeps expire, and the event loop
\* runs what is ready.  Clients owe nothing, and nothing makes a stream end by itself.
\* The deadline of a stream passes once and for all; from then on every wait for a
\* chunk times out at once, so a stream cannot wait again and again without meeting
\* it: strong fairness, since the client's turns come in between.
Fairness ==
  /\ WF_vars(LifecycleStep)
  /\ \A t \in Task : WF_vars(AttemptReturns(t)) /\ WF_vars(BackoffEnds(t))
  /\ \A t \in Calls : SF_vars(StreamDeadline(t))
  /\ \A h \in Checks : /\ WF_vars(CheckEnd(h))
                       /\ \A p \in Providers : WF_vars(ProbeStart(h, p))

FairSpec == Spec /\ Fairness
-----------------------------------------------------------------------------
(* Properties *)

TypeFlags == initialized \in BOOLEAN /\ closed \in BOOLEAN

TypeLifecycle ==
  /\ life \in {"idle", "initializing", "closing"}
  /\ todo \in SUBSET Providers /\ opens \in Nat
  /\ models \in [Providers -> SUBSET Model]
  /\ check \in [Checks -> {"idle", "probing", "done", "cancelled", "refused"}]

TypeHealth ==
  /\ status \in [Providers -> ProviderStatus]
  /\ lastError \in [Providers -> ErrorCategory \union {NoError}]
  /\ successes \in [Providers -> Nat] /\ errors \in [Providers -> Nat]

TypeCounters ==
  /\ requests \in [Providers -> Nat] /\ retries \in [Providers -> Nat]
  /\ startupRecords \in [Providers -> Nat]

TypeSelection ==
  /\ active \in Providers \union {NoProvider}
  /\ activeModel \in Providers \union {NoProvider}

TypeTasks ==
  /\ pc \in [Task -> {"idle", "calling", "backoff", "yielded", "streaming", "done",
                    "abandoned"}]
  /\ at \in [Task -> Candidate \union {Nobody}]
  /\ attempt \in [Task -> Nat]
  /\ queue \in [Task -> Seq(Candidate)]

TypeOutcomes ==
  /\ outcome \in [Task -> ErrorCategory \union {"none", "ok", "broken", "cancelled", "deadline"}]
  /\ offered \in [Task -> SUBSET Candidate] /\ failed \in [Task -> SUBSET Candidate]

\* Every variable holds a value the program could store.
TypeOK ==
  /\ TypeFlags /\ TypeLifecycle /\ TypeHealth /\ TypeCounters /\ TypeSelection
  /\ TypeTasks /\ TypeOutcomes

\* The tasks whose last attempt (or the backoff before it) has no record at p.
Unrecorded(p) ==
  {t \in Task : pc[t] \in {"calling", "backoff", "abandoned"} /\ ProviderOf(at[t]) = p}

\* The telemetry of provider_status() accounts for every attempt: each request and
\* each retry is a success, an error, or an attempt that is under way or was
\* abandoned by a cancellation or a deadline, whatever interleaving of calls,
\* probes, initialize and close produced the counters.
Accounting ==
  \A p \in Providers :
    requests[p] + retries[p] + startupRecords[p]
      = successes[p] + errors[p] + Cardinality(Unrecorded(p))

\* Retries are bounded by retry_count for each request a provider received.
RetriesBounded == \A p \in Providers : retries[p] <= Retry[p] * requests[p]

\* The status and the last error of a provider never tell different stories: a
\* provider is degraded only by a timeout or a rate limit, unavailable only by an
\* error that is neither, and an invalid request changes the error alone.
StatusExplained ==
  \A p \in Providers :
    /\ status[p] = "healthy" => lastError[p] \in {NoError, "invalid_request"}
    /\ status[p] = "degraded" => lastError[p] \in {"timeout", "rate_limit", "invalid_request"}
    /\ status[p] = "unavailable" => lastError[p] \notin {NoError, "timeout", "rate_limit"}

\* A call of any kind, a stream before its first chunk included, reports a provider's
\* error that failover could have avoided only after every candidate it was offered
\* has failed; no candidate is skipped or lost between the retries, the failovers and
\* what other calls do to the same providers.  Two errors are no outcome of this kind
\* and end a stream with candidates left: the overall deadline's ("deadline") and any
\* error after the first chunk ("broken").
ExhaustiveFailover ==
  \A t \in Calls :
    (pc[t] = "done" /\ outcome[t] \in FailoverEligible) => failed[t] = offered[t]

\* p is out of service and no task is calling it or still has it as a candidate.
Isolated(p) ==
  /\ status[p] = "unavailable"
  /\ \A t \in Task : /\ pc[t] \in {"calling", "backoff"} => ProviderOf(at[t]) # p
                     /\ ~Ended(t) => \A c \in RangeOf(queue[t]) : ProviderOf(c) # p

\* Once isolated, a provider is not called by any request, however many are made:
\* only health_check or the lifecycle brings it back.
IsolationEndsByProbe ==
  [][\A p \in Providers :
       Isolated(p) => \/ Isolated(p)'
                      \/ \E h \in Checks : check[h] = "probing"
                      \/ life # "idle"]_vars

\* Every call under way ends, unless its client stops pulling a stream and keeps it for
\* ever: each attempt is answered, retries and failovers run out, and a stream with a
\* deadline ends though its provider sends chunks for ever and its client takes them.
CallsReturn ==
  \A t \in Calls :
    pc[t] \in {"calling", "backoff", "yielded", "streaming"}
      ~> (Ended(t) \/ [](pc[t] = "yielded"))

\* Whoever holds the lifecycle lock releases it.
LifecycleReturns == life # "idle" ~> life = "idle"

\* What test_router_lifecycle_closes_every_provider expects of a closed router.
ClosedRouterIsClosed ==
  closed => active = NoProvider /\ \A p \in Providers : status[p] = "closed"

\* What ARCHITECTURE.md says of a provider whose later request or health check
\* succeeded: it is eligible again.
HealthyProviderIsEligible ==
  (Ready /\ life = "idle") =>
     \A p \in Providers : (status[p] = "healthy" /\ HasCatalog) => models[p] # {}
=============================================================================
