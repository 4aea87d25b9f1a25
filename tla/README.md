# TLA+ verification of ToolBridge MCP Server

ToolBridge is an asyncio service that exposes tools over MCP. Its hard parts are not the
tools but what surrounds them: a router that spreads LLM requests over unreliable
providers, budgets that concurrent requests draw from, and caches that coalesce
concurrent lookups, a process that must release what it opened, and an executor that
races deadlines against cancellations. This directory models those parts and the tools
behind them in TLA+, checks them with TLC on small instances and proves with TLAPS, for all
instances, every safety property that the passing runs check.

Paths below are relative to `toolbridge/`; `PROJECT.json` maps every definition to its
lines of code, and lists the runs, the mutants, the hazards, the findings and the
theorems.

## 1. The system

| Component | State | Operations | Depends on |
|---|---|---|---|
| Provider router (`providers/application/router.py`) | per provider: status, last error, counters; model catalogue; active provider; lifecycle flags | initialize, close, generate, stream_generate, list_models, health_check | provider plugins, budgets, ranking |
| Provider budgets (`providers/application/budget.py`) | per provider: spend of the day and of the month, with their dates | permits, record, soft_limit_reached, snapshot | the clock |
| Quote cache (`tools/application/stock_price.py`), rate cache (`tools/application/currency_converter.py`) | bounded cache with expiry, one lock per key | get_quote / convert, close | quote and rate providers |
| Tool lifecycle (`main.py`, `tools/application/manager.py`, `operations/application/service.py`) | opened tools, health cache, lifecycle state | initialize, statuses, close, readiness, the lifespan of the process | all tools, the router |
| Tool executor and metrics (`core/`, `tools/application/metrics.py`, `operations/application/metrics.py`) | counters per tool and per error code | execute | handlers, worker threads |
| LLM analysis (`tools/application/llm_analysis.py`) | routing history | execute | router |
| Ranking (`providers/application/scoring.py`), low-budget choice (`budget_selection.py`) | none | rank, select | |
| Website reader (`tools/adapters/website_reader.py`) | HTTP client, pool, pinned addresses | fetch, close | resolver, network |
| SQL (`tools/domain/sql_query.py`, `tools/adapters/*_query.py`) | one connection per query | check, bind, execute | database |
| CSV (`tools/adapters/csv_file.py`) | one file per request | analyse | files |
| HTTP adapters (`providers/adapters/`, `tools/adapters/`) | one client each | initialize, request, stream, close | services |
| Configuration (`config.py`, `phase5_config.py`, the factories) | none after start-up | load, discover, build | environment |
| Setup wizard and key manager (`dashboard/`) | the `.env` file | test, save | file system |
| Operations snapshot, dashboard pages, transport checks | none of their own | views | all of the above |

Everything runs on one event loop: code between two awaits is atomic, and every await is
a point where other calls, cancellations, timeouts, health checks, `initialize` and
`close` may run. The exceptions are synchronous tool handlers, which run in worker
threads, and the dashboard, which is a process of its own.

What is hard, and what makes each component correct:

* **Router.** Concurrent calls and probes write the same provider state while each holds a
  candidate list computed before its first await. Counters must account for every attempt;
  retries must stop; no candidate may be lost on the way through retries and failovers, of a
  call as of a stream; an isolated provider must stay out; every call must end, a slow stream
  too, as long as its client takes what it gets.
* **Budgets.** Check before the await, record after it; totals are reset lazily at midnight
  and with the month.
* **Caches.** Waiters, wake-ups, cancellation, eviction of symbols whose lock is in use,
  `close()` during a fetch. One fetch per symbol, a bounded cache, no waiter left behind.
* **Lifecycle and executor.** Every await of start-up and shutdown can fail or be
  interrupted; what was opened must be closed in reverse, readiness must tell the truth,
  and calls in flight must end before their tools do. Every started call is counted once
  and answered, whoever wins the race for it.
* **Tools and adapters.** Whatever a service answers must become a result or a category
  that tells rightly whether to retry; clients are closed under requests; limits cut off at
  the right row, byte and hop; what is checked must be what is used.
* **Configuration and `.env`.** What is accepted must start; a kill between two writes must
  not leave an unusable file.

## 2. Modules

| Module | Role |
|---|---|
| `ProviderRouter` | the router, one action per piece of code between two awaits |
| `MCProviderRouter` | two providers for TLC, a before b |
| `ProviderRouterProofs` | theorems about `ProviderRouter` |
| `QuoteCache` | `StockPriceService`; with one provider also `CurrencyConverterService` |
| `MCQuoteCache` | five calls for two symbols |
| `QuoteCacheProofs` | theorems about `QuoteCache` |
| `BudgetLedger` | abstract: two accounts per provider, reset at midnight and with the month |
| `ProviderBudget` | the budget manager and the requests that use it |
| `MCProviderBudget` | two providers with three models, two requests, three days |
| `ProviderBudgetProofs` | theorems about `ProviderBudget`, the refinement of `BudgetLedger` among them |
| `ServiceLifecycle` | the lifespan, the tool manager, tool health and readiness |
| `ToolExecution` | `ToolExecutor.execute` and what its observers count |
| `Service` | both together: a process that serves calls between start and stop |
| `MCService` | two tools, two calls |
| `LifecycleProofs` | theorems about the lifecycle in `Service` |
| `ServiceProofs` | theorems about the calls in `Service`; uses `LifecycleProofs` |
| `ModelRanking` | operators: the router's ranking and the low-budget choice |
| `LLMAnalysis` | the llm_analysis tool above the router |
| `LLMClient` | the OpenAI-compatible adapter, and OpenRouter where it differs |
| `MarketClients` | the Yahoo, Alpha Vantage and Frankfurter adapters |
| `WebsiteReader` | concurrent fetches over one client, with pinned addresses |
| `SqlQuery` | the read-only check, parameter binding, both database adapters |
| `CsvAnalysis` | the analysis of one file, row by row |
| `EnvStore` | the `.env` file under concurrent saves and a kill |
| `Configuration` | validators, plugins and factories of the start-up |
| `Requests` | one behaviour of one of the nine parts above, for TLC |
| `MCRequests` | small instances of these parts |
| `OutboundProofs` | theorems about the HTTP adapters, the website reader and the query |
| `FilesProofs` | theorems about the `.env` file and the CSV analysis |
| `AnalysisProofs` | theorems about the analysis tool, its ranking and the start-up, and the types of all nine parts; uses the two before |

### ProviderRouter

`initialized`, `closed`, `models`, `status`, `lastError`, `requests`, `successes`,
`errors`, `retries` and `active` are the attributes of `ProviderRouter` and of its
`_ProviderState`s. `life` and `todo` say who holds `_lifecycle_lock` and how far its loop
has come. A *task* is a client's call or one probe of a health check; `pc` is where it is
suspended: `calling` a provider, in a `backoff`, `streaming` while it awaits a further
chunk, or `yielded` while its client has one and has not asked for the next; `queue` is the
rest of its candidate list. Only the client leaves `yielded`: no deadline is armed at a
`yield`. `offered`, `failed` and `startupRecords` are history variables.

* `Refuse`, `AnswerAtOnce`, `Start` are the beginning of a call up to its first await.
* `AttemptSucceeds`, `RetryLater`, `FailOver`, `GiveUp` are the code after a provider has
  answered; `BackoffEnds` the code after a sleep. A success records, activates and, for a
  generation, selects, all in one step, as no await separates them.
* `StreamPull`, `StreamChunk` are a stream between two chunks. `StreamEnds` is its end or an
  error after the first chunk (outcome "broken", no failover any more); `StreamDeadline` the
  overall deadline at an await of the router (outcome "deadline", which the code raises as
  TIMEOUT). `Cancel` ends a call at any place.
* `CheckBegin`, `ProbeStart`, `CheckEnd`, `CheckCancelled` are `health_check` with its
  gathered probes.
* `InitializeBegin`, `Discover`, `UseDefault`, `StartupFails`, `CloseBegin`,
  `CloseProvider`, `LifecycleCancelled` are the two lifecycle operations, one provider at
  a time. They take providers in any order, which allows more than the code does. Calls
  do not take the lock, so they interleave with both.

A candidate is a provider and a model. The ranking, the required capabilities and the
budget decide which eligible candidates a request gets and in which order; the model
allows every list of distinct eligible candidates. Without a catalogue the list is that of
`_legacy_candidates`, in exactly its order.

### QuoteCache

The cache is the sequence of its symbols, oldest expiry first; `stale` are those whose
time has passed. A lock object is named by the call whose `setdefault` created it, so a
symbol can have an old lock that calls still hold and a new one. `asyncio.Lock` is
external and modelled as it behaves: `release()` unlocks and completes the future of the
first waiter, which takes the lock only when the loop runs it; a new call does not
overtake waiters; a cancelled waiter passes its wake-up on. Nothing is awaited under
`_cache_guard`, so it is never contended and not modelled. How long a woken task waits for
its turn is left open, which covers every order in which the loop can run what is ready.

### ProviderBudget

`spend` is `_spend`; `Current` is `_current`, which every operation calls first. `Choose`
is `_generation_candidates` (it looks at soft limits, therefore at all totals, and permits
models); `FailOver` moves to the next candidate; `Respond` is the end of `generate` with its `record`;
`EndUnrecorded` are the ways a request ends without one: errors, cancellation, streams,
models that were not discovered. Amounts are whole numbers: floating-point rounding is
not modelled. `permits` and `record` run under a thread lock and are atomic. The clock
never goes back.

### ServiceLifecycle, ToolExecution, Service

`app` is the line of `lifespan` in `main.py`; `lifecycle` is `OperationsService._lifecycle`;
`opened` is `ToolManager._initialized`, `cached` its `_health_cache`; `own` is the state a
tool keeps of itself and `resource` what has become of its clients. An awaited step ends ok,
with an `Exception`, or interrupted by a `BaseException`: `EndsWith` lists what each caller
lets through. `InitializeTool`, `InitializeRouter`, `StartSession` are the start;
`BeginStopping`, `EndSession`, `CloseRouter`, `CloseTool`, `FinishClosing` the end, and the
last two also the roll-back of a failed `ToolManager.initialize`. `Ready` is the conjunction
in `readiness()`. `ProbeTools`, `ToolProbed`, `ToolsProbed` are `statuses()`: only the stock
tool awaits, and it writes its state afterwards. Nothing in the service calls `statuses()`
today; it is a public operation and tested. The router appears as new, partly open, open or
closed, which are its flags: its `close` goes on over errors of its providers, so "closed" does
not say that each of them released its client. `ProviderRouter` says the rest. Of the checks of
`validate_startup` that of the version is left out, as `__version__` is a literal.

In `ToolExecution`, `stage` is where `execute` is suspended: `expiring` when the deadline has
cancelled the task, `cancelling` when the client has, `both` when both have before the
cancellation was delivered. `asyncio.timeout` answers with a timeout only when the deadline
alone asked for it. `thread` follows the handler of a synchronous tool through the pool. The two counters are fed by every event in the same
step, as `CompositeExecutionEventLogger` does. MCP always passes a registered name; `execute`
is also called directly, so unknown and invalid names are inputs too.

`Service` composes them. What they share is order: requests arrive only at the lifespan's
`yield`, and the session manager's context does not exit before its calls have ended.

### LLMAnalysis and ModelRanking

A model is a record of what ranking and choice look at, with scores in thousandths; `word` is the place of its
name among all names, by which the low-budget choice breaks ties.
`Rank` is `ModelRankingEngine.rank`, `BudgetModels` is `select_budget_models`. Both sort with
`Ordered`, which puts a model behind as many others as precede it. `choices` and
`attempts` are the locals of `execute`, `history` is the ring buffer. The router is seen
through its answers: some eligible model responds, or a `ProviderError` comes back. Two history
variables tell what the record cannot: `calls` counts the calls of the router, `unrecorded`
holds the models that the router's own failover asked in vain within the call that answered
(`Earlier`: for a pinned name, the other providers of that name).
`RankedAttempt` has no price, as the record of the last resort has none. Deadline and cancellation leave no record.

### LLMClient and MarketClients

A client is none, open, or `draining`: closed while it is still referenced. A response is a
status and a body; a body is a record of the parts the adapter looks at, every shape it tells
apart among them. `escaped` is an exception no handler of the adapter names.

### WebsiteReader, SqlQuery, CsvAnalysis

`WebsiteReader` splits a fetch at its awaits: the resolver, the response, each chunk. `pin`
is the context variable with the vetted address, `pool` the connections the client keeps; one
that fits is used again, as httpx does. `SqlQuery` takes a query as a sequence of lexemes:
`Scan` is the scanner of the check, a recursive function over the lexemes (`Scanned`),
`Placeholders` that of the PostgreSQL binding, which knows dollar quotes. `value` is what the
adapter meets first in the values it binds: `Binding` takes each place of the query to its value,
which may be missing, may have no encoding (a lone surrogate), or be too large. `Close` and
`Cancelled` may both hit the close of the connection, whose error replaces what was under way. `Row` reads
up to one row more than asked for. `CsvAnalysis` takes a cell for its kind, which is what `_infer` makes of it.

### EnvStore and Configuration

`EnvStore` splits `write_env_var` into read, open (which truncates), write and rename; the
temporary file has one name for all sessions. A writer whose file was renamed goes on
writing into `.env`. `saved` and `overlapped` are history variables. `Configuration` takes
each section for what its validators tell apart; ranges of single numbers are one flag
`within`. `Kept` is a filter that keeps the order of a priority list. `Load`, `Discover`,
`BuildRouter`, `BuildTools` are the start-up in order.

### Requests

These nine parts share no variable with each other, so their product shows nothing that each
alone does not: `part` is chosen once and its module runs. Parts that do interact are
composed for real, in `Service` and `ProviderBudget`.

Its assumptions say what the code is given. A catalogue lists a model of a provider once and
its numbers are in the ranges `ProviderModel` gives them, and no model has the name that stands
for auto mode; the priority of the ranking names a
provider once (the router refuses another); addresses are numbers, as the reader sorts them;
a query is a list of lexemes and no quotation mark is a forbidden word; settings have every
section.

## 3. Runs

| Run | Instance | Shows |
|---|---|---|
| `router_calls` | generate and stream call, retry at one provider, two faults, deadline | `TypeOK`, `Accounting`, `RetriesBounded`, `ExhaustiveFailover`, `IsolationEndsByProbe` |
| `router_checks` | list call, health check, start-up discovery with partial catalogues | `Accounting`, `StatusExplained` |
| `router_liveness` | one stream that need not end, the router opened twice | `Accounting`, `CallsReturn`, `LifecycleReturns` |
| `router_closed` | as `router_calls` with one call | violation, finding 1 |
| `router_recovery` | discovery at start-up, one health check | violation, finding 2 |
| `quote_cache` | five calls, two symbols, a cache of one, a close | `TypeOK`, `CacheBounded`, `LockExclusion`, `HolderKeepsLock` |
| `quote_fetch` | three calls of one symbol, two providers, one retry | `Coalesced`, `RejectedByAll`, `CallsReturn` |
| `quote_coalescing` | five calls, a cache of one | violation, finding 3 |
| `budget` | two requests, three models, three days in two months | `TypeOK`, `OverspendBounded`, `LedgerSpec` |
| `budget_failover` | two requests, two models | violation, finding 4 |
| `service` | two tools, two calls, one worker thread, one interrupt, one probe | `ServiceTypeOK`, `ReadyIsServing`, `NothingLeftOpen`, `StoppedMeansReleased`, `MetricsAccount`, `CallsEndBeforeTools`, `ClosedInReverse`, `NoWorkAfterAnswer`, `LifespanEnds`, `EveryCallAnswered` |
| `requests` | one part per behaviour, see below | `RequestsTypeOK`, `AnswerExplained`, `FreeBeforePaid`, `PriorityOutweighs`, `AnswersNormalized`, `PinnedConnections`, `QueryContained`, `SummaryAccounts`, `AcceptedBuilds`, `EnvStaysUsable` |

**Bounds.** Two providers are enough for failover, isolation of one and priority; a retry
count of one and of zero gives the boundary cases of the retry loop; two concurrent calls
interleave at every await. Three calls for a symbol give a holder, a woken waiter and a
newcomer, and two more of another symbol evict it. Two requests exceed a limit
together. `MaxOpens`, `MaxCloses` and `LastDay` bound what the program does without
bound; every call, probe and health check is made once. The runs stop when all calls are
done and the lifespan has ended, so `CHECK_DEADLOCK` is off. Symmetry is used for interchangeable calls, in runs
that check safety alone.

In `service`, two tools tell forward from reverse, one of them probes and the other runs in a
thread; two calls share one worker, so one can be queued while the other never ends; one
interrupt (`Interrupts`) may strike any await, and errors any number of them.

In `requests`: five models of two providers, of which two candidates are tried, a history of
one record and two requests that overwrite it; streams of two lines and bodies up to one
chunk over the limit; two fetches over names that resolve to a private address the second
time, and one redirect; every query of up to two lexemes after `SELECT` from a set with quotes,
brackets, separators and a forbidden word, and some longer ones; tables and files of one row
more than the limit, with every kind of cell; two savers of two providers' variables; and
settings that differ from the default in one section, or in two providers and the
priority. `MaxRequests`, `MaxLines`, `MaxTable`, `MaxFileRows` and `MaxSaves` are bounds of
the model; the rest are limits of the configuration.

**Fairness.** Every provider call has an HTTP timeout and therefore answers or fails
(`AttemptReturns`, `ProviderAnswers`); sleeps and deadlines expire; the event loop runs
what is ready (`Resume`, `ProbeStart`, `CheckEnd`); the loops of `initialize` and `close`
go on (`LifecycleStep`). All are weak, but for the deadline of a stream: it is enabled at
the awaits only, which a stream leaves and enters with each chunk, and once it has passed the
next await raises it; so it is strongly fair. Clients owe nothing: no call need start or be
cancelled, no client need take a chunk, and `StreamEnds` is not fair, so `CallsReturn` rests on
the deadline. It excepts the stream whose client stays at one chunk for ever: the code ends
no such stream, and the hazards list it. Where `stream_timeout_seconds` is not configured a
stream may last for ever.

In `Service`, the awaited steps of the lifespan end, in one way or another; timers fire
(`DeadlinePasses`), the loop delivers cancellations (`CancellationDelivered`), and a session
that exits cancels its calls. A handler need never end, nor a thread, nor need a
worker ever take a queued handler, so `EveryCallAnswered` rests on the deadline. That a
delivered cancellation ends the handler is asyncio's contract for code that does not swallow
it, and no handler here does. `serving` may last for ever. `Requests` checks safety only.

**Mutants.** Every property of a passing run has a mutant of the code it is about, beside
its original in the module and marked as a mutation: TLC finds each property
violated under its mutant.
A conjunction that stands for several parts (`AnswersNormalized`, the type invariants) has
one mutant in one of them.

## 4. What the properties say

* `Accounting`: requests + retries + start-up records = successes + errors + attempts under
  way or abandoned, at each provider, always.
* `RetriesBounded`: at most `retry_count` retries per request a provider received.
* `StatusExplained`: status and last error of a provider come from the same result.
* `ExhaustiveFailover`: a call of any kind, a stream before its first chunk included, reports a
  provider's error that failover could avoid only when every offered candidate has failed. The
  overall deadline of a stream and an error after its first chunk are exceptions: they end it
  with candidates left.
* `IsolationEndsByProbe`: a provider that is unavailable and that nobody is calling comes
  back by a health check or the lifecycle only. Nothing in the service calls
  `health_check` of the router, so in the deployed program such a provider stays out until
  the service restarts.
* `CallsReturn`, `LifecycleReturns`: calls end, unless the client of a stream stops pulling for
  ever, and the lifecycle lock is released.
* `CacheBounded`, `LockExclusion`, `HolderKeepsLock`: the limit of the cache, mutual
  exclusion per lock, and that eviction leaves a held lock alone.
* `Coalesced`: one fetch of a symbol at a time. It holds when nothing is evicted and fails
  with eviction (finding 3).
* `RejectedByAll`: the symbol is blamed exactly when every provider rejected it.
* `LedgerSpec`: lazily reset totals are indistinguishable from accounts that a clock
  resets.
* `OverspendBounded`: recorded spending exceeds a limit by at most one response of each
  concurrent request.
* `ReadyIsServing`: `/ready` says yes only at the lifespan's `yield`, with every tool's
  clients and the router open, although health is cached and probes may answer late.
* `NothingLeftOpen`: at the end every tool is closed, unless an interrupt ended the last close
  before its turn, and the router too, unless an interrupt kept the lifespan from it.
* `StoppedMeansReleased`, `ClosedInReverse`: "stopped" means everything was closed; no
  tool is closed before one that was opened after it.
* `CallsEndBeforeTools`, `LifespanEnds`: no call sees its tools close; start-up and shutdown
  end.
* `MetricsAccount`: started calls equal successes, failures and calls in flight, requests
  refused before their start are failures without an execution, successes equal results, and
  the error categories equal the failed answers.
* `NoWorkAfterAnswer`, `EveryCallAnswered`: a queued handler does not start, and an answer does
  not change, after the answer; every started call is answered although handlers may hang.
* `AnswerExplained`: the record of a request has one attempt for each call of the router, in
  order, the last alone of which may have succeeded, and says failover exactly when one of the
  calls failed. What the router did within a call is not in it, and a failover
  that it denies is the router's own in a first and only call that left it a choice: unpinned, or
  pinned to a name that several models have.
* `FreeBeforePaid`: of the low-budget candidates that failed, as they were pinned, none is there
  twice and none that costs stands before a free one; at most one further call follows. It says
  nothing of the models within a call: the last resort may ask a failed one again, and a pinned
  name may be served by another provider, at a price.
* `PriorityOutweighs`: the explicit priority outweighs all else in the score. It is claimed of a model that is
  free or costs less than 15000 dollars per million tokens. The other parts of a score sum up to
  100 points, as much as a place in the priority; only the part for the cost, never zero, keeps
  the worst model of one place above the best of the next, and at higher prices rounding takes
  it away. It was the attempt at a proof that showed the bound to be needed.
* `AnswersNormalized`: results or categories for what a service answers, and retried categories
  only for what a repetition can change. `ErrorsNormalized` of the two modules exempts, each with a
  hazard: a request that finds its client being closed (of an AI service, or of the exchange
  rates), every list of models, and an exchange rate that no float holds. There the code lets an
  exception escape.
* `PinnedConnections`: connections go to addresses vetted for their host, over repeated
  resolutions, redirects and a shared pool.
* `QueryContained`: no separator, comment or forbidden word outside literals reaches a database,
  judged by a second definition of literals (`Quoted`) than the scanner's, for the queries whose
  quotes the check and the engine read alike (`SameQuotes`): for PostgreSQL those without brackets
  and dollar quotes, for SQLite those that do not mix apostrophes and brackets; escape strings are
  in none. Rows and truncation are right; connections are
  closed, whatever error or cancellation comes in between; an error escapes only from SQLite or
  for a value that cannot be encoded.
* `SummaryAccounts`: a CSV answer accounts for every cell of the rows it describes.
* `AcceptedBuilds`: what the validators accept can be built, but for the faults in `Unjudged`
  that they cannot see.
* `EnvStaysUsable`: wherever the process is killed, the file is whole, keeps every saved
  variable, and enables a provider only with all it needs. It claims nothing once two saves
  have overlapped: then saves can be lost, and the model shows it.

## 5. Findings

1. *A closed router comes back to life.* A call that awaits its provider while `close()`
   runs records its result afterwards (`router.py:514-515`): the provider is healthy and
   active again. `tests/unit/providers/test_router.py:358-359` says a closed router has no active
   provider and closed providers only; the test has no call in flight.
2. *A recovered provider is not eligible.* When start-up discovery fails, `_models` gets no
   entry (`router.py:205-206`) and nothing adds one later. `ARCHITECTURE.md:90`: "A later
   successful request or health check restores an eligible provider."
3. *Eviction breaks coalescing.* `_store` drops the lock of the evicted symbol when
   `locked()` is false, as it is between a release and the turn of the woken waiter
   (`stock_price.py:219-221`, `currency_converter.py:142-144`). The waiter fetches under the
   old lock, the next call under a new one. It takes two provider answers that become ready
   in the same iteration of the loop. `CHANGELOG.md:233` promises "concurrent request
   coalescing".
4. *Failover ignores the budget.* Budgets are looked at once per request
   (`router.py:458`). `CHANGELOG.md:82`: "hard budget limits prevent routing to an
   over-budget provider".

Two further disagreements are modelled, and the properties except them:

* *The record misses the router's own failover.* A call of the router that fails over within
  itself and answers is one successful attempt, with `failover` false (`llm_analysis.py:191`).
  `providers/domain/routing.py:36` says the record tells of "any failover". `AnswerExplained`
  bounds it: the record denies a failover only within a single call that left a choice.
* *The check and PostgreSQL read quotes differently.* The check skips what stands in brackets,
  which PostgreSQL does not quote, and takes an apostrophe between dollar quotes for the start
  of a literal (`sql_query.py:39-96`), so not every query that `sql_query.py:82` promises to
  reject is; the read-only transaction and the preparation of a single command refuse the rest.
  `QueryContained` says nothing of such queries.

## 6. Proofs

All theorems are about the specification of their module (`ServiceSpec` in `Service`, `Spec`
elsewhere), for all values of the constants that satisfy the named
assumptions of the module. Those of `RouterAssumption`, `QuoteCacheAssumption`,
`BudgetAssumption`, `LifecycleAssumption` and `ExecutionAssumption` are finite sets of actors,
functions of the right type, special values outside the ordinary ones, a calendar whose months
come in order, a list that has every managed tool once. Those of `Requests` are described in
section 2. TLC evaluates all of them in the runs.

* **Router.** `TypeCorrect` proves `TypeInv`, which adds to `TypeOK` that a task past its
  start is at a real candidate (`AtCandidate`). `StatusTheorem` is inductive with it: all writes of a
  status are records or closes. `AccountingTheorem` follows how `Unrecorded`, a set of tasks, gains and
  loses members, one lemma per kind of step. `FailoverTheorem` needs `FailoverInv`: what a
  running call, stream or not, was offered is what failed, what it is calling and what is queued;
  a stream that delivers has left that behind, as no outcome of it is a candidate's error.
  `IsolationTheorem` is an action property: a step that calls p needs p in a
  candidate list, which an unavailable p is not in.
* **Cache.** `BoundTheorem` and `TypeCorrect` share `TypeInv`, with the shape of the wait queues
  (`QueueInv`). `ExclusionTheorem` needs `WokenFirst`: a woken task is the first waiter of a lock
  nobody holds; without it two tasks might be woken for one lock. `HolderTheorem` follows from exclusion.
  `CoalescedTheorem` assumes room for every symbol and no close, and shows that then a symbol
  keeps its lock for ever (`CurrentLock`). `VerdictTheorem` relates `sawOther` to the faults seen.
* **Budgets.** `TypeInv` adds that totals carry the date of a day that has come, and its
  month (`Dated`), which the refinement needs at midnight: totals of the new day cannot exist yet.
  `LedgerTheorem` shows each step to be a step of the ledger or a stutter. `OverspendTheorem`
  uses `OverspendInv`: a total over its limit leaves room below the bound for one response of
  every request that may still be answered by the provider.

* **Retries.** `RetriesTheorem` needs `RetriesLeft`: a task under way still holds the retries it
  has not used. Those spent and those held together are at most `retry_count` for each request
  received; without those held, a retry would break the bound.
* **Lifecycle.** `LifecycleInv` is what each place of the lifespan has behind it. The opened tools
  are the first of the order and a running close goes through them backwards
  (`OpenedInOrder`, `ClosingBackwards`); until it begins, opened tools are open and the others
  untouched, and afterwards nothing behind it is open (`StandingTools`, `BehindClose`); only an
  interrupt leaves a router behind (`RouterPhase`); a close that nothing failed has released
  everything (`CleanClose`). `ReadyTheorem`, `NothingOpenTheorem`, `StoppedTheorem` and the action
  property `ClosedInReverseTheorem` follow. Probes write health only, never a client, so a late one
  cannot disturb it: readiness rests on `lifecycle` (`LifecyclePhase`), not on the cached health.
* **Calls.** `MetricsTheorem` is inductive once `CallInv` ties a worker thread to its call
  (`ThreadOfCall`) and a name to every call that was counted (`NameOfCall`). A step moves one
  call between the sets that the counters count, and `Recount` says what that does to the size of
  a set. Calls need not be finitely many: those that have arrived are. `NoWorkTheorem` is an
  action property over `ThreadOfCall`; `CallsEndTheorem` ties the stages to the place of the lifespan.
* **Adapters and reader.** `ChatInv`, `MarketInv`: a result is known only for a request that was
  sent, over the client it was sent with. `WebsiteInv` needs `PinOfHost`: from the
  check to the end of the connection a fetch is at an admitted host, and its pin is among the addresses vetted for it.
* **Query.** `QueryTheorem` is about queries of every length whose quotes check and engine read
  alike (`SameQuotes`). The scan is compared with the
  second definition of literals: a lexeme outside of literals is one the scan keeps
  (`ScanSees`), an odd number of apostrophes before it is a scan within a quotation
  (`OddApostrophes`), likewise with brackets. These are inductions over the query, stated with
  the set of the positions where a fact holds (`UpTo`), as no induction over a predicate can be used.
  `SqlInv` then follows the accepted query to the database and the connection to its close.
* **`.env` file.** `UsableTheorem` needs the order of the writes still to do (`Orderly`: a provider
  is enabled after its key, address and model, and ranked after it is enabled), that a
  priority names a provider once, which the file itself keeps so, and what a save in each place has read and written
  (`SaveInOrder`). All of it is claimed while no two saves have overlapped.
* **CSV.** `CsvInv` counts, per column, values and blanks of the rows read so far
  (`ColumnAccounts`), and says when the rows read are those of the file (`RowsAccount`).
* **Analysis.** `Ordered` is proved to sort any finite set by any strict total order
  (`OrderedSorts`), and the three keys of the code to be such orders (`KeysAreOrders`); so the
  choice has free models first and each model once. `AnalysisInv` carries that through the
  attempts: what failed comes before what is left. What a call asked in vain before a
  pinned answer has the name of the model that answered, and is another (`EarlierShared`).
  `PriorityTheorem` bounds every other part of a score (`MeritBounds`).
* **Start-up.** `ConfigInv` keeps, at each phase, that the accepted settings are those in use and
  that the router has the enabled providers in the order of the priority (`KeptNames`);
  `RouterFault` and `StockFault` show that a failed build has a fault that `Unjudged` lists.
* **Types.** `RequestsTypeTheorem` collects the types of all nine parts from these invariants.

Model-checked only: `CallsReturn`, `LifecycleReturns`, `LifespanEnds` and `EveryCallAnswered`,
as liveness under fairness is out of the prover's reach; and the four violations, which are
counterexamples. Recursive operators are written as functions or by counting in every module with a
theorem.

## 7. Not modelled

* The snapshot of the operations service and its pages: a read-only view of counters that
  other modules own. The dashboard's pages: Streamlit presentation. The host and origin checks
  and the stdio relay: no state of their own.
* Latency, token usage, durations, event logs, prompts and wording; floating-point rounding.
* What external code does inside: httpx and its pool beyond reuse by host, databases, the
  parsing of the environment by pydantic, the detection of a CSV delimiter, statistics.
* Escape strings of PostgreSQL (`E'...'`) are not among the queries: a backslash is no lexeme.
* `WebsiteReader` models the default, `require_public_ip`; without it nothing is pinned.
* The currency converter's cache has no module of its own: it repeats `QuoteCache` with one
  provider.
* In the caches, the quote itself and the providers' `initialize`. Two facts about the caches'
  locks have no check because the code states no expectation: locks of symbols that never
  succeed are kept for ever, and a fetch in flight over `close()` stores its quote
  afterwards. Requests without a catalogue and streams spend nothing in the budgets
  (`EndUnrecorded`).

Some faults are modelled and have no property, as nothing in the repository says otherwise:
a probe that answers after `close()` marks a closed tool healthy; a stream cut off
without `[DONE]` ends as if complete; overlapping saves lose one; a fetch over a client that
is closed during name resolution ends with an unnamed exception. They are in `hazards` with
their notes.

## 8. Plan

1. The router as `LLMAnalysis` sees it, as an abstract specification that `ProviderRouter`
   implements.
2. What an execution promises its client, as an abstract specification (waiting, running,
   answered once) that `ToolExecution` implements.
3. Properties for the faults that are modelled without one, where a document can be found that
   states an expectation.
