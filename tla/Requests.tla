------------------------------ MODULE Requests ------------------------------
(* The parts of the process that serve one request each: the analysis tool    *)
(* over the router, the clients of the external services, the website reader, *)
(* the query, the file analysis; and the two that happen before any request:  *)
(* the configuration and the dashboard's .env file.  They share no variable.  *)
(* A behaviour is one of one part, chosen at its start; the others stand      *)
(* still, as their interleaving with each other changes nothing.              *)
EXTENDS Integers, Sequences, FiniteSets

CONSTANTS
  \* the analysis tool and the choice of models
  MaxCandidates, LongPromptTokens, Catalogs, Tasks, Model, Priority, SoftLimited,
  MaxOutput, MaxInput, HistoryLimit, MaxRequests,
  \* the HTTP clients
  Statuses, Counts, MaxTokens, MaxPromptBytes, MaxLines, Prices, MaxBytes,
  \* the website reader
  Fetches, Hosts, LocalHosts, AllowedHosts, Zone, PublicAddresses,
  MaxRedirects, MaxCharacters, Documents,
  \* the query and the file
  Queries, Parameters, Values, Forbidden, FunctionKeywords, MaxRows, MaxTable,
  Columns, Cells, PreviewRows, MaxFileRows,
  \* the .env file and the configuration
  Sessions, Providers, Candidates, MaxSaves, BuiltIn, Presets, Environments

ASSUME BoundsAssumption ==
  /\ {MaxCandidates, LongPromptTokens, MaxOutput, MaxInput, MaxRequests, MaxLines, MaxBytes,
      MaxRedirects, MaxCharacters, MaxTable, MaxFileRows, MaxSaves} \subseteq Nat
  /\ {HistoryLimit, MaxRows, PreviewRows, Candidates} \subseteq Nat \ {0}

VARIABLES
  part,    \* the part whose behaviour this is
  analysisPlace, catalog, choices, attempts, history, requests, routerCalls,
  unrecorded,
  llmClient, llmRequest, llmOver, llmStatus, lines, llmResult, listed,
  adapter, marketAsked, marketClient, marketOver, marketStatus, received, marketResult, quote,
  siteClient, siteHealth, pool, fetch,
  query, engine, sqlPlace, value, connection, fetched, table, answer, sqlOutcome,
  csvPlace, file, values, missing, preview, scanned, truncated, summaries, csvOutcome,
  env, tmp, session, saves, overlapped, saved,
  phase, settings, installed, router, tools

Analysis == INSTANCE LLMAnalysis WITH FixedModel <- "none", place <- analysisPlace, calls <- routerCalls
Fixed    == INSTANCE LLMAnalysis WITH FixedModel <- Model, place <- analysisPlace, calls <- routerCalls
LLM      == INSTANCE LLMClient WITH client <- llmClient, request <- llmRequest, over <- llmOver,
                                    status <- llmStatus, result <- llmResult
Market   == INSTANCE MarketClients WITH asked <- marketAsked, client <- marketClient, over <- marketOver,
                                        status <- marketStatus, result <- marketResult
Website  == INSTANCE WebsiteReader WITH client <- siteClient, health <- siteHealth
Sql      == INSTANCE SqlQuery WITH place <- sqlPlace, outcome <- sqlOutcome
Csv      == INSTANCE CsvAnalysis WITH place <- csvPlace, outcome <- csvOutcome
Env      == INSTANCE EnvStore
Config   == INSTANCE Configuration

ASSUME DataAssumption ==
  /\ Statuses \cup Prices \subseteq Nat /\ Counts \subseteq Int
  /\ LocalHosts \cup AllowedHosts \subseteq Hosts
  /\ Zone \in [Hosts -> SUBSET SUBSET Nat]   \* addresses are numbers: their order is the sorted one
  /\ FunctionKeywords \subseteq Forbidden /\ Model # "none"
  /\ Cells \subseteq Csv!CellKinds /\ Columns # {} /\ IsFiniteSet(Columns)

\* A catalogue lists each model of a provider once, with the fields in the ranges
\* ProviderModel gives them.
ASSUME CatalogAssumption ==
  \A models \in Catalogs :
    /\ IsFiniteSet(models)
    /\ \A m, n \in models : m.id = n.id => m = n
    /\ \A m \in models :
         /\ m.id \in Nat /\ m.word \in Nat /\ m.health \in 0..100 /\ m.quality \in 0..100
         /\ m.latency \in Nat /\ m.cost \in Nat /\ m.context \in Nat /\ m.free \in BOOLEAN
         /\ m.name # "none"

\* The router refuses a priority that repeats a name.
ASSUME PriorityAssumption ==
  /\ Priority \in Seq({Priority[i] : i \in DOMAIN Priority})
  /\ \A i, j \in DOMAIN Priority : Priority[i] = Priority[j] => i = j

\* A query is a list of lexemes, and no quotation mark is a keyword.
ASSUME QueryAssumption ==
  (\A q \in Queries : q \in Seq(Sql!Range(q))) /\ Forbidden \cap {"'", "["} = {}

\* Settings have every section, and a priority is a list.
ASSUME SettingsAssumption ==
  \A s \in Environments :
    /\ DOMAIN s = Config!Sections
    /\ s.priority \in Seq(Config!Range(s.priority))
    /\ s.stock.priority \in Seq(Config!Range(s.stock.priority))

Parts == {"analysis", "fixed", "llm", "market", "website", "sql", "csv", "env", "config"}

analysisVars == <<analysisPlace, catalog, choices, attempts, history, requests, routerCalls,
                  unrecorded>>
llmVars      == <<llmClient, llmRequest, llmOver, llmStatus, lines, llmResult, listed>>
marketVars   == <<adapter, marketAsked, marketClient, marketOver, marketStatus, received, marketResult, quote>>
websiteVars  == <<siteClient, siteHealth, pool, fetch>>
sqlVars      == <<query, engine, sqlPlace, value, connection, fetched, table, answer, sqlOutcome>>
csvVars      == <<csvPlace, file, values, missing, preview, scanned, truncated, summaries, csvOutcome>>
envVars      == <<env, tmp, session, saves, overlapped, saved>>
configVars   == <<phase, settings, installed, router, tools>>

requestVars == <<part, analysisVars, llmVars, marketVars, websiteVars, sqlVars, csvVars, envVars, configVars>>

Init ==
  /\ part \in Parts
  /\ Analysis!Init /\ LLM!Init /\ Market!Init /\ Website!Init
  /\ Sql!Init /\ Csv!Init /\ Env!Init /\ Config!Init

\* The part whose turn it is steps, the others are as they were.
Alone(others) == UNCHANGED part /\ UNCHANGED others

Next ==
  \/ part = "analysis" /\ Analysis!Next
     /\ Alone(<<llmVars, marketVars, websiteVars, sqlVars, csvVars, envVars, configVars>>)
  \/ part = "fixed" /\ Fixed!Next
     /\ Alone(<<llmVars, marketVars, websiteVars, sqlVars, csvVars, envVars, configVars>>)
  \/ part = "llm" /\ LLM!Next
     /\ Alone(<<analysisVars, marketVars, websiteVars, sqlVars, csvVars, envVars, configVars>>)
  \/ part = "market" /\ Market!Next
     /\ Alone(<<analysisVars, llmVars, websiteVars, sqlVars, csvVars, envVars, configVars>>)
  \/ part = "website" /\ Website!Next
     /\ Alone(<<analysisVars, llmVars, marketVars, sqlVars, csvVars, envVars, configVars>>)
  \/ part = "sql" /\ Sql!Next
     /\ Alone(<<analysisVars, llmVars, marketVars, websiteVars, csvVars, envVars, configVars>>)
  \/ part = "csv" /\ Csv!Next
     /\ Alone(<<analysisVars, llmVars, marketVars, websiteVars, sqlVars, envVars, configVars>>)
  \/ part = "env" /\ Env!Next
     /\ Alone(<<analysisVars, llmVars, marketVars, websiteVars, sqlVars, csvVars, configVars>>)
  \/ part = "config" /\ Config!Next
     /\ Alone(<<analysisVars, llmVars, marketVars, websiteVars, sqlVars, csvVars, envVars>>)

Spec == Init /\ [][Next]_requestVars

(* ------------------------------------------------------------------------ *)
(* Properties: those of the parts.  Each is explained where it is defined.    *)

\* Every variable of every part keeps its type.
RequestsTypeOK ==
  /\ part \in Parts
  /\ Analysis!TypeOK /\ LLM!TypeOK /\ Market!TypeOK /\ Website!TypeOK
  /\ Sql!TypeOK /\ Csv!TypeOK /\ Env!TypeOK /\ Config!TypeOK

\* Every answer or last failure of llm_analysis leaves one newest record that has
\* one attempt for each call of the router, in order, and says failover exactly
\* when one of the calls failed; a failover it denies is the router's own within a
\* single call that left it a choice.
AnswerExplained == Analysis!AnswerExplained

\* llm_analysis calls the router at most once for each of MaxCandidates pinned
\* models and once more; of the pinned ones that failed none is there twice, and
\* none that costs before a free one.
FreeBeforePaid == Analysis!FreeBeforePaid

\* An explicit provider priority outweighs every other part of a model's score.
PriorityOutweighs == Analysis!PriorityOutweighs

\* What a service answers becomes a result or a categorised error, and only what
\* a repetition may change is given a category that is retried.  Exempt are a
\* request that finds its client being closed (of an AI service, of the exchange
\* rates), the model lists, and an exchange rate no float holds: there the code
\* lets other exceptions escape.
AnswersNormalized == LLM!ErrorsNormalized /\ Market!ErrorsNormalized

\* Every connection of the website reader goes to an address vetted for its host,
\* across redirects, repeated resolutions and concurrent fetches.
PinnedConnections == Website!PinnedConnections

\* No statement whose quotes the check and the engine read alike reaches a database
\* with a forbidden word outside of them, every connection is closed, and truncated
\* says exactly what was left out.
QueryContained == Sql!QueryContained

\* The summaries of a CSV file account for every cell of the rows they describe.
SummaryAccounts == Csv!SummaryAccounts

\* What the validators accept can be built, but for the faults they cannot see.
AcceptedBuilds == Config!AcceptedBuilds

\* Wherever the process is killed, the .env file stays whole and usable, as long
\* as no two saves overlap.
EnvStaysUsable == Env!EnvStaysUsable
=============================================================================
