---------------------------- MODULE Configuration ----------------------------
(* From the environment to a running composition: the sections of the         *)
(* settings with their validators, the provider plugins the process installs, *)
(* and the factories that build the router and the tools of what was          *)
(* accepted.  A text is what the validators tell of it; the numbers are those *)
(* that two checks compare, all others are summed up in "within".             *)
EXTENDS Integers, FiniteSets, Sequences, SequencesExt

CONSTANTS BuiltIn,    \* providers with settings of their own
          Presets,    \* providers that are configured in the generic map
          Environments \* the settings a process may find, as parsed

VARIABLES phase,      \* found, rejected, accepted, failed, routed or built
          settings,   \* the sections
          installed,  \* plugins the process has registered
          router,     \* the providers and the priority of the router
          tools       \* the tools that were built

configVars == <<phase, settings, installed, router, tools>>

Sections == {"providers", "priority", "backoff", "stock", "website", "sql", "csv",
             "currency", "analysis", "operations"}

NoRouter == [providers |-> {}, priority |-> <<>>]

TypeOK ==
  /\ phase \in {"start", "found", "rejected", "accepted", "failed", "routed", "built"}
  /\ DOMAIN settings \in {{}, Sections} /\ installed \subseteq BuiltIn \cup Presets
  /\ router.providers \subseteq installed
  /\ tools \subseteq {"system_status", "stock_price", "website_reader", "sql_query", "csv_analysis",
                      "currency_converter", "llm_analysis"}

Init ==
  /\ phase = "start" /\ settings = <<>> /\ installed = {} /\ router = NoRouter /\ tools = {}

(* ------------------------------------------------------------------------ *)
(* Validators.                                                                *)

Duplicates(names) == Cardinality(Range(names)) # Len(names)

\* A comma separated list: blanks are dropped, the rest is trimmed and unique.
ListAccepted(names) == ~Duplicates(names) /\ "ill_formed" \notin Range(names)

\* LLMProviderSettings: an enabled provider needs a key and a model that is not blank.
ProviderAccepted(p) ==
  /\ p.url = "https" /\ p.within
  /\ p.enabled => p.key = "set" /\ p.model = "named"

\* OpenRouterSettings, read from variables of its own: blank attribution is none.
OpenRouterAccepted(p) == p.via = "attribute" => p.referer \in {"absent", "blank", "url"}

\* The origin of a market data service: https, and nothing else in it.
OriginAccepted(url) == url \in {"https", "https_slash"}
YahooAccepted(stock)  == OriginAccepted(stock.yahooUrl) /\ stock.yahooPath = "one_symbol"
AlphaAccepted(stock)  == stock.alphaPath = "relative" /\ (stock.alpha => stock.alphaKey = "set")

StockAccepted(stock) ==
  /\ YahooAccepted(stock) /\ AlphaAccepted(stock) /\ stock.within
  /\ ListAccepted(stock.priority)
  /\ stock.maxBackoff >= stock.backoff
  /\ stock.enabled => stock.yahoo \/ stock.alpha

OperationsAccepted(operations) ==
  /\ operations.within /\ operations.phase # "blank" /\ operations.url = "loopback"
  /\ operations.logLimit <= operations.logCapacity

WebsiteAccepted(website) == website.within /\ ListAccepted(website.hosts)

\* parse_postgres_dsn.
DsnAccepted(dsn) ==
  /\ dsn.scheme = "postgresql" /\ dsn.user # "" /\ dsn.host # "" /\ dsn.database # ""
  /\ ~dsn.fragment /\ dsn.query \in {"none", "sslmode"}

\* Without a DSN the parts must name a target; a blank secret is none.
SqlAccepted(sql) ==
  /\ sql.within /\ sql.backend = "postgres" /\ sql.path \in {"memory", "relative"}
  /\ IF sql.dsn.scheme # "blank" THEN DsnAccepted(sql.dsn)
     ELSE sql.host = "simple" /\ sql.database = "simple" /\ sql.user = "simple"

CsvAccepted(csv) == csv.within

CurrencyAccepted(currency) ==
  /\ currency.within /\ currency.maxBackoff >= currency.backoff
  /\ currency.enabled => currency.frankfurter

AnalysisAccepted(analysis) == analysis.within

SettingsAccepted(s) ==
  /\ \A name \in DOMAIN s.providers : ProviderAccepted(s.providers[name])
  /\ OpenRouterAccepted(s.providers["openrouter"])
  /\ ListAccepted(s.priority) /\ s.backoff[1] >= 0 /\ s.backoff[2] >= s.backoff[1]
  /\ StockAccepted(s.stock) /\ OperationsAccepted(s.operations) /\ WebsiteAccepted(s.website)
  /\ SqlAccepted(s.sql) /\ CsvAccepted(s.csv) /\ CurrencyAccepted(s.currency)
  /\ AnalysisAccepted(s.analysis)

(* ------------------------------------------------------------------------ *)
(* Composition.                                                               *)

\* Presets are installed when a variable has their name, which an entry of a
\* JSON document does not.
Plugins(s) == BuiltIn \cup {name \in Presets \cap DOMAIN s.providers : s.providers[name].via = "variables"}
Enabled(s) == {name \in DOMAIN s.providers : s.providers[name].enabled}

\* What the adapter's own configuration demands once more; OpenRouter takes its
\* settings from its own section only.
AdapterAccepts(name, p) ==
  /\ p.url = "https" /\ p.key = "set" /\ p.model = "named"
  /\ name = "openrouter" => p.via = "attribute"

\* Mutant: the explicit priority is handed over as it was written.
PriorityAsWritten(s, providers) == s.priority

\* The names that are in a set, in their order: each takes its place after as many
\* as there are before it.
Kept(names, chosen) ==
  LET places == {i \in DOMAIN names : names[i] \in chosen}
  IN [k \in 1..Cardinality(places) |->
        names[CHOOSE i \in places : Cardinality({j \in places : j < i}) = k - 1]]

ExplicitPriority(s, providers) == Kept(s.priority, providers)

\* The router: an explicit priority names all its providers, or it is refused.
RouterAccepts(providers, priority, backoff) ==
  /\ ~Duplicates(priority) /\ (priority # <<>> => Range(priority) = providers)
  /\ backoff[1] >= 0 /\ backoff[2] >= backoff[1]

\* The order of the stock providers; an empty list still names one, without a name.
StockOrder(stock) == IF stock.priority = <<>> THEN <<"nameless">> ELSE stock.priority
StockSources(stock) ==
  {name \in {"yahoo_finance", "alpha_vantage"} :
     IF name = "yahoo_finance" THEN stock.yahoo ELSE stock.alpha}
StockProviders(stock) == Kept(StockOrder(stock), StockSources(stock))
StockBuilds(stock) ==
  stock.enabled =>
    /\ Range(StockOrder(stock)) \subseteq {"yahoo_finance", "alpha_vantage"}
    /\ StockProviders(stock) # <<>> /\ stock.maxBackoff >= stock.backoff

ToolsOf(s) ==
  {"system_status"}
  \cup {tool \in {"stock_price", "website_reader", "sql_query", "csv_analysis",
                  "currency_converter", "llm_analysis"} :
          CASE tool = "stock_price"        -> s.stock.enabled
            [] tool = "website_reader"     -> s.website.enabled
            [] tool = "sql_query"          -> s.sql.enabled
            [] tool = "csv_analysis"       -> s.csv.enabled
            [] tool = "currency_converter" -> s.currency.enabled
            [] tool = "llm_analysis"       -> s.analysis.enabled}

(* ------------------------------------------------------------------------ *)
(* The start of the process.                                                  *)

\* get_settings: the validators see every section.
Load(found) ==
  /\ phase = "start" /\ settings' = found
  /\ phase' = IF SettingsAccepted(found) THEN "accepted" ELSE "rejected"
  /\ UNCHANGED <<installed, router, tools>>

\* The adapter modules register their plugins when they are first imported.
Discover ==
  /\ phase = "accepted" /\ installed = {}
  /\ installed' = Plugins(settings)
  /\ UNCHANGED <<phase, settings, router, tools>>

\* build_provider_router: of unknown names in the map only enabled ones are
\* refused, in the priority any.
BuildRouter ==
  /\ phase = "accepted" /\ installed # {}
  /\ LET providers == Enabled(settings) \cap installed
         priority  == ExplicitPriority(settings, providers)
         builds    == /\ Enabled(settings) \subseteq installed
                      /\ Range(settings.priority) \subseteq installed
                      /\ \A name \in providers : AdapterAccepts(name, settings.providers[name])
                      /\ RouterAccepts(providers, priority, settings.backoff)
     IN IF builds
        THEN phase' = "routed" /\ router' = [providers |-> providers, priority |-> priority]
        ELSE phase' = "failed" /\ UNCHANGED router
  /\ UNCHANGED <<settings, installed, tools>>

\* build_phase5_managed_tools, the stock tool first.
BuildTools ==
  /\ phase = "routed"
  /\ IF StockBuilds(settings.stock)
     THEN phase' = "built" /\ tools' = ToolsOf(settings)
     ELSE phase' = "failed" /\ UNCHANGED tools
  /\ UNCHANGED <<settings, installed, router>>

Next == (\E found \in Environments : Load(found)) \/ Discover \/ BuildRouter \/ BuildTools

Spec == Init /\ [][Next]_configVars

(* ------------------------------------------------------------------------ *)
(* Properties.                                                                *)

\* What a validator cannot judge, as it sees neither the plugins nor the other
\* section: a provider that is enabled but not installed, or given to OpenRouter
\* by the generic map; a router priority that names no plugin, or some of the
\* enabled providers and not all; a stock priority that is empty, names an
\* unknown source, or none that is enabled.
Unjudged(s) ==
  \/ ~(Enabled(s) \subseteq Plugins(s))
  \/ "openrouter" \in Enabled(s) /\ s.providers["openrouter"].via # "attribute"
  \/ ~(Range(s.priority) \subseteq Plugins(s))
  \/ Range(s.priority) \cap Enabled(s) # {} /\ ~(Enabled(s) \subseteq Range(s.priority))
  \/ /\ s.stock.enabled
     /\ \/ StockProviders(s.stock) = <<>>
        \/ ~(Range(s.stock.priority) \subseteq {"yahoo_finance", "alpha_vantage"})

\* Whatever the validators accept can be built, but for those; and the router
\* that is built has exactly the enabled providers, in an explicit order only if
\* it misses none of them.
AcceptedBuilds ==
  /\ phase = "failed" => Unjudged(settings)
  /\ phase = "built" =>
       /\ router.providers = Enabled(settings)
       /\ router.priority # <<>> => Range(router.priority) = router.providers
       /\ Range(settings.priority) \cap router.providers = Range(router.priority)
=============================================================================
