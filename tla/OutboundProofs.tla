--------------------------- MODULE OutboundProofs ---------------------------
(***************************************************************************)
(* What holds of the requests that leave the process, for every response a *)
(* service can give, every address a resolver can answer, every number of  *)
(* fetches and every moment a client is closed at: whatever comes back     *)
(* becomes a result or a categorised error, a connection goes only to an   *)
(* address that was vetted for its host, and a database gets only a query  *)
(* without a separator or a forbidden word outside of its literals,        *)
(* whatever its length and its quotation marks.                            *)
(***************************************************************************)
EXTENDS Requests, SequenceTheorems, FiniteSetTheorems, WellFoundedInduction, TLAPS

-----------------------------------------------------------------------------
(* Least numbers                                                            *)

LEMMA LeastNumber ==
  ASSUME NEW S \in SUBSET Nat, S # {}
  PROVE  \E x \in S : \A y \in S : x <= y
<1>1. \E x \in S : \A y \in S : ~ (<<y, x>> \in OpToRel(<, Nat))
  BY NatLessThanWellFounded, WFMin
<1>2. PICK x \in S : \A y \in S : ~ (<<y, x>> \in OpToRel(<, Nat))
  BY <1>1
<1>3. \A y \in S : ~ (y < x)
  BY <1>2, Zenon DEF OpToRel
<1>4. \A y \in S : x <= y
  BY <1>3
<1> QED
  BY <1>4

\* A set that has 0 and the successor of each of its members up to N has them all.
LEMMA UpTo ==
  ASSUME NEW N \in Nat, NEW S, 0 \in S, \A n \in 1..N : n - 1 \in S => n \in S
  PROVE  0..N \subseteq S
<1> DEFINE Bad == {n \in 0..N : n \notin S}
<1> SUFFICES ASSUME Bad # {} PROVE FALSE
  OBVIOUS
<1>1. PICK m \in Bad : \A n \in Bad : m <= n
  <2>1. Bad \in SUBSET Nat
    OBVIOUS
  <2> QED
    BY <2>1, LeastNumber
<1>2. m \in 1..N
  BY <1>1
<1>3. m - 1 \in 0..N /\ m - 1 \notin Bad
  BY <1>1, <1>2
<1> QED
  BY <1>1, <1>2, <1>3

-----------------------------------------------------------------------------
(* The OpenAI-compatible adapter                                            *)

\* A request not made has no response, and one without a result has at most
\* the response that lets it go on.
ChatRequest ==
  /\ llmRequest = "nothing" => llmStatus = 0 /\ llmResult = "none"
  /\ llmResult = "none" => llmStatus \in {0, 200}

ChatInv == LLM!TypeOK /\ ChatRequest /\ LLM!ErrorsNormalized

LEMMA ChatInit ==
  ASSUME LLM!Init
  PROVE  ChatInv
BY BoundsAssumption DEF LLM!Init, ChatInv, LLM!TypeOK, ChatRequest, LLM!ErrorsNormalized, LLM!Retryable

\* A status that is refused gets a category, retried only where it may help.
LEMMA StatusCategory ==
  ASSUME NEW code \in Nat
  PROVE  /\ LLM!CategoryForStatus(code) \in LLM!Categories
         /\ LLM!CategoryForStatus(code) \in LLM!Retryable =>
              code \in {402, 408, 429} \/ code >= 500
BY DEF LLM!CategoryForStatus, LLM!Categories, LLM!Retryable

LEMMA EmbeddedIsCategory ==
  ASSUME NEW code
  PROVE  LLM!EmbeddedCategory(code) \in LLM!Categories
BY DEF LLM!EmbeddedCategory, LLM!CategoryForStatus, LLM!Categories

\* Whatever the body is, it means a generation or a category.
LEMMA ChatOutcome ==
  ASSUME NEW body \in LLM!ChatBodies
  PROVE  LLM!ChatResult(body) \in LLM!Categories \cup {"ok"}
<1>1. body.kind = "object" => body.error[1] \in {"error", "none"}
  BY DEF LLM!ChatBodies, LLM!Errors
<1>2. "invalid_response" \in LLM!Categories
  BY DEF LLM!Categories
<1> QED
  BY <1>1, <1>2, EmbeddedIsCategory DEF LLM!ChatResult

\* What a list of models means; only the list escapes.
LEMMA ModelsOutcome ==
  ASSUME NEW body \in LLM!ModelBodies
  PROVE  /\ LLM!ModelsResult(body) \in LLM!Categories \cup {"ok"}
         /\ LLM!OpenRouterModelsResult(body) \in LLM!Categories \cup {"ok", "escaped"}
BY DEF LLM!ModelsResult, LLM!OpenRouterModelsResult, LLM!Categories

\* What a line of a stream means.
LEMMA LineOutcome ==
  ASSUME NEW event \in LLM!Events, LLM!Line(event)
  PROVE  llmResult' \in LLM!Categories \cup {"none", "ok"}
<1>1. event[1] \in {"noise", "no_choices", "chunk", "done", "not_json", "not_object",
                    "malformed", "error"}
  BY DEF LLM!Events
<1>2. "invalid_response" \in LLM!Categories
  BY DEF LLM!Categories
<1> QED
  BY <1>1, <1>2, EmbeddedIsCategory DEF LLM!Line

LEMMA ChatStep ==
  ASSUME ChatInv, LLM!Next \/ UNCHANGED llmVars
  PROVE  ChatInv'
<1>n. Statuses \subseteq Nat /\ MaxLines \in Nat
  BY BoundsAssumption, DataAssumption
<1>c. LLM!Categories = {"timeout", "authentication", "rate_limit", "unavailable",
                        "invalid_request", "invalid_response"}
  BY DEF LLM!Categories
<1>0. CASE UNCHANGED llmVars
  BY <1>0 DEF llmVars, ChatInv, LLM!TypeOK, ChatRequest, LLM!ErrorsNormalized
<1>1. CASE LLM!Initialize \/ LLM!CloseBegins \/ LLM!CloseEnds
  BY <1>1 DEF LLM!Initialize, LLM!CloseBegins, LLM!CloseEnds, ChatInv, LLM!TypeOK, ChatRequest,
              LLM!ErrorsNormalized
<1>2. ASSUME NEW kind \in {"models", "chat", "stream"}, LLM!Send(kind)
      PROVE  ChatInv'
  <2>1. llmResult' \in {"none", "unavailable", "escaped"} /\ (llmResult' = "escaped" => llmOver' = "draining")
        /\ llmStatus' = 0 /\ llmStatus = 0
    BY <1>2 DEF LLM!Send, ChatInv, LLM!TypeOK, ChatRequest
  <2> QED
    BY <2>1, <1>2, <1>c DEF LLM!Send, ChatInv, LLM!TypeOK, ChatRequest, LLM!ErrorsNormalized
<1>3. ASSUME NEW kind \in {"chat", "stream"}, NEW tokens, NEW bytes, LLM!SendPrompt(kind, tokens, bytes)
      PROVE  ChatInv'
  <2>1. CASE LLM!Send(kind)
    BY <1>2, <2>1
  <2>2. CASE ~LLM!Send(kind)
    BY <1>3, <2>2, <1>c DEF LLM!SendPrompt, ChatInv, LLM!TypeOK, ChatRequest, LLM!ErrorsNormalized,
      LLM!Retryable
  <2> QED
    BY <2>1, <2>2
<1>4. ASSUME NEW category, LLM!TransportFails(category)
      PROVE  ChatInv'
  BY <1>4, <1>c DEF LLM!TransportFails, LLM!Ends, ChatInv, LLM!TypeOK, ChatRequest, LLM!ErrorsNormalized
<1>5. ASSUME NEW code \in Statuses, LLM!Refused(code)
      PROVE  ChatInv'
  <2>1. LLM!CategoryForStatus(code) # "none" /\ LLM!CategoryForStatus(code) # "escaped"
    BY <1>n, <1>c, StatusCategory
  <2> QED
    BY <1>5, <1>n, <2>1, StatusCategory
    DEF LLM!Refused, LLM!Waiting, LLM!Ends, ChatInv, LLM!TypeOK, ChatRequest, LLM!ErrorsNormalized
<1>6. ASSUME NEW body \in LLM!ModelBodies, NEW openRouter \in BOOLEAN, LLM!ModelsArrive(body, openRouter)
      PROVE  ChatInv'
  <2>1. llmResult' \in LLM!Categories \cup {"ok", "escaped"} /\ llmResult' # "none"
    BY <1>6, <1>c, ModelsOutcome DEF LLM!ModelsArrive, LLM!Ends
  <2> QED
    BY <1>6, <2>1 DEF LLM!ModelsArrive, LLM!Waiting, LLM!Ends, ChatInv, LLM!TypeOK, ChatRequest,
       LLM!ErrorsNormalized
<1>7. ASSUME NEW body \in LLM!ChatBodies, LLM!ChatArrives(body)
      PROVE  ChatInv'
  <2>1. llmResult' \in LLM!Categories \cup {"ok"} /\ llmResult' \notin {"none", "escaped"}
    BY <1>7, <1>c, ChatOutcome DEF LLM!ChatArrives, LLM!Ends
  <2> QED
    BY <1>7, <2>1 DEF LLM!ChatArrives, LLM!Waiting, LLM!Ends, ChatInv, LLM!TypeOK, ChatRequest,
       LLM!ErrorsNormalized
<1>8. CASE LLM!StreamOpens \/ LLM!StreamEnds
  BY <1>8, <1>c DEF LLM!StreamOpens, LLM!StreamEnds, LLM!Waiting, LLM!Ends, ChatInv, LLM!TypeOK,
     ChatRequest, LLM!ErrorsNormalized, LLM!Retryable
<1>9. ASSUME NEW event \in LLM!Events, LLM!Line(event)
      PROVE  ChatInv'
  <2>1. llmResult' \in LLM!Categories \cup {"none", "ok"} /\ llmResult' # "escaped"
    BY <1>9, <1>c, LineOutcome
  <2>2. /\ UNCHANGED <<llmClient, llmRequest, llmOver, llmStatus, listed>>
        /\ llmStatus = 200 /\ llmRequest = "stream" /\ lines < MaxLines /\ lines' = lines + 1
    BY <1>9 DEF LLM!Line
  <2>3. LLM!TypeOK'
    BY <1>n, <2>1, <2>2 DEF ChatInv, LLM!TypeOK
  <2> QED
    BY <2>1, <2>2, <2>3 DEF ChatInv, ChatRequest, LLM!ErrorsNormalized
<1> QED
  BY <1>0, <1>1, <1>2, <1>3, <1>4, <1>5, <1>6, <1>7, <1>8, <1>9 DEF LLM!Next

-----------------------------------------------------------------------------
(* The market data adapters                                                 *)

\* Nothing happens before there is an adapter, nothing arrives before it is
\* asked, and only the client of the rates is seen while it is being closed.
MarketRequest ==
  /\ adapter = "none" => ~marketAsked /\ received = 0
  /\ ~marketAsked => marketResult = "none" /\ marketStatus = 0
  /\ marketResult = "none" => marketStatus \in {0, 200}
  /\ marketClient = "draining" => adapter \in {"none", "rates"}
  /\ adapter = "none" => marketClient = "none"

MarketInv == Market!TypeOK /\ MarketRequest /\ Market!ErrorsNormalized

LEMMA MarketInit ==
  ASSUME Market!Init
  PROVE  MarketInv
<1>1. Market!TypeOK
  BY DEF Market!Init, Market!TypeOK, Market!NoQuote, Market!Numbers
<1>2. MarketRequest
  BY DEF Market!Init, MarketRequest
<1>3. MaxBytes \in Nat
  BY BoundsAssumption
<1>4. Market!ErrorsNormalized
  BY <1>3 DEF Market!Init, Market!ErrorsNormalized, Market!Transient
<1> QED
  BY <1>1, <1>2, <1>4 DEF MarketInv

\* A status that is refused gets a category, retried only where it may help.
LEMMA MarketStatusCategory ==
  ASSUME NEW code \in Nat, NEW category,
         category \in {Market!StockCategory(code), Market!RatesCategory(code)}
  PROVE  /\ category \in Market!Failures
         /\ category \in Market!Transient => code = 429 \/ code >= 500
BY DEF Market!StockCategory, Market!RatesCategory, Market!Failures, Market!Transient

\* A maximum of one or two numbers is one of them.
LEMMA MaxOfPair ==
  ASSUME NEW m \in Int, NEW n \in Int, NEW S, S = {m} \/ S = {n} \/ S = {m, n}
  PROVE  Market!Max(S) \in S
<1>1. \E x \in S : \A y \in S : x >= y
  OBVIOUS
<1> QED
  BY <1>1 DEF Market!Max

\* A quote made of a Yahoo payload has numbers of the payload in its fields.
LEMMA YahooNumbers ==
  ASSUME NEW body \in Market!YahooBodies, Market!YahooResult(body) = "ok"
  PROVE  /\ Market!YahooQuote(body).price \in Market!Numbers \ {Market!Absent}
         /\ Market!YahooQuote(body).high \in Market!Numbers
<1> DEFINE lists == {<<>>} \cup {<<n>> : n \in Market!Numbers}
<1>1. body.chart = "result" /\ body.price \in Market!Numbers /\ body.close \in Market!Series
      /\ body.high \in Market!Numbers /\ body.highs \in lists
  BY DEF Market!YahooBodies, Market!YahooResult
<1>2. Market!YahooPrice(body) # Market!Absent
  BY <1>1 DEF Market!YahooResult
<1>3. Market!Numbers \subseteq Int /\ Market!Absent \in Market!Numbers
  BY DataAssumption DEF Market!Numbers, Market!Absent
<1>4. Market!LastNumber(body.close) \in Market!Numbers
  <2> DEFINE present == {i \in DOMAIN body.close : body.close[i] # Market!Absent}
  <2>1. PICK n \in {0, 1, 2} : DOMAIN body.close = 1..n
                               /\ \A i \in DOMAIN body.close : body.close[i] \in Market!Numbers
    <3>1. CASE body.close = <<>>
      BY <3>1
    <3>2. CASE \E n \in Market!Numbers : body.close = <<n>>
      BY <3>2
    <3>3. CASE \E m, n \in Market!Numbers : body.close = <<m, n>>
      BY <3>3
    <3> QED
      BY <1>1, <3>1, <3>2, <3>3 DEF Market!Series
  <2>2. present \subseteq {1, 2}
    BY <2>1
  <2>3. present = {} \/ Market!Max(present) \in present
    <3>1. present = {} \/ present = {1} \/ present = {2} \/ present = {1, 2}
      BY <2>2
    <3> QED
      BY <3>1, MaxOfPair
  <2> QED
    BY <1>3, <2>1, <2>3 DEF Market!LastNumber
<1>5. Market!HighestNumber(body.highs) \in Market!Numbers
  <2>1. CASE body.highs = <<>>
    <3>1. Market!Range(body.highs) = {}
      BY <2>1 DEF Market!Range
    <3> QED
      BY <1>3, <3>1 DEF Market!HighestNumber
  <2>2. ASSUME NEW n \in Market!Numbers, body.highs = <<n>>
        PROVE  Market!HighestNumber(body.highs) \in Market!Numbers
    <3>1. Market!Range(body.highs) = {n}
      BY <2>2 DEF Market!Range
    <3>2. Market!Max({n}) = n
      BY <1>3, MaxOfPair
    <3> QED
      BY <1>3, <3>1, <3>2 DEF Market!HighestNumber
  <2> QED
    BY <1>1, <2>1, <2>2
<1>6. /\ Market!YahooQuote(body).price = Market!YahooPrice(body)
      /\ Market!YahooQuote(body).high = Market!OrElse(body.high, Market!HighestNumber(body.highs))
  BY DEF Market!YahooQuote
<1> QED
  BY <1>1, <1>2, <1>4, <1>5, <1>6 DEF Market!YahooPrice, Market!OrElse

LEMMA MarketStep ==
  ASSUME MarketInv, Market!Next \/ UNCHANGED marketVars
  PROVE  MarketInv'
<1>n. Statuses \subseteq Nat /\ MaxBytes \in Nat
  BY BoundsAssumption, DataAssumption
<1>0. CASE UNCHANGED marketVars
  BY <1>0 DEF marketVars, MarketInv, Market!TypeOK, MarketRequest, Market!ErrorsNormalized
<1>1. ASSUME NEW who \in {"yahoo", "alpha", "rates"}, Market!Create(who)
      PROVE  MarketInv'
  BY <1>1, <1>n DEF Market!Create, MarketInv, Market!TypeOK, MarketRequest, Market!ErrorsNormalized
<1>2. CASE Market!Initialize \/ Market!CloseStock \/ Market!CloseRates
  BY <1>2 DEF Market!Initialize, Market!CloseStock, Market!CloseRates, MarketInv, Market!TypeOK,
              MarketRequest, Market!ErrorsNormalized
<1>3. CASE Market!Send
  <2>1. marketResult' \in {"none", "unavailable", "escaped"}
        /\ (marketResult' = "escaped" => marketOver' = "draining" /\ adapter = "rates")
    BY <1>3 DEF Market!Send, MarketInv, Market!TypeOK, MarketRequest
  <2>2. /\ adapter # "none" /\ marketAsked' = TRUE /\ marketOver' = marketClient
        /\ marketStatus = 0 /\ UNCHANGED <<adapter, marketClient, marketStatus, received, quote>>
    BY <1>3 DEF Market!Send, MarketInv, MarketRequest
  <2>3. Market!TypeOK'
    BY <2>1, <2>2 DEF MarketInv, Market!TypeOK, Market!Failures
  <2> QED
    BY <2>1, <2>2, <2>3 DEF MarketInv, MarketRequest, Market!ErrorsNormalized
\* An answer to the request: the result is none no more, or the request goes on.
<1>a. ASSUME Market!Asking, UNCHANGED <<adapter, marketAsked, marketClient, marketOver>>,
             marketResult' \in Market!Failures \cup {"none", "ok", "escaped"},
             marketStatus' \in Statuses \cup {0, 200},
             marketResult' = "none" => marketStatus' \in {0, 200},
             marketResult' = "escaped" => adapter = "rates" /\ marketStatus' = 200,
             marketResult' \in Market!Transient /\ marketStatus' \notin {0, 200} =>
               marketStatus' = 429 \/ marketStatus' >= 500,
             received' \in Nat, received' <= IF adapter = "rates" THEN 2 * MaxBytes ELSE MaxBytes,
             quote'.price \in Market!Numbers /\ quote'.high \in Market!Numbers,
             adapter \in {"yahoo", "alpha"} /\ marketResult' = "ok" => quote'.price # Market!Absent
      PROVE  MarketInv'
  <2>1. Market!TypeOK'
    BY <1>a DEF MarketInv, Market!TypeOK
  <2>2. MarketRequest'
    BY <1>a DEF MarketInv, MarketRequest, Market!Asking
  <2> QED
    BY <1>a, <2>1, <2>2 DEF MarketInv, Market!ErrorsNormalized
<1>b. received \in Nat /\ received <= (IF adapter = "rates" THEN 2 * MaxBytes ELSE MaxBytes)
      /\ quote.price \in Market!Numbers /\ quote.high \in Market!Numbers
      /\ marketStatus \in Statuses \cup {0, 200}
      /\ (Market!Asking => marketStatus \in {0, 200})
      /\ adapter \in {"none", "yahoo", "alpha", "rates"}
  BY DEF MarketInv, Market!TypeOK, Market!ErrorsNormalized, Market!Asking, MarketRequest
<1>f. Market!Failures = {"invalid_symbol", "invalid_input", "authentication", "rate_limit",
                         "unavailable", "invalid_response", "timeout", "network"}
  BY DEF Market!Failures
<1>t. Market!Transient \subseteq Market!Failures /\ "invalid_response" \notin Market!Transient
  BY DEF Market!Failures, Market!Transient
<1>4. ASSUME NEW category, Market!TransportFails(category)
      PROVE  MarketInv'
  BY <1>4, <1>a, <1>b, <1>f DEF Market!TransportFails, Market!Ends, Market!Asking
<1>5. ASSUME NEW code \in Statuses, Market!Refused(code)
      PROVE  MarketInv'
  <2>1. /\ marketResult' \in Market!Failures
        /\ marketResult' \in Market!Transient => code = 429 \/ code >= 500
    BY <1>5, <1>n, MarketStatusCategory DEF Market!Refused, Market!Ends
  <2> QED
    BY <1>5, <1>a, <1>b, <1>f, <2>1 DEF Market!Refused, Market!Ends, Market!Asking
<1>6. ASSUME NEW declared, Market!Accepted(declared)
      PROVE  MarketInv'
  BY <1>6, <1>a, <1>b, <1>f DEF Market!Accepted, Market!Asking
<1>7. ASSUME NEW size \in 1..MaxBytes, Market!Chunk(size)
      PROVE  MarketInv'
  <2>1. received' \in Nat /\ received' <= IF adapter = "rates" THEN 2 * MaxBytes ELSE MaxBytes
    BY <1>7, <1>n, <1>b DEF Market!Chunk
  <2>2. marketResult' \in {"none", "invalid_response"}
    BY <1>7 DEF Market!Chunk
  <2> QED
    BY <1>7, <1>a, <1>b, <1>f, <2>1, <2>2 DEF Market!Chunk, Market!Asking
<1>8. ASSUME NEW body \in Market!YahooBodies, Market!YahooAnswers(body)
      PROVE  MarketInv'
  <2>1. Market!YahooResult(body) \in {"ok", "invalid_symbol", "invalid_response"}
    <3>1. body.chart \in {"malformed", "error", "no_result", "result"}
      BY DEF Market!YahooBodies
    <3> QED
      BY <3>1 DEF Market!YahooResult
  <2>2. /\ quote'.price \in Market!Numbers /\ quote'.high \in Market!Numbers
        /\ marketResult' = "ok" => quote'.price # Market!Absent
    BY <1>8, <1>b, YahooNumbers DEF Market!YahooAnswers, Market!Ends
  <2>3. /\ Market!Asking /\ marketStatus = 200 /\ marketStatus' = marketStatus
        /\ marketResult' = Market!YahooResult(body)
        /\ UNCHANGED <<adapter, marketAsked, marketClient, marketOver, received>>
    BY <1>8 DEF Market!YahooAnswers, Market!Ends
  <2> QED
    BY <1>a, <1>b, <1>f, <2>1, <2>2, <2>3
<1>9. ASSUME NEW body \in Market!AlphaBodies, Market!AlphaAnswers(body)
      PROVE  MarketInv'
  <2>1. body.notice \in {"key", "limit", "none"}
    BY DEF Market!AlphaBodies
  <2>2. Market!AlphaResult(body) \in Market!Failures \cup {"ok"}
    BY <1>f, <2>1 DEF Market!AlphaResult
  <2>3. Market!AlphaResult(body) = "ok" => body.price \in Market!Numbers \ {Market!Absent}
    <3>1. Market!AlphaResult(body) = "ok" =>
            body.notice = "none" /\ body.quote = "fields" /\ body.price # Market!Absent
      BY <2>1 DEF Market!AlphaResult
    <3>2. body.notice = "none" /\ body.quote = "fields" => body.price \in Market!Numbers
      BY DEF Market!AlphaBodies
    <3> QED
      BY <3>1, <3>2
  <2>4. /\ quote'.price \in Market!Numbers /\ quote'.high \in Market!Numbers
        /\ marketResult' = "ok" => quote'.price # Market!Absent
    BY <1>9, <1>b, <2>3 DEF Market!AlphaAnswers, Market!Ends, Market!NoQuote, Market!Numbers
  <2>5. /\ Market!Asking /\ marketStatus = 200 /\ marketStatus' = marketStatus
        /\ marketResult' = Market!AlphaResult(body)
        /\ UNCHANGED <<adapter, marketAsked, marketClient, marketOver, received>>
    BY <1>9 DEF Market!AlphaAnswers, Market!Ends
  <2> QED
    BY <1>a, <1>b, <1>f, <2>2, <2>4, <2>5
<1>10. ASSUME NEW body \in Market!RatesBodies, Market!RatesAnswer(body)
       PROVE  MarketInv'
  <2>1. Market!RatesResult(body) \in {"ok", "escaped", "invalid_response"}
    BY DEF Market!RatesResult
  <2>2. /\ Market!Asking /\ marketStatus = 200 /\ adapter = "rates"
        /\ marketResult' = Market!RatesResult(body)
        /\ UNCHANGED <<adapter, marketAsked, marketClient, marketOver, received, marketStatus, quote>>
    BY <1>10 DEF Market!RatesAnswer, Market!Ends
  <2> QED
    BY <1>a, <1>b, <1>f, <2>1, <2>2
<1> QED
  BY <1>0, <1>1, <1>2, <1>3, <1>4, <1>5, <1>6, <1>7, <1>8, <1>9, <1>10 DEF Market!Next

-----------------------------------------------------------------------------
(* The website reader                                                       *)

\* A host the configuration admits.
Admitted(host) == host \notin LocalHosts /\ (AllowedHosts # {} => host \in AllowedHosts)

\* A fetch under way is at a host that is admitted, and the address it pinned
\* is one that was vetted for that host.
PinOfHost ==
  \A f \in Fetches :
    /\ fetch[f].stage \in {"resolving", "sending", "reading"} => fetch[f].host \in Hosts /\ Admitted(fetch[f].host)
    /\ fetch[f].stage = "sending" => fetch[f].pin \in Website!Vetted(fetch[f].host)

\* The stages of every call are those of the code.
FetchRecord ==
  [stage : {"idle", "resolving", "sending", "reading", "done"}, host : Hosts \cup {"none"},
   long : BOOLEAN, hops : 0..MaxRedirects, pin : Nat, bytes : Nat,
   outcome : Website!Categories \cup {"none", "ok", "escaped", "cancelled"},
   document : Documents \cup {<<>>}, page : {Website!NoPage} \cup {Website!Page(d) : d \in Documents}]

WebsiteInv ==
  /\ fetch \in [Fetches -> FetchRecord] /\ Website!TypeOK
  /\ PinOfHost /\ Website!PinnedConnections

\* Every nonempty set of addresses has a least one.
LEMMA LeastAddress ==
  ASSUME NEW S \in SUBSET Nat, S # {}
  PROVE  Website!Min(S) \in S
BY LeastNumber DEF Website!Min

LEMMA WebsiteInit ==
  ASSUME Website!Init
  PROVE  WebsiteInv
BY BoundsAssumption
DEF Website!Init, Website!NoFetch, WebsiteInv, FetchRecord, Website!TypeOK, PinOfHost,
    Website!PinnedConnections, Website!NoPage

\* The facts about calls, without the pool.
FetchInv == fetch \in [Fetches -> FetchRecord] /\ PinOfHost

\* A step of one call to a record that keeps to its pin.
LEMMA FetchChanges ==
  ASSUME FetchInv, NEW f \in Fetches, NEW next \in FetchRecord,
         fetch' = [fetch EXCEPT ![f] = next],
         next.stage \in {"resolving", "sending", "reading"} => next.host \in Hosts /\ Admitted(next.host),
         next.stage = "sending" => next.pin \in Website!Vetted(next.host)
  PROVE  FetchInv'
<1>1. \A g \in Fetches : fetch'[g] = IF g = f THEN next ELSE fetch[g]
  BY DEF FetchInv
<1>2. fetch' \in [Fetches -> FetchRecord]
  BY DEF FetchInv
<1>3. PinOfHost'
  <2> SUFFICES ASSUME NEW g \in Fetches
               PROVE  /\ fetch'[g].stage \in {"resolving", "sending", "reading"} =>
                           fetch'[g].host \in Hosts /\ Admitted(fetch'[g].host)
                      /\ fetch'[g].stage = "sending" => fetch'[g].pin \in Website!Vetted(fetch'[g].host)
    BY DEF PinOfHost
  <2>1. CASE g = f
    BY <1>1, <2>1
  <2>2. CASE g # f
    BY <1>1, <2>2 DEF FetchInv, PinOfHost
  <2> QED
    BY <2>1, <2>2
<1> QED
  BY <1>2, <1>3 DEF FetchInv

\* A call that fails is over.
LEMMA FetchFails ==
  ASSUME FetchInv, NEW f \in Fetches,
         NEW outcome \in Website!Categories \cup {"escaped", "cancelled"}, Website!Fails(f, outcome)
  PROVE  FetchInv'
<1> DEFINE next == [fetch[f] EXCEPT !.stage = "done", !.outcome = outcome]
<1>1. fetch[f] \in FetchRecord
  BY DEF FetchInv
<1>2. next \in FetchRecord /\ next.stage = "done"
  BY <1>1 DEF FetchRecord
<1>3. fetch' = [fetch EXCEPT ![f] = next]
  BY DEF Website!Fails, FetchInv
<1> HIDE DEF next
<1> QED
  BY <1>2, <1>3, FetchChanges

\* A hop goes only to a host that is admitted.
LEMMA FetchHops ==
  ASSUME FetchInv, NEW f \in Fetches, NEW host \in Hosts, NEW long \in BOOLEAN,
         NEW hops \in 0..MaxRedirects, Website!Hop(f, host, long, hops)
  PROVE  FetchInv'
<1>1. CASE host \in LocalHosts \/ (AllowedHosts # {} /\ host \notin AllowedHosts)
  BY <1>1, FetchFails DEF Website!Hop, Website!Categories
<1>2. CASE ~(host \in LocalHosts \/ (AllowedHosts # {} /\ host \notin AllowedHosts))
  <2> DEFINE next == [fetch[f] EXCEPT !.stage = "resolving", !.host = host, !.long = long,
                                       !.hops = hops, !.pin = 0]
  <2>0. fetch[f] \in FetchRecord
    BY DEF FetchInv
  <2>1. next \in FetchRecord /\ next.stage = "resolving" /\ next.host = host
    BY <2>0 DEF FetchRecord
  <2>2. fetch' = [fetch EXCEPT ![f] = next]
    BY <1>2 DEF Website!Hop, FetchInv
  <2>3. Admitted(host)
    BY <1>2 DEF Admitted
  <2> HIDE DEF next
  <2> QED
    BY <2>1, <2>2, <2>3, FetchChanges
<1> QED
  BY <1>1, <1>2

\* Every step of a call keeps the facts about calls.
LEMMA FetchStep ==
  ASSUME FetchInv, Website!Next \/ UNCHANGED websiteVars
  PROVE  FetchInv'
<1>n. MaxRedirects \in Nat /\ MaxBytes \in Nat /\ Zone \in [Hosts -> SUBSET SUBSET Nat]
  BY BoundsAssumption, DataAssumption
<1>c. Website!Categories = {"timeout", "network", "rate_limit", "unavailable", "invalid_input",
                            "invalid_response", "not_found", "authentication"}
  BY DEF Website!Categories, Website!Retryable
<1>r. \A f \in Fetches : fetch[f] \in FetchRecord
  BY DEF FetchInv
<1>0. CASE UNCHANGED websiteVars \/ Website!Initialize \/ Website!CloseBegins \/ Website!CloseEnds
  <2>1. fetch' = fetch
    BY <1>0 DEF websiteVars, Website!Initialize, Website!CloseBegins, Website!CloseEnds
  <2> QED
    BY <2>1 DEF FetchInv, PinOfHost
<1>1. ASSUME NEW f \in Fetches, NEW host \in Hosts, Website!Begin(f, host)
      PROVE  FetchInv'
  <2>1. Website!Fails(f, "unavailable") \/ Website!Hop(f, host, FALSE, 0)
    BY <1>1 DEF Website!Begin
  <2>2. "unavailable" \in Website!Categories /\ 0 \in 0..MaxRedirects /\ FALSE \in BOOLEAN
    BY <1>n, <1>c
  <2>3. CASE Website!Fails(f, "unavailable")
    BY <2>2, <2>3, FetchFails
  <2>4. CASE Website!Hop(f, host, FALSE, 0)
    BY <2>2, <2>4, FetchHops
  <2> QED
    BY <2>1, <2>3, <2>4
<1>2. ASSUME NEW f \in Fetches, NEW outcome, \/ Website!ResolverFails(f, outcome)
                                            \/ Website!TransportFails(f, outcome)
                                            \/ Website!Cancelled(f)
      PROVE  FetchInv'
  <2>1. \E o \in {"network", "escaped", "timeout", "cancelled"} : Website!Fails(f, o)
    BY <1>2 DEF Website!ResolverFails, Website!TransportFails, Website!Cancelled
  <2> QED
    BY <1>c, <2>1, FetchFails
<1>3. ASSUME NEW f \in Fetches, NEW addresses, Website!Resolved(f, addresses)
      PROVE  FetchInv'
  <2>1. CASE Website!Fails(f, "invalid_input") \/ Website!Fails(f, "escaped")
    BY <1>c, <2>1, FetchFails
  <2>2. CASE ~(Website!Fails(f, "invalid_input") \/ Website!Fails(f, "escaped"))
    <3> DEFINE next == [fetch[f] EXCEPT !.stage = "sending", !.pin = Website!Min(addresses)]
    <3>1. /\ addresses \in Zone[fetch[f].host] /\ addresses # {} /\ addresses \subseteq PublicAddresses
          /\ fetch[f].stage = "resolving"
          /\ fetch' = [fetch EXCEPT ![f].stage = "sending", ![f].pin = Website!Min(addresses)]
      BY <1>3, <2>2 DEF Website!Resolved
    <3>2. fetch[f].host \in Hosts /\ Admitted(fetch[f].host)
      BY <3>1 DEF FetchInv, PinOfHost
    <3>3. addresses \in SUBSET Nat
      BY <1>n, <3>1, <3>2
    <3>4. Website!Min(addresses) \in addresses
      BY <3>1, <3>3, LeastAddress
    <3>5. Website!Min(addresses) \in Website!Vetted(fetch[f].host)
      BY <3>1, <3>4 DEF Website!Vetted
    <3>6. next \in FetchRecord /\ next.stage = "sending" /\ next.host = fetch[f].host
          /\ next.pin = Website!Min(addresses)
      BY <1>r, <3>3, <3>4 DEF FetchRecord
    <3>7. fetch' = [fetch EXCEPT ![f] = next]
      BY <3>1 DEF FetchInv
    <3> HIDE DEF next
    <3> QED
      BY <3>2, <3>5, <3>6, <3>7, FetchChanges
  <2> QED
    BY <2>1, <2>2
<1>4. ASSUME NEW f \in Fetches, NEW address, Website!Connect(f, address)
      PROVE  FetchInv'
  BY <1>4 DEF Website!Connect, FetchInv, PinOfHost
<1>5. ASSUME NEW f \in Fetches, NEW code \in Statuses, NEW target \in Hosts \cup {"none"},
             NEW long \in BOOLEAN, Website!Redirected(f, code, target, long)
      PROVE  FetchInv'
  <2>1. CASE Website!Fails(f, "invalid_response")
    BY <1>c, <2>1, FetchFails
  <2>2. CASE ~Website!Fails(f, "invalid_response")
    <3>1. target \in Hosts /\ fetch[f].hops # MaxRedirects /\ Website!Hop(f, target, long, fetch[f].hops + 1)
      BY <1>5, <2>2 DEF Website!Redirected
    <3>2. fetch[f].hops \in 0..MaxRedirects
      BY <1>r DEF FetchRecord
    <3>3. fetch[f].hops + 1 \in 0..MaxRedirects
      BY <1>n, <3>1, <3>2
    <3> QED
      BY <3>1, <3>3, FetchHops
  <2> QED
    BY <2>1, <2>2
<1>6. ASSUME NEW f \in Fetches, NEW code \in Statuses, NEW readable \in BOOLEAN,
             Website!Responds(f, code, readable)
      PROVE  FetchInv'
  <2>1. CASE Website!Fails(f, Website!StatusCategory(code))
    <3>1. Website!StatusCategory(code) \in Website!Categories
      BY <1>c DEF Website!StatusCategory
    <3> QED
      BY <2>1, <3>1, FetchFails
  <2>2. CASE Website!Fails(f, "invalid_response")
    BY <1>c, <2>2, FetchFails
  <2>3. CASE fetch' = [fetch EXCEPT ![f].stage = "reading"]
    <3> DEFINE next == [fetch[f] EXCEPT !.stage = "reading"]
    <3>1. fetch[f].stage = "sending"
      BY <1>6 DEF Website!Responds
    <3>2. next \in FetchRecord /\ next.stage = "reading" /\ next.host = fetch[f].host
      BY <1>r DEF FetchRecord
    <3>3. fetch[f].host \in Hosts /\ Admitted(fetch[f].host)
      BY <3>1 DEF FetchInv, PinOfHost
    <3>4. fetch' = [fetch EXCEPT ![f] = next]
      BY <2>3 DEF FetchInv
    <3> HIDE DEF next
    <3> QED
      BY <3>2, <3>3, <3>4, FetchChanges
  <2> QED
    BY <1>6, <2>1, <2>2, <2>3 DEF Website!Responds
<1>7. ASSUME NEW f \in Fetches, NEW size \in 1..MaxBytes, Website!Chunk(f, size)
      PROVE  FetchInv'
  <2> DEFINE kept == fetch[f].bytes + size
             over == kept > MaxBytes
             next == [fetch[f] EXCEPT !.bytes = kept, !.stage = IF over THEN "done" ELSE @,
                                      !.outcome = IF over THEN "invalid_response" ELSE @]
  <2>1. fetch[f].stage = "reading"
    BY <1>7 DEF Website!Chunk
  <2>2. kept \in Nat
    BY <1>n, <1>r DEF FetchRecord
  <2>3. fetch' = [fetch EXCEPT ![f] = next]
    BY <1>7 DEF Website!Chunk, FetchInv
  <2> DEFINE place  == IF over THEN "done" ELSE fetch[f].stage
             result == IF over THEN "invalid_response" ELSE fetch[f].outcome
  <2>4. next \in FetchRecord /\ next.stage \in {"done", "reading"} /\ next.host = fetch[f].host
    <3>1. place \in {"done", "reading"}
      BY <2>1
    <3>2. result \in Website!Categories \cup {"none", "ok", "escaped", "cancelled"}
      BY <1>r, <1>c DEF FetchRecord
    <3>3. next = [fetch[f] EXCEPT !.bytes = kept, !.stage = place, !.outcome = result]
      OBVIOUS
    <3> HIDE DEF kept, over, place, result, next
    <3> QED
      BY <1>r, <2>2, <3>1, <3>2, <3>3 DEF FetchRecord
  <2>5. fetch[f].host \in Hosts /\ Admitted(fetch[f].host)
    BY <2>1 DEF FetchInv, PinOfHost
  <2> HIDE DEF next
  <2> QED
    BY <2>3, <2>4, <2>5, FetchChanges
<1>8. ASSUME NEW f \in Fetches, NEW document \in Documents, Website!Complete(f, document)
      PROVE  FetchInv'
  <2> DEFINE next == [fetch[f] EXCEPT !.stage = "done", !.outcome = IF fetch[f].long THEN "escaped" ELSE "ok",
                                      !.document = document, !.page = Website!Page(document)]
  <2>1. fetch' = [fetch EXCEPT ![f] = next]
    BY <1>8 DEF Website!Complete, FetchInv
  <2>2. next \in FetchRecord /\ next.stage = "done"
    BY <1>r DEF FetchRecord
  <2> HIDE DEF next
  <2> QED
    BY <2>1, <2>2, FetchChanges
<1> QED
  BY <1>0, <1>1, <1>2, <1>3, <1>4, <1>5, <1>6, <1>7, <1>8 DEF Website!Next

\* A step of a call leaves the client and its pool alone, but for a connection.
LEMMA CallLeavesClient ==
  ASSUME Website!Next \/ UNCHANGED websiteVars
  PROVE  \/ Website!Initialize \/ Website!CloseBegins \/ Website!CloseEnds
         \/ UNCHANGED <<siteClient, siteHealth, pool>>
         \/ \E f \in Fetches, address \in UNION UNION {Zone[h] : h \in Hosts} : Website!Connect(f, address)
<1>1. ASSUME NEW f, NEW host, Website!Begin(f, host)
      PROVE  UNCHANGED <<siteClient, siteHealth, pool>>
  BY <1>1 DEF Website!Begin
<1>2. ASSUME NEW f, NEW outcome, Website!ResolverFails(f, outcome)
      PROVE  UNCHANGED <<siteClient, siteHealth, pool>>
  BY <1>2 DEF Website!ResolverFails
<1>3. ASSUME NEW f, NEW addresses, Website!Resolved(f, addresses)
      PROVE  UNCHANGED <<siteClient, siteHealth, pool>>
  BY <1>3 DEF Website!Resolved
<1>4. ASSUME NEW f, NEW outcome, Website!TransportFails(f, outcome)
      PROVE  UNCHANGED <<siteClient, siteHealth, pool>>
  BY <1>4 DEF Website!TransportFails
<1>5. ASSUME NEW f, NEW code, NEW target, NEW long, Website!Redirected(f, code, target, long)
      PROVE  UNCHANGED <<siteClient, siteHealth, pool>>
  BY <1>5 DEF Website!Redirected
<1>6. ASSUME NEW f, NEW code, NEW readable, Website!Responds(f, code, readable)
      PROVE  UNCHANGED <<siteClient, siteHealth, pool>>
  BY <1>6 DEF Website!Responds
<1>7. ASSUME NEW f, NEW size, Website!Chunk(f, size)
      PROVE  UNCHANGED <<siteClient, siteHealth, pool>>
  BY <1>7 DEF Website!Chunk
<1>8. ASSUME NEW f, NEW document, Website!Complete(f, document)
      PROVE  UNCHANGED <<siteClient, siteHealth, pool>>
  BY <1>8 DEF Website!Complete
<1>9. ASSUME NEW f, Website!Cancelled(f)
      PROVE  UNCHANGED <<siteClient, siteHealth, pool>>
  BY <1>9 DEF Website!Cancelled
<1>10. CASE UNCHANGED websiteVars
  BY <1>10 DEF websiteVars
<1> QED
  BY <1>1, <1>2, <1>3, <1>4, <1>5, <1>6, <1>7, <1>8, <1>9, <1>10, Zenon DEF Website!Next

LEMMA WebsiteStep ==
  ASSUME WebsiteInv, Website!Next \/ UNCHANGED websiteVars
  PROVE  WebsiteInv'
<1> DEFINE addresses == UNION UNION {Zone[h] : h \in Hosts}
<1>1. FetchInv'
  BY FetchStep DEF WebsiteInv, FetchInv
<1>2. siteClient' \in {"none", "open", "draining"} /\ siteHealth' \in {"uninitialized", "healthy", "closed"}
  <2>1. CASE Website!Initialize \/ Website!CloseBegins \/ Website!CloseEnds
    BY <2>1 DEF WebsiteInv, Website!TypeOK, Website!Initialize, Website!CloseBegins, Website!CloseEnds
  <2>2. CASE UNCHANGED <<siteClient, siteHealth, pool>>
    BY <2>2 DEF WebsiteInv, Website!TypeOK
  <2>3. CASE \E f \in Fetches, address \in addresses : Website!Connect(f, address)
    BY <2>3 DEF WebsiteInv, Website!TypeOK, Website!Connect
  <2> QED
    BY <2>1, <2>2, <2>3, CallLeavesClient
\* Only a connection made for a call puts anything into the pool.
<1>3. \/ pool' \subseteq pool
      \/ \E f \in Fetches, address \in addresses : Website!Connect(f, address)
  <2>1. CASE Website!Initialize \/ Website!CloseBegins \/ Website!CloseEnds
    BY <2>1 DEF Website!Initialize, Website!CloseBegins, Website!CloseEnds
  <2> QED
    BY <2>1, CallLeavesClient
<1>5. ASSUME NEW f \in Fetches, NEW address \in addresses, Website!Connect(f, address)
      PROVE  pool' \subseteq Hosts \X addresses /\ Website!PinnedConnections'
  <2>1. /\ fetch[f].stage = "sending" /\ pool' = pool \cup {<<fetch[f].host, address>>}
        /\ address = fetch[f].pin
    BY <1>5 DEF Website!Connect
  <2>2. fetch[f].host \in Hosts /\ Admitted(fetch[f].host) /\ address \in Website!Vetted(fetch[f].host)
    BY <2>1 DEF WebsiteInv, PinOfHost
  <2>3. pool \subseteq Hosts \X addresses
    BY DEF WebsiteInv, Website!TypeOK
  <2>4. Website!PinnedConnections'
    BY <2>1, <2>2 DEF WebsiteInv, Website!PinnedConnections, Admitted
  <2> QED
    BY <2>1, <2>2, <2>3, <2>4
<1>6. pool' \subseteq Hosts \X addresses /\ Website!PinnedConnections'
  <2>1. CASE pool' \subseteq pool
    BY <2>1 DEF WebsiteInv, Website!TypeOK, Website!PinnedConnections
  <2> QED
    BY <1>3, <1>5, <2>1
<1>7. \A f \in Fetches : fetch'[f] \in FetchRecord
  BY <1>1 DEF FetchInv
<1>8. Website!TypeOK'
  BY <1>2, <1>6, <1>7 DEF Website!TypeOK, FetchRecord
<1> QED
  BY <1>1, <1>6, <1>8 DEF WebsiteInv, FetchInv

-----------------------------------------------------------------------------
(* The query: what the scan has seen                                        *)

Marks == {"'", "["}
Start == [mode |-> "out", mark |-> "'", outside |-> <<>>]

Lexemes(q)   == Sql!Range(q) \cup {"literal"}
ScanStates(q) == [mode : {"out", "in", "maybe"}, mark : {"'", "]"}, outside : Seq(Lexemes(q))]

\* One step of the scan, case by case.
LEMMA StepForms ==
  ASSUME NEW q, NEW s \in ScanStates(q), NEW x
  PROVE  LET t == Sql!Step(s, x, Marks) IN
         /\ s.mode = "in" /\ x = s.mark
              => t = [mode |-> IF s.mark = "'" THEN "maybe" ELSE "out", mark |-> s.mark,
                      outside |-> s.outside]
         /\ s.mode = "in" /\ x # s.mark => t = s
         /\ s.mode = "maybe" /\ x = "'" => t = [mode |-> "in", mark |-> s.mark, outside |-> s.outside]
         /\ s.mode # "in" /\ ~(s.mode = "maybe" /\ x = "'") =>
              /\ x \in Marks => t = [mode |-> "in", mark |-> Sql!Closing[x],
                                     outside |-> Append(s.outside, "literal")]
              /\ x \notin Marks => t = [mode |-> "out", mark |-> s.mark,
                                        outside |-> Append(s.outside, x)]
<1> DEFINE t == Sql!Step(s, x, Marks)
           quits == IF s.mark = "'" THEN "maybe" ELSE "out"
<1>1. /\ [s EXCEPT !.mode = quits] = [mode |-> quits, mark |-> s.mark, outside |-> s.outside]
      /\ [s EXCEPT !.mode = "in"] = [mode |-> "in", mark |-> s.mark, outside |-> s.outside]
  BY DEF ScanStates
<1>2. s.mode = "in" /\ x = s.mark => t = [s EXCEPT !.mode = quits]
  BY Zenon DEF Sql!Step
<1>3. s.mode = "in" /\ x # s.mark => t = s
  BY Zenon DEF Sql!Step
<1>4. s.mode = "maybe" /\ x = "'" => t = [s EXCEPT !.mode = "in"]
  BY Zenon DEF Sql!Step
<1>5. s.mode # "in" /\ ~(s.mode = "maybe" /\ x = "'") =>
        t = IF x \in Marks
            THEN [mode |-> "in", mark |-> Sql!Closing[x], outside |-> Append(s.outside, "literal")]
            ELSE [mode |-> "out", mark |-> s.mark, outside |-> Append(s.outside, x)]
  BY Zenon DEF Sql!Step
<1> HIDE DEF t, quits
<1> QED
  BY <1>1, <1>2, <1>3, <1>4, <1>5, Zenon DEF t, quits

\* The scan is the function its recursion describes: each prefix has one, and so
\* has the whole query.
LEMMA ScanRecursion ==
  ASSUME NEW q, Len(q) \in Nat
  PROVE  /\ Sql!Scanned(q, Marks)[0] = Start
         /\ \A i \in 1..Len(q) :
              Sql!Scanned(q, Marks)[i] = Sql!Step(Sql!Scanned(q, Marks)[i - 1], q[i], Marks)
<1> DEFINE Next1(s, i)  == Sql!Step(s, q[i], Marks)
           Is(f, n)     == f = [i \in 0..n |-> IF i = 0 THEN Start ELSE Next1(f[i - 1], i)]
           Has(n)       == \E f : Is(f, n)
           Bad          == {n \in Nat : ~Has(n)}
<1> HIDE DEF Next1, Start, Has
<1>1. Bad = {}
  <2> SUFFICES ASSUME Bad # {} PROVE FALSE
    OBVIOUS
  <2>1. PICK m \in Bad : \A n \in Bad : m <= n
    BY LeastNumber
  <2>2. m \in Nat /\ ~Has(m)
    OBVIOUS
  <2>3. CASE m = 0
    <3> DEFINE f == [i \in 0..0 |-> Start]
    <3>1. Is(f, 0)
      OBVIOUS
    <3>2. Has(0)
      BY <3>1, Zenon DEF Has
    <3> QED
      BY <2>2, <2>3, <3>2
  <2>4. CASE m # 0
    <3>1. m - 1 \in Nat /\ m - 1 \notin Bad
      BY <2>1, <2>2, <2>4
    <3>2. PICK f : Is(f, m - 1)
      BY <3>1 DEF Has
    <3> DEFINE g == [i \in 0..m |-> IF i < m THEN f[i] ELSE Next1(f[m - 1], m)]
    <3>3. \A i \in 0..(m - 1) : f[i] = IF i = 0 THEN Start ELSE Next1(f[i - 1], i)
      BY <3>2
    <3>4. ASSUME NEW i \in 0..m
          PROVE  g[i] = IF i = 0 THEN Start ELSE Next1(g[i - 1], i)
      <4>1. i - 1 < m
        BY <2>2
      <4>2. i # 0 => g[i - 1] = f[i - 1]
        BY <2>2, <4>1
      <4>3. CASE i < m
        BY <2>2, <3>3, <4>2, <4>3
      <4>4. CASE i = m
        BY <2>2, <2>4, <4>2, <4>4
      <4> QED
        BY <2>2, <4>3, <4>4
    <3>5. g = [i \in 0..m |-> IF i = 0 THEN Start ELSE Next1(g[i - 1], i)]
      <4>1. g = [i \in 0..m |-> g[i]]
        OBVIOUS
      <4> HIDE DEF g
      <4> QED
        BY <3>4, <4>1
    <3>6. Has(m)
      BY <3>5, Zenon DEF Has
    <3> QED
      BY <2>2, <3>6
  <2> QED
    BY <2>3, <2>4
<1>2. \E f : Is(f, Len(q))
  BY <1>1 DEF Has
<1>3. Sql!Scanned(q, Marks) = CHOOSE f : Is(f, Len(q))
  BY DEF Sql!Scanned, Next1, Start
<1>4. Is(Sql!Scanned(q, Marks), Len(q))
  BY <1>2, <1>3
<1> HIDE DEF Is
<1>5. \A i \in 0..Len(q) : Sql!Scanned(q, Marks)[i]
                             = IF i = 0 THEN Start ELSE Next1(Sql!Scanned(q, Marks)[i - 1], i)
  BY <1>4 DEF Is
<1> QED
  BY <1>5 DEF Next1

\* The same of the mode and the mark alone.
LEMMA StepMode ==
  ASSUME NEW q, NEW s \in ScanStates(q), NEW x
  PROVE  LET t == Sql!Step(s, x, Marks) IN
         /\ s.mode = "in" /\ x = s.mark
              => t.mode = (IF s.mark = "'" THEN "maybe" ELSE "out") /\ t.mark = s.mark
         /\ s.mode = "in" /\ x # s.mark => t.mode = "in" /\ t.mark = s.mark
         /\ s.mode = "maybe" /\ x = "'" => t.mode = "in" /\ t.mark = s.mark
         /\ s.mode # "in" /\ ~(s.mode = "maybe" /\ x = "'") =>
              /\ x \in Marks => t.mode = "in" /\ t.mark = Sql!Closing[x]
              /\ x \notin Marks => t.mode = "out" /\ t.mark = s.mark
<1> DEFINE t == Sql!Step(s, x, Marks)
<1>1. /\ s.mode = "in" /\ x = s.mark
           => t = [mode |-> IF s.mark = "'" THEN "maybe" ELSE "out", mark |-> s.mark,
                   outside |-> s.outside]
      /\ s.mode = "in" /\ x # s.mark => t = s
      /\ s.mode = "maybe" /\ x = "'" => t = [mode |-> "in", mark |-> s.mark, outside |-> s.outside]
  BY StepForms, Zenon
<1>2. s.mode # "in" /\ ~(s.mode = "maybe" /\ x = "'") =>
        /\ x \in Marks => t = [mode |-> "in", mark |-> Sql!Closing[x],
                               outside |-> Append(s.outside, "literal")]
        /\ x \notin Marks => t = [mode |-> "out", mark |-> s.mark,
                                  outside |-> Append(s.outside, x)]
  BY StepForms, Zenon
<1> HIDE DEF t, Marks
<1> QED
  BY <1>1, <1>2 DEF t

LEMMA ClosingMarks == Sql!Closing["'"] = "'" /\ Sql!Closing["["] = "]"
BY DEF Sql!Closing

\* A step keeps the type of the state, and appends what stands outside of quotes.
LEMMA StepType ==
  ASSUME NEW q, NEW x \in Sql!Range(q), NEW s \in ScanStates(q)
  PROVE  Sql!Step(s, x, Marks) \in ScanStates(q)
<1> DEFINE t == Sql!Step(s, x, Marks)
           L == Lexemes(q)
<1>1. x \in L /\ "literal" \in L
  BY DEF Lexemes
<1>2. /\ s.mode \in {"out", "in", "maybe"} /\ s.mark \in {"'", "]"} /\ s.outside \in Seq(L)
      /\ s = [mode |-> s.mode, mark |-> s.mark, outside |-> s.outside]
  BY DEF ScanStates
<1>3. Append(s.outside, x) \in Seq(L) /\ Append(s.outside, "literal") \in Seq(L)
  BY <1>1, <1>2
<1>4. x \in Marks => Sql!Closing[x] \in {"'", "]"}
  BY ClosingMarks DEF Marks
<1>5. CASE s.mode = "in" /\ x = s.mark
  BY <1>2, <1>5, StepForms DEF ScanStates
<1>6. CASE s.mode = "in" /\ x # s.mark
  BY <1>2, <1>6, StepForms DEF ScanStates
<1>7. CASE s.mode = "maybe" /\ x = "'"
  BY <1>2, <1>7, StepForms DEF ScanStates
<1>8. CASE s.mode # "in" /\ ~(s.mode = "maybe" /\ x = "'") /\ x \in Marks
  BY <1>2, <1>3, <1>4, <1>8, StepForms DEF ScanStates
<1>9. CASE s.mode # "in" /\ ~(s.mode = "maybe" /\ x = "'") /\ x \notin Marks
  BY <1>2, <1>3, <1>9, StepForms DEF ScanStates
<1> QED
  BY <1>5, <1>6, <1>7, <1>8, <1>9

\* What a lexeme leaves after it: in plain text it is appended itself.
LEMMA PlainStep ==
  ASSUME NEW q, NEW x \in Sql!Range(q), NEW s \in ScanStates(q), s.mode # "in",
         x \notin Marks
  PROVE  /\ Sql!Step(s, x, Marks).mode = "out"
         /\ Sql!Step(s, x, Marks).outside = Append(s.outside, x)
<1>1. ~(s.mode = "maybe" /\ x = "'")
  BY DEF Marks
<1>2. Sql!Step(s, x, Marks) = [mode |-> "out", mark |-> s.mark, outside |-> Append(s.outside, x)]
  BY <1>1, StepForms, Zenon
<1> QED
  BY <1>2

\* After plain text something is appended, whatever comes.
LEMMA NextAppended ==
  ASSUME NEW q, NEW x \in Sql!Range(q), NEW s \in ScanStates(q), s.mode = "out"
  PROVE  Sql!Step(s, x, Marks).outside \in {Append(s.outside, x), Append(s.outside, "literal")}
<1>1. s.mode # "in" /\ s.mode # "maybe"
  OBVIOUS
<1>2. x \in Marks => Sql!Step(s, x, Marks)
                      = [mode |-> "in", mark |-> Sql!Closing[x], outside |-> Append(s.outside, "literal")]
  BY <1>1, StepForms, Zenon
<1>3. x \notin Marks => Sql!Step(s, x, Marks)
                         = [mode |-> "out", mark |-> s.mark, outside |-> Append(s.outside, x)]
  BY <1>1, StepForms, Zenon
<1> HIDE DEF Marks
<1> QED
  BY <1>2, <1>3

\* Nothing that was seen is forgotten.
LEMMA OutsideGrows ==
  ASSUME NEW q, NEW x \in Sql!Range(q), NEW s \in ScanStates(q)
  PROVE  LET o == Sql!Step(s, x, Marks).outside IN
         /\ Len(s.outside) <= Len(o)
         /\ \A k \in 1..Len(s.outside) : o[k] = s.outside[k]
<1> DEFINE o == Sql!Step(s, x, Marks).outside
<1>1. s.outside \in Seq(Lexemes(q)) /\ x \in Lexemes(q) /\ "literal" \in Lexemes(q)
  BY DEF ScanStates, Lexemes
<1>2. o \in {s.outside, Append(s.outside, x), Append(s.outside, "literal")}
  <2> DEFINE t == Sql!Step(s, x, Marks)
  <2>1. \/ \E m : t = [mode |-> m, mark |-> s.mark, outside |-> s.outside]
        \/ t = s
        \/ t = [mode |-> "in", mark |-> Sql!Closing[x], outside |-> Append(s.outside, "literal")]
        \/ t = [mode |-> "out", mark |-> s.mark, outside |-> Append(s.outside, x)]
    BY StepForms, Zenon
  <2> HIDE DEF t
  <2> QED
    BY <2>1 DEF t
<1>3. \A e \in Lexemes(q) : /\ Len(Append(s.outside, e)) = Len(s.outside) + 1
                            /\ \A k \in 1..Len(s.outside) : Append(s.outside, e)[k] = s.outside[k]
  BY <1>1, AppendProperties
<1> HIDE DEF o
<1>4. Len(s.outside) \in Nat
  BY <1>1
<1> QED
  BY <1>1, <1>2, <1>3, <1>4 DEF o

\* By the i-th lexeme the scan has seen every plain one up to there, and what
\* follows each of them.
Seen(q, s, i) ==
  /\ s[i] \in ScanStates(q)
  /\ \A j \in 1..i : s[j - 1].mode # "in" /\ q[j] \notin Marks =>
       \E k \in 1..Len(s[i].outside) :
         /\ s[i].outside[k] = q[j]
         /\ j = i => s[i].mode = "out" /\ k = Len(s[i].outside)
         /\ j < i => /\ k < Len(s[i].outside)
                     /\ s[i].outside[k + 1] \in {q[j + 1], "literal"}

LEMMA ScanSees ==
  ASSUME NEW T, NEW q \in Seq(T), NEW i \in 0..Len(q)
  PROVE  Seen(q, Sql!Scanned(q, Marks), i)
<1> DEFINE s   == Sql!Scanned(q, Marks)
<1>1. Len(q) \in Nat /\ \A n \in 1..Len(q) : q[n] \in Sql!Range(q)
  BY DEF Sql!Range
<1>2. s[0] = Start /\ \A n \in 1..Len(q) : s[n] = Sql!Step(s[n - 1], q[n], Marks)
  BY <1>1, ScanRecursion
<1> HIDE DEF s
<1>3. Seen(q, s, 0)
  BY <1>2 DEF Seen, Start, ScanStates
<1>4. ASSUME NEW n \in 1..Len(q), Seen(q, s, n - 1)
      PROVE  Seen(q, s, n)
  <2> DEFINE old == s[n - 1].outside
             new == s[n].outside
  <2>1. s[n - 1] \in ScanStates(q) /\ q[n] \in Sql!Range(q) /\ s[n] = Sql!Step(s[n - 1], q[n], Marks)
    BY <1>1, <1>2, <1>4 DEF Seen
  <2>2. s[n] \in ScanStates(q)
    BY <2>1, StepType
  <2>3. old \in Seq(Lexemes(q)) /\ new \in Seq(Lexemes(q)) /\ Len(old) \in Nat /\ Len(new) \in Nat
    BY <2>1, <2>2 DEF ScanStates
  <2>4. Len(old) <= Len(new) /\ \A k \in 1..Len(old) : new[k] = old[k]
    BY <2>1, OutsideGrows
  <2>5. \A e \in Lexemes(q) : Len(Append(old, e)) = Len(old) + 1 /\ Append(old, e)[Len(old) + 1] = e
    BY <2>3, AppendProperties
  <2>6. q[n] \in Lexemes(q) /\ "literal" \in Lexemes(q)
    BY <2>1 DEF Lexemes
  <2>7. ASSUME NEW j \in 1..n, s[j - 1].mode # "in", q[j] \notin Marks
        PROVE  \E k \in 1..Len(new) :
                 /\ new[k] = q[j]
                 /\ j = n => s[n].mode = "out" /\ k = Len(new)
                 /\ j < n => k < Len(new) /\ new[k + 1] \in {q[j + 1], "literal"}
    <3>1. CASE j = n
      <4>1. s[n].mode = "out" /\ new = Append(old, q[n])
        <5>1. s[n - 1].mode # "in" /\ q[n] \notin Marks
          BY <2>7, <3>1
        <5>2. /\ Sql!Step(s[n - 1], q[n], Marks).mode = "out"
              /\ Sql!Step(s[n - 1], q[n], Marks).outside = Append(s[n - 1].outside, q[n])
          BY <2>1, <5>1, PlainStep
        <5> QED
          BY <2>1, <5>2
      <4>2. Len(new) = Len(old) + 1 /\ new[Len(new)] = q[n]
        BY <2>5, <2>6, <4>1
      <4>3. Len(new) \in 1..Len(new) /\ ~(j < n)
        BY <2>3, <3>1, <4>2
      <4> HIDE DEF old, new
      <4> QED
        BY <3>1, <4>1, <4>2, <4>3
    <3>2. CASE j < n
      <4>1. j \in 1..(n - 1)
        BY <3>2
      <4>2. PICK k \in 1..Len(old) :
              /\ old[k] = q[j]
              /\ j = n - 1 => s[n - 1].mode = "out" /\ k = Len(old)
              /\ j < n - 1 => k < Len(old) /\ old[k + 1] \in {q[j + 1], "literal"}
        BY <1>4, <2>7, <4>1 DEF Seen
      <4>3. new[k] = q[j] /\ k \in 1..Len(new)
        BY <2>3, <2>4, <4>2
      <4>4. CASE j = n - 1
        <5>1. new \in {Append(old, q[n]), Append(old, "literal")}
          BY <2>1, <4>2, <4>4, NextAppended
        <5>2. Len(new) = Len(old) + 1 /\ new[Len(old) + 1] \in {q[n], "literal"}
          <6> HIDE DEF old, new
          <6> QED
            BY <2>5, <2>6, <5>1
        <5>3. k < Len(new) /\ k + 1 = Len(old) + 1 /\ j + 1 = n
          BY <2>3, <4>2, <4>4, <5>2
        <5>4. new[k + 1] \in {q[j + 1], "literal"}
          BY <5>2, <5>3
        <5> HIDE DEF old, new
        <5> QED
          BY <3>2, <4>3, <5>3, <5>4
      <4>5. CASE j < n - 1
        <5>1. k + 1 \in 1..Len(old) /\ old[k + 1] \in {q[j + 1], "literal"}
          BY <2>3, <4>2, <4>5
        <5>2. new[k + 1] \in {q[j + 1], "literal"}
          BY <2>4, <5>1
        <5>3. k < Len(new)
          BY <2>3, <2>4, <5>1
        <5> HIDE DEF old, new
        <5> QED
          BY <3>2, <4>3, <5>2, <5>3
      <4> QED
        BY <4>1, <4>4, <4>5
    <3> QED
      BY <3>1, <3>2
  <2> QED
    BY <2>2, <2>7 DEF Seen
<1> DEFINE S == {n \in 0..Len(q) : Seen(q, s, n)}
<1>5. 0 \in S /\ \A n \in 1..Len(q) : n - 1 \in S => n \in S
  BY <1>1, <1>3, <1>4
<1>6. 0..Len(q) \subseteq S
  <2> HIDE DEF S
  <2> QED
    BY <1>1, <1>5, UpTo
<1> QED
  BY <1>6 DEF s

-----------------------------------------------------------------------------
(* The query: what stands in quotes                                         *)

\* The module of the queries counts as this module does.
LEMMA SqlCount == \A S : Sql!Cardinality(S) = Cardinality(S)
BY Zenon DEF Sql!Cardinality, Sql!IsFiniteSet, Cardinality, IsFiniteSet

Apostrophes(q, i) == Cardinality({j \in 1..i : q[j] = "'"})

LEMMA OneMoreMark ==
  ASSUME NEW q, NEW i \in Nat \ {0}
  PROVE  /\ Apostrophes(q, i) \in Nat /\ Apostrophes(q, i - 1) \in Nat
         /\ Apostrophes(q, i) = Apostrophes(q, i - 1) + IF q[i] = "'" THEN 1 ELSE 0
<1> DEFINE A(n) == {j \in 1..n : q[j] = "'"}
<1>1. ASSUME NEW n \in Nat PROVE IsFiniteSet(A(n)) /\ Cardinality(A(n)) \in Nat
  <2>1. IsFiniteSet(1..n) /\ A(n) \subseteq 1..n
    BY FS_Interval
  <2> QED
    BY <2>1, FS_Subset, FS_CardinalityType
<1>2. q[i] = "'" => A(i) = A(i - 1) \cup {i}
  OBVIOUS
<1>3. q[i] # "'" => A(i) = A(i - 1)
  <2>1. ASSUME q[i] # "'", NEW j \in A(i) PROVE j \in A(i - 1)
    <3>1. j \in 1..i /\ q[j] = "'" /\ j # i
      BY <2>1
    <3> QED
      BY <3>1
  <2>2. A(i - 1) \subseteq A(i)
    OBVIOUS
  <2> QED
    BY <2>1, <2>2
<1>4. i \notin A(i - 1) /\ i - 1 \in Nat
  OBVIOUS
<1>5. Cardinality(A(i - 1) \cup {i}) = Cardinality(A(i - 1)) + 1
  BY <1>1, <1>4, FS_AddElement
<1> HIDE DEF A
<1>6. Apostrophes(q, i) = Cardinality(A(i)) /\ Apostrophes(q, i - 1) = Cardinality(A(i - 1))
  BY DEF Apostrophes, A
<1> QED
  BY <1>1, <1>2, <1>3, <1>4, <1>5, <1>6

\* The first lexeme, and how each one moves the scan, of any query.
LEMMA ScanMoves ==
  ASSUME NEW T, NEW q \in Seq(T)
  PROVE  LET s == Sql!Scanned(q, Marks) IN
         /\ s[0] = Start
         /\ \A n \in 1..Len(q) :
              /\ s[n - 1] \in ScanStates(q) /\ s[n] = Sql!Step(s[n - 1], q[n], Marks)
<1>1. Len(q) \in Nat
  OBVIOUS
<1>2. \A n \in 1..Len(q) : n - 1 \in 0..Len(q)
  BY <1>1
<1> QED
  BY <1>1, <1>2, ScanRecursion, ScanSees DEF Seen

\* Without brackets, the scan is in a literal after an odd number of apostrophes.
LEMMA OddApostrophes ==
  ASSUME NEW T, NEW q \in Seq(T), "[" \notin Sql!Range(q), NEW i \in 0..Len(q)
  PROVE  Sql!Scanned(q, Marks)[i].mode = "in" <=> Apostrophes(q, i) % 2 = 1
<1> DEFINE s    == Sql!Scanned(q, Marks)
           P(n) == s[n].mark = "'" /\ (s[n].mode = "in" <=> Apostrophes(q, n) % 2 = 1)
           S    == {n \in 0..Len(q) : P(n)}
<1>1. /\ s[0] = Start
      /\ \A n \in 1..Len(q) : s[n - 1] \in ScanStates(q) /\ s[n] = Sql!Step(s[n - 1], q[n], Marks)
  BY ScanMoves
<1>2. Len(q) \in Nat /\ \A n \in 1..Len(q) : q[n] # "["
  BY DEF Sql!Range
<1> HIDE DEF s
<1>3. P(0)
  <2>1. {j \in 1..0 : q[j] = "'"} = {}
    OBVIOUS
  <2>2. Apostrophes(q, 0) = 0
    BY <2>1, FS_EmptySet DEF Apostrophes
  <2> QED
    BY <1>1, <2>2 DEF Start
<1>4. ASSUME NEW n \in 1..Len(q), P(n - 1) PROVE P(n)
  <2> DEFINE old == s[n - 1]
             new == s[n]
             a   == Apostrophes(q, n - 1)
  <2>1. /\ a \in Nat /\ Apostrophes(q, n) \in Nat
        /\ Apostrophes(q, n) = a + IF q[n] = "'" THEN 1 ELSE 0
    BY OneMoreMark
  <2>2. old \in ScanStates(q) /\ new = Sql!Step(old, q[n], Marks) /\ old.mark = "'"
    BY <1>1, <1>4
  <2>3. CASE q[n] = "'"
    <3>1. new.mark = "'" /\ (new.mode = "in" <=> old.mode # "in")
      <4>1. q[n] \in Marks
        BY <2>3 DEF Marks
      <4>2. old.mode \in {"out", "in", "maybe"}
        BY <2>2 DEF ScanStates
      <4> HIDE DEF new, old
      <4> QED
        BY <2>2, <2>3, <4>1, <4>2, StepMode, ClosingMarks
    <3>2. Apostrophes(q, n) = a + 1
      BY <2>1, <2>3
    <3>3. (a + 1) % 2 = 1 <=> a % 2 # 1
      <4> HIDE DEF a
      <4> QED
        BY <2>1
    <3> QED
      BY <1>4, <3>1, <3>2, <3>3
  <2>4. CASE q[n] # "'"
    <3>1. q[n] \notin Marks
      BY <1>2, <2>4 DEF Marks
    <3>4. Apostrophes(q, n) = a
      BY <2>1, <2>4
    <3>5. new.mark = "'" /\ (new.mode = "in" <=> old.mode = "in")
      <4> HIDE DEF new, old
      <4> QED
        BY <2>2, <2>4, <3>1, StepMode
    <3> QED
      BY <1>4, <3>4, <3>5
  <2> QED
    BY <2>3, <2>4
<1> HIDE DEF P
<1>5. 0 \in S /\ \A n \in 1..Len(q) : n - 1 \in S => n \in S
  BY <1>2, <1>3, <1>4
<1>6. 0..Len(q) \subseteq S
  <2> HIDE DEF S
  <2> QED
    BY <1>2, <1>5, UpTo
<1> QED
  BY <1>6 DEF s, P

\* A bracket is open when none has closed since.
BracketOpen(q, i) == \E j \in 1..i : q[j] = "[" /\ \A k \in (j + 1)..i : q[k] # "]"

LEMMA BracketMoves ==
  ASSUME NEW q, NEW i \in Nat \ {0}
  PROVE  /\ q[i] = "[" => BracketOpen(q, i)
         /\ q[i] = "]" => ~BracketOpen(q, i)
         /\ q[i] # "[" /\ q[i] # "]" => (BracketOpen(q, i) <=> BracketOpen(q, i - 1))
<1>1. ASSUME q[i] = "[" PROVE BracketOpen(q, i)
  <2>1. i \in 1..i /\ \A k \in (i + 1)..i : q[k] # "]"
    OBVIOUS
  <2> QED
    BY <1>1, <2>1 DEF BracketOpen
<1>2. ASSUME q[i] = "]", BracketOpen(q, i) PROVE FALSE
  <2>1. PICK j \in 1..i : q[j] = "[" /\ \A k \in (j + 1)..i : q[k] # "]"
    BY <1>2 DEF BracketOpen
  <2>2. i \notin (j + 1)..i /\ j # i
    BY <1>2, <2>1
  <2> QED
    BY <2>2
<1>3. ASSUME q[i] # "[", q[i] # "]", BracketOpen(q, i) PROVE BracketOpen(q, i - 1)
  <2>1. PICK j \in 1..i : q[j] = "[" /\ \A k \in (j + 1)..i : q[k] # "]"
    BY <1>3 DEF BracketOpen
  <2>2. j \in 1..(i - 1) /\ \A k \in (j + 1)..(i - 1) : q[k] # "]"
    BY <1>3, <2>1
  <2> QED
    BY <2>1, <2>2 DEF BracketOpen
<1>4. ASSUME q[i] # "[", q[i] # "]", BracketOpen(q, i - 1) PROVE BracketOpen(q, i)
  <2>1. PICK j \in 1..(i - 1) : q[j] = "[" /\ \A k \in (j + 1)..(i - 1) : q[k] # "]"
    BY <1>4 DEF BracketOpen
  <2>2. j \in 1..i
    OBVIOUS
  <2>3. ASSUME NEW k \in (j + 1)..i PROVE q[k] # "]"
    <3>1. k = i \/ k \in (j + 1)..(i - 1)
      OBVIOUS
    <3> QED
      BY <1>4, <2>1, <3>1
  <2> QED
    BY <2>1, <2>2, <2>3 DEF BracketOpen
<1> QED
  BY <1>1, <1>2, <1>3, <1>4

\* Without apostrophes, the scan is in a literal while a bracket is open.
LEMMA OpenBracket ==
  ASSUME NEW T, NEW q \in Seq(T), "'" \notin Sql!Range(q), NEW i \in 0..Len(q)
  PROVE  Sql!Scanned(q, Marks)[i].mode = "in" <=> BracketOpen(q, i)
<1> DEFINE s    == Sql!Scanned(q, Marks)
           P(n) == /\ s[n].mode # "maybe" /\ (s[n].mode = "in" => s[n].mark = "]")
                   /\ s[n].mode = "in" <=> BracketOpen(q, n)
           S    == {n \in 0..Len(q) : P(n)}
<1>1. /\ s[0] = Start
      /\ \A n \in 1..Len(q) : s[n - 1] \in ScanStates(q) /\ s[n] = Sql!Step(s[n - 1], q[n], Marks)
  BY ScanMoves
<1>2. Len(q) \in Nat /\ \A n \in 1..Len(q) : q[n] # "'"
  BY DEF Sql!Range
<1> HIDE DEF s
<1>3. P(0)
  BY <1>1 DEF Start, BracketOpen
<1>4. ASSUME NEW n \in 1..Len(q), P(n - 1) PROVE P(n)
  <2> DEFINE old == s[n - 1]
             new == s[n]
  <2>1. /\ q[n] = "[" => BracketOpen(q, n)
        /\ q[n] = "]" => ~BracketOpen(q, n)
        /\ q[n] # "[" /\ q[n] # "]" => (BracketOpen(q, n) <=> BracketOpen(q, n - 1))
    BY BracketMoves
  <2>2. old \in ScanStates(q) /\ new = Sql!Step(old, q[n], Marks) /\ old.mode # "maybe"
    BY <1>1, <1>4
  <2>3. q[n] \in Marks <=> q[n] = "["
    BY <1>2 DEF Marks
  <2>4. /\ old.mode = "in" => old.mark = "]"
        /\ old.mode = "in" <=> BracketOpen(q, n - 1)
    BY <1>4
  <2>5. old.mode \in {"out", "in"}
    BY <2>2 DEF ScanStates
  <2> HIDE DEF old, new
  <2>6. CASE q[n] = "["
    <3>1. new.mode = "in" /\ new.mark = "]"
      BY <2>2, <2>3, <2>4, <2>5, <2>6, StepMode, ClosingMarks
    <3> QED
      BY <2>1, <2>6, <3>1 DEF new
  <2>7. CASE q[n] = "]"
    <3>1. new.mode = "out"
      BY <2>2, <2>3, <2>4, <2>5, <2>7, StepMode
    <3> QED
      BY <2>1, <2>7, <3>1 DEF new
  <2>8. CASE q[n] # "[" /\ q[n] # "]"
    <3>1. /\ new.mode = old.mode
          /\ old.mode = "in" => new.mark = old.mark
      BY <2>2, <2>3, <2>4, <2>5, <2>8, StepMode
    <3> QED
      BY <2>1, <2>2, <2>4, <2>8, <3>1 DEF new
  <2> QED
    BY <2>6, <2>7, <2>8
<1> HIDE DEF P
<1>5. 0 \in S /\ \A n \in 1..Len(q) : n - 1 \in S => n \in S
  BY <1>2, <1>3, <1>4
<1>6. 0..Len(q) \subseteq S
  <2> HIDE DEF S
  <2> QED
    BY <1>2, <1>5, UpTo
<1> QED
  BY <1>6 DEF s, P

\* What the scan takes for a literal is what SQL takes for one.
LEMMA InQuotes ==
  ASSUME NEW T, NEW q \in Seq(T), ~({"'", "["} \subseteq Sql!Range(q)), NEW i \in 1..Len(q)
  PROVE  Sql!Scanned(q, Marks)[i - 1].mode = "in" <=> Sql!Quoted(q, i)
<1>1. i - 1 \in 0..Len(q)
  OBVIOUS
<1>2. CASE "[" \in Sql!Range(q)
  <2>1. Sql!Quoted(q, i) <=> BracketOpen(q, i - 1)
    BY <1>2, Zenon DEF Sql!Quoted, BracketOpen
  <2> QED
    BY <1>1, <1>2, <2>1, OpenBracket
<1>3. CASE "[" \notin Sql!Range(q)
  <2>1. Sql!Cardinality({j \in 1..(i - 1) : q[j] = "'"}) = Apostrophes(q, i - 1)
    BY SqlCount DEF Apostrophes
  <2>2. Sql!Quoted(q, i) <=> Apostrophes(q, i - 1) % 2 = 1
    BY <1>3, <2>1, Zenon DEF Sql!Quoted
  <2> QED
    BY <1>1, <1>3, <2>2, OddApostrophes
<1> QED
  BY <1>2, <1>3

\* An accepted query has nothing outside of its literals that the check forbids.
LEMMA AcceptedContains ==
  ASSUME NEW T, NEW q \in Seq(T), ~({"'", "["} \subseteq Sql!Range(q)), Sql!Accepted(q),
         NEW i \in 1..Len(q), ~Sql!Quoted(q, i)
  PROVE  /\ q[i] \notin {";", "--"}
         /\ q[i] \in Forbidden => q[i] \in FunctionKeywords /\ i < Len(q) /\ q[i + 1] = "("
<1> DEFINE s == Sql!Scanned(q, Marks)
           o == s[Len(q)].outside
<1>1. CASE q[i] \in Marks
  BY <1>1, QueryAssumption DEF Marks
<1>2. CASE q[i] \notin Marks
  <2>1. Len(q) \in Nat /\ Len(q) \in 0..Len(q)
    OBVIOUS
  <2>2. s[i - 1].mode # "in"
    BY InQuotes
  <2>3. PICK k \in 1..Len(o) : /\ o[k] = q[i]
                               /\ i = Len(q) => k = Len(o)
                               /\ i < Len(q) => k < Len(o) /\ o[k + 1] \in {q[i + 1], "literal"}
    BY <1>2, <2>1, <2>2, ScanSees DEF Seen
  <2>4. o \in Seq(Lexemes(q))
    BY <2>1, ScanSees DEF Seen, ScanStates
  <2>5. \A n \in DOMAIN o : /\ o[n] \notin {";", "--"}
                            /\ o[n] \in Forbidden => /\ o[n] \in FunctionKeywords
                                                     /\ n < Len(o) /\ o[n + 1] = "("
    BY Zenon DEF Sql!Accepted, Sql!ReadOnly, Sql!Scan, Marks
  <2> HIDE DEF o
  <2>6. k \in DOMAIN o /\ Len(o) \in Nat
    BY <2>3, <2>4
  <2> DEFINE separators == {";", "--"}
             call       == "("
  <2>7. "literal" # call
    BY Zenon
  <2>8. /\ o[k] \notin separators
        /\ o[k] \in Forbidden => o[k] \in FunctionKeywords /\ k < Len(o) /\ o[k + 1] = call
    BY <2>5, <2>6, Zenon
  <2> HIDE DEF separators, call
  <2>9. /\ q[i] \notin separators
        /\ q[i] \in Forbidden => q[i] \in FunctionKeywords /\ i < Len(q) /\ q[i + 1] = call
    BY <2>1, <2>3, <2>7, <2>8
  <2> QED
    BY <2>9, Zenon DEF separators, call
<1> QED
  BY <1>1, <1>2, Zenon

-----------------------------------------------------------------------------
(* The query: its execution                                                 *)

Prepared == {"preparing", "reading", "closing"}

RowsTold ==
  sqlOutcome = "ok" =>
    answer.count = Sql!Min({table, MaxRows}) /\ (answer.truncated <=> table > MaxRows)

\* What each place of the execution has behind it: the check was passed before the
\* connection is opened, it is open until the close has had its turn, and nothing
\* is answered before all rows that were asked for were read.
SqlInv ==
  /\ Sql!TypeOK
  /\ sqlPlace = "connecting" \/ connection # "none" => Sql!Accepted(query) /\ query \in Queries
  /\ sqlPlace \in Prepared <=> connection = "open"
  /\ sqlPlace \in {"idle", "connecting"} => connection = "none"
  /\ sqlPlace \in {"idle", "connecting", "preparing", "reading"} => sqlOutcome \in {"none", "cancelled"}
  /\ sqlPlace \in {"idle", "connecting", "preparing"} => fetched = 0
  /\ sqlPlace = "reading" => fetched <= table
  /\ RowsTold
  /\ sqlOutcome = "escaped" => engine = "sqlite" \/ value = "surrogate"

LEMMA MinOfPair ==
  ASSUME NEW a \in Nat, NEW b \in Nat
  PROVE  Sql!Min({a, b}) = IF a <= b THEN a ELSE b
<1>1. \A x \in {a, b} : (\A y \in {a, b} : x <= y) <=> x = IF a <= b THEN a ELSE b
  OBVIOUS
<1>2. \E x \in {a, b} : \A y \in {a, b} : x <= y
  OBVIOUS
<1>3. Sql!Min({a, b}) = CHOOSE x \in {a, b} : \A y \in {a, b} : x <= y
  BY DEF Sql!Min
<1> QED
  BY <1>1, <1>2, <1>3

LEMMA SqlBounds == MaxRows \in Nat /\ MaxTable \in Nat
BY BoundsAssumption

LEMMA SqlInit == Sql!Init => SqlInv
BY SqlBounds DEF Sql!Init, SqlInv, Sql!TypeOK, RowsTold, Sql!Outcomes, Prepared

LEMMA SubmitKeeps ==
  ASSUME SqlInv, NEW q \in Queries, NEW chosen \in {"postgres", "sqlite"}, NEW given,
         NEW kind \in Values, Sql!Submit(q, chosen, given, kind)
  PROVE  SqlInv'
<1> DEFINE bound == Sql!Bound(q, chosen, given, kind)
<1>1. bound \in Values \cup {"fine", "missing"}
  BY Zenon DEF Sql!Bound
<1>2. /\ Sql!Binding(q, bound) \in {"none", "escaped", "failed"}
      /\ Sql!Binding(q, bound) = "escaped" => bound = "surrogate"
  BY Zenon DEF Sql!Binding
<1> HIDE DEF bound
<1>3. /\ sqlPlace = "idle" /\ query' = q /\ engine' = chosen /\ value' = bound
      /\ UNCHANGED <<connection, fetched, table, answer>>
      /\ ~Sql!Accepted(q) => sqlOutcome' = "refused"
      /\ Sql!Accepted(q) /\ chosen = "postgres" => sqlOutcome' = Sql!Binding(q, bound)
      /\ Sql!Accepted(q) /\ chosen = "sqlite" => sqlOutcome' = "none"
      /\ sqlPlace' = IF sqlOutcome' = "none" THEN "connecting" ELSE "done"
  BY Zenon DEF Sql!Submit, bound
<1>4. /\ sqlOutcome' \in {"none", "refused", "escaped", "failed"}
      /\ sqlOutcome' = "none" => Sql!Accepted(q)
      /\ sqlOutcome' = "escaped" => value' = "surrogate"
  BY <1>2, <1>3, Zenon
<1>5. connection = "none"
  BY <1>3 DEF SqlInv
<1>6. sqlPlace' = "connecting" => Sql!Accepted(query') /\ query' \in Queries
  BY <1>3, <1>4
<1>7. Sql!TypeOK'
  BY <1>1, <1>3, <1>4 DEF SqlInv, Sql!TypeOK, Sql!Outcomes
<1> QED
  BY <1>3, <1>4, <1>5, <1>6, <1>7 DEF SqlInv, RowsTold, Prepared

LEMMA SqlStep ==
  ASSUME SqlInv, Sql!Next \/ UNCHANGED sqlVars
  PROVE  SqlInv'
<1>0. CASE UNCHANGED sqlVars
  BY <1>0 DEF sqlVars, SqlInv, Sql!TypeOK, RowsTold
<1>1. CASE Sql!Connect
  BY <1>1 DEF Sql!Connect, SqlInv, Sql!TypeOK, RowsTold, Prepared
<1>2. CASE Sql!Row
  BY <1>2, SqlBounds DEF Sql!Row, SqlInv, Sql!TypeOK, RowsTold, Prepared
<1>3. CASE Sql!Cancelled
  BY <1>3 DEF Sql!Cancelled, Sql!Ends, SqlInv, Sql!TypeOK, RowsTold, Prepared, Sql!Outcomes
<1>4. ASSUME NEW result \in {"failed", "timed_out"}, Sql!DatabaseFails(result)
      PROVE  SqlInv'
  BY <1>4 DEF Sql!DatabaseFails, Sql!Ends, SqlInv, Sql!TypeOK, RowsTold, Prepared, Sql!Outcomes
<1>5. ASSUME NEW columns \in {"fine", "none", "duplicate", "wide"}, NEW rows \in 0..MaxTable,
             Sql!Prepare(columns, rows)
      PROVE  SqlInv'
  <2>1. /\ sqlPlace = "preparing" /\ table' = rows
        /\ UNCHANGED <<query, engine, value, connection, fetched, answer>>
        /\ \/ /\ sqlPlace' = IF connection = "open" THEN "closing" ELSE "done"
              /\ \/ sqlOutcome' \in {"cancelled", "failed"}
                 \/ sqlOutcome' = "escaped" /\ engine = "sqlite"
           \/ sqlPlace' = "reading" /\ UNCHANGED sqlOutcome
    BY <1>5 DEF Sql!Prepare, Sql!Ends
  <2>2. fetched = 0 /\ connection = "open"
    BY <2>1 DEF SqlInv, Prepared
  <2> QED
    BY <2>1, <2>2, SqlBounds DEF SqlInv, Sql!TypeOK, RowsTold, Prepared, Sql!Outcomes
<1>6. ASSUME NEW scalar \in BOOLEAN, Sql!Complete(scalar)
      PROVE  SqlInv'
  <2>1. /\ sqlPlace = "reading" /\ (fetched = table \/ fetched > MaxRows)
        /\ answer' = [count |-> Sql!Min({fetched, MaxRows}), truncated |-> fetched > MaxRows]
        /\ UNCHANGED <<query, engine, value, connection, fetched, table>>
        /\ sqlOutcome' \in {"cancelled", "ok", "failed"}
        /\ sqlPlace' = IF connection = "open" THEN "closing" ELSE "done"
    BY <1>6 DEF Sql!Complete, Sql!Ends
  <2>2. fetched \in Nat /\ table \in Nat /\ MaxRows \in Nat /\ fetched <= table
    BY <2>1, SqlBounds DEF SqlInv, Sql!TypeOK
  <2>3. /\ Sql!Min({fetched, MaxRows}) = Sql!Min({table, MaxRows})
        /\ Sql!Min({fetched, MaxRows}) \in 0..MaxRows
        /\ fetched > MaxRows <=> table > MaxRows
    BY <2>1, <2>2, MinOfPair
  <2>4. RowsTold'
    BY <2>1, <2>3 DEF RowsTold
  <2>5. answer' \in [count : 0..MaxRows, truncated : BOOLEAN]
    BY <2>1, <2>2, <2>3
  <2>6. connection = "open"
    BY <2>1 DEF SqlInv, Prepared
  <2>7. Sql!TypeOK'
    BY <2>1, <2>5 DEF SqlInv, Sql!TypeOK, Sql!Outcomes
  <2> QED
    BY <2>1, <2>4, <2>6, <2>7 DEF SqlInv, Prepared
<1>7. ASSUME NEW result \in {"kept", "failed", "timed_out"}, Sql!Close(result)
      PROVE  SqlInv'
  BY <1>7 DEF Sql!Close, SqlInv, Sql!TypeOK, RowsTold, Prepared, Sql!Outcomes
<1> QED
  BY <1>0, <1>1, <1>2, <1>3, <1>4, <1>5, <1>6, <1>7, SubmitKeeps, Zenon DEF Sql!Next

\* The execution reaches a database only with a query that was accepted.
LEMMA QueryProperty == SqlInv => QueryContained
<1> SUFFICES ASSUME SqlInv PROVE QueryContained
  OBVIOUS
<1>1. ASSUME connection # "none", Sql!SameQuotes(query, engine),
             NEW i \in DOMAIN query, ~Sql!Quoted(query, i)
      PROVE  /\ query[i] \notin {";", "--"}
             /\ query[i] \in Forbidden =>
                  query[i] \in FunctionKeywords /\ i < Len(query) /\ query[i + 1] = "("
  <2>1. Sql!Accepted(query) /\ query \in Seq(Sql!Range(query))
    <3>1. Sql!Accepted(query) /\ query \in Queries
      BY <1>1, Zenon DEF SqlInv
    <3> QED
      BY <3>1, QueryAssumption, Zenon
  <2>2. i \in 1..Len(query)
    BY <2>1
  <2>3. ~({"'", "["} \subseteq Sql!Range(query))
    BY <1>1, Zenon DEF Sql!SameQuotes
  <2> QED
    BY <1>1, <2>1, <2>2, <2>3, AcceptedContains, Zenon
<1>2. sqlPlace = "done" => connection # "open"
  BY DEF SqlInv, Prepared
<1>3. RowsTold /\ (sqlOutcome = "escaped" => engine = "sqlite" \/ value = "surrogate")
  BY DEF SqlInv
<1> QED
  BY <1>1, <1>2, <1>3, Zenon DEF QueryContained, Sql!QueryContained, RowsTold

-----------------------------------------------------------------------------
(* The process                                                              *)

OutboundInv == ChatInv /\ MarketInv /\ WebsiteInv /\ SqlInv

\* Whichever part steps, an adapter or the reader steps or stands still.
LEMMA OutboundParts ==
  ASSUME [Next]_requestVars
  PROVE  /\ LLM!Next \/ UNCHANGED llmVars
         /\ Market!Next \/ UNCHANGED marketVars
         /\ Website!Next \/ UNCHANGED websiteVars
         /\ Sql!Next \/ UNCHANGED sqlVars
BY DEF Next, requestVars, Alone

\* The invariant of the adapters, the reader and the query is inductive.
THEOREM OutboundTheorem == Spec => []OutboundInv
<1>1. Init => OutboundInv
  BY ChatInit, MarketInit, WebsiteInit, SqlInit DEF Init, OutboundInv
<1>2. OutboundInv /\ [Next]_requestVars => OutboundInv'
  BY OutboundParts, ChatStep, MarketStep, WebsiteStep, SqlStep DEF OutboundInv
<1> QED
  BY <1>1, <1>2, PTL DEF Spec

\* Whatever an AI or market service answers, a request ends in a result or in a
\* category, and is retried only where a repetition can change the answer
\* (openai_compatible.py, http_stock.py and the adapters over them).  Exempt are a
\* request that finds its client being closed (of an AI service, of the exchange
\* rates), the model lists, and an exchange rate no float holds.
THEOREM NormalizedTheorem == Spec => []AnswersNormalized
<1>1. OutboundInv => AnswersNormalized
  BY DEF OutboundInv, ChatInv, MarketInv, AnswersNormalized
<1> QED
  BY <1>1, OutboundTheorem, PTL

\* However often a name is resolved, to whatever, and however many calls and
\* redirects are under way, the reader connects only to an address it vetted
\* for that host, which is one the configuration admits (website_reader.py).
THEOREM PinnedTheorem == Spec => []PinnedConnections
<1>1. OutboundInv => PinnedConnections
  BY DEF OutboundInv, WebsiteInv, PinnedConnections
<1> QED
  BY <1>1, OutboundTheorem, PTL

\* Of the queries whose quotes the check and the engine read alike (none with a
\* dollar quote, a bracket or an escape string for PostgreSQL, none that mixes
\* apostrophes and brackets), whatever their length, none with a separator or a
\* forbidden word outside of its quotes reaches a database.  Of all queries,
\* connections are closed and rows are told rightly, whatever fails on the way
\* (sql_query.py and the two adapters).
THEOREM QueryTheorem == Spec => []QueryContained
<1>1. OutboundInv => QueryContained
  BY QueryProperty DEF OutboundInv
<1> QED
  BY <1>1, OutboundTheorem, PTL

=============================================================================
