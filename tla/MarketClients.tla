---------------------------- MODULE MarketClients ----------------------------
(* The market data adapters: Yahoo Finance and Alpha Vantage over the common  *)
(* HttpStockProvider, and the Frankfurter exchange rates.  One request is     *)
(* sent over the adapter's client, its body is read under a size limit, and   *)
(* the payload becomes a quote, rates, or a categorised error that says       *)
(* whether the service above may retry it.                                    *)
EXTENDS Integers, Sequences, FiniteSets, FiniteSetsExt, SequencesExt

CONSTANTS Statuses,   \* HTTP status codes
          Prices,     \* the finite numbers a payload may carry
          MaxBytes    \* max_response_bytes

VARIABLES adapter,   \* the adapter of this process: none, yahoo, alpha or rates
          asked,     \* its request has been made
          client,    \* the adapter's client: none, open or draining
          over,      \* its state when the request was sent
          status,    \* status of the response, 0 before it
          received,  \* bytes of the body read so far
          result,    \* none, ok, an error category, or escaped
          quote      \* the quote it made of the payload

marketVars == <<adapter, asked, client, over, status, received, result, quote>>

Absent == -1
Numbers == Prices \cup {Absent}
NoQuote == [price |-> Absent, high |-> Absent, market |-> "unknown"]

Failures == {"invalid_symbol", "invalid_input", "authentication", "rate_limit",
             "unavailable", "invalid_response", "timeout", "network"}
Transient == {"timeout", "network", "rate_limit", "unavailable"}

TypeOK ==
  /\ adapter \in {"none", "yahoo", "alpha", "rates"}
  /\ client \in {"none", "open", "draining"} /\ over \in {"none", "open", "draining"}
  /\ status \in Statuses \cup {0, 200} /\ received \in Nat
  /\ result \in Failures \cup {"none", "ok", "escaped"} /\ asked \in BOOLEAN
  /\ quote.price \in Numbers /\ quote.high \in Numbers

Init ==
  /\ adapter = "none" /\ client = "none" /\ over = "none"
  /\ status = 0 /\ received = 0 /\ result = "none" /\ asked = FALSE
  /\ quote = NoQuote

(* ------------------------------------------------------------------------ *)
(* Statuses.                                                                  *)

\* HttpStockProvider: an unknown refusal is not worth a retry.
StockCategory(code) ==
  CASE code \in {400, 404} -> "invalid_symbol"
    [] code \in {401, 403} -> "authentication"
    [] code = 429          -> "rate_limit"
    [] code >= 500         -> "unavailable"
    [] OTHER               -> "invalid_response"

\* FrankfurterExchangeRateProvider: the statuses below 300 go on.
RatesCategory(code) ==
  CASE code \in {400, 404, 422} -> "invalid_input"
    [] code \in {401, 403}      -> "authentication"
    [] code = 429               -> "rate_limit"
    [] code >= 500              -> "unavailable"
    [] OTHER                    -> "invalid_response"

(* ------------------------------------------------------------------------ *)
(* Payloads.                                                                  *)

\* `a or b` of Python: a price of zero is taken for a missing one.
OrElse(a, b) == IF a \in {Absent, 0} THEN b ELSE a
LastNumber(series) ==
  LET present == {i \in DOMAIN series : series[i] # Absent}
  IN IF present = {} THEN Absent ELSE series[Max(present)]
HighestNumber(series) == IF Range(series) \subseteq {Absent} THEN Absent ELSE Max(Range(series))

Series == {<<>>} \cup {<<n>> : n \in Numbers} \cup {<<m, n>> : m, n \in Numbers}

\* Trading periods around, before or after now, which is 1.
Periods == {<<>>, <<[name |-> "pre", start |-> 0, end |-> 1], [name |-> "open", start |-> 1, end |-> 2]>>,
            <<[name |-> "post", start |-> 2, end |-> 3]>>}

YahooBodies ==
  [chart : {"malformed", "error", "no_result"}]
  \cup [chart : {"result"}, price : Numbers, close : Series, time : BOOLEAN,
        high : Numbers, highs : {<<>>} \cup {<<n>> : n \in Numbers},
        state : {"none", "open"}, periods : Periods]

\* The current price falls back on the last close only when it is absent, and
\* without a price or a time there is no quote.
YahooPrice(body) == IF body.price # Absent THEN body.price ELSE LastNumber(body.close)
YahooResult(body) ==
  CASE body.chart \in {"error", "no_result"} -> "invalid_symbol"
    [] body.chart = "malformed"              -> "invalid_response"
    [] body.chart = "result"                 ->
         IF YahooPrice(body) # Absent /\ body.time THEN "ok" ELSE "invalid_response"

\* The market state is the service's word, else the first trading period around now.
MarketStatus(state, periods, now) ==
  LET around == {i \in DOMAIN periods : periods[i].start <= now /\ now < periods[i].end} IN
  IF state # "none" THEN state
  ELSE IF periods = <<>> THEN "unknown"
  ELSE IF around = {} THEN "closed" ELSE periods[Min(around)].name

YahooQuote(body) ==
  [price  |-> YahooPrice(body), high |-> OrElse(body.high, HighestNumber(body.highs)),
   market |-> MarketStatus(body.state, body.periods, 1)]

AlphaBodies ==
  [notice : {"key", "limit"}] \cup [notice : {"none"}, quote : {"error", "absent", "unread"}]
  \cup [notice : {"none"}, quote : {"fields"}, price : Numbers, day : BOOLEAN]

\* A notice about the key is permanent, any other notice is the rate limit.
AlphaResult(body) ==
  CASE body.notice = "key"   -> "authentication"
    [] body.notice = "limit" -> "rate_limit"
    [] body.notice = "none"  ->
         IF body.quote \in {"error", "absent"} THEN "invalid_symbol"
         ELSE IF body.quote = "fields" /\ body.price # Absent /\ body.day THEN "ok"
         ELSE "invalid_response"

RatesBodies == [kind : {"not_json", "other_base", "incomplete", "rates", "huge_rate"}]

\* A whole number too large for a float raises an OverflowError, which the
\* handler does not name.
RatesResult(body) ==
  CASE body.kind = "rates"     -> "ok"
    [] body.kind = "huge_rate" -> "escaped"
    [] OTHER                   -> "invalid_response"

(* ------------------------------------------------------------------------ *)
(* The clients.                                                               *)

Create(who) ==
  /\ adapter = "none" /\ adapter' = who
  /\ UNCHANGED <<asked, client, over, status, received, result, quote>>

Initialize ==
  /\ adapter # "none" /\ client = "none" /\ client' = "open"
  /\ UNCHANGED <<adapter, asked, over, status, received, result, quote>>

\* Mutant: the stock adapters close first, too.
CloseStockFirst ==
  /\ adapter \in {"yahoo", "alpha"}
  /\ \/ client = "open" /\ client' = "draining"
     \/ client = "draining" /\ client' = "none"
  /\ UNCHANGED <<adapter, asked, over, status, received, result, quote>>

\* The stock adapters drop the reference before they await the close.
CloseStock ==
  /\ adapter \in {"yahoo", "alpha"} /\ client = "open" /\ client' = "none"
  /\ UNCHANGED <<adapter, asked, over, status, received, result, quote>>

\* The rates adapter awaits the close and drops it afterwards.
CloseRates ==
  /\ adapter = "rates"
  /\ \/ client = "open" /\ client' = "draining"
     \/ client = "draining" /\ client' = "none"
  /\ UNCHANGED <<adapter, asked, over, status, received, result, quote>>

(* ------------------------------------------------------------------------ *)
(* One request.                                                               *)

Ends(outcome) == result' = outcome /\ UNCHANGED <<adapter, asked, client, over, received>>

\* Without a client the request is refused; over a closed one httpx raises a
\* RuntimeError that no handler names.
Send ==
  /\ adapter # "none" /\ ~asked
  /\ asked' = TRUE /\ over' = client
  /\ result' = CASE client = "none"     -> "unavailable"
                 [] client = "draining" -> "escaped"
                 [] client = "open"     -> "none"
  /\ UNCHANGED <<adapter, client, status, received, quote>>

Asking == asked /\ result = "none"

TransportFails(category) ==
  /\ Asking /\ category \in {"timeout", "network"}
  /\ Ends(category) /\ UNCHANGED <<status, quote>>

Refused(code) ==
  /\ Asking /\ status = 0 /\ code >= 300
  /\ status' = code /\ UNCHANGED quote
  /\ Ends(IF adapter = "rates" THEN RatesCategory(code) ELSE StockCategory(code))

\* A stock response may declare its length, and is refused on the declaration.
Accepted(declared) ==
  /\ Asking /\ status = 0 /\ status' = 200
  /\ result' = IF adapter # "rates" /\ declared > MaxBytes THEN "invalid_response" ELSE "none"
  /\ UNCHANGED <<adapter, asked, client, over, received, quote>>

\* Another chunk: the stock adapters look before they keep it, the rates adapter after.
Chunk(size) ==
  /\ Asking /\ status = 200 /\ received <= MaxBytes
  /\ LET tooLong == received + size > MaxBytes IN
     /\ received' = IF tooLong /\ adapter # "rates" THEN received ELSE received + size
     /\ result' = IF tooLong THEN "invalid_response" ELSE "none"
  /\ UNCHANGED <<adapter, asked, client, over, status, quote>>

\* The body is complete.
YahooAnswers(body) ==
  /\ Asking /\ status = 200 /\ adapter = "yahoo"
  /\ Ends(YahooResult(body)) /\ UNCHANGED status
  /\ quote' = IF YahooResult(body) = "ok" THEN YahooQuote(body) ELSE quote

AlphaAnswers(body) ==
  /\ Asking /\ status = 200 /\ adapter = "alpha"
  /\ Ends(AlphaResult(body)) /\ UNCHANGED status
  /\ quote' = IF AlphaResult(body) = "ok" THEN [NoQuote EXCEPT !.price = body.price] ELSE quote

RatesAnswer(body) ==
  /\ Asking /\ status = 200 /\ adapter = "rates"
  /\ Ends(RatesResult(body)) /\ UNCHANGED <<status, quote>>

Next ==
  \/ \E who \in {"yahoo", "alpha", "rates"} : Create(who)
  \/ Initialize \/ CloseStock \/ CloseRates \/ Send
  \/ \E category \in Failures : TransportFails(category)
  \/ \E code \in Statuses : Refused(code)
  \/ \E declared \in {0, MaxBytes + 1} : Accepted(declared)
  \/ \E size \in 1..MaxBytes : Chunk(size)
  \/ \E body \in YahooBodies : YahooAnswers(body)
  \/ \E body \in AlphaBodies : AlphaAnswers(body)
  \/ \E body \in RatesBodies : RatesAnswer(body)

Spec == Init /\ [][Next]_marketVars

(* ------------------------------------------------------------------------ *)
(* Properties.                                                                *)

\* A stock request always ends in a quote with a price or in a categorised
\* error, also while its adapter is closed; a rate request escapes only over a
\* client that is being closed, or on a number no float holds.  An error that
\* the service above retries is one a repetition can change, and no adapter
\* keeps more of a body than its limit and one chunk.
ErrorsNormalized ==
  /\ result = "escaped" => adapter = "rates" /\ (over = "draining" \/ status = 200)
  /\ adapter \in {"yahoo", "alpha"} /\ result = "ok" => quote.price # Absent
  /\ result \in Transient /\ status \notin {0, 200} => status = 429 \/ status >= 500
  /\ received <= IF adapter = "rates" THEN 2 * MaxBytes ELSE MaxBytes
=============================================================================
