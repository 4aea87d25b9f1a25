------------------------------ MODULE LLMClient ------------------------------
(* The OpenAI-compatible adapter of the providers: its HTTP client, one       *)
(* request over it, and what it makes of every response the service can give. *)
(* A response is a status and a body; a body is a record of the parts the     *)
(* adapter looks at.  The OpenRouter adapter differs in its model list.       *)
EXTENDS Integers, Sequences, FiniteSets, FiniteSetsExt

CONSTANTS Statuses,   \* HTTP status codes, and codes inside an error object
          Counts,     \* token counts a usage may report
          MaxTokens, MaxPromptBytes,   \* the configured limits
          MaxLines    \* bound: lines of a stream

VARIABLES client,    \* none, open, or draining: closed while still referenced
          request,   \* what is asked: nothing, models, chat or stream
          over,      \* the state of the client the request was sent over
          status,    \* status of the response, 0 before there is one
          lines,     \* lines read of a stream
          result,    \* none, ok, a ProviderErrorCategory, or escaped
          listed     \* what a listed model counts as: nothing, free or paid

llmVars == <<client, request, over, status, lines, result, listed>>

Categories == {"timeout", "authentication", "rate_limit", "unavailable",
               "invalid_request", "invalid_response"}
Retryable  == {"timeout", "rate_limit", "unavailable"}

TypeOK ==
  /\ client \in {"none", "open", "draining"} /\ over \in {"none", "open", "draining"}
  /\ request \in {"nothing", "models", "chat", "stream"}
  /\ status \in Statuses \cup {0, 200} /\ lines \in 0..MaxLines
  /\ result \in Categories \cup {"none", "ok", "escaped"}
  /\ listed \in {"nothing", "free", "paid"}

Init ==
  /\ client = "none" /\ over = "none" /\ request = "nothing"
  /\ status = 0 /\ lines = 0 /\ result = "none" /\ listed = "nothing"

(* ------------------------------------------------------------------------ *)
(* What a response means.                                                     *)

CategoryForStatus(code) ==
  CASE code = 408          -> "timeout"
    [] code \in {401, 403} -> "authentication"
    [] code \in {402, 429} -> "rate_limit"
    [] code >= 500         -> "unavailable"
    [] OTHER               -> "invalid_request"

\* The "error" object of a payload, with or without an integer code.
EmbeddedCategory(code) == IF code = 0 THEN "unavailable" ELSE CategoryForStatus(code)
Errors == {"none"} \X {0} \cup {"error"} \X (Statuses \cup {0})

\* An absent total is the sum; a negative count or a total below the sum is refused.
UsageValid(usage) ==
  \/ usage.kind = "absent"
  \/ /\ usage.kind = "counts" /\ usage.input >= 0 /\ usage.output >= 0
     /\ "total" \in DOMAIN usage => usage.total >= 0 /\ usage.total >= usage.input + usage.output

Usages == [kind : {"absent", "malformed"}] \cup [kind : {"counts"}, input : Counts, output : Counts]
          \cup [kind : {"counts"}, input : Counts, output : Counts, total : Counts]

ChatBodies ==
  [kind : {"not_json", "not_object"}]
  \cup [kind : {"object"}, error : Errors,
        choices : {"absent", "empty", "malformed", "no_text", "text"}, usage : {[kind |-> "absent"]}]
  \cup [kind : {"object"}, error : {<<"none", 0>>}, choices : {"failed"}, code : Statuses \cup {0}]
  \cup [kind : {"object"}, error : {<<"none", 0>>}, choices : {"text"}, usage : Usages]

\* generate: the embedded errors first, then the shape of the first choice.
ChatResult(body) ==
  CASE body.kind # "object"        -> "invalid_response"
    [] body.kind = "object" /\ body.error[1] = "error" -> EmbeddedCategory(body.error[2])
    [] body.kind = "object" /\ body.error[1] = "none"  ->
         IF body.choices = "failed" THEN EmbeddedCategory(body.code)
         ELSE IF body.choices = "text" /\ UsageValid(body.usage) THEN "ok"
         ELSE "invalid_response"

\* One entry of the model list: what its id, its pricing and its context are.
Entries == [id : {"text", "text:free", "other"}, pricing : {"fixed", "zero", "dynamic", "absent", "not_object"},
            context : {"number", "absent", "infinite"}]

ModelBodies == [kind : {"not_json", "not_object"}]
               \cup [kind : {"object"}, data : {"absent", "not_list"}]
               \cup [kind : {"object"}, data : {"list"}, entry : Entries]

\* list_models of the base adapter refuses a list with any entry without an id.
ModelsResult(body) ==
  IF body.kind = "object" /\ body.data = "list" /\ body.entry.id # "other" THEN "ok"
  ELSE "invalid_response"

\* The OpenRouter list reads the pricing of each entry.  A price object of another
\* type and an infinite context raise what the handler does not catch.
OpenRouterModelsResult(body) ==
  IF ModelsResult(body) = "ok"
     /\ (body.entry.pricing = "not_object" \/ body.entry.context = "infinite")
  THEN "escaped" ELSE ModelsResult(body)

\* _parse_price: an unreadable, negative (dynamic) or absent price is 0, and a
\* model whose prices are 0, or whose id says so, counts as free.
CountsAsFree(entry) == entry.pricing \in {"zero", "dynamic", "absent"} \/ entry.id = "text:free"

(* ------------------------------------------------------------------------ *)
(* The client's life.                                                         *)

Initialize ==
  /\ client = "none" /\ client' = "open"
  /\ UNCHANGED <<request, over, status, lines, result, listed>>

\* aclose is awaited before the reference is dropped.
CloseBegins ==
  /\ client = "open" /\ client' = "draining"
  /\ UNCHANGED <<request, over, status, lines, result, listed>>

CloseEnds ==
  /\ client = "draining" /\ client' = "none"
  /\ UNCHANGED <<request, over, status, lines, result, listed>>

(* ------------------------------------------------------------------------ *)
(* One request.                                                               *)

Ends(outcome) == result' = outcome /\ UNCHANGED <<client, request, over, lines>>

\* _client_or_error, then the request.  A closed httpx client refuses with a
\* RuntimeError, which no handler of the adapter knows.
Send(kind) ==
  /\ request = "nothing"
  /\ request' = kind /\ over' = client
  /\ result' = CASE client = "none"     -> "unavailable"
                 [] client = "draining" -> "escaped"
                 [] client = "open"     -> "none"
  /\ UNCHANGED <<client, status, lines, listed>>

\* _generation_payload refuses what exceeds the configured limits.
SendPrompt(kind, tokens, bytes) ==
  IF tokens > MaxTokens \/ bytes > MaxPromptBytes
  THEN /\ request = "nothing" /\ request' = kind
       /\ result' = "invalid_request" /\ UNCHANGED <<client, over, status, lines, listed>>
  ELSE Send(kind)

Waiting == request # "nothing" /\ result = "none" /\ status = 0

\* Timeouts and transport errors, among them a client closed under the request.
TransportFails(category) ==
  /\ request # "nothing" /\ result = "none"
  /\ category \in {"timeout", "unavailable"}
  /\ Ends(category) /\ UNCHANGED <<status, listed>>

Refused(code) ==
  /\ Waiting /\ code \notin 200..299
  /\ status' = code /\ Ends(CategoryForStatus(code)) /\ UNCHANGED listed

ModelsArrive(body, router) ==
  /\ Waiting /\ request = "models" /\ status' = 200
  /\ Ends(IF router THEN OpenRouterModelsResult(body) ELSE ModelsResult(body))
  /\ listed' = IF router /\ OpenRouterModelsResult(body) = "ok"
               THEN IF CountsAsFree(body.entry) THEN "free" ELSE "paid"
               ELSE listed

ChatArrives(body) ==
  /\ Waiting /\ request = "chat" /\ status' = 200
  /\ Ends(ChatResult(body)) /\ UNCHANGED listed

StreamOpens ==
  /\ Waiting /\ request = "stream" /\ status' = 200
  /\ UNCHANGED <<client, request, over, lines, result, listed>>

\* One line of the stream: noise and events without choices are passed over,
\* [DONE] ends it, and a chunk is handed to the consumer.
Line(event) ==
  /\ request = "stream" /\ status = 200 /\ result = "none" /\ lines < MaxLines
  /\ lines' = lines + 1
  /\ result' = CASE event[1] \in {"noise", "no_choices", "chunk"} -> "none"
                 [] event[1] = "done"  -> "ok"
                 [] event[1] = "error" -> EmbeddedCategory(event[2])
                 [] event[1] \in {"not_json", "not_object", "malformed"} -> "invalid_response"
  /\ UNCHANGED <<client, request, over, status, listed>>

Events == {"noise", "no_choices", "chunk", "done", "not_json", "not_object", "malformed"} \X {0}
          \cup {"error"} \X (Statuses \cup {0})

\* The connection ends without [DONE]: the consumer cannot tell.
StreamEnds ==
  /\ request = "stream" /\ status = 200 /\ result = "none"
  /\ Ends("ok") /\ UNCHANGED <<status, listed>>

Next ==
  \/ Initialize \/ CloseBegins \/ CloseEnds
  \/ Send("models")
  \/ \E kind \in {"chat", "stream"}, tokens \in {MaxTokens, MaxTokens + 1},
        bytes \in {MaxPromptBytes, MaxPromptBytes + 1} : SendPrompt(kind, tokens, bytes)
  \/ \E category \in Categories : TransportFails(category)
  \/ \E code \in Statuses : Refused(code)
  \/ \E body \in ModelBodies, router \in BOOLEAN : ModelsArrive(body, router)
  \/ \E body \in ChatBodies : ChatArrives(body)
  \/ StreamOpens \/ StreamEnds
  \/ \E event \in Events : Line(event)

Spec == Init /\ [][Next]_llmVars

(* ------------------------------------------------------------------------ *)
(* Properties.                                                                *)

\* Every request ends in an answer or in one of the provider error categories,
\* unless its client was already being closed when it was sent or a model list
\* had an entry the adapter does not expect; and no refusal of the service that
\* a repetition cannot change is given a category that is retried.
ErrorsNormalized ==
  /\ result = "escaped" => over = "draining" \/ request = "models"
  /\ result \in Retryable /\ status \notin {0, 200} =>
       status \in {402, 408, 429} \/ status >= 500
=============================================================================
