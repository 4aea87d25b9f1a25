----------------------------- MODULE MCRequests -----------------------------
(* Small instances of the parts.                                              *)
EXTENDS Requests, SequencesExt

(* Models: free and paid ones, large and small, of two providers.             *)
M(id, name, provider, free, cost, quality, context, latency, health, caps) ==
  [id |-> id, name |-> name, word |-> [w |-> 1, x |-> 2, y |-> 3, z |-> 4][name], provider |-> provider, free |-> free, cost |-> cost,
   quality |-> quality, context |-> context, latency |-> latency, health |-> health,
   capabilities |-> caps, available |-> TRUE]
Mixed == {M(1, "x", "p", TRUE, 0, 40, 8000, 0, 100, {"chat"}),
          M(2, "y", "p", FALSE, 9, 90, 200000, 100, 0, {"chat"}),
          M(3, "z", "p", FALSE, 1, 60, 0, 20000, 50, {"embeddings"}),
          M(4, "w", "p", FALSE, 2, 60, 100, 20000, 0, {"chat"}),
          M(5, "x", "q", TRUE, 0, 100, 200000, 0, 100, {"chat"})}
ModelSets    == {Mixed, {m \in Mixed : ~m.free}, {m \in Mixed : m.id \in {1, 2}}, {}}
AnalysisTasks == [operation : {"analyze", "summarize"}, complex : BOOLEAN, tokens : {10, 4000, 9000}]
TwoProviders == <<"p", "q">>
TokenCounts  == {-1, 0, 2}

(* The name a resolves to a private address too, when asked again; b to none. *)
Resolutions == [h \in {"a", "b", "local", "other"} |->
                  CASE h = "a" -> {{1}, {1, 9}} [] h = "b" -> {{2}, {}} [] OTHER -> {{3}}]
Pages == {<<"title", "text", "/title", "text">>,
          <<"nav", "text", "svg", "/svg", "/nav", "text", "text">>,
          <<"title", "nav", "/title", "text", "/nav">>}

(* Two lexemes after SELECT, and queries that only look right; in the last two *)
(* the check and PostgreSQL disagree on what is quoted.                       *)
Statements ==
  {<<"SELECT">> \o s : s \in BoundedSeq({"'", "[", "]", ";", "REPLACE", "p", "$$"}, 2)}
  \cup {<<"'">>, <<"DROP">>, <<"SELECT", "REPLACE", "(">>,
        <<"SELECT", "'", "'", "'", ";", "'">>, <<"SELECT", "[", "'", "]", ";">>,
        <<"SELECT", "[", ";", "]">>, <<"SELECT", "$$", "'", "$$", ";", "SELECT", "$$", "'", "$$">>}

(* Settings: a default, and what each section may have instead.               *)
Off == [enabled |-> FALSE, key |-> "absent", model |-> "absent", url |-> "https", within |-> TRUE,
        via |-> "attribute", referer |-> "absent"]
On == [Off EXCEPT !.enabled = TRUE, !.key = "set", !.model = "named"]
Stock == [enabled |-> TRUE, yahoo |-> TRUE, alpha |-> FALSE, alphaKey |-> "absent",
          yahooUrl |-> "https_slash", yahooPath |-> "one_symbol", alphaPath |-> "relative",
          within |-> TRUE, priority |-> <<"yahoo_finance", "alpha_vantage">>, backoff |-> 1, maxBackoff |-> 2]
Dsn == [scheme |-> "postgresql", user |-> "u", host |-> "h", database |-> "d", fragment |-> FALSE,
        query |-> "none"]
NoDsn == [Dsn EXCEPT !.scheme = "blank"]
SqlSection == [enabled |-> TRUE, within |-> TRUE, backend |-> "postgres", path |-> "relative",
               dsn |-> NoDsn, host |-> "simple", database |-> "simple", user |-> "simple"]
Default ==
  [providers |-> [n \in {"cerebras", "openrouter"} |-> Off], priority |-> <<>>, backoff |-> <<1, 2>>,
   stock |-> Stock, website |-> [enabled |-> TRUE, within |-> TRUE, hosts |-> <<>>], sql |-> SqlSection,
   csv |-> [enabled |-> TRUE, within |-> TRUE],
   currency |-> [enabled |-> TRUE, within |-> TRUE, backoff |-> 1, maxBackoff |-> 2, frankfurter |-> TRUE],
   analysis |-> [enabled |-> TRUE, within |-> TRUE],
   operations |-> [within |-> TRUE, phase |-> "text", url |-> "loopback", logLimit |-> 1, logCapacity |-> 2]]

Entries == {Off, On, [On EXCEPT !.key = "empty"], [On EXCEPT !.model = "blank"], [Off EXCEPT !.url = "http"],
            [Off EXCEPT !.within = FALSE], [On EXCEPT !.referer = "blank"],
            [On EXCEPT !.referer = "invalid"], [On EXCEPT !.via = "variables"]}
Generic == {[On EXCEPT !.via = "variables"], [On EXCEPT !.via = "json"], [Off EXCEPT !.via = "json"]}
Priorities == {<<>>, <<"cerebras">>, <<"groq", "cerebras">>, <<"acme">>, <<"cerebras", "cerebras">>,
               <<"ill_formed">>}
Stocks ==
  {[Stock EXCEPT !.enabled = e, !.yahoo = y, !.alpha = a, !.alphaKey = k, !.priority = p, !.backoff = b] :
     e, y, a \in BOOLEAN, k \in {"absent", "set"}, b \in {1, 3},
     p \in {<<>>, <<"yahoo_finance">>, <<"alpha_vantage", "yahoo_finance">>, <<"acme">>,
            <<"alpha_vantage", "alpha_vantage">>}}
  \cup {[Stock EXCEPT !.yahooUrl = "http"], [Stock EXCEPT !.yahooPath = "other"],
        [Stock EXCEPT !.alphaPath = "other"], [Stock EXCEPT !.within = FALSE]}
Sqls ==
  {[SqlSection EXCEPT !.dsn = d, !.host = h] :
     h \in {"simple", "odd"},
     d \in {NoDsn, Dsn, [Dsn EXCEPT !.scheme = "mysql"], [Dsn EXCEPT !.database = ""],
            [Dsn EXCEPT !.fragment = TRUE], [Dsn EXCEPT !.query = "other"]}}
  \cup {[SqlSection EXCEPT !.within = FALSE], [SqlSection EXCEPT !.backend = "sqlite"],
        [SqlSection EXCEPT !.path = "absolute"], [SqlSection EXCEPT !.enabled = FALSE]}
OneProvider(name, a, other, b) == [n \in {"cerebras", "openrouter", name} |->
                                     IF n = "cerebras" THEN a ELSE IF n = other THEN b ELSE Off]
Files ==
  {[Default EXCEPT !.providers = OneProvider("cerebras", a, "openrouter", b), !.priority = p] :
     a, b \in Entries, p \in Priorities}
  \cup {[Default EXCEPT !.providers = OneProvider(g, a, g, b), !.priority = p] :
          g \in {"groq", "acme"}, a \in {On, Off}, b \in Generic, p \in Priorities}
  \cup {[Default EXCEPT !.stock = x] : x \in Stocks} \cup {[Default EXCEPT !.sql = x] : x \in Sqls}
  \cup {[Default EXCEPT !.backoff = <<3, 2>>], [Default EXCEPT !.backoff = <<-1, 2>>],
        [Default EXCEPT !.website.hosts = <<"a", "a">>],
        [Default EXCEPT !.website.within = FALSE], [Default EXCEPT !.website.enabled = FALSE],
        [Default EXCEPT !.csv.enabled = FALSE, !.analysis.enabled = FALSE],
        [Default EXCEPT !.csv.within = FALSE], [Default EXCEPT !.analysis.within = FALSE],
        [Default EXCEPT !.currency.frankfurter = FALSE], [Default EXCEPT !.currency.backoff = 3],
        [Default EXCEPT !.operations.logLimit = 3], [Default EXCEPT !.operations.url = "remote"],
        [Default EXCEPT !.operations.phase = "blank"]}
=============================================================================
