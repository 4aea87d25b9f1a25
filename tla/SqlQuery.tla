------------------------------- MODULE SqlQuery -------------------------------
(* The sql_query tool: the read-only check of a query, the binding of named   *)
(* parameters, and the execution over one connection by the PostgreSQL or the *)
(* SQLite adapter.  A query is a sequence of lexemes: a few words, marks, and *)
(* quotes.  The apostrophe stands for every quote that both engines know and  *)
(* that doubles, the bracket for those only SQLite knows (the backtick is one *)
(* too), $$ for a dollar quote, which only PostgreSQL knows.  Strings with    *)
(* backslash escapes (E'...') are not among the queries.  A parameter is what *)
(* its value is for the adapters.                                             *)
EXTENDS Integers, FiniteSets, Sequences, FiniteSetsExt, SequencesExt

CONSTANTS Queries,     \* the queries that are submitted
          Parameters,  \* names of placeholders; the lexeme of a placeholder is its name
          Values,      \* kinds of values: fine, oversized, huge, infinite, surrogate
          Forbidden,   \* forbidden keywords, FunctionKeywords those allowed as calls
          FunctionKeywords,
          MaxRows,     \* the row ceiling of a request
          MaxTable     \* bound: rows the database would return

VARIABLES query,       \* the submitted query
          engine,      \* the adapter: postgres or sqlite
          place,       \* idle, connecting, preparing, reading, closing or done
          value,       \* what the adapter meets first in the values it binds
          connection,  \* none, open or closed
          fetched,     \* rows read
          table,       \* rows the statement has
          answer,      \* rows kept, and truncated, of the answer
          outcome      \* what the adapter ends with; the caller may have left before

sqlVars == <<query, engine, place, value, connection, fetched, table, answer, outcome>>

Outcomes == {"none", "ok", "refused", "failed", "timed_out", "escaped", "cancelled"}

TypeOK ==
  /\ query \in Queries \cup {<<>>} /\ engine \in {"postgres", "sqlite"}
  /\ place \in {"idle", "connecting", "preparing", "reading", "closing", "done"}
  /\ value \in Values \cup {"fine", "missing"} /\ connection \in {"none", "open", "closed"}
  /\ fetched \in 0..(MaxRows + 1) /\ table \in 0..MaxTable
  /\ answer \in [count : 0..MaxRows, truncated : BOOLEAN] /\ outcome \in Outcomes

Init ==
  /\ query = <<>> /\ engine = "postgres" /\ place = "idle" /\ value = "fine"
  /\ connection = "none" /\ fetched = 0 /\ table = 0 /\ outcome = "none"
  /\ answer = [count |-> 0, truncated |-> FALSE]

(* ------------------------------------------------------------------------ *)
(* Lexemes outside of quotes.                                                 *)

Closing == [quote \in {"'", "[", "$$"} |-> IF quote = "[" THEN "]" ELSE quote]

\* One step of the scan: a quote runs to its closing mark, a doubled mark does
\* not end it, and brackets do not double.  With dollar, $$ quotes as well.
Step(s, lexeme, quotes) ==
  CASE s.mode = "in" /\ lexeme = s.mark  -> [s EXCEPT !.mode = IF s.mark = "'" THEN "maybe" ELSE "out"]
    [] s.mode = "in" /\ lexeme # s.mark  -> s
    [] s.mode = "maybe" /\ lexeme = "'"  -> [s EXCEPT !.mode = "in"]
    [] OTHER ->
         IF lexeme \in quotes
         THEN [mode |-> "in", mark |-> Closing[lexeme], outside |-> Append(s.outside, "literal")]
         ELSE [mode |-> "out", mark |-> s.mark, outside |-> Append(s.outside, lexeme)]

\* Where the scan stands after each lexeme of a query.
Scanned(q, quotes) ==
  LET s[i \in 0..Len(q)] ==
        IF i = 0 THEN [mode |-> "out", mark |-> "'", outside |-> <<>>]
        ELSE Step(s[i - 1], q[i], quotes)
  IN s

Scan(q, quotes) == Scanned(q, quotes)[Len(q)]

\* Mutant: a function keyword is let through wherever it stands.
AcceptedAnyReplace(q) ==
  LET scan == Scan(q, {"'", "["}) IN
  /\ scan.mode # "in" /\ scan.outside # <<>> /\ Head(scan.outside) \in {"SELECT", "WITH"}
  /\ \A i \in DOMAIN scan.outside :
       scan.outside[i] \notin {";", "--"} \cup (Forbidden \ FunctionKeywords)

\* No separator, no comment, and no forbidden keyword but a function's call.
ReadOnly(words) ==
  \A i \in DOMAIN words :
    /\ words[i] \notin {";", "--"}
    /\ words[i] \in Forbidden =>
         words[i] \in FunctionKeywords /\ i < Len(words) /\ words[i + 1] = "("

\* validate_read_only_sql.
Accepted(q) ==
  LET scan == Scan(q, {"'", "["}) IN
  /\ scan.mode # "in" /\ scan.outside # <<>> /\ Head(scan.outside) \in {"SELECT", "WITH"}
  /\ ReadOnly(scan.outside)

\* The placeholders of a query, each at the position of its first use.  The
\* binding for PostgreSQL knows dollar quotes, which the check does not.
BindingMarks(adapter) == {"'", "["} \cup IF adapter = "postgres" THEN {"$$"} ELSE {}
Arguments(q, adapter) ==
  FoldLeft(LAMBDA names, x : IF x \in Range(names) THEN names ELSE Append(names, x), <<>>,
           SelectSeq(Scan(q, BindingMarks(adapter)).outside, LAMBDA x : x \in Parameters))

\* The kinds that pass: what is left of them fails or not in the database.
Taken(adapter) == IF adapter = "postgres" THEN {"fine", "huge"} ELSE {"fine", "infinite"}

\* Values are taken in the order of the placeholders: a bad one is met before a
\* missing one that stands behind it.
Bound(q, adapter, given, kind) ==
  LET names == Arguments(q, adapter) IN
  CASE names = <<>>                                       -> "fine"
    [] names # <<>> /\ (\/ Range(names) \subseteq given
                        \/ Head(names) \in given /\ kind \notin Taken(adapter)) -> kind
    [] OTHER                                              -> "missing"

\* bind_named_parameters: a string with a lone surrogate cannot be encoded to be
\* measured, and that error is no DatabaseQueryFailedError.
Binding(q, bound) ==
  CASE bound = "surrogate" -> "escaped"
    [] bound \in Taken("postgres") /\ Scan(q, BindingMarks("postgres")).mode # "in" -> "none"
    [] OTHER -> "failed"

(* ------------------------------------------------------------------------ *)
(* The execution.                                                             *)

\* The adapter has its outcome; an open connection is closed first.
Ends(result) ==
  /\ outcome' = IF outcome = "cancelled" THEN outcome ELSE result
  /\ place' = IF connection = "open" THEN "closing" ELSE "done"

Submit(q, adapter, given, kind) ==
  /\ place = "idle"
  /\ query' = q /\ engine' = adapter /\ value' = Bound(q, adapter, given, kind)
  /\ outcome' = CASE ~Accepted(q)                          -> "refused"
                  [] Accepted(q) /\ adapter = "postgres"   -> Binding(q, value')
                  [] Accepted(q) /\ adapter = "sqlite"     -> "none"
  /\ place' = IF outcome' = "none" THEN "connecting" ELSE "done"
  /\ UNCHANGED <<connection, fetched, table, answer>>

Connect ==
  /\ place = "connecting"
  /\ place' = "preparing" /\ connection' = "open"
  /\ UNCHANGED <<query, engine, value, fetched, table, answer, outcome>>

\* An error of the database, at the connection, the statement or a row.
DatabaseFails(result) ==
  /\ place \in {"connecting", "preparing", "reading"} /\ result \in {"failed", "timed_out"}
  /\ Ends(result)
  /\ UNCHANGED <<query, engine, value, connection, fetched, table, answer>>

\* The statement's columns are looked at; an integer or a string SQLite cannot
\* take raises an OverflowError or UnicodeEncodeError its handlers do not name.
Prepare(columns, rows) ==
  /\ place = "preparing" /\ table' = rows
  /\ CASE engine = "sqlite" /\ value \in {"huge", "surrogate"}    -> Ends("escaped")
       [] engine = "sqlite" /\ value \in {"oversized", "missing"} -> Ends("failed")
       [] columns \in {"none", "duplicate"}                      -> Ends("failed")
       [] columns = "wide" /\ engine = "postgres"                -> Ends("failed")
       [] columns = "wide" /\ engine = "sqlite"                  -> Ends("escaped")
       [] OTHER -> place' = "reading" /\ UNCHANGED outcome
  /\ UNCHANGED <<query, engine, value, connection, fetched, answer>>

\* Rows are read until there is one more than asked for.
Row ==
  /\ place = "reading" /\ fetched <= MaxRows /\ fetched < table
  /\ fetched' = fetched + 1
  /\ UNCHANGED <<query, engine, place, value, connection, table, answer, outcome>>

\* The values of the kept rows are normalised: before the close by PostgreSQL,
\* after it by SQLite; another type than a scalar is refused.
Complete(scalar) ==
  /\ place = "reading" /\ (fetched = table \/ fetched > MaxRows)
  /\ answer' = [count |-> Min({fetched, MaxRows}), truncated |-> fetched > MaxRows]
  /\ Ends(IF scalar THEN "ok" ELSE "failed")
  /\ UNCHANGED <<query, engine, value, connection, fetched, table>>

\* The close of PostgreSQL is awaited and may itself fail, which replaces the
\* outcome, a cancellation too.
Close(result) ==
  /\ place = "closing" /\ place' = "done" /\ connection' = "closed"
  /\ result \in {"kept", "failed", "timed_out"} /\ (engine = "sqlite" => result = "kept")
  /\ outcome' = IF result = "kept" THEN outcome ELSE result
  /\ UNCHANGED <<query, engine, value, fetched, table, answer>>

\* The caller leaves: PostgreSQL stops at its await and closes, at the close it
\* drops the connection; a SQLite thread goes on to its end.
Cancelled ==
  /\ place \in {"connecting", "preparing", "reading", "closing"} /\ outcome # "cancelled"
  /\ outcome' = "cancelled"
  /\ IF engine = "sqlite" THEN UNCHANGED <<place, connection>>
     ELSE IF place \in {"preparing", "reading"} THEN place' = "closing" /\ UNCHANGED connection
     ELSE place' = "done" /\ connection' = IF place = "closing" THEN "closed" ELSE connection
  /\ UNCHANGED <<query, engine, value, fetched, table, answer>>

Next ==
  \/ \E q \in Queries, adapter \in {"postgres", "sqlite"}, given \in SUBSET Parameters,
        kind \in Values : Submit(q, adapter, given, kind)
  \/ Connect \/ Row \/ Cancelled
  \/ \E result \in {"failed", "timed_out"} : DatabaseFails(result)
  \/ \E columns \in {"fine", "none", "duplicate", "wide"}, rows \in 0..MaxTable : Prepare(columns, rows)
  \/ \E scalar \in BOOLEAN : Complete(scalar)
  \/ \E result \in {"kept", "failed", "timed_out"} : Close(result)

Spec == Init /\ [][Next]_sqlVars

(* ------------------------------------------------------------------------ *)
(* Properties.                                                                *)

\* The queries in which the check and the engine know the same quotes, and which
\* have one kind of them.
SameQuotes(q, adapter) ==
  IF adapter = "postgres" THEN Range(q) \cap {"[", "$$"} = {}
  ELSE ~({"'", "["} \subseteq Range(q))

\* What the engine takes for quoted in them: an apostrophe opens or closes a
\* literal, whether or not it is doubled; a bracket runs to the next closing one.
Quoted(q, i) ==
  IF "[" \in Range(q)
  THEN \E j \in 1..(i - 1) : q[j] = "[" /\ \A k \in (j + 1)..(i - 1) : q[k] # "]"
  ELSE Cardinality({j \in 1..(i - 1) : q[j] = "'"}) % 2 = 1

\* A query that reaches a database, and whose quotes the check and the engine
\* read alike (no dollar quotes and no brackets for PostgreSQL, no escape strings,
\* one kind of quotes), has outside of them no separator, no comment, and no
\* forbidden keyword but a function's call; every connection is closed when the
\* execution ends, whatever ended it; an answer has at most the rows that were
\* asked for and says truncated exactly when more were there; and an error escapes
\* its category only from SQLite or for a value that cannot be encoded.
QueryContained ==
  /\ connection # "none" /\ SameQuotes(query, engine) =>
       \A i \in DOMAIN query : ~Quoted(query, i) =>
         /\ query[i] \notin {";", "--"}
         /\ query[i] \in Forbidden =>
              query[i] \in FunctionKeywords /\ i < Len(query) /\ query[i + 1] = "("
  /\ place = "done" => connection # "open"
  /\ outcome = "ok" =>
       answer.count = Min({table, MaxRows}) /\ (answer.truncated <=> table > MaxRows)
  /\ outcome = "escaped" => engine = "sqlite" \/ value = "surrogate"
=============================================================================
