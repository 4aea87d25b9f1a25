---------------------------- MODULE WebsiteReader ----------------------------
(* The website_reader tool and its HTTP fetcher, with concurrent fetches over *)
(* one client.  Every hop of a redirect chain validates its host, pins one of *)
(* the addresses it resolved to, and may only connect to the pinned address.  *)
(* The fetcher is the one built with require_public_ip, the default.          *)
EXTENDS Integers, FiniteSets, Sequences, FiniteSetsExt, SequencesExt

CONSTANTS Fetches,        \* concurrent calls of the tool
          Hosts,          \* hosts that urls and redirects name
          LocalHosts,     \* localhost and .local names
          AllowedHosts,   \* the allowlist, empty for any host
          Zone,           \* [Hosts -> sets of addresses a resolution may give]
          PublicAddresses,
          Statuses,       \* HTTP statuses
          MaxRedirects, MaxBytes, MaxCharacters,
          Documents       \* bodies: sequences of tags and pieces of text

VARIABLES client,   \* none, open, or draining: closed while still referenced
          health,   \* the tool's ToolHealthState
          pool,     \* connections the client keeps: <<host, address>>
          fetch     \* [Fetches -> the call's local state]

websiteVars == <<client, health, pool, fetch>>

Redirects  == {301, 302, 303, 307, 308}
Retryable  == {"timeout", "network", "rate_limit", "unavailable"}
Categories == Retryable \cup {"invalid_input", "invalid_response", "not_found", "authentication"}
NoPage     == [title |-> 0, text |-> 0, truncated |-> FALSE]

TypeOK ==
  /\ client \in {"none", "open", "draining"}
  /\ health \in {"uninitialized", "healthy", "closed"}
  /\ pool \subseteq Hosts \X UNION UNION {Zone[h] : h \in Hosts}
  /\ \A f \in Fetches :
       /\ fetch[f].stage \in {"idle", "resolving", "sending", "reading", "done"}
       /\ fetch[f].hops \in 0..MaxRedirects /\ fetch[f].host \in Hosts \cup {"none"}
       /\ fetch[f].outcome \in Categories \cup {"none", "ok", "escaped", "cancelled"}

NoFetch == [stage |-> "idle", host |-> "none", long |-> FALSE, hops |-> 0, pin |-> 0, bytes |-> 0,
            outcome |-> "none", document |-> <<>>, page |-> NoPage]

Init ==
  /\ client = "none" /\ health = "uninitialized" /\ pool = {}
  /\ fetch = [f \in Fetches |-> NoFetch]

(* ------------------------------------------------------------------------ *)
(* The tool's life.                                                           *)

Initialize ==
  /\ client' = IF client = "none" THEN "open" ELSE client
  /\ health' = "healthy" /\ UNCHANGED <<pool, fetch>>

\* close awaits the client before it drops it and the tool says so.
CloseBegins ==
  /\ client = "open" /\ client' = "draining" /\ pool' = {}
  /\ UNCHANGED <<health, fetch>>

CloseEnds ==
  /\ client = "draining" \/ (client = "none" /\ health # "closed")
  /\ client' = "none" /\ health' = "closed" /\ UNCHANGED <<pool, fetch>>

(* ------------------------------------------------------------------------ *)
(* What a page says.                                                          *)

\* _validate_status, for what is no redirect.
StatusCategory(code) ==
  CASE code = 404            -> "not_found"
    [] code \in {401, 403}   -> "authentication"
    [] code = 429            -> "rate_limit"
    [] code \in 300..399     -> "invalid_response"
    [] code >= 500           -> "unavailable"
    [] OTHER                 -> "invalid_input"

\* Text counts while no boilerplate element is open, towards the title between
\* its tags; an end tag closes the innermost boilerplate whatever its name.
CleanText(document) ==
  LET Read(s, tag) ==
        CASE tag \in {"nav", "svg"}                 -> [s EXCEPT !.depth = @ + 1]
          [] tag \in {"/nav", "/svg"} /\ s.depth > 0 -> [s EXCEPT !.depth = @ - 1]
          [] tag = "title" /\ s.depth = 0            -> [s EXCEPT !.inTitle = TRUE]
          [] tag = "/title"                          -> [s EXCEPT !.inTitle = FALSE]
          [] tag = "text" /\ s.depth = 0 /\ s.inTitle  -> [s EXCEPT !.title = @ + 1]
          [] tag = "text" /\ s.depth = 0 /\ ~s.inTitle -> [s EXCEPT !.text = @ + 1]
          [] OTHER -> s
  IN FoldLeft(Read, [depth |-> 0, inTitle |-> FALSE, title |-> 0, text |-> 0], document)

Page(document) ==
  LET clean == CleanText(document)
  IN [title |-> clean.title, text |-> Min({clean.text, MaxCharacters}),
      truncated |-> clean.text > MaxCharacters]

(* ------------------------------------------------------------------------ *)
(* One fetch.                                                                 *)

Fails(f, outcome) == fetch' = [fetch EXCEPT ![f].stage = "done", ![f].outcome = outcome]

\* _validate_destination up to its await of the resolver.
Hop(f, host, long, hops) ==
  IF host \in LocalHosts \/ (AllowedHosts # {} /\ host \notin AllowedHosts)
  THEN Fails(f, "invalid_input")
  ELSE fetch' = [fetch EXCEPT ![f] = [@ EXCEPT !.stage = "resolving", !.host = host,
                                        !.long = long, !.hops = hops, !.pin = 0]]

Begin(f, host) ==
  /\ fetch[f].stage = "idle"
  /\ IF client = "none" THEN Fails(f, "unavailable") ELSE Hop(f, host, FALSE, 0)
  /\ UNCHANGED <<client, health, pool>>

\* The resolver fails, or cannot even encode the name: that escapes.
ResolverFails(f, outcome) ==
  /\ fetch[f].stage = "resolving" /\ outcome \in {"network", "escaped"}
  /\ Fails(f, outcome) /\ UNCHANGED <<client, health, pool>>

\* The client was looked at before the resolver was awaited: if it was closed
\* meanwhile, its use raises what no handler names.
Resolved(f, addresses) ==
  /\ fetch[f].stage = "resolving" /\ addresses \in Zone[fetch[f].host]
  /\ IF addresses = {} \/ ~(addresses \subseteq PublicAddresses) THEN Fails(f, "invalid_input")
     ELSE IF client # "open" THEN Fails(f, "escaped")
     ELSE fetch' = [fetch EXCEPT ![f].stage = "sending", ![f].pin = Min(addresses)]
  /\ UNCHANGED <<client, health, pool>>

\* Mutant: the connection resolves the name a second time.
ConnectByName(f, address) ==
  /\ fetch[f].stage = "sending" /\ client = "open"
  /\ address \in UNION Zone[fetch[f].host]
  /\ pool' = pool \cup {<<fetch[f].host, address>>}
  /\ UNCHANGED <<client, health, fetch>>

\* connect_tcp of the pinned backend, when the pool has no connection to the host.
Connect(f, address) ==
  /\ fetch[f].stage = "sending" /\ client = "open"
  /\ address = fetch[f].pin
  /\ pool' = pool \cup {<<fetch[f].host, address>>}
  /\ UNCHANGED <<client, health, fetch>>

Connected(f) == \E address \in UNION Zone[fetch[f].host] : <<fetch[f].host, address>> \in pool

TransportFails(f, outcome) ==
  /\ fetch[f].stage \in {"sending", "reading"} /\ outcome \in {"timeout", "network"}
  /\ Fails(f, outcome) /\ UNCHANGED <<client, health, pool>>

\* A redirect uses up a hop; a location that is absent or no https url ends it.
Redirected(f, code, target, long) ==
  /\ fetch[f].stage = "sending" /\ Connected(f) /\ code \in Redirects
  /\ IF target = "none" \/ fetch[f].hops = MaxRedirects THEN Fails(f, "invalid_response")
     ELSE Hop(f, target, long, fetch[f].hops + 1)
  /\ UNCHANGED <<client, health, pool>>

Responds(f, code, readable) ==
  /\ fetch[f].stage = "sending" /\ Connected(f) /\ code \notin Redirects
  /\ IF code >= 300 THEN Fails(f, StatusCategory(code))
     ELSE IF ~readable THEN Fails(f, "invalid_response")
     ELSE fetch' = [fetch EXCEPT ![f].stage = "reading"]
  /\ UNCHANGED <<client, health, pool>>

\* A chunk is kept before the limit is looked at.
Chunk(f, size) ==
  /\ fetch[f].stage = "reading"
  /\ LET kept == fetch[f].bytes + size IN
     fetch' = [fetch EXCEPT ![f].bytes = kept,
                            ![f].stage = IF kept > MaxBytes THEN "done" ELSE @,
                            ![f].outcome = IF kept > MaxBytes THEN "invalid_response" ELSE @]
  /\ UNCHANGED <<client, health, pool>>

\* The document is validated: a redirect may have led to a url that is too long.
Complete(f, document) ==
  /\ fetch[f].stage = "reading"
  /\ fetch' = [fetch EXCEPT ![f] =
       [@ EXCEPT !.stage = "done", !.outcome = IF fetch[f].long THEN "escaped" ELSE "ok",
                 !.document = document, !.page = Page(document)]]
  /\ UNCHANGED <<client, health, pool>>

\* A deadline or a cancellation, delivered at an await.
Cancelled(f) ==
  /\ fetch[f].stage \in {"resolving", "sending", "reading"}
  /\ Fails(f, "cancelled") /\ UNCHANGED <<client, health, pool>>

Next ==
  \/ Initialize \/ CloseBegins \/ CloseEnds
  \/ \E f \in Fetches :
       \/ \E host \in Hosts : Begin(f, host)
       \/ \E outcome \in {"network", "escaped"} : ResolverFails(f, outcome)
       \/ \E addresses \in UNION {Zone[h] : h \in Hosts} : Resolved(f, addresses)
       \/ \E address \in UNION UNION {Zone[h] : h \in Hosts} : Connect(f, address)
       \/ \E outcome \in {"timeout", "network"} : TransportFails(f, outcome)
       \/ \E code \in Statuses, target \in Hosts \cup {"none"}, long \in BOOLEAN :
            Redirected(f, code, target, long)
       \/ \E code \in Statuses, readable \in BOOLEAN : Responds(f, code, readable)
       \/ \E size \in 1..MaxBytes : Chunk(f, size)
       \/ \E document \in Documents : Complete(f, document)
       \/ Cancelled(f)

Spec == Init /\ [][Next]_websiteVars

(* ------------------------------------------------------------------------ *)
(* Properties.                                                                *)

\* The addresses some resolution of the host would have passed with.
Vetted(host) ==
  UNION {answer \in Zone[host] : answer # {} /\ answer \subseteq PublicAddresses}

\* Whatever the resolver says from one moment to the next, to whichever of the
\* concurrent fetches, and wherever a redirect leads, every connection the
\* client keeps goes to an address that was vetted for that very host, and the
\* host is one the configuration admits.
PinnedConnections ==
  \A connection \in pool :
    /\ connection[2] \in Vetted(connection[1])
    /\ connection[1] \notin LocalHosts
    /\ AllowedHosts # {} => connection[1] \in AllowedHosts

=============================================================================
