------------------------------ MODULE QuoteCache ------------------------------
(***************************************************************************)
(* The cache of StockPriceService (tools/application/stock_price.py), and  *)
(* of CurrencyConverterService, which repeats it with one provider.        *)
(*                                                                         *)
(* A call that misses the cache takes the asyncio.Lock of its symbol,      *)
(* looks again, fetches from the providers in order and stores the quote.  *)
(* Nothing is awaited while _cache_guard is held, so the guard is never    *)
(* contended: each step below is the code between two real suspensions,    *)
(* which are a wait for a symbol lock, a provider's answer and a backoff.  *)
(*                                                                         *)
(* asyncio.Lock is modelled as it behaves: release() unlocks and wakes the *)
(* first waiter, which takes the lock only when the event loop runs it.    *)
(* A lock object is named by the call whose setdefault() created it.       *)
(* The quote itself, latencies and event logs are left out.                *)
(***************************************************************************)
EXTENDS Integers, Sequences, FiniteSets, SequencesExt

CONSTANTS
  Calls,        \* calls of get_quote, each made once
  Symbols, SymbolOf,
  MaxEntries,   \* max_cache_entries
  Caching,      \* FALSE when the cache duration is zero
  Providers,    \* how many providers are configured
  RetryCount,
  MaxCloses,    \* bound: how many times close() is called
  NoLock

\* What a provider's StockDataError says: the symbol is unknown, the request may be
\* repeated, or neither.
Fault == {"invalid_symbol", "retryable", "fatal"}

ASSUME QuoteCacheAssumption ==
  /\ IsFiniteSet(Calls) /\ IsFiniteSet(Symbols)
  /\ SymbolOf \in [Calls -> Symbols]
  /\ MaxEntries \in Nat \ {0} /\ Providers \in Nat \ {0}
  /\ RetryCount \in Nat /\ MaxCloses \in Nat
  /\ Caching \in BOOLEAN
  /\ NoLock \notin Calls

VARIABLES
  cache,      \* symbols with an entry, oldest expires_at first
  stale,      \* the cached symbols whose expires_at has passed
  locks,      \* _locks: the lock of a symbol, or NoLock
  locked,     \* of each lock object: locked()
  waiters,    \* of each lock object: the tasks in acquire()
  woken,      \* the tasks whose acquire() future is done
  pc, lockOf, \* each call: where it is, the lock it uses
  provider, attempt, sawOther,  \* each call: the variables of _fetch
  faults,     \* history: what the providers told the call
  outcome,
  closes

vars == <<cache, stale, locks, locked, waiters, woken, pc, lockOf, provider, attempt,
          sawOther, faults, outcome, closes>>
store == <<cache, stale>>
mutex == <<locks, locked, waiters, woken>>
fetch == <<provider, attempt, sawOther, faults>>

Fresh == ToSet(cache) \ stale

\* The sequence q after its element e has left it.
Leave(q, e) == RemoveAt(q, CHOOSE i \in DOMAIN q : q[i] = e)

Fetching(t) == pc[t] \in {"fetching", "backoff"}

-----------------------------------------------------------------------------
Init ==
  /\ cache = <<>> /\ stale = {}
  /\ locks = [s \in Symbols |-> NoLock]
  /\ locked = [l \in Calls |-> FALSE]
  /\ waiters = [l \in Calls |-> <<>>]
  /\ woken = {}
  /\ pc = [t \in Calls |-> "idle"]
  /\ lockOf = [t \in Calls |-> NoLock]
  /\ provider = [t \in Calls |-> 1] /\ attempt = [t \in Calls |-> 0]
  /\ sawOther = [t \in Calls |-> FALSE]
  /\ faults = [t \in Calls |-> {}]
  /\ outcome = [t \in Calls |-> "none"]
  /\ closes = 0

Return(t, o) ==
  /\ pc' = [pc EXCEPT ![t] = "done"]
  /\ outcome' = [outcome EXCEPT ![t] = o]

\* _cached() on a miss: an expired entry of s is dropped.
DropExpired(s) ==
  IF s \in stale
  THEN cache' = Leave(cache, s) /\ stale' = stale \ {s}
  ELSE UNCHANGED store

\* release(): the first of the tasks q still in acquire() is woken, unless it was.
WakeFirst(q) == IF q = <<>> THEN {} ELSE {Head(q)}

Release(l) ==
  /\ locked' = [locked EXCEPT ![l] = FALSE]
  /\ woken' = woken \union WakeFirst(waiters[l])
  /\ UNCHANGED waiters

-----------------------------------------------------------------------------
CallHits(t) ==
  /\ pc[t] = "idle" /\ SymbolOf[t] \in Fresh
  /\ Return(t, "cached")
  /\ UNCHANGED <<store, mutex, lockOf, fetch, closes>>

LockFor(t) == IF locks[SymbolOf[t]] = NoLock THEN t ELSE locks[SymbolOf[t]]

\* Mutation: the symbol's lock is created anew by every call.
CallMissesOwnLock(t) ==
  /\ pc[t] = "idle" /\ SymbolOf[t] \notin Fresh
  /\ DropExpired(SymbolOf[t])
  /\ locks' = [locks EXCEPT ![SymbolOf[t]] = t]
  /\ lockOf' = [lockOf EXCEPT ![t] = t]
  /\ locked' = [locked EXCEPT ![t] = TRUE]
  /\ pc' = [pc EXCEPT ![t] = "fetching"]
  /\ UNCHANGED <<waiters, woken, fetch, outcome, closes>>

\* A miss takes the lock of its symbol at once, when nobody holds or awaits it, or
\* joins the queue for it.
CallMisses(t) ==
  /\ pc[t] = "idle" /\ SymbolOf[t] \notin Fresh
  /\ DropExpired(SymbolOf[t])
  /\ LET l == LockFor(t)
     IN  /\ locks' = [locks EXCEPT ![SymbolOf[t]] = l]
         /\ lockOf' = [lockOf EXCEPT ![t] = l]
         /\ IF ~locked[l] /\ waiters[l] = <<>>
            THEN /\ locked' = [locked EXCEPT ![l] = TRUE]
                 /\ pc' = [pc EXCEPT ![t] = "fetching"]
                 /\ UNCHANGED waiters
            ELSE /\ waiters' = [waiters EXCEPT ![l] = Append(@, t)]
                 /\ pc' = [pc EXCEPT ![t] = "waiting"]
                 /\ UNCHANGED locked
  /\ UNCHANGED <<woken, fetch, outcome, closes>>

\* A woken waiter finds the quote its predecessor stored and passes the lock on.
ResumeHits(t) ==
  /\ t \in woken /\ SymbolOf[t] \in Fresh
  /\ LET l == lockOf[t]
         rest == Leave(waiters[l], t)
     IN  /\ waiters' = [waiters EXCEPT ![l] = rest]
         /\ woken' = (woken \ {t}) \union WakeFirst(rest)
         /\ locked' = [locked EXCEPT ![l] = FALSE]
  /\ Return(t, "cached")
  /\ UNCHANGED <<store, locks, lockOf, fetch, closes>>

\* A woken waiter finds nothing and fetches under the lock.
ResumeMisses(t) ==
  /\ t \in woken /\ SymbolOf[t] \notin Fresh
  /\ DropExpired(SymbolOf[t])
  /\ waiters' = [waiters EXCEPT ![lockOf[t]] = Leave(@, t)]
  /\ woken' = woken \ {t}
  /\ locked' = [locked EXCEPT ![lockOf[t]] = TRUE]
  /\ pc' = [pc EXCEPT ![t] = "fetching"]
  /\ UNCHANGED <<locks, lockOf, fetch, outcome, closes>>

-----------------------------------------------------------------------------
(* _fetch                                                                   *)

\* Mutation: the cache may hold one entry more than its maximum.
EvictsLate(s) == s \notin ToSet(cache) /\ Len(cache) > MaxEntries

\* _store() makes room by dropping the oldest entry.
Evicts(s) == s \notin ToSet(cache) /\ Len(cache) >= MaxEntries

\* The entries that stay when s is stored: an entry that is stored again is the youngest.
Kept(s) ==
  IF Evicts(s) THEN Tail(cache)
  ELSE IF s \in ToSet(cache) THEN Leave(cache, s) ELSE cache

\* Mutation: the lock of an evicted symbol is dropped while it is held.
DropsHeldLock(s) == Evicts(s) /\ locks[Head(cache)] # NoLock

\* The lock of an evicted symbol goes with it, unless it is held.
DropsLock(s) ==
  Evicts(s) /\ locks[Head(cache)] # NoLock /\ ~locked[locks[Head(cache)]]

Store(s) ==
  IF ~Caching THEN UNCHANGED <<store, locks>>
  ELSE /\ cache' = Append(Kept(s), s)
       /\ stale' = stale \intersect ToSet(Kept(s))
       /\ locks' = IF DropsLock(s) THEN [locks EXCEPT ![Head(cache)] = NoLock] ELSE locks

\* A provider answers: the quote is stored and the lock released.
FetchSucceeds(t) ==
  /\ pc[t] = "fetching"
  /\ Store(SymbolOf[t])
  /\ Release(lockOf[t])
  /\ Return(t, "fetched")
  /\ UNCHANGED <<lockOf, fetch, closes>>

\* Mutation: a later unknown symbol hides an earlier failure.
NoteLatestFault(t, f) ==
  /\ faults' = [faults EXCEPT ![t] = @ \union {f}]
  /\ sawOther' = [sawOther EXCEPT ![t] = f # "invalid_symbol"]

NoteFault(t, f) ==
  /\ faults' = [faults EXCEPT ![t] = @ \union {f}]
  /\ sawOther' = [sawOther EXCEPT ![t] = @ \/ f # "invalid_symbol"]

SameProviderAgain(t, f) == f = "retryable" /\ attempt[t] < RetryCount

RetryLater(t, f) ==
  /\ pc[t] = "fetching" /\ SameProviderAgain(t, f)
  /\ NoteFault(t, f)
  /\ pc' = [pc EXCEPT ![t] = "backoff"]
  /\ UNCHANGED <<store, mutex, lockOf, provider, attempt, outcome, closes>>

BackoffEnds(t) ==
  /\ pc[t] = "backoff"
  /\ pc' = [pc EXCEPT ![t] = "fetching"]
  /\ attempt' = [attempt EXCEPT ![t] = @ + 1]
  /\ UNCHANGED <<store, mutex, lockOf, provider, sawOther, faults, outcome, closes>>

\* Mutation: the loop over the providers runs past the last one.
NextProviderTooFar(t, f) ==
  /\ pc[t] = "fetching" /\ ~SameProviderAgain(t, f)
  /\ provider[t] <= Providers
  /\ NoteFault(t, f)
  /\ provider' = [provider EXCEPT ![t] = @ + 1]
  /\ attempt' = [attempt EXCEPT ![t] = 0]
  /\ UNCHANGED <<store, mutex, lockOf, pc, outcome, closes>>

NextProvider(t, f) ==
  /\ pc[t] = "fetching" /\ ~SameProviderAgain(t, f)
  /\ provider[t] < Providers
  /\ NoteFault(t, f)
  /\ provider' = [provider EXCEPT ![t] = @ + 1]
  /\ attempt' = [attempt EXCEPT ![t] = 0]
  /\ UNCHANGED <<store, mutex, lockOf, pc, outcome, closes>>

\* Mutation: an error leaves the lock held.
FetchFailsHolding(t, f) ==
  /\ pc[t] = "fetching" /\ ~SameProviderAgain(t, f)
  /\ provider[t] = Providers
  /\ NoteFault(t, f)
  /\ Return(t, IF sawOther'[t] THEN "unavailable" ELSE "invalid_symbol")
  /\ UNCHANGED <<store, mutex, lockOf, provider, attempt, closes>>

\* The last provider has failed: nothing is stored and the lock is released.
FetchFails(t, f) ==
  /\ pc[t] = "fetching" /\ ~SameProviderAgain(t, f)
  /\ provider[t] = Providers
  /\ NoteFault(t, f)
  /\ Release(lockOf[t])
  /\ Return(t, IF sawOther'[t] THEN "unavailable" ELSE "invalid_symbol")
  /\ UNCHANGED <<store, locks, lockOf, provider, attempt, closes>>

-----------------------------------------------------------------------------
\* The tool's timeout or the client cancels the call while it holds the lock; an
\* exception that is not a StockDataError ends it the same way.
CancelHolder(t) ==
  /\ Fetching(t)
  /\ Release(lockOf[t])
  /\ Return(t, "cancelled")
  /\ UNCHANGED <<store, locks, lockOf, fetch, closes>>

\* Mutation: a cancelled waiter releases the lock as a holder does.
CancelWaiterReleases(t) ==
  /\ pc[t] = "waiting"
  /\ LET l == lockOf[t]
         rest == Leave(waiters[l], t)
     IN  /\ waiters' = [waiters EXCEPT ![l] = rest]
         /\ locked' = [locked EXCEPT ![l] = FALSE]
         /\ woken' = (woken \ {t}) \union WakeFirst(rest)
  /\ Return(t, "cancelled")
  /\ UNCHANGED <<store, locks, lockOf, fetch, closes>>

\* A cancelled waiter leaves the queue and passes on the wake-up it may have had.
CancelWaiter(t) ==
  /\ pc[t] = "waiting"
  /\ LET l == lockOf[t]
         rest == Leave(waiters[l], t)
     IN  /\ waiters' = [waiters EXCEPT ![l] = rest]
         /\ woken' = (woken \ {t}) \union (IF locked[l] THEN {} ELSE WakeFirst(rest))
  /\ Return(t, "cancelled")
  /\ UNCHANGED <<store, locks, locked, lockOf, fetch, closes>>

\* Entries expire in the order they were stored.
Expire ==
  /\ Fresh # {}
  /\ \E i \in DOMAIN cache :
       /\ cache[i] \notin stale
       /\ \A j \in 1..(i - 1) : cache[j] \in stale
       /\ stale' = stale \union {cache[i]}
  /\ UNCHANGED <<cache, mutex, pc, lockOf, fetch, outcome, closes>>

\* close(), after its providers: calls in flight keep the locks they have.
Close ==
  /\ closes < MaxCloses
  /\ closes' = closes + 1
  /\ cache' = <<>> /\ stale' = {}
  /\ locks' = [s \in Symbols |-> NoLock]
  /\ UNCHANGED <<locked, waiters, woken, pc, lockOf, fetch, outcome>>

-----------------------------------------------------------------------------
ProviderAnswers(t) ==
  \/ FetchSucceeds(t)
  \/ \E f \in Fault : RetryLater(t, f) \/ NextProvider(t, f) \/ FetchFails(t, f)

Resume(t) == ResumeHits(t) \/ ResumeMisses(t)

Next ==
  \/ \E t \in Calls : \/ CallHits(t) \/ CallMisses(t) \/ Resume(t)
                      \/ ProviderAnswers(t) \/ BackoffEnds(t)
                      \/ CancelHolder(t) \/ CancelWaiter(t)
  \/ Expire \/ Close

Spec == Init /\ [][Next]_vars

\* Providers answer or time out, sleeps end and the event loop runs woken tasks.
Fairness ==
  \A t \in Calls :
    WF_vars(Resume(t)) /\ WF_vars(ProviderAnswers(t)) /\ WF_vars(BackoffEnds(t))

FairSpec == Spec /\ Fairness
-----------------------------------------------------------------------------
(* Properties *)

\* Every variable holds a value the program could store.
TypeOK ==
  /\ cache \in Seq(Symbols) /\ stale \in SUBSET Symbols
  /\ locks \in [Symbols -> Calls \union {NoLock}]
  /\ locked \in [Calls -> BOOLEAN]
  /\ waiters \in [Calls -> Seq(Calls)]
  /\ woken \in SUBSET Calls
  /\ pc \in [Calls -> {"idle", "waiting", "fetching", "backoff", "done"}]
  /\ lockOf \in [Calls -> Calls \union {NoLock}]
  /\ provider \in [Calls -> 1..Providers] /\ attempt \in [Calls -> 0..RetryCount]
  /\ \A t \in Calls : pc[t] = "backoff" => attempt[t] < RetryCount
  /\ sawOther \in [Calls -> BOOLEAN]
  /\ faults \in [Calls -> SUBSET Fault]
  /\ outcome \in [Calls -> {"none", "cached", "fetched", "unavailable",
                            "invalid_symbol", "cancelled"}]
  /\ closes \in 0..MaxCloses

\* The cache never holds two entries of a symbol or more than max_cache_entries.
CacheBounded ==
  /\ Len(cache) <= MaxEntries
  /\ IsInjective(cache)
  /\ stale \subseteq ToSet(cache)

\* However calls wait, resume, fail and are cancelled, a lock object admits one call
\* at a time, and only while it says that it is locked.
LockExclusion ==
  /\ \A t, u \in Calls : (Fetching(t) /\ Fetching(u) /\ lockOf[t] = lockOf[u]) => t = u
  /\ \A t \in Calls : Fetching(t) => locked[lockOf[t]]

\* Never do two calls fetch one symbol at a time: what the cache coalesces when it never has
\* to evict, and what CHANGELOG.md says it does.
Coalesced ==
  \A t, u \in Calls :
    (Fetching(t) /\ Fetching(u) /\ SymbolOf[t] = SymbolOf[u]) => t = u

\* Eviction never takes a lock from under the call that holds it: while a call fetches
\* under the lock of its symbol, later calls for the symbol queue behind it.
HolderKeepsLock ==
  [][\A t \in Calls :
       (Fetching(t) /\ Fetching(t)' /\ locks[SymbolOf[t]] = lockOf[t])
         => locks'[SymbolOf[t]] = lockOf[t] \/ closes' # closes]_vars

\* get_quote blames the symbol exactly when every provider did and nothing else failed
\* on the way, retries included.
RejectedByAll ==
  \A t \in Calls : outcome[t] \in {"invalid_symbol", "unavailable"} =>
    (outcome[t] = "invalid_symbol" <=> faults[t] = {"invalid_symbol"})

\* No wake-up is lost: every call that waits or fetches returns.
CallsReturn ==
  \A t \in Calls : pc[t] \in {"waiting", "fetching", "backoff"} ~> pc[t] = "done"
=============================================================================
