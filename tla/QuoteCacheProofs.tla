--------------------------- MODULE QuoteCacheProofs ---------------------------
(***************************************************************************)
(* What holds of the quote cache for every set of calls and symbols, every *)
(* cache size, number of providers and number of retries.                  *)
(***************************************************************************)
EXTENDS QuoteCache, FiniteSetTheorems, TLAPS

-----------------------------------------------------------------------------
(* Lemmas about the operators *)

\* Leaving removes one occurrence of the element and keeps the order of the others.
LEMMA LeaveProperties ==
  ASSUME NEW S, NEW q \in Seq(S), NEW e \in ToSet(q)
  PROVE  /\ Leave(q, e) \in Seq(S) /\ Len(Leave(q, e)) = Len(q) - 1
         /\ \E m \in DOMAIN q :
              /\ q[m] = e
              /\ \A i \in 1..(Len(q) - 1) :
                   Leave(q, e)[i] = IF i < m THEN q[i] ELSE q[i + 1]
<1> DEFINE k == CHOOSE i \in DOMAIN q : q[i] = e
<1>1. k \in DOMAIN q /\ k \in 1..Len(q) /\ q[k] = e
  BY DEF ToSet
<1> HIDE DEF k
<1> DEFINE low == SubSeq(q, 1, k - 1)
           high == SubSeq(q, k + 1, Len(q))
<1>2. low \in Seq(S) /\ Len(low) = k - 1 /\ \A i \in 1..(k - 1) : low[i] = q[i]
  BY <1>1
<1>3. high \in Seq(S) /\ Len(high) = Len(q) - k
  BY <1>1
<1>4. \A i \in 1..(Len(q) - k) : high[i] = q[k + i]
  BY <1>1
<1> HIDE DEF low, high
<1>5. Leave(q, e) = low \o high
  BY DEF Leave, RemoveAt, low, high, k
<1>6. low \o high \in Seq(S) /\ Len(low \o high) = Len(q) - 1
  BY <1>1, <1>2, <1>3
<1>7. \A i \in 1..(Len(q) - 1) : (low \o high)[i] = IF i < k THEN q[i] ELSE q[i + 1]
  BY <1>1, <1>2, <1>3, <1>4
<1> QED
  BY <1>1, <1>5, <1>6, <1>7

\* What leaves a queue of distinct elements: the rest stays distinct, and its head too.
LEMMA LeaveDistinct ==
  ASSUME NEW S, NEW q \in Seq(S), NEW e \in ToSet(q), IsInjective(q)
  PROVE  /\ Leave(q, e) \in Seq(S)
         /\ ToSet(Leave(q, e)) = ToSet(q) \ {e}
         /\ IsInjective(Leave(q, e))
         /\ Head(q) # e => Leave(q, e) # <<>> /\ Head(Leave(q, e)) = Head(q)
<1> DEFINE r == Leave(q, e)
<1>1. r \in Seq(S) /\ Len(r) = Len(q) - 1
  BY LeaveProperties
<1>2. PICK k \in DOMAIN q :
        /\ q[k] = e
        /\ \A i \in 1..(Len(q) - 1) : r[i] = IF i < k THEN q[i] ELSE q[i + 1]
  BY LeaveProperties
<1>3. k \in 1..Len(q) /\ DOMAIN q = 1..Len(q) /\ DOMAIN r = 1..(Len(q) - 1)
  BY <1>1, <1>2
<1> HIDE DEF r
<1>4. ToSet(r) \subseteq ToSet(q) \ {e}
  <2> SUFFICES ASSUME NEW i \in DOMAIN r
               PROVE  r[i] \in ToSet(q) \ {e}
    BY DEF ToSet
  <2>1. CASE i < k
    BY <1>2, <1>3, <2>1 DEF ToSet, IsInjective
  <2>2. CASE ~(i < k)
    BY <1>2, <1>3, <2>2 DEF ToSet, IsInjective
  <2> QED
    BY <2>1, <2>2
<1>5. ToSet(q) \ {e} \subseteq ToSet(r)
  <2> SUFFICES ASSUME NEW i \in DOMAIN q, q[i] # e
               PROVE  q[i] \in ToSet(r)
    BY DEF ToSet
  <2>1. CASE i < k
    <3>1. i \in DOMAIN r /\ r[i] = q[i]
      BY <1>2, <1>3, <2>1
    <3> QED
      BY <3>1 DEF ToSet
  <2>2. CASE ~(i < k)
    <3>1. i - 1 \in DOMAIN r /\ r[i - 1] = q[i]
      BY <1>2, <1>3, <2>2
    <3> QED
      BY <3>1 DEF ToSet
  <2> QED
    BY <2>1, <2>2
<1>6. IsInjective(r)
  <2> SUFFICES ASSUME NEW i \in DOMAIN r, NEW j \in DOMAIN r, r[i] = r[j]
               PROVE  i = j
    BY DEF IsInjective
  <2> DEFINE old(n) == IF n < k THEN n ELSE n + 1
  <2>1. old(i) \in DOMAIN q /\ old(j) \in DOMAIN q
    BY <1>3
  <2>2. r[i] = q[old(i)] /\ r[j] = q[old(j)]
    BY <1>2, <1>3
  <2>3. old(i) = old(j)
    <3> HIDE DEF old
    <3> QED
      BY <2>1, <2>2 DEF IsInjective
  <2> QED
    BY <1>3, <2>3
<1>7. ASSUME Head(q) # e
      PROVE  r # <<>> /\ Head(r) = Head(q)
  <2>1. Head(q) = q[1] /\ k # 1 /\ Len(q) > 1
    BY <1>2, <1>3, <1>7
  <2>2. r[1] = q[1]
    BY <1>2, <1>3, <2>1
  <2> QED
    BY <1>1, <2>1, <2>2
<1> QED
  BY <1>1, <1>4, <1>5, <1>6, <1>7 DEF r

\* What joins a queue of distinct elements at its end.
LEMMA AppendDistinct ==
  ASSUME NEW S, NEW q \in Seq(S), NEW e \in S
  PROVE  /\ Append(q, e) \in Seq(S) /\ Len(Append(q, e)) = Len(q) + 1
         /\ ToSet(Append(q, e)) = ToSet(q) \union {e}
         /\ IsInjective(q) /\ e \notin ToSet(q) => IsInjective(Append(q, e))
         /\ q # <<>> => Head(Append(q, e)) = Head(q)
<1> DEFINE r == Append(q, e)
<1>1. r \in Seq(S) /\ Len(r) = Len(q) + 1
  OBVIOUS
<1>2. \A i \in 1..Len(q) : r[i] = q[i]
  OBVIOUS
<1>3. r[Len(q) + 1] = e
  OBVIOUS
<1>4. DOMAIN q = 1..Len(q) /\ DOMAIN r = 1..(Len(q) + 1)
  BY <1>1
<1>5. q # <<>> => Head(r) = Head(q)
  BY <1>1, <1>2
<1> HIDE DEF r
<1>6. ToSet(r) = ToSet(q) \union {e}
  <2>1. ToSet(r) \subseteq ToSet(q) \union {e}
    BY <1>2, <1>3, <1>4 DEF ToSet
  <2>2. ToSet(q) \subseteq ToSet(r)
    <3> SUFFICES ASSUME NEW i \in DOMAIN q
                 PROVE  q[i] \in ToSet(r)
      BY DEF ToSet
    <3>1. i \in DOMAIN r /\ r[i] = q[i]
      BY <1>2, <1>4
    <3> QED
      BY <3>1 DEF ToSet
  <2>3. e \in ToSet(r)
    <3>1. Len(q) + 1 \in DOMAIN r
      BY <1>1, <1>4
    <3> QED
      BY <1>3, <3>1 DEF ToSet
  <2> QED
    BY <2>1, <2>2, <2>3
<1>7. IsInjective(q) /\ e \notin ToSet(q) => IsInjective(r)
  BY <1>2, <1>3, <1>4 DEF IsInjective, ToSet
<1> QED
  BY <1>1, <1>5, <1>6, <1>7 DEF r

\* The first element of a queue of distinct elements is gone from its tail.
LEMMA TailDistinct ==
  ASSUME NEW S, NEW q \in Seq(S), q # <<>>, IsInjective(q)
  PROVE  /\ Tail(q) \in Seq(S) /\ Len(Tail(q)) = Len(q) - 1
         /\ ToSet(Tail(q)) = ToSet(q) \ {Head(q)}
         /\ IsInjective(Tail(q)) /\ Head(q) \in ToSet(q)
<1> DEFINE r == Tail(q)
<1>1. r \in Seq(S) /\ Len(r) = Len(q) - 1 /\ Head(q) = q[1]
  OBVIOUS
<1>2. \A i \in 1..(Len(q) - 1) : r[i] = q[i + 1]
  OBVIOUS
<1>3. DOMAIN q = 1..Len(q) /\ DOMAIN r = 1..(Len(q) - 1) /\ 1 \in DOMAIN q
  BY <1>1
<1> HIDE DEF r
<1>4. ToSet(r) \subseteq ToSet(q) \ {q[1]}
  <2> SUFFICES ASSUME NEW i \in DOMAIN r
               PROVE  r[i] \in ToSet(q) \ {q[1]}
    BY DEF ToSet
  <2>1. i + 1 \in DOMAIN q /\ i + 1 # 1 /\ r[i] = q[i + 1]
    BY <1>2, <1>3
  <2> QED
    BY <1>3, <2>1 DEF ToSet, IsInjective
<1>5. ToSet(q) \ {q[1]} \subseteq ToSet(r)
  <2> SUFFICES ASSUME NEW i \in DOMAIN q, q[i] # q[1]
               PROVE  q[i] \in ToSet(r)
    BY DEF ToSet
  <2>1. i - 1 \in DOMAIN r /\ r[i - 1] = q[i]
    BY <1>2, <1>3
  <2> QED
    BY <2>1 DEF ToSet
<1>6. IsInjective(r)
  BY <1>2, <1>3 DEF IsInjective
<1> QED
  BY <1>1, <1>3, <1>4, <1>5, <1>6 DEF r, ToSet

-----------------------------------------------------------------------------
(* Type correctness, with what it takes: the entries are distinct           *)

\* The queue of a lock holds the calls that wait for it, each once; a call that waits
\* or fetches has a lock, and only calls that wait are woken.
QueueInv ==
  /\ \A l \in Calls :
       /\ IsInjective(waiters[l])
       /\ ToSet(waiters[l]) = {t \in Calls : pc[t] = "waiting" /\ lockOf[t] = l}
  /\ \A t \in Calls : pc[t] \in {"waiting", "fetching", "backoff"} => lockOf[t] \in Calls
  /\ \A t \in woken : pc[t] = "waiting"

TypeInv == TypeOK /\ CacheBounded /\ QueueInv

\* Before the first call.
LEMMA TypeInit == Init => TypeInv
<1> SUFFICES ASSUME Init PROVE TypeInv
  OBVIOUS
<1>1. TypeOK
  BY QuoteCacheAssumption DEF Init, TypeOK
<1>2. CacheBounded
  BY QuoteCacheAssumption DEF Init, CacheBounded, IsInjective
<1>3. QueueInv
  BY DEF Init, QueueInv, IsInjective, ToSet
<1> QED
  BY <1>1, <1>2, <1>3 DEF TypeInv

\* The cache after an expired entry was dropped is a bounded cache.
LEMMA DropExpiredBounded ==
  ASSUME TypeOK, CacheBounded, NEW s \in Symbols, DropExpired(s)
  PROVE  cache' \in Seq(Symbols) /\ stale' \in SUBSET Symbols /\ CacheBounded'
<1>1. CASE s \in stale
  <2>1. s \in ToSet(cache) /\ IsInjective(cache) /\ cache \in Seq(Symbols)
    BY <1>1 DEF TypeOK, CacheBounded
  <2>2. cache' = Leave(cache, s) /\ stale' = stale \ {s}
    BY <1>1 DEF DropExpired
  <2>3. /\ Leave(cache, s) \in Seq(Symbols) /\ IsInjective(Leave(cache, s))
        /\ ToSet(Leave(cache, s)) = ToSet(cache) \ {s}
    BY <2>1, LeaveDistinct
  <2>4. Len(Leave(cache, s)) = Len(cache) - 1
    BY <2>1, LeaveProperties
  <2>5. Len(cache) \in Nat
    BY <2>1
  <2> QED
    BY <2>2, <2>3, <2>4, <2>5, QuoteCacheAssumption DEF TypeOK, CacheBounded
<1>2. CASE s \notin stale
  BY <1>2 DEF DropExpired, TypeOK, CacheBounded, store
<1> QED
  BY <1>1, <1>2

\* The entries kept when a symbol is stored leave room for it.
LEMMA KeptRoom ==
  ASSUME TypeOK, CacheBounded, NEW s \in Symbols
  PROVE  /\ Kept(s) \in Seq(Symbols) /\ IsInjective(Kept(s))
         /\ Len(Kept(s)) < MaxEntries
         /\ s \notin ToSet(Kept(s))
<1>1. cache \in Seq(Symbols) /\ IsInjective(cache) /\ Len(cache) <= MaxEntries
  BY DEF TypeOK, CacheBounded
<1>2. CASE Evicts(s)
  <2>1. cache # <<>> /\ s \notin ToSet(cache) /\ Len(cache) = MaxEntries
    BY <1>1, <1>2, QuoteCacheAssumption DEF Evicts
  <2>2. Kept(s) = Tail(cache)
    BY <1>2 DEF Kept
  <2>3. /\ Tail(cache) \in Seq(Symbols) /\ Len(Tail(cache)) = Len(cache) - 1
        /\ ToSet(Tail(cache)) = ToSet(cache) \ {Head(cache)} /\ IsInjective(Tail(cache))
    BY <1>1, <2>1, TailDistinct
  <2> QED
    BY <1>1, <2>1, <2>2, <2>3, QuoteCacheAssumption
<1>3. CASE ~Evicts(s) /\ s \in ToSet(cache)
  <2>1. Kept(s) = Leave(cache, s)
    BY <1>3 DEF Kept
  <2>2. /\ Leave(cache, s) \in Seq(Symbols) /\ IsInjective(Leave(cache, s))
        /\ ToSet(Leave(cache, s)) = ToSet(cache) \ {s}
    BY <1>1, <1>3, LeaveDistinct
  <2>3. Len(Leave(cache, s)) = Len(cache) - 1
    BY <1>1, <1>3, LeaveProperties
  <2> QED
    BY <1>1, <2>1, <2>2, <2>3, QuoteCacheAssumption
<1>4. CASE ~Evicts(s) /\ s \notin ToSet(cache)
  BY <1>1, <1>4, QuoteCacheAssumption DEF Kept, Evicts
<1> QED
  BY <1>2, <1>3, <1>4

\* Storing a quote keeps the cache bounded and drops at most a lock.
LEMMA StoreBounded ==
  ASSUME TypeOK, CacheBounded, NEW s \in Symbols, Store(s)
  PROVE  /\ cache' \in Seq(Symbols) /\ stale' \in SUBSET Symbols /\ CacheBounded'
         /\ locks' \in [Symbols -> Calls \union {NoLock}]
<1>1. CASE ~Caching
  BY <1>1 DEF Store, store, TypeOK, CacheBounded
<1>2. CASE Caching
  <2>1. /\ Kept(s) \in Seq(Symbols) /\ IsInjective(Kept(s))
        /\ Len(Kept(s)) < MaxEntries /\ s \notin ToSet(Kept(s))
    BY KeptRoom
  <2>2. cache' = Append(Kept(s), s) /\ stale' = stale \intersect ToSet(Kept(s))
    BY <1>2 DEF Store
  <2>3. /\ cache' \in Seq(Symbols) /\ Len(cache') = Len(Kept(s)) + 1
        /\ ToSet(cache') = ToSet(Kept(s)) \union {s} /\ IsInjective(cache')
    BY <2>1, <2>2, AppendDistinct
  <2>4. Len(cache') <= MaxEntries
    BY <2>1, <2>3, QuoteCacheAssumption
  <2>5. locks' \in [Symbols -> Calls \union {NoLock}]
    BY <1>2 DEF Store, TypeOK
  <2> QED
    BY <2>2, <2>3, <2>4, <2>5 DEF TypeOK, CacheBounded
<1> QED
  BY <1>1, <1>2

\* The first waiter of a queue waits for its lock.
LEMMA WakeFirstWaits ==
  ASSUME TypeOK, QueueInv, NEW l \in Calls, NEW t \in WakeFirst(waiters[l])
  PROVE  t \in Calls /\ pc[t] = "waiting" /\ lockOf[t] = l /\ t = Head(waiters[l])
<1>1. waiters[l] \in Seq(Calls) /\ waiters[l] # <<>> /\ t = Head(waiters[l])
  BY DEF TypeOK, WakeFirst
<1>2. t \in ToSet(waiters[l])
  BY <1>1 DEF ToSet
<1> QED
  BY <1>1, <1>2 DEF QueueInv

\* A call that leaves the queue of its lock, t, to state o, wakes at most its successor.
LEMMA QueueLeave ==
  ASSUME TypeOK, QueueInv, NEW t \in Calls, pc[t] = "waiting",
         NEW rest, rest = Leave(waiters[lockOf[t]], t),
         waiters' = [waiters EXCEPT ![lockOf[t]] = rest],
         woken' \subseteq (woken \ {t}) \union WakeFirst(rest),
         NEW o \in {"fetching", "done"}, pc' = [pc EXCEPT ![t] = o], lockOf' = lockOf
  PROVE  /\ QueueInv' /\ woken' \in SUBSET Calls /\ waiters' \in [Calls -> Seq(Calls)]
         /\ WakeFirst(rest) \subseteq {u \in Calls : pc[u] = "waiting" /\ lockOf[u] = lockOf[t] /\ u # t}
<1> DEFINE l == lockOf[t]
<1>1. l \in Calls /\ t \in ToSet(waiters[l]) /\ IsInjective(waiters[l])
  BY DEF QueueInv
<1>2. waiters[l] \in Seq(Calls)
  BY <1>1 DEF TypeOK
<1>3. rest \in Seq(Calls) /\ ToSet(rest) = ToSet(waiters[l]) \ {t} /\ IsInjective(rest)
  BY <1>1, <1>2, LeaveDistinct
<1>4. waiters' \in [Calls -> Seq(Calls)]
  BY <1>1, <1>3 DEF TypeOK
<1>5. WakeFirst(rest) \subseteq ToSet(rest)
  <2>1. CASE rest = <<>>
    BY <2>1 DEF WakeFirst
  <2>2. CASE rest # <<>>
    <3>1. Head(rest) = rest[1] /\ 1 \in DOMAIN rest
      BY <1>3, <2>2
    <3> QED
      BY <2>2, <3>1 DEF WakeFirst, ToSet
  <2> QED
    BY <2>1, <2>2
<1>6. WakeFirst(rest) \subseteq {u \in Calls : pc[u] = "waiting" /\ lockOf[u] = l /\ u # t}
  BY <1>1, <1>3, <1>5 DEF QueueInv
<1>7. \A u \in woken' : u \in Calls /\ pc'[u] = "waiting"
  BY <1>6 DEF TypeOK, QueueInv
<1>8. ASSUME NEW k \in Calls
      PROVE  /\ IsInjective(waiters'[k])
             /\ ToSet(waiters'[k]) = {u \in Calls : pc'[u] = "waiting" /\ lockOf'[u] = k}
  <2>1. CASE k = l
    <3>1. waiters'[k] = rest
      BY <1>1, <2>1 DEF TypeOK
    <3>2. {u \in Calls : pc'[u] = "waiting" /\ lockOf'[u] = l}
            = {u \in Calls : pc[u] = "waiting" /\ lockOf[u] = l} \ {t}
      BY DEF TypeOK
    <3> QED
      BY <1>1, <1>3, <2>1, <3>1, <3>2 DEF QueueInv
  <2>2. CASE k # l
    <3>1. waiters'[k] = waiters[k]
      BY <2>2 DEF TypeOK
    <3>2. {u \in Calls : pc'[u] = "waiting" /\ lockOf'[u] = k}
            = {u \in Calls : pc[u] = "waiting" /\ lockOf[u] = k}
      BY <2>2 DEF TypeOK
    <3> QED
      BY <3>1, <3>2 DEF QueueInv
  <2> QED
    BY <2>1, <2>2
<1>9. \A u \in Calls : pc'[u] \in {"waiting", "fetching", "backoff"} => lockOf'[u] \in Calls
  BY <1>1 DEF TypeOK, QueueInv
<1> QED
  BY <1>4, <1>6, <1>7, <1>8, <1>9 DEF QueueInv

\* A step of a call t that is not in a queue, and stays out of it, leaves the queues.
LEMMA QueueStays ==
  ASSUME TypeOK, QueueInv, NEW t \in Calls, pc[t] # "waiting",
         NEW o \in {"idle", "fetching", "backoff", "done"}, pc' = [pc EXCEPT ![t] = o],
         NEW k, lockOf' = [lockOf EXCEPT ![t] = k],
         o \in {"fetching", "backoff"} => k \in Calls,
         waiters' = waiters, woken' \subseteq woken \union {u \in Calls : pc[u] = "waiting"}
  PROVE  QueueInv' /\ woken' \in SUBSET Calls
<1>1. \A u \in Calls : pc'[u] = "waiting" <=> pc[u] = "waiting"
  BY DEF TypeOK
<1>2. \A u \in Calls : u # t => lockOf'[u] = lockOf[u]
  BY DEF TypeOK
<1>3. ASSUME NEW l \in Calls
      PROVE  {u \in Calls : pc'[u] = "waiting" /\ lockOf'[u] = l}
               = {u \in Calls : pc[u] = "waiting" /\ lockOf[u] = l}
  BY <1>1, <1>2
<1>4. \A u \in woken' : u \in Calls /\ pc'[u] = "waiting"
  BY <1>1 DEF TypeOK, QueueInv
<1>5. \A u \in Calls : pc'[u] \in {"waiting", "fetching", "backoff"} => lockOf'[u] \in Calls
  BY DEF TypeOK, QueueInv
<1> QED
  BY <1>3, <1>4, <1>5 DEF QueueInv

\* A call begins: it is answered from the cache, takes its lock or queues for it.
LEMMA TypeCall ==
  ASSUME TypeInv, NEW t \in Calls, CallHits(t) \/ CallMisses(t)
  PROVE  TypeInv'
<1> USE DEF TypeInv
<1> SymbolOf[t] \in Symbols
  BY QuoteCacheAssumption
<1>1. CASE CallHits(t)
  <2> USE <1>1 DEF CallHits, Return, store, mutex, fetch
  <2>1. TypeOK'
    BY DEF TypeOK
  <2>2. CacheBounded'
    BY DEF CacheBounded
  <2>3. lockOf' = [lockOf EXCEPT ![t] = lockOf[t]]
    BY DEF TypeOK
  <2>4. QueueInv'
    BY <2>3, QueueStays
  <2> QED
    BY <2>1, <2>2, <2>4
<1>2. CASE CallMisses(t)
  <2> DEFINE l == LockFor(t)
  <2>1. l \in Calls
    BY DEF LockFor, TypeOK
  <2>2. /\ pc[t] = "idle" /\ DropExpired(SymbolOf[t])
        /\ locks' = [locks EXCEPT ![SymbolOf[t]] = l]
        /\ lockOf' = [lockOf EXCEPT ![t] = l] /\ woken' = woken
        /\ UNCHANGED <<fetch, outcome, closes>>
    BY <1>2 DEF CallMisses
  <2>3. /\ cache' \in Seq(Symbols) /\ stale' \in SUBSET Symbols /\ CacheBounded'
        /\ locks' \in [Symbols -> Calls \union {NoLock}]
        /\ lockOf' \in [Calls -> Calls \union {NoLock}]
    BY <2>1, <2>2, DropExpiredBounded DEF TypeOK
  <2>4. CASE ~locked[l] /\ waiters[l] = <<>>
    <3>1. /\ locked' = [locked EXCEPT ![l] = TRUE] /\ pc' = [pc EXCEPT ![t] = "fetching"]
          /\ waiters' = waiters
      BY <1>2, <2>4 DEF CallMisses
    <3>2. QueueInv'
      BY <2>1, <2>2, <3>1, QueueStays
    <3> HIDE DEF l
    <3>3. TypeOK'
      BY <2>1, <2>2, <2>3, <3>1 DEF TypeOK, fetch
    <3> QED
      BY <2>3, <3>2, <3>3
  <2>5. CASE ~(~locked[l] /\ waiters[l] = <<>>)
    <3>1. /\ waiters' = [waiters EXCEPT ![l] = Append(@, t)]
          /\ pc' = [pc EXCEPT ![t] = "waiting"] /\ locked' = locked
      BY <1>2, <2>5 DEF CallMisses
    <3> HIDE DEF l
    <3>2. t \notin ToSet(waiters[l]) /\ waiters[l] \in Seq(Calls) /\ IsInjective(waiters[l])
      BY <2>1, <2>2 DEF QueueInv, TypeOK
    <3>3. /\ Append(waiters[l], t) \in Seq(Calls) /\ IsInjective(Append(waiters[l], t))
          /\ ToSet(Append(waiters[l], t)) = ToSet(waiters[l]) \union {t}
      BY <3>2, AppendDistinct
    <3>4. TypeOK'
      BY <2>1, <2>2, <2>3, <3>1, <3>3 DEF TypeOK, fetch
    <3>5. ASSUME NEW k \in Calls
          PROVE  /\ IsInjective(waiters'[k])
                 /\ ToSet(waiters'[k]) = {u \in Calls : pc'[u] = "waiting" /\ lockOf'[u] = k}
      <4>1. CASE k = l
        <5>1. waiters'[k] = Append(waiters[l], t)
          BY <2>1, <3>1, <4>1 DEF TypeOK
        <5>2. {u \in Calls : pc'[u] = "waiting" /\ lockOf'[u] = l}
                = {u \in Calls : pc[u] = "waiting" /\ lockOf[u] = l} \union {t}
          BY <2>2, <3>1 DEF TypeOK
        <5> QED
          BY <2>1, <3>3, <4>1, <5>1, <5>2 DEF QueueInv
      <4>2. CASE k # l
        <5>1. waiters'[k] = waiters[k]
          BY <3>1, <4>2 DEF TypeOK
        <5>2. {u \in Calls : pc'[u] = "waiting" /\ lockOf'[u] = k}
                = {u \in Calls : pc[u] = "waiting" /\ lockOf[u] = k}
          BY <2>2, <3>1, <4>2 DEF TypeOK
        <5> QED
          BY <5>1, <5>2 DEF QueueInv
      <4> QED
        BY <4>1, <4>2
    <3>6. QueueInv'
      BY <2>1, <2>2, <3>1, <3>5 DEF QueueInv, TypeOK
    <3> QED
      BY <2>3, <3>4, <3>6
  <2> QED
    BY <2>4, <2>5
<1> QED
  BY <1>1, <1>2

\* A waiting call resumes or is cancelled.
LEMMA TypeWaiter ==
  ASSUME TypeInv, NEW t \in Calls, Resume(t) \/ CancelWaiter(t)
  PROVE  TypeInv'
<1> USE DEF TypeInv
<1> DEFINE l == lockOf[t]
           rest == Leave(waiters[l], t)
<1> SymbolOf[t] \in Symbols
  BY QuoteCacheAssumption
<1>1. pc[t] = "waiting" /\ l \in Calls
  BY DEF Resume, ResumeHits, ResumeMisses, CancelWaiter, QueueInv
<1>2. CASE ResumeHits(t)
  <2>1. /\ waiters' = [waiters EXCEPT ![l] = rest]
        /\ woken' = (woken \ {t}) \union WakeFirst(rest)
        /\ locked' = [locked EXCEPT ![l] = FALSE]
        /\ pc' = [pc EXCEPT ![t] = "done"] /\ outcome' = [outcome EXCEPT ![t] = "cached"]
        /\ UNCHANGED <<store, locks, lockOf, fetch, closes>>
    BY <1>2 DEF ResumeHits, Return
  <2> HIDE DEF l, rest
  <2>2. QueueInv' /\ woken' \in SUBSET Calls /\ waiters' \in [Calls -> Seq(Calls)]
    BY <1>1, <2>1, QueueLeave DEF l, rest
  <2>3. TypeOK'
    BY <1>1, <2>1, <2>2 DEF TypeOK, store, fetch
  <2> QED
    BY <2>1, <2>2, <2>3 DEF CacheBounded, store
<1>3. CASE ResumeMisses(t)
  <2>1. /\ waiters' = [waiters EXCEPT ![l] = rest]
        /\ woken' = woken \ {t}
        /\ locked' = [locked EXCEPT ![l] = TRUE]
        /\ pc' = [pc EXCEPT ![t] = "fetching"] /\ DropExpired(SymbolOf[t])
        /\ UNCHANGED <<locks, lockOf, fetch, outcome, closes>>
    BY <1>3 DEF ResumeMisses
  <2> HIDE DEF l, rest
  <2>2. QueueInv' /\ woken' \in SUBSET Calls /\ waiters' \in [Calls -> Seq(Calls)]
    BY <1>1, <2>1, QueueLeave DEF l, rest
  <2>3. cache' \in Seq(Symbols) /\ stale' \in SUBSET Symbols /\ CacheBounded'
    BY <2>1, DropExpiredBounded
  <2>4. TypeOK'
    BY <1>1, <2>1, <2>2, <2>3 DEF TypeOK, fetch
  <2> QED
    BY <2>2, <2>3, <2>4
<1>4. CASE CancelWaiter(t)
  <2>1. /\ waiters' = [waiters EXCEPT ![l] = rest]
        /\ woken' \subseteq (woken \ {t}) \union WakeFirst(rest)
        /\ pc' = [pc EXCEPT ![t] = "done"] /\ outcome' = [outcome EXCEPT ![t] = "cancelled"]
        /\ UNCHANGED <<store, locks, locked, lockOf, fetch, closes>>
    BY <1>4 DEF CancelWaiter, Return
  <2> HIDE DEF l, rest
  <2>2. QueueInv' /\ woken' \in SUBSET Calls /\ waiters' \in [Calls -> Seq(Calls)]
    BY <1>1, <2>1, QueueLeave DEF l, rest
  <2>3. TypeOK'
    BY <1>1, <2>1, <2>2 DEF TypeOK, store, fetch
  <2> QED
    BY <2>1, <2>2, <2>3 DEF CacheBounded, store
<1> QED
  BY <1>2, <1>3, <1>4 DEF Resume

\* A fetching call goes on, returns or is cancelled.
LEMMA TypeFetch ==
  ASSUME TypeInv, NEW t \in Calls,
         ProviderAnswers(t) \/ BackoffEnds(t) \/ CancelHolder(t)
  PROVE  TypeInv'
<1> USE DEF TypeInv
<1> SymbolOf[t] \in Symbols
  BY QuoteCacheAssumption
<1>1. pc[t] # "waiting" /\ lockOf[t] \in Calls
  BY DEF ProviderAnswers, FetchSucceeds, RetryLater, NextProvider, FetchFails, BackoffEnds,
         CancelHolder, Fetching, QueueInv
<1>2. lockOf = [lockOf EXCEPT ![t] = lockOf[t]]
  BY DEF TypeOK
<1>3. WakeFirst(waiters[lockOf[t]]) \subseteq {u \in Calls : pc[u] = "waiting"}
  BY <1>1, WakeFirstWaits
<1>4. CASE FetchSucceeds(t)
  <2>1. /\ Store(SymbolOf[t]) /\ locked' = [locked EXCEPT ![lockOf[t]] = FALSE]
        /\ woken' = woken \union WakeFirst(waiters[lockOf[t]]) /\ waiters' = waiters
        /\ pc' = [pc EXCEPT ![t] = "done"] /\ outcome' = [outcome EXCEPT ![t] = "fetched"]
        /\ UNCHANGED <<lockOf, fetch, closes>>
    BY <1>4 DEF FetchSucceeds, Release, Return
  <2>2. QueueInv' /\ woken' \in SUBSET Calls
    BY <1>1, <1>2, <1>3, <2>1, QueueStays
  <2>3. /\ cache' \in Seq(Symbols) /\ stale' \in SUBSET Symbols /\ CacheBounded'
        /\ locks' \in [Symbols -> Calls \union {NoLock}]
    BY <2>1, StoreBounded
  <2>4. TypeOK'
    BY <1>1, <2>1, <2>2, <2>3 DEF TypeOK, fetch
  <2> QED
    BY <2>2, <2>3, <2>4
<1>5. ASSUME NEW f \in Fault, RetryLater(t, f)
      PROVE  TypeInv'
  <2> USE <1>5 DEF RetryLater, SameProviderAgain, NoteFault, store, mutex
  <2>1. QueueInv'
    BY <1>1, <1>2, QueueStays
  <2>2. TypeOK'
    BY DEF TypeOK
  <2> QED
    BY <2>1, <2>2 DEF CacheBounded
<1>6. ASSUME NEW f \in Fault, NextProvider(t, f)
      PROVE  TypeInv'
  <2> USE <1>6 DEF NextProvider, NoteFault, store, mutex
  <2>1. QueueInv'
    BY DEF QueueInv
  <2>2. TypeOK'
    BY QuoteCacheAssumption DEF TypeOK
  <2> QED
    BY <2>1, <2>2 DEF CacheBounded
<1>7. ASSUME NEW f \in Fault, FetchFails(t, f)
      PROVE  TypeInv'
  <2>1. /\ locked' = [locked EXCEPT ![lockOf[t]] = FALSE]
        /\ woken' = woken \union WakeFirst(waiters[lockOf[t]]) /\ waiters' = waiters
        /\ pc' = [pc EXCEPT ![t] = "done"] /\ NoteFault(t, f)
        /\ outcome' = [outcome EXCEPT
              ![t] = IF sawOther'[t] THEN "unavailable" ELSE "invalid_symbol"]
        /\ UNCHANGED <<store, locks, lockOf, provider, attempt, closes>>
    BY <1>7 DEF FetchFails, Release, Return
  <2>2. QueueInv' /\ woken' \in SUBSET Calls
    BY <1>1, <1>2, <1>3, <2>1, QueueStays
  <2>3. TypeOK'
    BY <1>1, <2>1, <2>2 DEF TypeOK, NoteFault, store
  <2> QED
    BY <2>1, <2>2, <2>3 DEF CacheBounded, store
<1>8. CASE BackoffEnds(t)
  <2> USE <1>8 DEF BackoffEnds, store, mutex
  <2>1. QueueInv'
    BY <1>1, <1>2, QueueStays
  <2>2. TypeOK'
    BY QuoteCacheAssumption DEF TypeOK
  <2> QED
    BY <2>1, <2>2 DEF CacheBounded
<1>9. CASE CancelHolder(t)
  <2>1. /\ locked' = [locked EXCEPT ![lockOf[t]] = FALSE]
        /\ woken' = woken \union WakeFirst(waiters[lockOf[t]]) /\ waiters' = waiters
        /\ pc' = [pc EXCEPT ![t] = "done"] /\ outcome' = [outcome EXCEPT ![t] = "cancelled"]
        /\ UNCHANGED <<store, locks, lockOf, fetch, closes>>
    BY <1>9 DEF CancelHolder, Release, Return
  <2>2. QueueInv' /\ woken' \in SUBSET Calls
    BY <1>1, <1>2, <1>3, <2>1, QueueStays
  <2>3. TypeOK'
    BY <1>1, <2>1, <2>2 DEF TypeOK, store, fetch
  <2> QED
    BY <2>1, <2>2, <2>3 DEF CacheBounded, store
<1> QED
  BY <1>4, <1>5, <1>6, <1>7, <1>8, <1>9 DEF ProviderAnswers

\* An entry expires, or close() forgets the entries and the locks.
LEMMA TypeCache ==
  ASSUME TypeInv, Expire \/ Close
  PROVE  TypeInv'
<1> USE DEF TypeInv
<1>1. UNCHANGED <<locked, waiters, woken, pc, lockOf, provider, attempt, sawOther, faults,
                  outcome>>
  BY DEF Expire, Close, mutex, fetch
<1>2. QueueInv'
  BY <1>1 DEF QueueInv
<1>3. CASE Expire
  <2>1. PICK i \in DOMAIN cache : stale' = stale \union {cache[i]}
    BY <1>3 DEF Expire
  <2>2. cache[i] \in ToSet(cache) /\ cache[i] \in Symbols
    BY DEF ToSet, TypeOK
  <2>3. cache' = cache /\ locks' = locks /\ closes' = closes
    BY <1>3 DEF Expire, mutex
  <2>4. TypeOK'
    BY <1>1, <2>1, <2>2, <2>3 DEF TypeOK
  <2> QED
    BY <1>2, <2>1, <2>2, <2>3, <2>4 DEF CacheBounded
<1>4. CASE Close
  <2>1. TypeOK'
    BY <1>1, <1>4, QuoteCacheAssumption DEF Close, TypeOK
  <2>2. CacheBounded'
    BY <1>4, QuoteCacheAssumption DEF Close, CacheBounded, IsInjective
  <2> QED
    BY <1>2, <2>1, <2>2
<1> QED
  BY <1>3, <1>4

\* Every step keeps the types, the bound of the cache and the queues.
LEMMA TypeNext == TypeInv /\ [Next]_vars => TypeInv'
<1> SUFFICES ASSUME TypeInv, [Next]_vars PROVE TypeInv'
  OBVIOUS
<1>1. CASE UNCHANGED vars
  BY <1>1 DEF vars, TypeInv, TypeOK, CacheBounded, QueueInv
<1>2. CASE Next
  BY <1>2, TypeCall, TypeWaiter, TypeFetch, TypeCache DEF Next
<1> QED
  BY <1>1, <1>2

\* Every variable of the cache holds a value of its type.
THEOREM TypeCorrect == Spec => []TypeOK
<1>1. TypeInv => TypeOK
  BY DEF TypeInv
<1> QED
  BY <1>1, TypeInit, TypeNext, PTL DEF Spec

\* The cache is bounded by max_cache_entries, with one entry for each symbol.
THEOREM BoundTheorem == Spec => []CacheBounded
<1>1. TypeInv => CacheBounded
  BY DEF TypeInv
<1> QED
  BY <1>1, TypeInit, TypeNext, PTL DEF Spec

-----------------------------------------------------------------------------
(* Mutual exclusion of the symbol locks                                     *)

\* A woken call is the first of its queue, and nobody holds the lock it waits for.
WokenFirst ==
  \A t \in woken : ~locked[lockOf[t]] /\ t = Head(waiters[lockOf[t]])

LockInv == LockExclusion /\ WokenFirst

\* A call that held its lock lets go of it and wakes the next.
LEMMA LockRelease ==
  ASSUME TypeInv, LockInv, NEW t \in Calls, Fetching(t),
         Release(lockOf[t]), pc' = [pc EXCEPT ![t] = "done"], lockOf' = lockOf
  PROVE  LockInv'
<1> DEFINE l == lockOf[t]
<1>1. l \in Calls
  BY DEF TypeInv, QueueInv, Fetching
<1>2. \A u \in Calls : Fetching(u)' <=> (Fetching(u) /\ u # t)
  BY DEF Fetching, TypeInv, TypeOK
<1>3. \A k \in Calls : locked'[k] = (IF k = l THEN FALSE ELSE locked[k])
  BY DEF Release, TypeInv, TypeOK
<1>4. \A u \in Calls : Fetching(u) => lockOf[u] \in Calls
  BY DEF TypeInv, QueueInv, Fetching
<1>5. LockExclusion'
  BY <1>1, <1>2, <1>3, <1>4 DEF LockInv, LockExclusion
<1>6. ASSUME NEW u \in woken'
      PROVE  ~locked'[lockOf'[u]] /\ u = Head(waiters'[lockOf'[u]])
  <2>1. CASE u \in woken
    <3>1. lockOf[u] \in Calls
      BY <2>1 DEF TypeInv, QueueInv, TypeOK
    <3> QED
      BY <1>3, <2>1, <3>1 DEF LockInv, WokenFirst, Release
  <2>2. CASE u \in WakeFirst(waiters[l])
    <3>1. lockOf[u] = l /\ u = Head(waiters[l])
      BY <1>1, <2>2, WakeFirstWaits DEF TypeInv
    <3> QED
      BY <1>1, <1>3, <3>1 DEF Release
  <2> QED
    BY <2>1, <2>2 DEF Release
<1> QED
  BY <1>5, <1>6 DEF LockInv, WokenFirst

\* A step that changes no lock and no queue, and no call's part in them.
LEMMA LockSame ==
  ASSUME LockInv, UNCHANGED <<locked, waiters, woken, lockOf>>,
         \A u \in Calls : Fetching(u)' <=> Fetching(u)
  PROVE  LockInv'
BY DEF LockInv, LockExclusion, WokenFirst

\* A call begins.
LEMMA LockCall ==
  ASSUME TypeInv, LockInv, NEW t \in Calls, CallHits(t) \/ CallMisses(t)
  PROVE  LockInv'
<1>1. CASE CallHits(t)
  <2>1. \A u \in Calls : Fetching(u)' <=> Fetching(u)
    BY <1>1 DEF CallHits, Return, Fetching, TypeInv, TypeOK
  <2> QED
    BY <1>1, <2>1, LockSame DEF CallHits, mutex
<1>2. CASE CallMisses(t)
  <2> DEFINE l == LockFor(t)
  <2>1. l \in Calls /\ pc[t] = "idle"
    BY <1>2, QuoteCacheAssumption DEF CallMisses, LockFor, TypeInv, TypeOK
  <2>2. \A u \in Calls : lockOf'[u] = IF u = t THEN l ELSE lockOf[u]
    BY <1>2 DEF CallMisses, TypeInv, TypeOK
  <2>3. \A u \in woken : u # t /\ u \in Calls /\ lockOf[u] \in Calls /\ u \in ToSet(waiters[lockOf[u]])
    BY <2>1 DEF TypeInv, QueueInv, TypeOK
  <2>4. woken' = woken
    BY <1>2 DEF CallMisses
  <2>5. \A u \in Calls : Fetching(u) => lockOf[u] \in Calls
    BY DEF TypeInv, QueueInv, Fetching
  <2>6. CASE ~locked[l] /\ waiters[l] = <<>>
    <3>1. /\ locked' = [locked EXCEPT ![l] = TRUE] /\ pc' = [pc EXCEPT ![t] = "fetching"]
          /\ waiters' = waiters
      BY <1>2, <2>6 DEF CallMisses
    <3> HIDE DEF l
    <3>2. \A u \in Calls : Fetching(u)' <=> (Fetching(u) \/ u = t)
      BY <3>1 DEF Fetching, TypeInv, TypeOK
    <3>3. \A k \in Calls : locked'[k] = (IF k = l THEN TRUE ELSE locked[k])
      BY <3>1 DEF TypeInv, TypeOK
    <3>4. LockExclusion'
      <4>1. \A u \in Calls : Fetching(u) => locked[lockOf[u]] /\ lockOf[u] # l
        BY <2>1, <2>6 DEF LockInv, LockExclusion
      <4>2. \A u, v \in Calls :
              (Fetching(u)' /\ Fetching(v)' /\ lockOf'[u] = lockOf'[v]) => u = v
        BY <2>2, <3>2, <4>1 DEF LockInv, LockExclusion
      <4>3. \A u \in Calls : Fetching(u)' => locked'[lockOf'[u]]
        BY <2>1, <2>2, <2>5, <3>2, <3>3, <4>1
      <4> QED
        BY <4>2, <4>3 DEF LockExclusion
    <3>5. \A u \in woken : lockOf[u] # l
      BY <2>3, <2>6 DEF ToSet
    <3>6. WokenFirst'
      BY <2>2, <2>3, <2>4, <3>1, <3>3, <3>5 DEF LockInv, WokenFirst
    <3> QED
      BY <3>4, <3>6 DEF LockInv
  <2>7. CASE ~(~locked[l] /\ waiters[l] = <<>>)
    <3>1. /\ waiters' = [waiters EXCEPT ![l] = Append(@, t)]
          /\ pc' = [pc EXCEPT ![t] = "waiting"] /\ locked' = locked
      BY <1>2, <2>7 DEF CallMisses
    <3> HIDE DEF l
    <3>2. \A u \in Calls : Fetching(u)' <=> Fetching(u)
      BY <2>1, <3>1 DEF Fetching, TypeInv, TypeOK
    <3>3. LockExclusion'
      BY <2>1, <2>2, <3>1, <3>2 DEF LockInv, LockExclusion, Fetching
    <3>4. \A k \in Calls : waiters[k] # <<>> => Head(waiters'[k]) = Head(waiters[k])
      <4> SUFFICES ASSUME NEW k \in Calls, waiters[k] # <<>>
                   PROVE  Head(waiters'[k]) = Head(waiters[k])
        OBVIOUS
      <4>1. waiters[k] \in Seq(Calls) /\ waiters \in [Calls -> Seq(Calls)]
        BY DEF TypeInv, TypeOK
      <4>2. Head(Append(waiters[k], t)) = Head(waiters[k])
        BY <4>1, AppendDistinct
      <4> QED
        BY <3>1, <4>1, <4>2
    <3>5. \A u \in woken : waiters[lockOf[u]] # <<>>
      BY <2>3 DEF ToSet
    <3>6. WokenFirst'
      BY <2>2, <2>3, <2>4, <3>1, <3>4, <3>5 DEF LockInv, WokenFirst
    <3> QED
      BY <3>3, <3>6 DEF LockInv
  <2> QED
    BY <2>6, <2>7
<1> QED
  BY <1>1, <1>2

\* The first of a queue that is left by t wakes up for the same lock; the woken calls
\* of the other queues are not concerned.
LEMMA WokenLeave ==
  ASSUME TypeInv, LockInv, NEW t \in Calls, pc[t] = "waiting",
         waiters' = [waiters EXCEPT ![lockOf[t]] = Leave(waiters[lockOf[t]], t)],
         lockOf' = lockOf, NEW u,
         u \in woken \ {t} \/ u \in WakeFirst(Leave(waiters[lockOf[t]], t))
  PROVE  /\ u \in Calls /\ lockOf[u] \in Calls /\ u = Head(waiters'[lockOf'[u]])
         /\ u \in woken \/ lockOf[u] = lockOf[t]
<1> DEFINE l == lockOf[t]
           rest == Leave(waiters[l], t)
<1>1. l \in Calls /\ t \in ToSet(waiters[l]) /\ IsInjective(waiters[l])
  BY DEF TypeInv, QueueInv
<1>2. waiters[l] \in Seq(Calls) /\ waiters' \in [Calls -> {waiters[k] : k \in Calls} \union {rest}]
  BY <1>1 DEF TypeInv, TypeOK
<1>3. /\ rest \in Seq(Calls) /\ ToSet(rest) = ToSet(waiters[l]) \ {t}
      /\ Head(waiters[l]) # t => Head(rest) = Head(waiters[l])
  BY <1>1, <1>2, LeaveDistinct
<1>4. waiters'[l] = rest /\ \A k \in Calls : k # l => waiters'[k] = waiters[k]
  BY <1>1 DEF TypeInv, TypeOK
<1>5. CASE u \in WakeFirst(rest)
  <2>1. rest # <<>> /\ u = Head(rest)
    BY <1>5 DEF WakeFirst
  <2>2. u \in ToSet(rest)
    <3>1. u = rest[1] /\ 1 \in DOMAIN rest
      BY <1>3, <2>1
    <3> QED
      BY <3>1 DEF ToSet
  <2>3. u \in Calls /\ lockOf[u] = l
    BY <1>1, <1>3, <2>2 DEF TypeInv, QueueInv
  <2> QED
    BY <1>1, <1>4, <2>1, <2>3
<1>6. CASE u \in woken \ {t}
  <2>1. u \in Calls /\ lockOf[u] \in Calls /\ u = Head(waiters[lockOf[u]])
    BY <1>6 DEF TypeInv, TypeOK, QueueInv, LockInv, WokenFirst
  <2> QED
    BY <1>3, <1>4, <1>6, <2>1
<1> QED
  BY <1>5, <1>6

\* A waiting call resumes or is cancelled.
LEMMA LockWaiter ==
  ASSUME TypeInv, LockInv, NEW t \in Calls, Resume(t) \/ CancelWaiter(t)
  PROVE  LockInv'
<1> DEFINE l == lockOf[t]
           rest == Leave(waiters[l], t)
<1>1. pc[t] = "waiting" /\ l \in Calls
  BY DEF Resume, ResumeHits, ResumeMisses, CancelWaiter, TypeInv, QueueInv
<1>2. \A u \in Calls : Fetching(u) => lockOf[u] \in Calls
  BY DEF TypeInv, QueueInv, Fetching
<1>3. CASE ResumeHits(t)
  <2>1. /\ waiters' = [waiters EXCEPT ![l] = rest]
        /\ woken' = (woken \ {t}) \union WakeFirst(rest)
        /\ locked' = [locked EXCEPT ![l] = FALSE]
        /\ pc' = [pc EXCEPT ![t] = "done"] /\ lockOf' = lockOf
        /\ ~locked[l]
    BY <1>3 DEF ResumeHits, Return, LockInv, WokenFirst
  <2>2. \A u \in Calls : Fetching(u)' <=> Fetching(u)
    BY <1>1, <2>1 DEF Fetching, TypeInv, TypeOK
  <2>3. locked' = locked
    BY <2>1 DEF TypeInv, TypeOK
  <2>4. LockExclusion'
    BY <2>1, <2>2, <2>3 DEF LockInv, LockExclusion
  <2>5. WokenFirst'
    <3> SUFFICES ASSUME NEW u \in woken'
                 PROVE  ~locked'[lockOf'[u]] /\ u = Head(waiters'[lockOf'[u]])
      BY DEF WokenFirst
    <3>1. u \in woken \ {t} \/ u \in WakeFirst(rest)
      BY <2>1
    <3>2. /\ u \in Calls /\ u = Head(waiters'[lockOf'[u]])
          /\ u \in woken \/ lockOf[u] = l
      BY <1>1, <2>1, <3>1, WokenLeave
    <3> QED
      BY <2>1, <2>3, <3>2 DEF LockInv, WokenFirst
  <2> QED
    BY <2>4, <2>5 DEF LockInv
<1>4. CASE ResumeMisses(t)
  <2>1. /\ waiters' = [waiters EXCEPT ![l] = rest]
        /\ woken' = woken \ {t}
        /\ locked' = [locked EXCEPT ![l] = TRUE]
        /\ pc' = [pc EXCEPT ![t] = "fetching"] /\ lockOf' = lockOf
        /\ ~locked[l] /\ t = Head(waiters[l])
    BY <1>4 DEF ResumeMisses, LockInv, WokenFirst
  <2>2. \A u \in Calls : Fetching(u)' <=> (Fetching(u) \/ u = t)
    BY <2>1 DEF Fetching, TypeInv, TypeOK
  <2>3. \A k \in Calls : locked'[k] = (IF k = l THEN TRUE ELSE locked[k])
    BY <2>1 DEF TypeInv, TypeOK
  <2>4. LockExclusion'
    <3>1. \A u \in Calls : Fetching(u) => locked[lockOf[u]] /\ lockOf[u] # l
      BY <1>1, <2>1 DEF LockInv, LockExclusion
    <3>2. \A u, v \in Calls :
            (Fetching(u)' /\ Fetching(v)' /\ lockOf'[u] = lockOf'[v]) => u = v
      BY <2>1, <2>2, <3>1 DEF LockInv, LockExclusion
    <3>3. \A u \in Calls : Fetching(u)' => locked'[lockOf'[u]]
      BY <1>1, <1>2, <2>1, <2>2, <2>3, <3>1
    <3> QED
      BY <3>2, <3>3 DEF LockExclusion
  <2>5. \A u \in woken' : u \in woken /\ lockOf[u] \in Calls /\ lockOf[u] # l
    BY <2>1 DEF LockInv, WokenFirst, TypeInv, TypeOK, QueueInv
  <2>6. \A k \in Calls : k # l => waiters'[k] = waiters[k]
    BY <2>1 DEF TypeInv, TypeOK
  <2>7. WokenFirst'
    BY <2>1, <2>3, <2>5, <2>6 DEF LockInv, WokenFirst
  <2> QED
    BY <2>4, <2>7 DEF LockInv
<1>5. CASE CancelWaiter(t)
  <2>1. /\ waiters' = [waiters EXCEPT ![l] = rest]
        /\ woken' = (woken \ {t}) \union (IF locked[l] THEN {} ELSE WakeFirst(rest))
        /\ locked' = locked
        /\ pc' = [pc EXCEPT ![t] = "done"] /\ lockOf' = lockOf
    BY <1>5 DEF CancelWaiter, Return
  <2>2. \A u \in Calls : Fetching(u)' <=> Fetching(u)
    BY <1>1, <2>1 DEF Fetching, TypeInv, TypeOK
  <2>3. LockExclusion'
    BY <2>1, <2>2 DEF LockInv, LockExclusion
  <2>4. WokenFirst'
    <3> SUFFICES ASSUME NEW u \in woken'
                 PROVE  ~locked'[lockOf'[u]] /\ u = Head(waiters'[lockOf'[u]])
      BY DEF WokenFirst
    <3>1. u \in woken \ {t} \/ u \in WakeFirst(rest)
      BY <2>1
    <3>2. /\ u \in Calls /\ u = Head(waiters'[lockOf'[u]])
          /\ u \in woken \/ lockOf[u] = l
      BY <1>1, <2>1, <3>1, WokenLeave
    <3>3. u \in woken \/ ~locked[l]
      BY <2>1
    <3> QED
      BY <2>1, <3>2, <3>3 DEF LockInv, WokenFirst
  <2> QED
    BY <2>3, <2>4 DEF LockInv
<1> QED
  BY <1>3, <1>4, <1>5 DEF Resume

\* A fetching call goes on, returns or is cancelled.
LEMMA LockFetch ==
  ASSUME TypeInv, LockInv, NEW t \in Calls,
         ProviderAnswers(t) \/ BackoffEnds(t) \/ CancelHolder(t)
  PROVE  LockInv'
<1>1. CASE FetchSucceeds(t)
  BY <1>1, LockRelease DEF FetchSucceeds, Return, Fetching
<1>2. ASSUME NEW f \in Fault, RetryLater(t, f)
      PROVE  LockInv'
  <2>1. \A u \in Calls : Fetching(u)' <=> Fetching(u)
    BY <1>2 DEF RetryLater, Fetching, TypeInv, TypeOK
  <2> QED
    BY <1>2, <2>1, LockSame DEF RetryLater, mutex
<1>3. ASSUME NEW f \in Fault, NextProvider(t, f)
      PROVE  LockInv'
  <2>1. \A u \in Calls : Fetching(u)' <=> Fetching(u)
    BY <1>3 DEF NextProvider, Fetching
  <2> QED
    BY <1>3, <2>1, LockSame DEF NextProvider, mutex
<1>4. ASSUME NEW f \in Fault, FetchFails(t, f)
      PROVE  LockInv'
  BY <1>4, LockRelease DEF FetchFails, Return, Fetching
<1>5. CASE BackoffEnds(t)
  <2>1. \A u \in Calls : Fetching(u)' <=> Fetching(u)
    BY <1>5 DEF BackoffEnds, Fetching, TypeInv, TypeOK
  <2> QED
    BY <1>5, <2>1, LockSame DEF BackoffEnds, mutex
<1>6. CASE CancelHolder(t)
  BY <1>6, LockRelease DEF CancelHolder, Return
<1> QED
  BY <1>1, <1>2, <1>3, <1>4, <1>5, <1>6 DEF ProviderAnswers

\* Every step keeps the locks exclusive.
LEMMA LockNext == TypeInv /\ LockInv /\ [Next]_vars => LockInv'
<1> SUFFICES ASSUME TypeInv, LockInv, [Next]_vars PROVE LockInv'
  OBVIOUS
<1>1. CASE Expire \/ Close \/ UNCHANGED vars
  <2>1. UNCHANGED <<locked, waiters, woken, lockOf, pc>>
    BY <1>1 DEF Expire, Close, mutex, vars
  <2> QED
    BY <2>1, LockSame DEF Fetching
<1>2. CASE \E t \in Calls : \/ CallHits(t) \/ CallMisses(t) \/ Resume(t)
                           \/ ProviderAnswers(t) \/ BackoffEnds(t)
                           \/ CancelHolder(t) \/ CancelWaiter(t)
  BY <1>2, LockCall, LockWaiter, LockFetch
<1> QED
  BY <1>1, <1>2 DEF Next

\* One call at a time fetches under a lock object, whatever waits, fails or is cancelled.
THEOREM ExclusionTheorem == Spec => []LockExclusion
<1>1. Init => LockInv
  BY DEF Init, LockInv, LockExclusion, WokenFirst, Fetching
<1>2. LockInv => LockExclusion
  BY DEF LockInv
<1> QED
  BY <1>1, <1>2, TypeInit, TypeNext, LockNext, PTL DEF Spec

\* Eviction leaves the lock of a call that fetches under it.
LEMMA HolderNext ==
  ASSUME TypeInv, LockInv, [Next]_vars, NEW t \in Calls,
         Fetching(t), locks[SymbolOf[t]] = lockOf[t], closes' = closes
  PROVE  locks'[SymbolOf[t]] = lockOf[t]
<1>1. lockOf[t] \in Calls /\ locked[lockOf[t]] /\ lockOf[t] # NoLock /\ SymbolOf[t] \in Symbols
  BY QuoteCacheAssumption DEF TypeInv, QueueInv, LockInv, LockExclusion, Fetching
<1>2. ASSUME NEW u \in Calls, CallMisses(u)
      PROVE  locks'[SymbolOf[t]] = lockOf[t]
  BY <1>1, <1>2, QuoteCacheAssumption DEF CallMisses, LockFor, TypeInv, TypeOK
<1>3. ASSUME NEW u \in Calls, FetchSucceeds(u)
      PROVE  locks'[SymbolOf[t]] = lockOf[t]
  <2>1. Store(SymbolOf[u])
    BY <1>3 DEF FetchSucceeds
  <2>2. DropsLock(SymbolOf[u]) => Head(cache) # SymbolOf[t]
    BY <1>1 DEF DropsLock
  <2> QED
    BY <1>1, <2>1, <2>2 DEF Store, TypeInv, TypeOK
<1>4. ~Close
  BY DEF Close, TypeInv, TypeOK
<1>5. CASE locks' = locks
  BY <1>5
<1> QED
  BY <1>2, <1>3, <1>4, <1>5
     DEF Next, vars, CallHits, Resume, ResumeHits, ResumeMisses, ProviderAnswers, RetryLater,
         NextProvider, FetchFails, BackoffEnds, CancelHolder, CancelWaiter, Expire, mutex

\* The lock of a symbol is not dropped while a call fetches under it.
THEOREM HolderTheorem == Spec => HolderKeepsLock
<1>1. Init => LockInv
  BY DEF Init, LockInv, LockExclusion, WokenFirst, Fetching
<1>2. TypeInv /\ LockInv /\ [Next]_vars =>
        [\A t \in Calls :
           (Fetching(t) /\ Fetching(t)' /\ locks[SymbolOf[t]] = lockOf[t])
             => locks'[SymbolOf[t]] = lockOf[t] \/ closes' # closes]_vars
  BY HolderNext
<1> QED
  BY <1>1, <1>2, TypeInit, TypeNext, LockNext, PTL DEF Spec, HolderKeepsLock

-----------------------------------------------------------------------------
(* Coalescing: the locks of a cache that never evicts are never dropped     *)

\* Distinct symbols that leave one out are fewer than the symbols.
LEMMA FewerSymbols ==
  ASSUME NEW q \in Seq(Symbols), IsInjective(q), NEW s \in Symbols \ ToSet(q)
  PROVE  Len(q) < Cardinality(Symbols)
<1>1. ToSet(q) \subseteq Symbols
  BY DEF ToSet
<1>2. q \in Bijection(1..Len(q), ToSet(q))
  <2>1. q \in [1..Len(q) -> ToSet(q)]
    BY DEF ToSet
  <2>2. \A y \in ToSet(q) : \E x \in 1..Len(q) : q[x] = y
    BY DEF ToSet
  <2> QED
    BY <2>1, <2>2 DEF Bijection, Injection, Surjection
<1>3. IsFiniteSet(1..Len(q)) /\ Cardinality(1..Len(q)) = Len(q)
  <2>1. Len(q) \in Nat /\ 1 \in Int /\ Len(q) \in Int
    OBVIOUS
  <2>2. /\ IsFiniteSet(1..Len(q))
        /\ Cardinality(1..Len(q)) = IF 1 > Len(q) THEN 0 ELSE Len(q) - 1 + 1
    BY <2>1, FS_Interval
  <2> QED
    BY <2>1, <2>2
<1>4. Cardinality(ToSet(q)) = Len(q)
  BY <1>2, <1>3, FS_Bijection DEF ExistsBijection
<1>5. Cardinality(ToSet(q)) <= Cardinality(Symbols) /\ Cardinality(ToSet(q)) # Cardinality(Symbols)
  BY <1>1, QuoteCacheAssumption, FS_Subset
<1> QED
  BY <1>4, <1>5, QuoteCacheAssumption, FS_CardinalityType

\* Every call that waits or fetches uses the lock its symbol has now.
CurrentLock ==
  \A t \in Calls :
    pc[t] \in {"waiting", "fetching", "backoff"} => locks[SymbolOf[t]] = lockOf[t]

\* With room for every symbol, a step drops no lock.
LEMMA CurrentNext ==
  ASSUME Cardinality(Symbols) <= MaxEntries, MaxCloses = 0,
         TypeInv, CurrentLock, [Next]_vars
  PROVE  CurrentLock'
<1>1. \A s \in Symbols : ~Evicts(s)
  <2> SUFFICES ASSUME NEW s \in Symbols, s \notin ToSet(cache)
               PROVE  ~(Len(cache) >= MaxEntries)
    BY DEF Evicts
  <2>1. Len(cache) < Cardinality(Symbols) /\ Len(cache) \in Nat
    BY FewerSymbols DEF TypeInv, TypeOK, CacheBounded
  <2> QED
    BY <2>1, QuoteCacheAssumption, FS_CardinalityType
<1>2. ASSUME NEW u \in Calls, CallMisses(u)
      PROVE  CurrentLock'
  <2>1. SymbolOf \in [Calls -> Symbols] /\ NoLock \notin Calls
    BY QuoteCacheAssumption
  <2>2. /\ locks' = [locks EXCEPT ![SymbolOf[u]] = LockFor(u)]
        /\ lockOf' = [lockOf EXCEPT ![u] = LockFor(u)]
    BY <1>2 DEF CallMisses
  <2>3. \A t \in Calls : t # u => pc'[t] = pc[t]
    BY <1>2 DEF CallMisses, TypeInv, TypeOK
  <2> SUFFICES ASSUME NEW t \in Calls, pc'[t] \in {"waiting", "fetching", "backoff"}
               PROVE  locks'[SymbolOf[t]] = lockOf'[t]
    BY DEF CurrentLock
  <2>4. CASE t = u
    BY <2>1, <2>2, <2>4 DEF TypeInv, TypeOK
  <2>5. CASE t # u
    <3>1. locks[SymbolOf[t]] = lockOf[t] /\ lockOf[t] \in Calls
      BY <2>3, <2>5 DEF CurrentLock, TypeInv, QueueInv
    <3> QED
      BY <2>1, <2>2, <2>5, <3>1 DEF LockFor, TypeInv, TypeOK
  <2> QED
    BY <2>4, <2>5
<1>3. ~Close
  BY QuoteCacheAssumption DEF Close, TypeInv, TypeOK
<1>4. ASSUME locks' = locks, lockOf' = lockOf,
             \A t \in Calls : pc'[t] = pc[t] \/ pc[t] \in {"waiting", "fetching", "backoff"}
                               \/ pc'[t] = "done"
      PROVE  CurrentLock'
  BY <1>4 DEF CurrentLock
<1>5. ASSUME NEW u \in Calls,
             \/ CallHits(u) \/ Resume(u) \/ ProviderAnswers(u) \/ BackoffEnds(u)
             \/ CancelHolder(u) \/ CancelWaiter(u)
      PROVE  CurrentLock'
  <2>1. SymbolOf[u] \in Symbols
    BY QuoteCacheAssumption
  <2>2. locks' = locks /\ lockOf' = lockOf
    BY <1>1, <1>5, <2>1
       DEF CallHits, Resume, ResumeHits, ResumeMisses, ProviderAnswers, FetchSucceeds, Store,
           DropsLock, RetryLater, NextProvider, FetchFails, BackoffEnds, CancelHolder,
           CancelWaiter, mutex
  <2>3. \A t \in Calls : t # u => pc'[t] = pc[t]
    BY <1>5
       DEF CallHits, Resume, ResumeHits, ResumeMisses, ProviderAnswers, FetchSucceeds,
           RetryLater, NextProvider, FetchFails, BackoffEnds, CancelHolder,
           CancelWaiter, Return, TypeInv, TypeOK
  <2>4. pc'[u] = pc[u] \/ pc[u] \in {"waiting", "fetching", "backoff"} \/ pc'[u] = "done"
    BY <1>5
       DEF CallHits, Resume, ResumeHits, ResumeMisses, ProviderAnswers, FetchSucceeds,
           RetryLater, NextProvider, FetchFails, BackoffEnds, CancelHolder,
           CancelWaiter, Return, TypeInv, TypeOK, QueueInv
  <2> QED
    BY <1>4, <2>2, <2>3, <2>4
<1>6. CASE Expire \/ UNCHANGED vars
  BY <1>4, <1>6 DEF Expire, vars, mutex
<1> QED
  BY <1>2, <1>3, <1>5, <1>6 DEF Next

\* A cache with room for every symbol, not closed, coalesces: a symbol is never fetched
\* by two calls at a time.
THEOREM CoalescedTheorem ==
  ASSUME Cardinality(Symbols) <= MaxEntries, MaxCloses = 0
  PROVE  Spec => []Coalesced
<1>1. Init => LockInv /\ CurrentLock
  BY DEF Init, LockInv, LockExclusion, WokenFirst, Fetching, CurrentLock
<1>2. TypeInv /\ CurrentLock /\ [Next]_vars => CurrentLock'
  BY CurrentNext
<1>3. LockInv /\ CurrentLock => Coalesced
  BY DEF LockInv, LockExclusion, CurrentLock, Coalesced, Fetching
<1> QED
  BY <1>1, <1>2, <1>3, TypeInit, TypeNext, LockNext, PTL DEF Spec

-----------------------------------------------------------------------------
(* The verdict of _fetch                                                    *)

\* What a call has noted is what it was told, and a call that returned stays as it is.
VerdictAt(t) ==
  /\ pc[t] # "done" => outcome[t] = "none"
  /\ pc[t] # "done" => (sawOther[t] <=> \E f \in faults[t] : f # "invalid_symbol")
  /\ outcome[t] \in {"invalid_symbol", "unavailable"}
       => (outcome[t] = "invalid_symbol" <=> faults[t] = {"invalid_symbol"})

VerdictInv == \A t \in Calls : VerdictAt(t)

\* Every step keeps the notes and the verdicts right.
LEMMA VerdictNext == TypeInv /\ VerdictInv /\ [Next]_vars => VerdictInv'
<1> SUFFICES ASSUME TypeInv, VerdictInv, [Next]_vars, NEW t \in Calls
             PROVE  VerdictAt(t)'
  BY DEF VerdictInv
<1> VerdictAt(t)
  BY DEF VerdictInv
<1>1. CASE UNCHANGED <<pc[t], outcome[t], sawOther[t], faults[t]>>
  BY <1>1 DEF VerdictAt
<1>2. ASSUME NEW o \in {"cached", "fetched", "cancelled"}, outcome'[t] = o, pc'[t] = "done"
      PROVE  VerdictAt(t)'
  BY <1>2 DEF VerdictAt
<1>3. ASSUME pc[t] # "done", pc'[t] # "done", outcome' = outcome, UNCHANGED <<sawOther, faults>>
      PROVE  VerdictAt(t)'
  BY <1>3 DEF VerdictAt
<1>4. ASSUME NEW u \in Calls,
             \/ CallHits(u) \/ CallMisses(u) \/ Resume(u) \/ ProviderAnswers(u)
             \/ BackoffEnds(u) \/ CancelHolder(u) \/ CancelWaiter(u)
      PROVE  VerdictAt(t)'
  <2>1. CASE u # t
    <3>1. UNCHANGED <<pc[t], outcome[t], sawOther[t], faults[t]>>
      BY <1>4, <2>1
         DEF CallHits, CallMisses, Resume, ResumeHits, ResumeMisses, ProviderAnswers,
             FetchSucceeds, RetryLater, NextProvider, FetchFails, NoteFault, BackoffEnds,
             CancelHolder, CancelWaiter, Return, fetch, TypeInv, TypeOK
    <3> QED
      BY <1>1, <3>1
  <2>2. CASE u = t /\ (CallHits(t) \/ ResumeHits(t) \/ FetchSucceeds(t) \/ CancelHolder(t)
                      \/ CancelWaiter(t))
    BY <1>2, <2>2 DEF CallHits, ResumeHits, FetchSucceeds, CancelHolder, CancelWaiter, Return,
                      TypeInv, TypeOK
  <2>3. CASE u = t /\ (CallMisses(t) \/ ResumeMisses(t) \/ BackoffEnds(t))
    BY <1>3, <2>3 DEF CallMisses, ResumeMisses, BackoffEnds, fetch, TypeInv, TypeOK, QueueInv
  <2>4. ASSUME NEW f \in Fault, RetryLater(t, f) \/ NextProvider(t, f) \/ FetchFails(t, f)
        PROVE  VerdictAt(t)'
    <3>1. pc[t] = "fetching" /\ NoteFault(t, f)
      BY <2>4 DEF RetryLater, NextProvider, FetchFails
    <3>2. /\ faults'[t] = faults[t] \union {f}
          /\ sawOther'[t] = (sawOther[t] \/ f # "invalid_symbol")
      BY <3>1 DEF NoteFault, TypeInv, TypeOK
    <3>3. sawOther'[t] <=> \E g \in faults'[t] : g # "invalid_symbol"
      BY <3>1, <3>2 DEF VerdictAt
    <3>4. CASE RetryLater(t, f) \/ NextProvider(t, f)
      BY <3>1, <3>3, <3>4 DEF RetryLater, NextProvider, VerdictAt
    <3>5. CASE FetchFails(t, f)
      <4>1. /\ pc'[t] = "done"
            /\ outcome'[t] = IF sawOther'[t] THEN "unavailable" ELSE "invalid_symbol"
        BY <3>5 DEF FetchFails, Return, TypeInv, TypeOK
      <4>2. ~sawOther'[t] <=> faults'[t] = {"invalid_symbol"}
        BY <3>2, <3>3
      <4> QED
        BY <4>1, <4>2 DEF VerdictAt
    <3> QED
      BY <2>4, <3>4, <3>5
  <2> QED
    BY <1>4, <2>1, <2>2, <2>3, <2>4 DEF Resume, ProviderAnswers
<1>5. CASE Expire \/ Close \/ UNCHANGED vars
  BY <1>1, <1>5 DEF Expire, Close, fetch, vars
<1> QED
  BY <1>4, <1>5 DEF Next

\* get_quote reports an unknown symbol exactly when no provider said anything else.
THEOREM VerdictTheorem == Spec => []RejectedByAll
<1>1. Init => VerdictInv
  BY DEF Init, VerdictInv, VerdictAt
<1>2. VerdictInv => RejectedByAll
  BY DEF VerdictInv, VerdictAt, RejectedByAll
<1> QED
  BY <1>1, <1>2, TypeInit, TypeNext, VerdictNext, PTL DEF Spec
=============================================================================
