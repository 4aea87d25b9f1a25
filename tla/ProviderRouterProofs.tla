------------------------- MODULE ProviderRouterProofs -------------------------
(***************************************************************************)
(* What holds of the provider router for every set of providers, models,   *)
(* calls and health checks.                                                *)
(***************************************************************************)
EXTENDS ProviderRouter, FiniteSetTheorems, SequenceTheorems, WellFoundedInduction, TLAPS

-----------------------------------------------------------------------------
(* Lemmas about the operators *)

\* The sequences of distinct members of a finite set are sequences over it.
LEMMA SetToSeqsType ==
  ASSUME NEW S, IsFiniteSet(S), NEW s \in SetToSeqs(S)
  PROVE  s \in Seq(S)
<1>1. Cardinality(S) \in Nat
  BY FS_CardinalityType
<1>2. s \in [1..Cardinality(S) -> S]
  BY DEF SetToSeqs
<1> QED
  BY <1>1, <1>2, SeqDef

\* There are finitely many candidates.
LEMMA CandidateFinite == IsFiniteSet(Candidate)
<1>1. IsFiniteSet(Model \union {NoModel})
  BY RouterAssumption, FS_AddElement
<1> QED
  BY <1>1, RouterAssumption, FS_Product DEF Candidate

\* Whatever a call is offered is a sequence of candidates.
LEMMA CandidateListsType ==
  ASSUME NEW t, NEW s \in CandidateLists(t)
  PROVE  s \in Seq(Candidate)
<1>1. ASSUME NEW S, S \subseteq Candidate, s \in SetToSeqs(S)
      PROVE  s \in Seq(Candidate)
  <2>1. IsFiniteSet(S)
    BY <1>1, CandidateFinite, FS_Subset
  <2>2. s \in Seq(S)
    BY <1>1, <2>1, SetToSeqsType
  <2> QED
    BY <1>1, <2>2
<1>2. CASE HasCatalog
  <2>1. PICK S \in SUBSET Eligible : s \in SetToSeqs(S)
    BY <1>2 DEF CandidateLists, SetToAllKPermutations
  <2> QED
    BY <1>1, <2>1 DEF Eligible
<1>3. CASE ~HasCatalog
  <2>1. s \in SetToSeqs(InService \X {NoModel})
    BY <1>3 DEF CandidateLists, LegacyCandidates
  <2>2. InService \X {NoModel} \subseteq Candidate
    BY DEF InService, Candidate
  <2> QED
    BY <1>1, <2>1, <2>2
<1> QED
  BY <1>2, <1>3

\* The choice of a first provider is a provider or none.
LEMMA FirstOfType ==
  ASSUME NEW S \in SUBSET Providers
  PROVE  FirstOf(S) \in Providers \union {NoProvider}
<1>1. CASE S = {}
  BY <1>1 DEF FirstOf
<1>2. CASE S # {}
  <2>1. \E p \in S : \A q \in S : Rank[p] <= Rank[q]
    <3> DEFINE R == {Rank[p] : p \in S}
    <3>1. R \subseteq Nat /\ R # {}
      BY <1>2, RouterAssumption
    <3>2. \E n \in R : \A m \in R : n <= m
      <4>1. PICK n \in R : \A m \in R : ~(<<m, n>> \in OpToRel(<, Nat))
        BY <3>1, NatLessThanWellFounded, WFMin
      <4>2. \A m \in R : ~(m < n)
        BY <3>1, <4>1 DEF OpToRel
      <4>3. n \in R
        BY <4>1
      <4> HIDE DEF R
      <4> QED
        BY <3>1, <4>2, <4>3
    <3> QED
      BY <3>2
  <2> QED
    BY <1>2, <2>1 DEF FirstOf
<1> QED
  BY <1>1, <1>2

-----------------------------------------------------------------------------
(* Type correctness, by the parts of TypeOK *)

\* A task that is calling, or did, has a candidate.
AtCandidate ==
  \A t \in Task : pc[t] \in {"calling", "backoff", "yielded", "streaming", "abandoned"}
                    => at[t] \in Candidate

TypeInv == TypeOK /\ AtCandidate

\* A part of the type invariant holds on while its variables stay.
LEMMA UnchangedTypes ==
  /\ TypeFlags /\ TypeLifecycle /\ UNCHANGED <<lifecycle, check>> => TypeFlags' /\ TypeLifecycle'
  /\ TypeHealth /\ UNCHANGED health => TypeHealth'
  /\ TypeCounters /\ UNCHANGED counters => TypeCounters'
  /\ TypeSelection /\ UNCHANGED selection => TypeSelection'
  /\ TypeTasks /\ AtCandidate /\ UNCHANGED <<pc, at, attempt, queue>>
       => TypeTasks' /\ AtCandidate'
  /\ TypeOutcomes /\ UNCHANGED <<outcome, offered, failed>> => TypeOutcomes'
<1>1. TypeFlags /\ TypeLifecycle /\ UNCHANGED <<lifecycle, check>> => TypeFlags' /\ TypeLifecycle'
  BY Zenon DEF TypeFlags, TypeLifecycle, lifecycle
<1>2. TypeHealth /\ UNCHANGED health => TypeHealth'
  BY DEF TypeHealth, health
<1>3. TypeCounters /\ UNCHANGED counters => TypeCounters'
  BY DEF TypeCounters, counters
<1>4. TypeSelection /\ UNCHANGED selection => TypeSelection'
  BY DEF TypeSelection, selection
<1>5. TypeTasks /\ AtCandidate /\ UNCHANGED <<pc, at, attempt, queue>>
        => TypeTasks' /\ AtCandidate'
  BY DEF TypeTasks, AtCandidate
<1>6. TypeOutcomes /\ UNCHANGED <<outcome, offered, failed>> => TypeOutcomes'
  BY DEF TypeOutcomes
<1> QED
  BY <1>1, <1>2, <1>3, <1>4, <1>5, <1>6

\* The router starts with values of the right types.
LEMMA TypeInit == Init => TypeInv
<1> SUFFICES ASSUME Init PROVE TypeInv
  OBVIOUS
<1>1. TypeFlags
  BY DEF Init, TypeFlags
<1>2. TypeLifecycle
  BY DEF Init, TypeLifecycle
<1>3. TypeHealth /\ TypeCounters /\ TypeSelection
  BY DEF Init, TypeHealth, TypeCounters, TypeSelection, ProviderStatus
<1>4. TypeTasks /\ TypeOutcomes /\ AtCandidate
  BY DEF Init, TypeTasks, TypeOutcomes, AtCandidate
<1> QED
  BY <1>1, <1>2, <1>3, <1>4 DEF TypeInv, TypeOK

\* The helpers of the actions give their variables values of their types.
LEMMA RecordSuccessType ==
  ASSUME TypeHealth, NEW p \in Providers, RecordSuccess(p)
  PROVE  TypeHealth'
BY DEF TypeHealth, RecordSuccess, ProviderStatus

\* Recording a failure keeps the types of the health telemetry.
LEMMA RecordFailureType ==
  ASSUME TypeHealth, NEW p \in Providers, NEW e \in Faults, RecordFailure(p, e)
  PROVE  TypeHealth'
<1>1. e \in ErrorCategory
  BY RouterAssumption
<1>2. StatusAfter(status[p], e) \in ProviderStatus
  BY DEF TypeHealth, StatusAfter, ProviderStatus
<1> QED
  BY <1>1, <1>2 DEF TypeHealth, RecordFailure

\* Calling a candidate keeps the types of the tasks.
LEMMA AttemptType ==
  ASSUME TypeTasks, AtCandidate, NEW t \in Task, NEW s \in Seq(Candidate), s # <<>>,
         Attempt(t, s)
  PROVE  TypeTasks' /\ AtCandidate' /\ (requests \in [Providers -> Nat] =>
                                          requests' \in [Providers -> Nat])
<1>1. Head(s) \in Candidate /\ Tail(s) \in Seq(Candidate)
  OBVIOUS
<1>2. ProviderOf(Head(s)) \in Providers
  BY <1>1 DEF Candidate, ProviderOf
<1>3. TypeTasks'
  BY <1>1 DEF TypeTasks, Attempt
<1>4. AtCandidate'
  BY <1>1 DEF TypeTasks, AtCandidate, Attempt
<1>5. requests \in [Providers -> Nat] => requests' \in [Providers -> Nat]
  BY <1>2 DEF Attempt
<1> QED
  BY <1>3, <1>4, <1>5

\* initialize, close and their cancellation.
LEMMA TypeLifecycleStep ==
  ASSUME TypeInv,
         \/ InitializeBegin \/ CloseBegin \/ LifecycleStep \/ LifecycleCancelled
  PROVE  TypeInv'
<1> USE DEF TypeInv, TypeOK
<1>1. CASE InitializeBegin
  <2>1. TypeFlags'
    BY <1>1, Zenon DEF InitializeBegin, TypeFlags
  <2>2. TypeLifecycle'
    BY <1>1 DEF InitializeBegin, TypeLifecycle
  <2> QED
    BY <1>1, <2>1, <2>2, UnchangedTypes DEF InitializeBegin, tasks
<1>2. CASE CloseBegin
  <2>1. TypeFlags'
    BY <1>2, Zenon DEF CloseBegin, TypeFlags
  <2>2. TypeLifecycle'
    BY <1>2 DEF CloseBegin, TypeLifecycle
  <2> QED
    BY <1>2, <2>1, <2>2, UnchangedTypes DEF CloseBegin, tasks
<1>3. CASE LifecycleCancelled
  <2>1. TypeFlags'
    BY <1>3, Zenon DEF LifecycleCancelled, TypeFlags
  <2>2. TypeLifecycle'
    BY <1>3 DEF LifecycleCancelled, TypeLifecycle
  <2> QED
    BY <1>3, <2>1, <2>2, UnchangedTypes DEF LifecycleCancelled, tasks
<1>4. ASSUME NEW p \in Providers, CloseProvider(p)
      PROVE  TypeInv'
  <2>1. TypeFlags'
    BY <1>4, Zenon DEF CloseProvider, TypeFlags
  <2>2. TypeLifecycle' /\ TypeHealth' /\ TypeSelection'
    BY <1>4 DEF CloseProvider, TypeLifecycle, TypeHealth, TypeSelection, ProviderStatus
  <2> QED
    BY <1>4, <2>1, <2>2, UnchangedTypes DEF CloseProvider, tasks
<1>5. ASSUME NEW p \in Providers, InitializeTurn(p), TypeHealth',
             startupRecords' \in [Providers -> Nat],
             models' \in [Providers -> SUBSET Model]
      PROVE  TypeInv'
  <2>1. TypeFlags'
    BY <1>5, Zenon DEF InitializeTurn, TypeFlags
  <2>2. TypeLifecycle' /\ TypeCounters'
    BY <1>5 DEF InitializeTurn, TypeLifecycle, TypeCounters
  <2>3. TypeSelection'
    <3>1. FirstCandidate(status') \in Providers \union {NoProvider}
      BY FirstOfType DEF FirstCandidate
    <3> QED
      BY <1>5, <3>1 DEF InitializeTurn, TypeSelection
  <2> QED
    BY <1>5, <2>1, <2>2, <2>3, UnchangedTypes DEF InitializeTurn, tasks
<1>6. ASSUME NEW p \in Providers, Discover(p)
      PROVE  TypeInv'
  <2>1. models' \in [Providers -> SUBSET Model]
    <3>1. PICK found \in SUBSET Catalog[p] :
            models' = [models EXCEPT ![p] = IF found = {} THEN Default[p] ELSE found]
      BY <1>6 DEF Discover
    <3>2. found \in SUBSET Model /\ Default[p] \in SUBSET Model
      BY RouterAssumption
    <3> QED
      BY <3>1, <3>2 DEF TypeLifecycle
  <2>2. startupRecords' \in [Providers -> Nat]
    BY <1>6 DEF Discover, TypeCounters
  <2> QED
    BY <1>5, <1>6, <2>1, <2>2, RecordSuccessType DEF Discover
<1>7. ASSUME NEW p \in Providers, UseDefault(p)
      PROVE  TypeInv'
  <2>1. models' \in [Providers -> SUBSET Model] /\ startupRecords' \in [Providers -> Nat]
    BY <1>7, RouterAssumption DEF UseDefault, TypeLifecycle, TypeCounters
  <2> QED
    BY <1>5, <1>7, <2>1, UnchangedTypes DEF UseDefault
<1>8. ASSUME NEW p \in Providers, NEW e \in Faults, StartupFails(p, e)
      PROVE  TypeInv'
  <2>1. models' \in [Providers -> SUBSET Model] /\ startupRecords' \in [Providers -> Nat]
    BY <1>8 DEF StartupFails, TypeLifecycle, TypeCounters
  <2> QED
    BY <1>5, <1>8, <2>1, RecordFailureType DEF StartupFails
<1> QED
  BY <1>1, <1>2, <1>3, <1>4, <1>6, <1>7, <1>8 DEF LifecycleStep

\* A task that has called somebody is at a provider.
LEMMA AtProvider ==
  ASSUME AtCandidate, NEW t \in Task,
         pc[t] \in {"calling", "backoff", "yielded", "streaming", "abandoned"}
  PROVE  ProviderOf(at[t]) \in Providers
BY DEF AtCandidate, Candidate, ProviderOf

\* Ending a task keeps the types of the tasks and their outcomes.
LEMMA FinishType ==
  ASSUME TypeTasks, AtCandidate, TypeOutcomes, NEW t \in Task,
         NEW o \in ErrorCategory \union {"ok", "broken", "cancelled", "deadline"}, Finish(t, o),
         UNCHANGED <<at, attempt, queue>>, offered' \in [Task -> SUBSET Candidate],
         failed' \in [Task -> SUBSET Candidate]
  PROVE  TypeTasks' /\ AtCandidate' /\ TypeOutcomes'
BY DEF TypeTasks, AtCandidate, TypeOutcomes, Finish

\* Steps that begin or refuse a call or a probe.
LEMMA TypeBegin ==
  ASSUME TypeInv,
         \/ \E t \in Calls : Refuse(t) \/ AnswerAtOnce(t) \/ Start(t)
         \/ \E h \in Checks : CheckBegin(h) \/ \E p \in Providers : ProbeStart(h, p)
  PROVE  TypeInv'
<1> USE DEF TypeInv, TypeOK
<1>1. ASSUME NEW t \in Calls, Refuse(t)
      PROVE  TypeInv'
  <2>1. PICK o \in ErrorCategory : Finish(t, o)
    BY <1>1 DEF Refuse, ErrorCategory
  <2>2. TypeTasks' /\ AtCandidate' /\ TypeOutcomes'
    BY <1>1, <2>1, FinishType DEF Refuse, TypeOutcomes, Task
  <2> QED
    BY <1>1, <2>2, UnchangedTypes DEF Refuse
<1>2. ASSUME NEW t \in Calls, AnswerAtOnce(t)
      PROVE  TypeInv'
  <2>1. PICK o \in ErrorCategory \union {"ok"} : Finish(t, o)
    BY <1>2 DEF AnswerAtOnce, NoCandidateError, ErrorCategory
  <2>2. TypeTasks' /\ AtCandidate' /\ TypeOutcomes'
    BY <1>2, <2>1, FinishType DEF AnswerAtOnce, TypeOutcomes, Task
  <2> QED
    BY <1>2, <2>2, UnchangedTypes DEF AnswerAtOnce
<1>3. ASSUME NEW t \in Calls, Start(t)
      PROVE  TypeInv'
  <2>1. PICK s \in CandidateLists(t) \ {<<>>} :
          Attempt(t, s) /\ offered' = [offered EXCEPT ![t] = RangeOf(s)]
    BY <1>3 DEF Start
  <2>2. s \in Seq(Candidate) /\ RangeOf(s) \in SUBSET Candidate
    BY CandidateListsType DEF RangeOf
  <2>3. TypeTasks' /\ AtCandidate' /\ TypeCounters'
    BY <1>3, <2>1, <2>2, AttemptType DEF Start, TypeCounters, Task
  <2>4. TypeOutcomes'
    BY <1>3, <2>1, <2>2 DEF Start, TypeOutcomes
  <2> QED
    BY <1>3, <2>3, <2>4, UnchangedTypes DEF Start
<1>4. ASSUME NEW h \in Checks, CheckBegin(h)
      PROVE  TypeInv'
  <2>1. TypeFlags'
    BY <1>4, Zenon DEF CheckBegin, TypeFlags, lifecycle
  <2>2. check' \in [Checks -> {"idle", "probing", "done", "cancelled", "refused"}]
    BY <1>4 DEF CheckBegin, TypeLifecycle
  <2>3. TypeLifecycle'
    BY <1>4, <2>2 DEF CheckBegin, TypeLifecycle, lifecycle
  <2> QED
    BY <1>4, <2>1, <2>3, UnchangedTypes DEF CheckBegin, tasks
<1>5. ASSUME NEW h \in Checks, NEW p \in Providers, ProbeStart(h, p)
      PROVE  TypeInv'
  <2>1. <<h, p>> \in Task /\ <<p, NoModel>> \in Candidate
    BY DEF Task, Probes, Candidate
  <2>2. <<<<p, NoModel>>>> \in Seq(Candidate) /\ <<<<p, NoModel>>>> # <<>>
    BY <2>1
  <2>3. TypeTasks' /\ AtCandidate' /\ TypeCounters'
    BY <1>5, <2>1, <2>2, AttemptType DEF ProbeStart, TypeCounters
  <2> QED
    BY <1>5, <2>3, UnchangedTypes DEF ProbeStart
<1> QED
  BY <1>1, <1>2, <1>3, <1>4, <1>5

\* Steps that end an attempt.
LEMMA TypeReturn ==
  ASSUME TypeInv, NEW t \in Task, AttemptReturns(t) \/ BackoffEnds(t)
  PROVE  TypeInv'
<1> USE DEF TypeInv, TypeOK
<1>1. CASE AttemptSucceeds(t)
  <2>1. ProviderOf(at[t]) \in Providers
    BY <1>1, AtProvider DEF AttemptSucceeds
  <2>2. TypeHealth'
    BY <1>1, <2>1, RecordSuccessType DEF AttemptSucceeds
  <2>3. TypeSelection'
    BY <1>1, <2>1 DEF AttemptSucceeds, TypeSelection
  <2>4. TypeTasks' /\ AtCandidate' /\ TypeOutcomes'
    <3>1. CASE t \in Calls /\ Kind[t] = "stream"
      BY <1>1, <3>1 DEF AttemptSucceeds, TypeTasks, AtCandidate, TypeOutcomes
    <3>2. CASE ~(t \in Calls /\ Kind[t] = "stream")
      BY <1>1, <3>2, FinishType DEF AttemptSucceeds, TypeOutcomes
    <3> QED
      BY <3>1, <3>2
  <2> QED
    BY <1>1, <2>2, <2>3, <2>4, UnchangedTypes DEF AttemptSucceeds
<1>2. ASSUME NEW e \in Faults, RetryLater(t, e)
      PROVE  TypeInv'
  <2>1. ProviderOf(at[t]) \in Providers
    BY <1>2, AtProvider DEF RetryLater
  <2>2. TypeHealth'
    BY <1>2, <2>1, RecordFailureType DEF RetryLater
  <2>3. TypeCounters'
    BY <1>2, <2>1 DEF RetryLater, TypeCounters
  <2>4. TypeTasks' /\ AtCandidate'
    BY <1>2 DEF RetryLater, TypeTasks, AtCandidate
  <2> QED
    BY <1>2, <2>2, <2>3, <2>4, UnchangedTypes DEF RetryLater
<1>3. ASSUME NEW e \in Faults, FailOver(t, e)
      PROVE  TypeInv'
  <2>1. ProviderOf(at[t]) \in Providers /\ at[t] \in Candidate
    BY <1>3, AtProvider DEF FailOver, AtCandidate
  <2>2. TypeHealth'
    BY <1>3, <2>1, RecordFailureType DEF FailOver
  <2>3. TypeTasks' /\ AtCandidate' /\ TypeCounters'
    BY <1>3, AttemptType DEF FailOver, TypeCounters, TypeTasks
  <2>4. TypeOutcomes'
    BY <1>3, <2>1 DEF FailOver, TypeOutcomes
  <2> QED
    BY <1>3, <2>2, <2>3, <2>4, UnchangedTypes DEF FailOver
<1>4. ASSUME NEW e \in Faults, GiveUp(t, e)
      PROVE  TypeInv'
  <2>1. ProviderOf(at[t]) \in Providers /\ at[t] \in Candidate /\ e \in ErrorCategory
    BY <1>4, AtProvider, RouterAssumption DEF GiveUp, AtCandidate
  <2>2. TypeHealth'
    BY <1>4, <2>1, RecordFailureType DEF GiveUp
  <2>3. TypeTasks' /\ AtCandidate' /\ TypeOutcomes'
    BY <1>4, <2>1, FinishType DEF GiveUp, TypeOutcomes
  <2> QED
    BY <1>4, <2>2, <2>3, UnchangedTypes DEF GiveUp
<1>5. CASE BackoffEnds(t)
  <2>1. TypeTasks' /\ AtCandidate'
    BY <1>5 DEF BackoffEnds, TypeTasks, AtCandidate
  <2> QED
    BY <1>5, <2>1, UnchangedTypes DEF BackoffEnds
<1> QED
  BY <1>1, <1>2, <1>3, <1>4, <1>5 DEF AttemptReturns

\* Steps that end a call, a stream or a health check.
LEMMA TypeEnd ==
  ASSUME TypeInv,
         \/ \E t \in Calls : Cancel(t) \/ StreamDeadline(t)
                             \/ StreamPull(t) \/ StreamChunk(t) \/ StreamEnds(t)
         \/ \E h \in Checks : CheckEnd(h) \/ CheckCancelled(h)
  PROVE  TypeInv'
<1> USE DEF TypeInv, TypeOK
<1>1. ASSUME NEW t \in Calls, NEW o \in {"cancelled", "deadline"}, Abandon(t, o)
      PROVE  TypeInv'
  <2>1. TypeTasks' /\ AtCandidate' /\ TypeOutcomes'
    BY <1>1 DEF Abandon, TypeTasks, AtCandidate, TypeOutcomes, Task
  <2> QED
    BY <1>1, <2>1, UnchangedTypes DEF Abandon
<1>2. ASSUME NEW t \in Calls, StreamEnds(t)
      PROVE  TypeInv'
  <2>1. PICK o \in {"ok", "broken"} : Finish(t, o)
    BY <1>2 DEF StreamEnds
  <2>2. TypeTasks' /\ AtCandidate' /\ TypeOutcomes'
    BY <1>2, <2>1, FinishType DEF StreamEnds, TypeOutcomes, Task
  <2> QED
    BY <1>2, <2>2, UnchangedTypes DEF StreamEnds
<1>3. ASSUME NEW h \in Checks, CheckEnd(h)
      PROVE  TypeInv'
  <2>1. TypeFlags'
    BY <1>3, Zenon DEF CheckEnd, TypeFlags, lifecycle
  <2>2. TypeLifecycle'
    BY <1>3 DEF CheckEnd, TypeLifecycle, lifecycle
  <2>3. TypeSelection'
    <3>1. FirstHealthyOrCandidate(status) \in Providers \union {NoProvider}
      BY FirstOfType DEF FirstHealthyOrCandidate, FirstCandidate
    <3> QED
      BY <1>3, <3>1 DEF CheckEnd, TypeSelection
  <2> QED
    BY <1>3, <2>1, <2>2, <2>3, UnchangedTypes DEF CheckEnd, tasks
<1>4. ASSUME NEW h \in Checks, CheckCancelled(h)
      PROVE  TypeInv'
  <2>1. TypeFlags'
    BY <1>4, Zenon DEF CheckCancelled, TypeFlags, lifecycle
  <2>2. TypeLifecycle'
    BY <1>4 DEF CheckCancelled, TypeLifecycle, lifecycle
  <2>3. TypeTasks' /\ TypeOutcomes'
    BY <1>4 DEF CheckCancelled, TypeTasks, TypeOutcomes
  <2>4. AtCandidate'
    BY <1>4 DEF CheckCancelled, TypeTasks, AtCandidate, Ended
  <2> QED
    BY <1>4, <2>1, <2>2, <2>3, <2>4, UnchangedTypes DEF CheckCancelled
<1>5. ASSUME NEW t \in Calls, StreamPull(t) \/ StreamChunk(t)
      PROVE  TypeInv'
  <2>1. TypeTasks' /\ AtCandidate'
    BY <1>5 DEF StreamPull, StreamChunk, TypeTasks, AtCandidate
  <2> QED
    BY <1>5, <2>1, UnchangedTypes DEF StreamPull, StreamChunk
<1> QED
  BY <1>1, <1>2, <1>3, <1>4, <1>5 DEF Cancel, StreamDeadline

\* The type invariant is inductive.
LEMMA TypeNext == TypeInv /\ [Next]_vars => TypeInv'
<1>1. TypeInv /\ Next => TypeInv'
  BY TypeLifecycleStep, TypeBegin, TypeReturn, TypeEnd DEF Next
<1>2. TypeInv /\ UNCHANGED vars => TypeInv'
  BY UnchangedTypes DEF TypeInv, TypeOK, vars, tasks
<1> QED
  BY <1>1, <1>2

\* In every reachable state every variable has its type, for every set of
\* providers, calls and checks.
THEOREM TypeCorrect == Spec => []TypeOK
<1>1. Spec => []TypeInv
  BY TypeInit, TypeNext, PTL DEF Spec
<1>2. TypeInv => TypeOK
  BY DEF TypeInv
<1> QED
  BY <1>1, <1>2, PTL

-----------------------------------------------------------------------------
(* Status and last error *)

\* A recorded success or failure explains the status it sets.
LEMMA StatusRecorded ==
  ASSUME TypeHealth, StatusExplained, NEW p \in Providers,
         \/ RecordSuccess(p)
         \/ \E e \in Faults : RecordFailure(p, e)
  PROVE  StatusExplained'
<1>1. CASE RecordSuccess(p)
  BY <1>1 DEF TypeHealth, StatusExplained, RecordSuccess
<1>2. ASSUME NEW e \in Faults, RecordFailure(p, e)
      PROVE  StatusExplained'
  <2>1. e # NoError
    BY RouterAssumption
  <2>2. ASSUME NEW q \in Providers \ {p}
        PROVE  status'[q] = status[q] /\ lastError'[q] = lastError[q]
    BY <1>2, <2>2 DEF RecordFailure, TypeHealth
  <2>3. status'[p] = StatusAfter(status[p], e) /\ lastError'[p] = e
    BY <1>2 DEF RecordFailure, TypeHealth
  <2> QED
    BY <2>1, <2>2, <2>3 DEF StatusExplained, StatusAfter
<1> QED
  BY <1>1, <1>2

\* No provider has a status to explain before the first result.
LEMMA StatusInit == Init => StatusExplained
BY DEF Init, StatusExplained

\* Every step keeps status and last error consistent: records do by the lemma
\* above, and closing a provider sets a status that needs no explanation.
LEMMA StatusNext == TypeInv /\ StatusExplained /\ [Next]_vars => StatusExplained'
<1> SUFFICES ASSUME TypeInv, StatusExplained, [Next]_vars
             PROVE  StatusExplained'
  OBVIOUS
<1> USE DEF TypeInv, TypeOK
<1>1. CASE UNCHANGED <<status, lastError>>
  BY <1>1 DEF StatusExplained
<1>2. ASSUME NEW p \in Providers, Discover(p) \/ \E e \in Faults : StartupFails(p, e)
      PROVE  StatusExplained'
  BY <1>2, StatusRecorded DEF Discover, StartupFails
<1>3. ASSUME NEW p \in Providers, CloseProvider(p)
      PROVE  StatusExplained'
  BY <1>3 DEF CloseProvider, StatusExplained, TypeHealth
<1>4. ASSUME NEW t \in Task, AttemptReturns(t)
      PROVE  StatusExplained'
  <2>1. pc[t] = "calling"
    BY <1>4 DEF AttemptReturns, AttemptSucceeds, RetryLater, FailOver, GiveUp
  <2>2. ProviderOf(at[t]) \in Providers
    BY <2>1, AtProvider
  <2> QED
    BY <1>4, <2>2, StatusRecorded
    DEF AttemptReturns, AttemptSucceeds, RetryLater, FailOver, GiveUp
<1>5. CASE UNCHANGED vars
  BY <1>1, <1>5 DEF vars, health
<1>6. CASE InitializeBegin \/ CloseBegin \/ LifecycleCancelled
  BY <1>1, <1>6 DEF InitializeBegin, CloseBegin, LifecycleCancelled, health
<1>7. ASSUME NEW p \in Providers, UseDefault(p)
      PROVE  StatusExplained'
  BY <1>1, <1>7 DEF UseDefault, health
<1>8. ASSUME NEW t \in Task, Refuse(t) \/ AnswerAtOnce(t) \/ Start(t) \/ Cancel(t)
                             \/ StreamDeadline(t)
                             \/ StreamPull(t) \/ StreamChunk(t) \/ StreamEnds(t) \/ BackoffEnds(t)
      PROVE  StatusExplained'
  BY <1>1, <1>8 DEF Refuse, AnswerAtOnce, Start, Cancel, StreamDeadline, Abandon,
                    StreamPull, StreamChunk, StreamEnds, BackoffEnds, health
<1>9. ASSUME NEW h \in Checks, \/ CheckBegin(h) \/ CheckEnd(h) \/ CheckCancelled(h)
                               \/ \E p \in Providers : ProbeStart(h, p)
      PROVE  StatusExplained'
  BY <1>1, <1>9 DEF CheckBegin, CheckEnd, CheckCancelled, ProbeStart, health
<1> QED
  BY <1>2, <1>3, <1>4, <1>5, <1>6, <1>7, <1>8, <1>9 DEF Next, LifecycleStep, Task

\* The status of a provider agrees with its last error in every reachable state.
THEOREM StatusTheorem == Spec => []StatusExplained
<1>1. Init => TypeInv /\ StatusExplained
  BY TypeInit, StatusInit
<1>2. TypeInv /\ StatusExplained /\ [Next]_vars => (TypeInv /\ StatusExplained)'
  BY TypeNext, StatusNext
<1> QED
  BY <1>1, <1>2, PTL DEF Spec

-----------------------------------------------------------------------------
(* Accounting *)

\* There are finitely many tasks.
LEMMA TaskFinite == IsFiniteSet(Task)
BY RouterAssumption, FS_Product, FS_Union DEF Task, Probes

\* The attempts without a record can be counted.
LEMMA UnrecordedFinite ==
  ASSUME NEW p PROVE IsFiniteSet(Unrecorded(p)) /\ Cardinality(Unrecorded(p)) \in Nat
BY TaskFinite, FS_Subset, FS_CardinalityType DEF Unrecorded

\* A set grows by one with a new element.
LEMMA Joined ==
  ASSUME NEW S, IsFiniteSet(S), NEW x, x \notin S
  PROVE  Cardinality(S \union {x}) = Cardinality(S) + 1
BY FS_AddElement

\* A set shrinks by one without one of its elements.
LEMMA Left ==
  ASSUME NEW S, IsFiniteSet(S), NEW x \in S
  PROVE  Cardinality(S \ {x}) = Cardinality(S) - 1
BY FS_RemoveElement

\* The counters of one provider balance.
Balanced(p) ==
  requests[p] + retries[p] + startupRecords[p]
    = successes[p] + errors[p] + Cardinality(Unrecorded(p))

\* A task that leaves the unrecorded ones, and one that joins them.
LEMMA UnrecordedAttempt ==
  ASSUME TypeTasks, NEW t \in Task, NEW s, Attempt(t, s), NEW q \in Providers
  PROVE  Unrecorded(q)' = IF q = ProviderOf(Head(s))
                          THEN (Unrecorded(q) \ {t}) \union {t}
                          ELSE Unrecorded(q) \ {t}
BY DEF TypeTasks, Attempt, Unrecorded

\* A task that ends is no longer an attempt without a record.
LEMMA UnrecordedFinish ==
  ASSUME TypeTasks, NEW t \in Task, NEW o, Finish(t, o), UNCHANGED at, NEW q \in Providers
  PROVE  Unrecorded(q)' = Unrecorded(q) \ {t}
BY DEF TypeTasks, Finish, Unrecorded

\* Nothing is counted before the first request.
LEMMA AccountingInit == Init => Accounting
<1> SUFFICES ASSUME Init, NEW p \in Providers PROVE Balanced(p)
  BY DEF Accounting, Balanced
<1>1. Unrecorded(p) = {}
  BY DEF Init, Unrecorded
<1>2. Cardinality(Unrecorded(p)) = 0
  BY <1>1, FS_EmptySet
<1> QED
  BY <1>2 DEF Init, Balanced

\* Steps that change no counter, and no task's place among the unrecorded ones.
LEMMA AccountingIdle ==
  ASSUME Accounting, UNCHANGED <<successes, errors, counters>>,
         \A q \in Providers : Unrecorded(q)' = Unrecorded(q)
  PROVE  Accounting'
BY DEF Accounting, counters

\* initialize and close keep the counters balanced: they record what they count.
LEMMA AccountingLifecycle ==
  ASSUME TypeInv, Accounting,
         InitializeBegin \/ CloseBegin \/ LifecycleStep \/ LifecycleCancelled
  PROVE  Accounting'
<1>1. UNCHANGED <<pc, at>>
  BY DEF InitializeBegin, CloseBegin, LifecycleStep, LifecycleCancelled, Discover,
         UseDefault, StartupFails, InitializeTurn, CloseProvider, tasks
<1>2. \A q \in Providers : Unrecorded(q)' = Unrecorded(q)
  BY <1>1 DEF Unrecorded
<1>3. CASE InitializeBegin \/ CloseBegin \/ LifecycleCancelled
  BY <1>2, <1>3, AccountingIdle
  DEF InitializeBegin, CloseBegin, LifecycleCancelled, health
<1>4. ASSUME NEW p \in Providers, UseDefault(p) \/ CloseProvider(p)
      PROVE  Accounting'
  BY <1>2, <1>4, AccountingIdle
  DEF UseDefault, CloseProvider, InitializeTurn, health, counters
<1>5. ASSUME NEW p \in Providers, Discover(p) \/ \E e \in Faults : StartupFails(p, e)
      PROVE  Accounting'
  <2> SUFFICES ASSUME NEW q \in Providers PROVE Balanced(q)'
    BY DEF Accounting, Balanced
  <2>1. requests' = requests /\ retries' = retries
    BY <1>5 DEF Discover, StartupFails, InitializeTurn
  <2>2. startupRecords'[q] = IF q = p THEN startupRecords[q] + 1 ELSE startupRecords[q]
    BY <1>5 DEF Discover, StartupFails, TypeInv, TypeOK, TypeCounters
  <2>3. successes'[q] + errors'[q]
          = IF q = p THEN successes[q] + errors[q] + 1 ELSE successes[q] + errors[q]
    BY <1>5 DEF Discover, StartupFails, RecordSuccess, RecordFailure, TypeInv, TypeOK,
                TypeHealth
  <2> QED
    BY <1>2, <2>1, <2>2, <2>3, UnrecordedFinite
    DEF Accounting, Balanced, TypeInv, TypeOK, TypeCounters, TypeHealth
<1> QED
  BY <1>3, <1>4, <1>5 DEF LifecycleStep

\* A first attempt adds one request and one unrecorded task.
LEMMA AccountingAttempt ==
  ASSUME TypeInv, Accounting, NEW t \in Task, NEW s \in Seq(Candidate), s # <<>>,
         pc[t] = "idle", Attempt(t, s),
         UNCHANGED <<successes, errors, retries, startupRecords>>
  PROVE  Accounting'
<1> SUFFICES ASSUME NEW q \in Providers PROVE Balanced(q)'
  BY DEF Accounting, Balanced
<1> USE DEF TypeInv, TypeOK
<1> DEFINE p == ProviderOf(Head(s))
<1>1. p \in Providers
  BY DEF ProviderOf, Candidate
<1>2. t \notin Unrecorded(q)
  BY DEF Unrecorded
<1>3. Unrecorded(q)' = IF q = p THEN Unrecorded(q) \union {t} ELSE Unrecorded(q)
  <2>1. Unrecorded(q)' = IF q = p THEN (Unrecorded(q) \ {t}) \union {t}
                         ELSE Unrecorded(q) \ {t}
    BY UnrecordedAttempt
  <2>2. Unrecorded(q) \ {t} = Unrecorded(q)
    BY <1>2
  <2> QED
    BY <2>1, <2>2
<1>4. Cardinality(Unrecorded(q))' = IF q = p THEN Cardinality(Unrecorded(q)) + 1
                                    ELSE Cardinality(Unrecorded(q))
  BY <1>2, <1>3, UnrecordedFinite, Joined
<1>5. requests'[q] = IF q = p THEN requests[q] + 1 ELSE requests[q]
  BY <1>1 DEF Attempt, TypeCounters
<1> QED
  BY <1>4, <1>5, UnrecordedFinite DEF Accounting, Balanced, TypeCounters, TypeHealth

\* An outcome of an attempt is one record more and, but for a retry, one
\* unrecorded task less.
LEMMA AccountingReturn ==
  ASSUME TypeInv, Accounting, NEW t \in Task, AttemptReturns(t)
  PROVE  Accounting'
<1> USE DEF TypeInv, TypeOK
<1> DEFINE p == ProviderOf(at[t])
<1>1. pc[t] = "calling"
  BY DEF AttemptReturns, AttemptSucceeds, RetryLater, FailOver, GiveUp
<1>2. p \in Providers
  BY <1>1, AtProvider
<1> SUFFICES ASSUME NEW q \in Providers PROVE Balanced(q)'
  BY DEF Accounting, Balanced
<1>3. t \in Unrecorded(q) <=> q = p
  BY <1>1 DEF Unrecorded
<1>4. successes'[q] + errors'[q]
        = IF q = p THEN successes[q] + errors[q] + 1 ELSE successes[q] + errors[q]
  BY <1>2 DEF AttemptReturns, AttemptSucceeds, RetryLater, FailOver, GiveUp,
              RecordSuccess, RecordFailure, TypeHealth
<1>5. Cardinality(Unrecorded(q) \ {t})
        = IF q = p THEN Cardinality(Unrecorded(q)) - 1 ELSE Cardinality(Unrecorded(q))
  <2>1. CASE q = p
    BY <1>3, <2>1, UnrecordedFinite, Left
  <2>2. CASE q # p
    <3>1. Unrecorded(q) \ {t} = Unrecorded(q)
      BY <1>3, <2>2
    <3> QED
      BY <2>2, <3>1
  <2> QED
    BY <2>1, <2>2
<1>6. CASE AttemptSucceeds(t) \/ \E e \in Faults : GiveUp(t, e)
  <2>1. requests' = requests /\ retries' = retries /\ startupRecords' = startupRecords
    BY <1>6 DEF AttemptSucceeds, GiveUp, counters
  <2>2. Unrecorded(q)' = Unrecorded(q) \ {t}
    BY <1>1, <1>6, UnrecordedFinish DEF AttemptSucceeds, GiveUp, TypeTasks, Unrecorded
  <2> QED
    BY <1>4, <1>5, <2>1, <2>2, UnrecordedFinite
    DEF Accounting, Balanced, TypeCounters, TypeHealth
<1>7. ASSUME NEW e \in Faults, RetryLater(t, e)
      PROVE  Balanced(q)'
  <2>1. requests' = requests /\ startupRecords' = startupRecords
    BY <1>7 DEF RetryLater
  <2>2. retries'[q] = IF q = p THEN retries[q] + 1 ELSE retries[q]
    BY <1>2, <1>7 DEF RetryLater, TypeCounters
  <2>3. Unrecorded(q)' = Unrecorded(q)
    BY <1>1, <1>7 DEF RetryLater, Unrecorded, TypeTasks
  <2> QED
    BY <1>4, <2>1, <2>2, <2>3, UnrecordedFinite
    DEF Accounting, Balanced, TypeCounters, TypeHealth
<1>8. ASSUME NEW e \in Faults, FailOver(t, e)
      PROVE  Balanced(q)'
  <2> DEFINE r == ProviderOf(Head(queue[t]))
  <2>1. retries' = retries /\ startupRecords' = startupRecords
    BY <1>8 DEF FailOver
  <2>2. Attempt(t, queue[t]) /\ queue[t] \in Seq(Candidate) /\ queue[t] # <<>>
    BY <1>8 DEF FailOver, TypeTasks
  <2>3. r \in Providers
    BY <2>2 DEF ProviderOf, Candidate
  <2>4. requests'[q] = IF q = r THEN requests[q] + 1 ELSE requests[q]
    BY <2>2, <2>3 DEF Attempt, TypeCounters
  <2>5. Unrecorded(q)' = IF q = r THEN (Unrecorded(q) \ {t}) \union {t}
                         ELSE Unrecorded(q) \ {t}
    BY <2>2, UnrecordedAttempt
  <2>6. IsFiniteSet(Unrecorded(q) \ {t})
    BY UnrecordedFinite, FS_RemoveElement
  <2>7. Cardinality(Unrecorded(q))' = IF q = r THEN Cardinality(Unrecorded(q) \ {t}) + 1
                                      ELSE Cardinality(Unrecorded(q) \ {t})
    BY <2>5, <2>6, Joined
  <2>8. Balanced(q)
    BY DEF Accounting, Balanced
  <2>9. /\ requests[q] \in Nat /\ retries[q] \in Nat /\ startupRecords[q] \in Nat
        /\ successes[q] \in Nat /\ errors[q] \in Nat
        /\ Cardinality(Unrecorded(q)) \in Nat
    BY UnrecordedFinite DEF TypeCounters, TypeHealth
  <2>10. retries'[q] = retries[q] /\ startupRecords'[q] = startupRecords[q]
    BY <2>1
  <2> HIDE DEF p, r
  <2> QED
    BY <1>4, <1>5, <2>4, <2>7, <2>8, <2>9, <2>10 DEF Balanced
<1> QED
  BY <1>6, <1>7, <1>8 DEF AttemptReturns

\* Every step keeps the counters balanced.
LEMMA AccountingNext == TypeInv /\ Accounting /\ [Next]_vars => Accounting'
<1> SUFFICES ASSUME TypeInv, Accounting, [Next]_vars
             PROVE  Accounting'
  OBVIOUS
<1> USE DEF TypeInv, TypeOK
<1>1. ASSUME NEW t \in Task, Refuse(t) \/ AnswerAtOnce(t) \/ Cancel(t)
                             \/ StreamDeadline(t)
                             \/ StreamPull(t) \/ StreamChunk(t) \/ StreamEnds(t) \/ BackoffEnds(t)
      PROVE  Accounting'
  <2>1. \A q \in Providers : Unrecorded(q)' = Unrecorded(q)
    BY <1>1 DEF Refuse, AnswerAtOnce, Cancel, StreamDeadline, Abandon,
                StreamPull, StreamChunk, StreamEnds,
                BackoffEnds, Finish, Unrecorded, TypeTasks
  <2> QED
    BY <1>1, <2>1, AccountingIdle DEF Refuse, AnswerAtOnce, Cancel, StreamDeadline,
       Abandon, StreamPull, StreamChunk, StreamEnds, BackoffEnds, health
<1>2. ASSUME NEW h \in Checks, CheckBegin(h) \/ CheckEnd(h) \/ CheckCancelled(h)
      PROVE  Accounting'
  <2>1. \A q \in Providers : Unrecorded(q)' = Unrecorded(q)
    <3>1. CASE CheckBegin(h) \/ CheckEnd(h)
      BY <3>1 DEF CheckBegin, CheckEnd, Unrecorded, tasks
    <3>2. CASE CheckCancelled(h)
      <4>1. at' = at
        BY <3>2 DEF CheckCancelled
      <4>2. \A t \in Task : pc'[t] \in {"calling", "backoff", "abandoned"}
                              <=> pc[t] \in {"calling", "backoff", "abandoned"}
        BY <3>2 DEF CheckCancelled, Ended, TypeTasks
      <4> QED
        BY <4>1, <4>2 DEF Unrecorded
    <3> QED
      BY <1>2, <3>1, <3>2
  <2> QED
    BY <1>2, <2>1, AccountingIdle DEF CheckBegin, CheckEnd, CheckCancelled, health
<1>3. ASSUME NEW t \in Calls, Start(t)
      PROVE  Accounting'
  <2>1. PICK s \in CandidateLists(t) \ {<<>>} : Attempt(t, s)
    BY <1>3 DEF Start
  <2> QED
    BY <1>3, <2>1, CandidateListsType, AccountingAttempt DEF Start, health, Task
<1>4. ASSUME NEW h \in Checks, NEW p \in Providers, ProbeStart(h, p)
      PROVE  Accounting'
  <2>1. <<h, p>> \in Task /\ <<p, NoModel>> \in Candidate
    BY DEF Task, Probes, Candidate
  <2>2. <<<<p, NoModel>>>> \in Seq(Candidate) /\ <<<<p, NoModel>>>> # <<>>
    BY <2>1
  <2> QED
    BY <1>4, <2>1, <2>2, AccountingAttempt DEF ProbeStart, health
<1>5. CASE UNCHANGED vars
  <2>1. \A q \in Providers : Unrecorded(q)' = Unrecorded(q)
    BY <1>5 DEF vars, tasks, Unrecorded
  <2> QED
    BY <1>5, <2>1, AccountingIdle DEF vars, health
<1> QED
  BY <1>1, <1>2, <1>3, <1>4, <1>5, AccountingLifecycle, AccountingReturn DEF Next, Task

\* The telemetry counters account for every attempt, for any number of providers,
\* concurrent calls, health checks and lifecycle operations.
THEOREM AccountingTheorem == Spec => []Accounting
<1>1. Init => TypeInv /\ Accounting
  BY TypeInit, AccountingInit
<1>2. TypeInv /\ Accounting /\ [Next]_vars => (TypeInv /\ Accounting)'
  BY TypeNext, AccountingNext
<1> QED
  BY <1>1, <1>2, PTL DEF Spec

-----------------------------------------------------------------------------
(* Retries                                                                  *)

\* The retries task t has counted at its candidate.
Used(t) == IF pc[t] = "backoff" THEN attempt[t] + 1 ELSE attempt[t]

\* The retries that calls under way may still count at p.
Spare(p) ==
  {x \in Task \X (1..Retry[p]) :
     pc[x[1]] \in {"calling", "backoff"} /\ ProviderOf(at[x[1]]) = p /\ x[2] > Used(x[1])}

\* Each request brings retry_count retries, some counted and some to spare.
\* Without the spare ones the bound is not inductive: a retry would break it.
RetriesLeft ==
  \A p \in Providers : retries[p] + Cardinality(Spare(p)) <= Retry[p] * requests[p]

\* The spare retries can be counted.
LEMMA SpareFinite ==
  ASSUME NEW p \in Providers
  PROVE  IsFiniteSet(Spare(p)) /\ Cardinality(Spare(p)) \in Nat
<1>1. Retry[p] \in Nat
  BY RouterAssumption
<1>2. IsFiniteSet(1..Retry[p])
  BY <1>1, FS_Interval
<1>3. IsFiniteSet(Task \X (1..Retry[p]))
  BY <1>2, TaskFinite, FS_Product
<1> QED
  BY <1>3, FS_Subset, FS_CardinalityType DEF Spare

\* The spare retries at p, seen from one task.
LEMMA SpareOf ==
  ASSUME NEW p \in Providers, NEW t \in Task, NEW i \in 1..Retry[p]
  PROVE  <<t, i>> \in Spare(p) <=>
           pc[t] \in {"calling", "backoff"} /\ ProviderOf(at[t]) = p /\ i > Used(t)
BY DEF Spare

\* One more request pays for all the retries of its attempt.
LEMMA OneMore ==
  ASSUME NEW k \in Nat, NEW n \in Nat PROVE k * (n + 1) = k * n + k
OBVIOUS

\* One task has k pairs with the numbers up to k.
LEMMA PairsOfOne ==
  ASSUME NEW t, NEW k \in Nat
  PROVE  IsFiniteSet({t} \X (1..k)) /\ Cardinality({t} \X (1..k)) = k
<1>1. 1 \in Int /\ k \in Int
  OBVIOUS
<1>2. IsFiniteSet(1..k) /\ Cardinality(1..k) = IF 1 > k THEN 0 ELSE k - 1 + 1
  BY <1>1, FS_Interval, Zenon
<1>3. Cardinality(1..k) = k
  BY <1>2
<1>4. IsFiniteSet({t}) /\ Cardinality({t}) = 1
  BY FS_Singleton
<1>5. /\ IsFiniteSet({t} \X (1..k))
      /\ Cardinality({t} \X (1..k)) = Cardinality({t}) * Cardinality(1..k)
  BY <1>2, <1>4, FS_Product, Zenon
<1> QED
  BY <1>3, <1>4, <1>5

\* Steps that count neither a request nor a retry, and give no task a spare one.
LEMMA RetriesIdle ==
  ASSUME TypeInv, RetriesLeft, UNCHANGED <<requests, retries>>,
         \A t \in Task : pc'[t] \in {"calling", "backoff"} =>
            pc[t] \in {"calling", "backoff"} /\ at'[t] = at[t] /\ Used(t)' = Used(t)
  PROVE  RetriesLeft'
<1> SUFFICES ASSUME NEW p \in Providers
             PROVE  (retries[p] + Cardinality(Spare(p)) <= Retry[p] * requests[p])'
  BY DEF RetriesLeft
<1>1. Spare(p)' \in SUBSET Spare(p)
  BY DEF Spare
<1>2. Cardinality(Spare(p)') <= Cardinality(Spare(p)) /\ Cardinality(Spare(p)') \in Nat
  BY <1>1, SpareFinite, FS_Subset, FS_CardinalityType
<1>3. retries[p] \in Nat /\ requests[p] \in Nat /\ Retry[p] \in Nat
  BY RouterAssumption DEF TypeInv, TypeOK, TypeCounters
<1>4. retries[p] + Cardinality(Spare(p)) <= Retry[p] * requests[p]
  BY DEF RetriesLeft
<1>5. \A a, b, c \in Nat, n \in Int : a + b <= n /\ c <= b => a + c <= n
  OBVIOUS
<1>6. Retry[p] * requests[p] \in Int /\ Cardinality(Spare(p)) \in Nat
  BY <1>3, SpareFinite
<1>7. retries[p] + Cardinality(Spare(p)') <= Retry[p] * requests[p]
  BY <1>2, <1>3, <1>4, <1>5, <1>6
<1> QED
  BY <1>7

\* A first attempt brings as many retries as its request pays for.
LEMMA RetriesAttempt ==
  ASSUME TypeInv, RetriesLeft, NEW t \in Task, NEW s \in Seq(Candidate), s # <<>>,
         Attempt(t, s), UNCHANGED retries
  PROVE  RetriesLeft'
<1> DEFINE q == ProviderOf(Head(s))
<1>1. q \in Providers
  BY DEF ProviderOf, Candidate
<1> SUFFICES ASSUME NEW p \in Providers
             PROVE  retries[p] + Cardinality(Spare(p)') <= Retry[p] * requests'[p]
  BY DEF RetriesLeft
<1>2. retries[p] \in Nat /\ requests[p] \in Nat /\ Retry[p] \in Nat
  BY RouterAssumption DEF TypeInv, TypeOK, TypeCounters
<1>3. requests'[p] = IF p = q THEN requests[p] + 1 ELSE requests[p]
  BY <1>1 DEF Attempt, TypeInv, TypeOK, TypeCounters
<1>4. \A u \in Task : u # t => pc'[u] = pc[u] /\ at'[u] = at[u] /\ attempt'[u] = attempt[u]
  BY DEF Attempt, TypeInv, TypeOK, TypeTasks
<1>5. at'[t] = Head(s)
  BY DEF Attempt, TypeInv, TypeOK, TypeTasks
<1>6. Cardinality(Spare(p)) \in Nat /\ IsFiniteSet(Spare(p))
  BY SpareFinite
<1>7. retries[p] + Cardinality(Spare(p)) <= Retry[p] * requests[p]
  BY DEF RetriesLeft
<1>8. CASE p # q
  <2>1. Spare(p)' \in SUBSET Spare(p)
    BY <1>4, <1>5, <1>8 DEF Spare, Used
  <2>2. Cardinality(Spare(p)') <= Cardinality(Spare(p)) /\ Cardinality(Spare(p)') \in Nat
    BY <2>1, <1>6, FS_Subset, FS_CardinalityType
  <2>3. \A a, b, c \in Nat, n \in Int : a + b <= n /\ c <= b => a + c <= n
    OBVIOUS
  <2>4. Retry[p] * requests[p] \in Int /\ requests'[p] = requests[p]
    BY <1>2, <1>3, <1>8
  <2> QED
    BY <1>2, <1>6, <1>7, <2>2, <2>3, <2>4
<1>9. CASE p = q
  <2> DEFINE New == {t} \X (1..Retry[p])
  <2>1. Spare(p)' \subseteq Spare(p) \union New
    BY <1>4 DEF Spare, Used
  <2>2. IsFiniteSet(New) /\ Cardinality(New) = Retry[p]
    BY <1>2, PairsOfOne
  <2>3. /\ IsFiniteSet(Spare(p) \union New)
        /\ Cardinality(Spare(p) \union New)
             = Cardinality(Spare(p)) + Cardinality(New) - Cardinality(Spare(p) \intersect New)
    BY <1>6, <2>2, FS_Union
  <2>4. Cardinality(Spare(p) \intersect New) \in Nat
    BY <1>6, FS_Intersection, FS_CardinalityType
  <2>5. /\ Cardinality(Spare(p)') <= Cardinality(Spare(p) \union New)
        /\ Cardinality(Spare(p)') \in Nat
    BY <2>1, <2>3, FS_Subset, FS_CardinalityType
  <2>6. Retry[p] * requests'[p] = Retry[p] * requests[p] + Retry[p]
    BY <1>2, <1>3, <1>9, OneMore
  <2>7. Cardinality(Spare(p) \union New) \in Int /\ Retry[p] * requests[p] \in Int
    BY <1>2, <2>3, FS_CardinalityType
  <2> HIDE DEF New
  <2>8. Cardinality(Spare(p)') <= Cardinality(Spare(p)) + Retry[p]
    BY <1>2, <1>6, <2>2, <2>3, <2>4, <2>5, <2>7
  <2>9. \A r, b, c, k \in Nat, n \in Int : r + b <= n /\ c <= b + k => r + c <= n + k
    OBVIOUS
  <2>10. retries[p] + Cardinality(Spare(p)') <= Retry[p] * requests[p] + Retry[p]
    BY <1>2, <1>6, <1>7, <2>5, <2>7, <2>8, <2>9
  <2> QED
    BY <2>6, <2>10
<1> QED
  BY <1>8, <1>9

\* A retry is counted against one the attempt had to spare.
LEMMA RetriesLater ==
  ASSUME TypeInv, RetriesLeft, NEW t \in Task, NEW e \in Faults, RetryLater(t, e)
  PROVE  RetriesLeft'
<1> DEFINE q == ProviderOf(at[t])
           x == <<t, attempt[t] + 1>>
<1>1. pc[t] = "calling" /\ attempt[t] < Retry[q]
  BY DEF RetryLater, WillRetry
<1>2. q \in Providers
  BY <1>1, AtProvider DEF TypeInv
<1> SUFFICES ASSUME NEW p \in Providers
             PROVE  retries'[p] + Cardinality(Spare(p)') <= Retry[p] * requests[p]
  BY DEF RetriesLeft, RetryLater
<1>3. /\ retries[p] \in Nat /\ requests[p] \in Nat /\ Retry[p] \in Nat
      /\ attempt[t] \in Nat
  BY RouterAssumption DEF TypeInv, TypeOK, TypeCounters, TypeTasks
<1>4. retries'[p] = IF p = q THEN retries[p] + 1 ELSE retries[p]
  BY <1>2 DEF RetryLater, TypeInv, TypeOK, TypeCounters
<1>5. /\ \A u \in Task : u # t => pc'[u] = pc[u]
      /\ pc'[t] = "backoff" /\ at' = at /\ attempt' = attempt
  BY DEF RetryLater, TypeInv, TypeOK, TypeTasks
<1>6. Cardinality(Spare(p)) \in Nat /\ IsFiniteSet(Spare(p))
  BY SpareFinite
<1>7. retries[p] + Cardinality(Spare(p)) <= Retry[p] * requests[p]
  BY DEF RetriesLeft
<1>8. Retry[p] * requests[p] \in Int
  BY <1>3
<1>9. CASE p # q
  <2>1. Spare(p)' \in SUBSET Spare(p)
    BY <1>5, <1>9 DEF Spare, Used
  <2>2. Cardinality(Spare(p)') <= Cardinality(Spare(p)) /\ Cardinality(Spare(p)') \in Nat
    BY <2>1, <1>6, FS_Subset, FS_CardinalityType
  <2>3. \A a, b, c \in Nat, n \in Int : a + b <= n /\ c <= b => a + c <= n
    OBVIOUS
  <2> QED
    BY <1>3, <1>4, <1>6, <1>7, <1>8, <1>9, <2>2, <2>3
<1>10. CASE p = q
  <2>1. x \in Spare(p)
    <3>1. attempt[t] + 1 \in 1..Retry[p] /\ attempt[t] + 1 > Used(t)
      BY <1>1, <1>3, <1>10 DEF Used
    <3> QED
      BY <1>1, <1>10, <3>1, SpareOf
  <2>2. Spare(p)' \subseteq Spare(p) \ {x}
    <3> SUFFICES ASSUME NEW u \in Task, NEW i \in 1..Retry[p], <<u, i>> \in Spare(p)'
                 PROVE  <<u, i>> \in Spare(p) /\ <<u, i>> # x
      BY DEF Spare
    <3>1. /\ pc'[u] \in {"calling", "backoff"} /\ ProviderOf(at[u]) = p
          /\ i > IF pc'[u] = "backoff" THEN attempt[u] + 1 ELSE attempt[u]
      BY <1>5 DEF Spare, Used
    <3>2. CASE u = t
      <4>1. i > attempt[t] + 1
        BY <1>5, <3>1, <3>2
      <4>2. i > Used(t) /\ i # attempt[t] + 1
        BY <1>1, <1>3, <4>1 DEF Used
      <4> QED
        BY <1>1, <3>1, <3>2, <4>2, SpareOf
    <3>3. CASE u # t
      BY <1>5, <3>1, <3>3, SpareOf DEF Used
    <3> QED
      BY <3>2, <3>3
  <2>3. IsFiniteSet(Spare(p) \ {x}) /\ Cardinality(Spare(p) \ {x}) = Cardinality(Spare(p)) - 1
    BY <1>6, <2>1, FS_RemoveElement
  <2>4. /\ Cardinality(Spare(p)') <= Cardinality(Spare(p) \ {x})
        /\ Cardinality(Spare(p)') \in Nat
    BY <2>2, <2>3, FS_Subset, FS_CardinalityType
  <2>5. \A r, b, c \in Nat, u, n \in Int : r + b <= n /\ u = b - 1 /\ c <= u => r + 1 + c <= n
    OBVIOUS
  <2>6. Cardinality(Spare(p) \ {x}) \in Int
    BY <1>6, <2>3
  <2> HIDE DEF x
  <2> QED
    BY <1>3, <1>4, <1>6, <1>7, <1>8, <1>10, <2>3, <2>4, <2>5, <2>6
<1> QED
  BY <1>9, <1>10

\* Every step keeps the retries within what the requests paid for.
LEMMA RetriesNext == TypeInv /\ RetriesLeft /\ [Next]_vars => RetriesLeft'
<1> SUFFICES ASSUME TypeInv, RetriesLeft, [Next]_vars PROVE RetriesLeft'
  OBVIOUS
<1>1. CASE InitializeBegin \/ CloseBegin \/ LifecycleStep \/ LifecycleCancelled
  <2>1. UNCHANGED <<pc, at, attempt, requests, retries>>
    BY <1>1 DEF InitializeBegin, CloseBegin, LifecycleStep, LifecycleCancelled, Discover,
       UseDefault, StartupFails, InitializeTurn, CloseProvider, tasks, counters
  <2> QED
    BY <2>1, RetriesIdle DEF Used
<1>2. ASSUME NEW t \in Task,
             \/ Refuse(t) \/ AnswerAtOnce(t) \/ Cancel(t) \/ StreamDeadline(t)
             \/ StreamPull(t) \/ StreamChunk(t) \/ StreamEnds(t)
             \/ AttemptSucceeds(t) \/ \E e \in Faults : GiveUp(t, e)
      PROVE  RetriesLeft'
  <2>1. UNCHANGED <<at, attempt, requests, retries>>
    BY <1>2 DEF Refuse, AnswerAtOnce, Cancel, StreamDeadline, Abandon,
                StreamPull, StreamChunk, StreamEnds,
       AttemptSucceeds, GiveUp, counters
  <2>2. \A u \in Task : pc'[u] = pc[u] \/ pc'[u] \in {"done", "abandoned", "yielded", "streaming"}
    BY <1>2 DEF Refuse, AnswerAtOnce, Cancel, StreamDeadline, Abandon,
                StreamPull, StreamChunk, StreamEnds,
       AttemptSucceeds, GiveUp, Finish, TypeInv, TypeOK, TypeTasks
  <2> QED
    BY <2>1, <2>2, RetriesIdle DEF Used
<1>3. ASSUME NEW t \in Task, BackoffEnds(t) PROVE RetriesLeft'
  <2>1. UNCHANGED <<at, requests, retries>> /\ pc[t] = "backoff"
    BY <1>3 DEF BackoffEnds, counters
  <2>2. /\ \A u \in Task : u # t => pc'[u] = pc[u] /\ attempt'[u] = attempt[u]
        /\ pc'[t] = "calling" /\ attempt'[t] = attempt[t] + 1
    BY <1>3 DEF BackoffEnds, TypeInv, TypeOK, TypeTasks
  <2>3. \A u \in Task : Used(u)' = Used(u)
    BY <2>1, <2>2 DEF Used
  <2> QED
    BY <2>1, <2>2, <2>3, RetriesIdle
<1>4. ASSUME NEW h \in Checks, CheckBegin(h) \/ CheckEnd(h) \/ CheckCancelled(h)
      PROVE  RetriesLeft'
  <2>1. UNCHANGED <<at, attempt, requests, retries>>
    BY <1>4 DEF CheckBegin, CheckEnd, CheckCancelled, tasks, counters
  <2>2. \A u \in Task : pc'[u] = pc[u] \/ pc'[u] \in {"done", "abandoned"}
    BY <1>4 DEF CheckBegin, CheckEnd, CheckCancelled, tasks
  <2> QED
    BY <2>1, <2>2, RetriesIdle DEF Used
<1>5. ASSUME NEW t \in Calls, Start(t) PROVE RetriesLeft'
  <2>1. PICK s \in CandidateLists(t) \ {<<>>} : Attempt(t, s)
    BY <1>5 DEF Start
  <2>2. t \in Task /\ s \in Seq(Candidate) /\ s # <<>>
    BY <2>1, CandidateListsType DEF Task
  <2>3. UNCHANGED retries
    BY <1>5 DEF Start
  <2> QED
    BY <2>1, <2>2, <2>3, RetriesAttempt
<1>6. ASSUME NEW h \in Checks, NEW p \in Providers, ProbeStart(h, p) PROVE RetriesLeft'
  <2>1. <<h, p>> \in Task /\ <<p, NoModel>> \in Candidate
    BY DEF Task, Probes, Candidate
  <2>2. <<<<p, NoModel>>>> \in Seq(Candidate) /\ <<<<p, NoModel>>>> # <<>>
    BY <2>1
  <2> QED
    BY <1>6, <2>1, <2>2, RetriesAttempt DEF ProbeStart
<1>7. ASSUME NEW t \in Task, NEW e \in Faults, FailOver(t, e) PROVE RetriesLeft'
  <2>1. Attempt(t, queue[t]) /\ queue[t] \in Seq(Candidate) /\ queue[t] # <<>>
    BY <1>7 DEF FailOver, TypeInv, TypeOK, TypeTasks
  <2>2. UNCHANGED retries
    BY <1>7 DEF FailOver
  <2> QED
    BY <2>1, <2>2, RetriesAttempt
<1>8. CASE UNCHANGED vars
  <2>1. UNCHANGED <<pc, at, attempt, requests, retries>>
    BY <1>8 DEF vars, tasks, counters
  <2> QED
    BY <2>1, RetriesIdle DEF Used
<1> QED
  BY <1>1, <1>2, <1>3, <1>4, <1>5, <1>6, <1>7, <1>8, RetriesLater
  DEF Next, AttemptReturns, Task

\* However calls, probes and failovers interleave, no provider is asked again more
\* often than retry_count for each request it received (router.py, _call_with_retries).
THEOREM RetriesTheorem == Spec => []RetriesBounded
<1>1. Init => TypeInv /\ RetriesLeft
  <2> SUFFICES ASSUME Init, NEW p \in Providers
               PROVE  retries[p] + Cardinality(Spare(p)) <= Retry[p] * requests[p]
    BY TypeInit DEF RetriesLeft
  <2>1. Spare(p) = {}
    BY DEF Init, Spare
  <2>2. Cardinality(Spare(p)) = 0
    BY <2>1, FS_EmptySet
  <2>3. retries[p] = 0 /\ requests[p] = 0 /\ Retry[p] \in Nat
    BY RouterAssumption DEF Init
  <2> QED
    BY <2>2, <2>3
<1>2. TypeInv /\ RetriesLeft /\ [Next]_vars => (TypeInv /\ RetriesLeft)'
  BY TypeNext, RetriesNext
<1>3. TypeInv /\ RetriesLeft => RetriesBounded
  <2> SUFFICES ASSUME TypeInv, RetriesLeft, NEW p \in Providers
               PROVE  retries[p] <= Retry[p] * requests[p]
    BY DEF RetriesBounded
  <2>1. retries[p] \in Nat /\ requests[p] \in Nat /\ Retry[p] \in Nat
    BY RouterAssumption DEF TypeInv, TypeOK, TypeCounters
  <2>2. retries[p] + Cardinality(Spare(p)) <= Retry[p] * requests[p]
    BY DEF RetriesLeft
  <2>3. Cardinality(Spare(p)) \in Nat /\ Retry[p] * requests[p] \in Int
    BY <2>1, SpareFinite
  <2>4. \A r, c \in Nat, n \in Int : r + c <= n => r <= n
    OBVIOUS
  <2> QED
    BY <2>1, <2>2, <2>3, <2>4
<1> QED
  BY <1>1, <1>2, <1>3, PTL DEF Spec

-----------------------------------------------------------------------------
(* Failover *)

\* The candidates a running call was offered are those that failed, the one it is
\* at and those it still has: what makes ExhaustiveFailover inductive.
FailoverInv ==
  /\ ExhaustiveFailover
  /\ \A t \in Calls :
       /\ pc[t] = "idle" => failed[t] = {} /\ offered[t] = {}
       /\ pc[t] \in {"calling", "backoff"}
            => offered[t] = failed[t] \union {at[t]} \union RangeOf(queue[t])

\* The elements of a sequence are its head and those of its tail.
LEMMA RangeHeadTail ==
  ASSUME NEW S, NEW s \in Seq(S), s # <<>>
  PROVE  RangeOf(s) = {Head(s)} \union RangeOf(Tail(s))
<1>1. Len(s) \in Nat /\ Len(s) >= 1 /\ DOMAIN s = 1..Len(s)
  OBVIOUS
<1>2. DOMAIN Tail(s) = 1..(Len(s) - 1) /\ \A i \in 1..(Len(s) - 1) : Tail(s)[i] = s[i + 1]
  BY <1>1
<1>3. Head(s) = s[1]
  BY <1>1
<1>4. \A i \in 2..Len(s) : i - 1 \in 1..(Len(s) - 1) /\ (i - 1) + 1 = i
  BY <1>1
<1>5. RangeOf(s) \subseteq {Head(s)} \union RangeOf(Tail(s))
  <2> SUFFICES ASSUME NEW i \in 1..Len(s), i # 1 PROVE s[i] \in RangeOf(Tail(s))
    BY <1>1, <1>3 DEF RangeOf
  <2>1. i - 1 \in 1..(Len(s) - 1) /\ Tail(s)[i - 1] = s[i]
    BY <1>1, <1>2
  <2> QED
    BY <1>2, <2>1 DEF RangeOf
<1>6. {Head(s)} \union RangeOf(Tail(s)) \subseteq RangeOf(s)
  <2>1. 1 \in DOMAIN s
    BY <1>1
  <2>2. ASSUME NEW i \in 1..(Len(s) - 1) PROVE Tail(s)[i] \in RangeOf(s)
    <3>1. i + 1 \in DOMAIN s
      BY <1>1
    <3> QED
      BY <1>2, <3>1 DEF RangeOf
  <2> QED
    BY <1>2, <1>3, <2>1, <2>2 DEF RangeOf
<1> QED
  BY <1>5, <1>6

\* No call has been offered a candidate at first.
LEMMA FailoverInit == Init => FailoverInv
BY DEF Init, FailoverInv, ExhaustiveFailover, FailoverEligible, Retryable, Task

\* What the invariant says of one call depends on the variables of that call only.
FailoverAt(t) ==
  /\ (pc[t] = "done" /\ outcome[t] \in FailoverEligible) => failed[t] = offered[t]
  /\ pc[t] = "idle" => failed[t] = {} /\ offered[t] = {}
  /\ pc[t] \in {"calling", "backoff"}
       => offered[t] = failed[t] \union {at[t]} \union RangeOf(queue[t])

\* The failover invariant speaks of each call by itself.
LEMMA FailoverAtAll == FailoverInv <=> \A t \in Calls : FailoverAt(t)
BY DEF FailoverInv, FailoverAt, ExhaustiveFailover

\* A step that leaves a call alone keeps the failover invariant of it.
LEMMA FailoverOthers ==
  ASSUME NEW t, FailoverAt(t), UNCHANGED <<pc[t], at[t], queue[t], outcome[t], offered[t], failed[t]>>
  PROVE  FailoverAt(t)'
BY DEF FailoverAt

\* A step of a call keeps the failover invariant of it.
LEMMA FailoverCall ==
  ASSUME TypeInv, NEW t \in Calls, FailoverAt(t),
         \/ Refuse(t) \/ AnswerAtOnce(t) \/ Start(t) \/ Cancel(t) \/ StreamDeadline(t)
         \/ StreamPull(t) \/ StreamChunk(t) \/ StreamEnds(t)
         \/ AttemptReturns(t) \/ BackoffEnds(t)
  PROVE  FailoverAt(t)'
<1> USE DEF TypeInv, TypeOK, TypeTasks, TypeOutcomes, FailoverAt, Task
<1>1. CASE Refuse(t)
  BY <1>1 DEF Refuse, Finish
<1>2. CASE AnswerAtOnce(t)
  BY <1>2 DEF AnswerAtOnce, Finish
<1>3. CASE Start(t)
  <2>1. PICK s \in CandidateLists(t) \ {<<>>} :
          Attempt(t, s) /\ offered' = [offered EXCEPT ![t] = RangeOf(s)]
    BY <1>3 DEF Start
  <2>2. RangeOf(s) = {Head(s)} \union RangeOf(Tail(s))
    BY CandidateListsType, RangeHeadTail
  <2> QED
    BY <1>3, <2>1, <2>2 DEF Start, Attempt
<1>4. CASE Cancel(t) \/ StreamDeadline(t)
  BY <1>4 DEF Cancel, StreamDeadline, Abandon, FailoverEligible, Retryable
<1>5. CASE StreamPull(t) \/ StreamChunk(t) \/ StreamEnds(t)
  BY <1>5 DEF StreamPull, StreamChunk, StreamEnds, Finish, FailoverEligible, Retryable
<1>6. CASE AttemptSucceeds(t)
  BY <1>6 DEF AttemptSucceeds, Finish, FailoverEligible, Retryable
<1>7. ASSUME NEW e \in Faults, RetryLater(t, e)
      PROVE  FailoverAt(t)'
  BY <1>7 DEF RetryLater
<1>8. ASSUME NEW e \in Faults, FailOver(t, e)
      PROVE  FailoverAt(t)'
  <2>1. RangeOf(queue[t]) = {Head(queue[t])} \union RangeOf(Tail(queue[t]))
    BY <1>8, RangeHeadTail DEF FailOver
  <2> QED
    BY <1>8, <2>1 DEF FailOver, Attempt
<1>9. ASSUME NEW e \in Faults, GiveUp(t, e)
      PROVE  FailoverAt(t)'
  <2>1. queue[t] = <<>> => RangeOf(queue[t]) = {}
    BY DEF RangeOf
  <2> QED
    BY <1>9, <2>1 DEF GiveUp, Finish
<1>10. CASE BackoffEnds(t)
  BY <1>10 DEF BackoffEnds
<1> QED
  BY <1>1, <1>2, <1>3, <1>4, <1>5, <1>6, <1>7, <1>8, <1>9, <1>10 DEF AttemptReturns

\* A step of one task leaves the variables of every other task alone.
LEMMA OtherTasks ==
  ASSUME TypeInv, NEW t \in Task, NEW u \in Task \ {t},
         \/ t \in Calls /\ \/ Refuse(t) \/ AnswerAtOnce(t) \/ Start(t) \/ Cancel(t)
                           \/ StreamDeadline(t)
                           \/ StreamPull(t) \/ StreamChunk(t) \/ StreamEnds(t)
         \/ AttemptReturns(t) \/ BackoffEnds(t)
         \/ \E h \in Checks, p \in Providers : t = <<h, p>> /\ ProbeStart(h, p)
  PROVE  UNCHANGED <<pc[u], at[u], queue[u], outcome[u], offered[u], failed[u]>>
<1> DEFINE Same == UNCHANGED <<pc[u], at[u], queue[u], outcome[u], offered[u], failed[u]>>
<1> USE DEF TypeInv, TypeOK, TypeTasks, TypeOutcomes
<1>1. CASE Refuse(t) \/ AnswerAtOnce(t) \/ Start(t)
  BY <1>1 DEF Refuse, AnswerAtOnce, Start, Finish, Attempt
<1>2. CASE Cancel(t) \/ StreamDeadline(t)
           \/ StreamPull(t) \/ StreamChunk(t) \/ StreamEnds(t)
  BY <1>2 DEF Cancel, StreamDeadline, StreamPull, StreamChunk, StreamEnds, Abandon, Finish
<1>3. CASE BackoffEnds(t)
  BY <1>3 DEF BackoffEnds
<1>4. ASSUME NEW h \in Checks, NEW p \in Providers, t = <<h, p>>, ProbeStart(h, p)
      PROVE  Same
  BY <1>4 DEF ProbeStart, Attempt, Finish
<1>5. CASE AttemptReturns(t)
  <2>1. CASE AttemptSucceeds(t)
    BY <2>1 DEF AttemptSucceeds, Finish
  <2>2. ASSUME NEW e \in Faults, RetryLater(t, e)
        PROVE  Same
    BY <2>2 DEF RetryLater
  <2>3. ASSUME NEW e \in Faults, FailOver(t, e)
        PROVE  Same
    BY <2>3 DEF FailOver, Attempt
  <2>4. ASSUME NEW e \in Faults, GiveUp(t, e)
        PROVE  Same
    BY <2>4 DEF GiveUp, Finish
  <2> QED
    BY <1>5, <2>1, <2>2, <2>3, <2>4 DEF AttemptReturns
<1> QED
  BY <1>1, <1>2, <1>3, <1>4, <1>5

\* Every step keeps the failover invariant.
LEMMA FailoverNext == TypeInv /\ FailoverInv /\ [Next]_vars => FailoverInv'
<1> SUFFICES ASSUME TypeInv, FailoverInv, [Next]_vars, NEW u \in Calls
             PROVE  FailoverAt(u)'
  BY DEF FailoverInv, FailoverAt, ExhaustiveFailover
<1>1. FailoverAt(u) /\ u \in Task
  BY FailoverAtAll DEF Task
<1>2. ASSUME NEW t \in Task,
             \/ t \in Calls /\ \/ Refuse(t) \/ AnswerAtOnce(t) \/ Start(t) \/ Cancel(t)
                               \/ StreamDeadline(t)
                               \/ StreamPull(t) \/ StreamChunk(t) \/ StreamEnds(t)
             \/ AttemptReturns(t) \/ BackoffEnds(t)
      PROVE  FailoverAt(u)'
  BY <1>1, <1>2, FailoverCall, FailoverOthers, OtherTasks
<1>3. ASSUME NEW h \in Checks, NEW p \in Providers, ProbeStart(h, p)
      PROVE  FailoverAt(u)'
  <2>1. <<h, p>> \in Task /\ u # <<h, p>>
    BY RouterAssumption DEF Task, Probes
  <2> QED
    BY <1>1, <1>3, <2>1, FailoverOthers, OtherTasks
<1>4. ASSUME NEW h \in Checks, CheckCancelled(h)
      PROVE  FailoverAt(u)'
  <2>1. u \notin Probes
    BY RouterAssumption DEF Probes
  <2>2. UNCHANGED <<pc[u], outcome[u]>>
    BY <1>1, <1>4, <2>1 DEF CheckCancelled
  <2> QED
    BY <1>1, <1>4, <2>2, FailoverOthers DEF CheckCancelled
<1>5. CASE UNCHANGED tasks
  BY <1>1, <1>5, FailoverOthers DEF tasks
<1>6. CASE InitializeBegin \/ CloseBegin \/ LifecycleStep \/ LifecycleCancelled
  BY <1>5, <1>6 DEF InitializeBegin, CloseBegin, LifecycleStep, LifecycleCancelled,
     Discover, UseDefault, StartupFails, InitializeTurn, CloseProvider
<1>7. ASSUME NEW h \in Checks, CheckBegin(h) \/ CheckEnd(h)
      PROVE  FailoverAt(u)'
  BY <1>5, <1>7 DEF CheckBegin, CheckEnd
<1>8. CASE UNCHANGED vars
  BY <1>5, <1>8 DEF vars
<1> QED
  BY <1>2, <1>3, <1>4, <1>6, <1>7, <1>8 DEF Next, Task

\* No call, and no stream before its first chunk, gives up with a provider's error
\* that failover could have avoided while a candidate it was offered has not failed;
\* the overall deadline of a stream is the exception the property names.
THEOREM FailoverTheorem == Spec => []ExhaustiveFailover
<1>1. Init => TypeInv /\ FailoverInv
  BY TypeInit, FailoverInit
<1>2. TypeInv /\ FailoverInv /\ [Next]_vars => (TypeInv /\ FailoverInv)'
  BY TypeNext, FailoverNext
<1>3. FailoverInv => ExhaustiveFailover
  BY DEF FailoverInv
<1> QED
  BY <1>1, <1>2, <1>3, PTL DEF Spec

-----------------------------------------------------------------------------
(* Isolation *)

\* The candidates of a new call are in service.
LEMMA OfferedInService ==
  ASSUME NEW t, NEW s \in CandidateLists(t)
  PROVE  \A c \in RangeOf(s) : ProviderOf(c) \in InService
<1>1. ASSUME NEW S, s \in SetToSeqs(S), \A c \in S : ProviderOf(c) \in InService
      PROVE  \A c \in RangeOf(s) : ProviderOf(c) \in InService
  BY <1>1 DEF SetToSeqs, RangeOf
<1>2. CASE HasCatalog
  <2>1. PICK S \in SUBSET Eligible : s \in SetToSeqs(S)
    BY <1>2 DEF CandidateLists, SetToAllKPermutations
  <2> QED
    BY <1>1, <2>1 DEF Eligible
<1>3. CASE ~HasCatalog
  <2>1. s \in SetToSeqs(InService \X {NoModel})
    BY <1>3 DEF CandidateLists, LegacyCandidates
  <2>2. \A c \in InService \X {NoModel} : ProviderOf(c) \in InService
    BY DEF ProviderOf
  <2> QED
    BY <1>1, <2>1, <2>2
<1> QED
  BY <1>2, <1>3

\* What Isolated asks of one task.
Avoids(t, p) ==
  /\ pc[t] \in {"calling", "backoff"} => ProviderOf(at[t]) # p
  /\ ~Ended(t) => \A c \in RangeOf(queue[t]) : ProviderOf(c) # p

\* A task that calls a list without p avoids p.
LEMMA AttemptAvoids ==
  ASSUME TypeTasks, NEW t \in Task, NEW s \in Seq(Candidate), s # <<>>, Attempt(t, s),
         NEW p \in Providers, \A c \in RangeOf(s) : ProviderOf(c) # p
  PROVE  Avoids(t, p)'
<1>1. RangeOf(s) = {Head(s)} \union RangeOf(Tail(s))
  BY RangeHeadTail
<1> QED
  BY <1>1 DEF TypeTasks, Attempt, Avoids

\* A step of a task that leaves p alone neither calls it nor changes its status.
LEMMA IsolatedTask ==
  ASSUME TypeInv, NEW p \in Providers, Isolated(p), NEW t \in Task,
         \/ t \in Calls /\ \/ Refuse(t) \/ AnswerAtOnce(t) \/ Start(t) \/ Cancel(t)
                           \/ StreamDeadline(t)
                           \/ StreamPull(t) \/ StreamChunk(t) \/ StreamEnds(t)
         \/ AttemptReturns(t) \/ BackoffEnds(t)
  PROVE  Isolated(p)'
<1> USE DEF TypeInv, TypeOK
<1>1. Avoids(t, p) /\ \A u \in Task : Avoids(u, p)
  BY DEF Isolated, Avoids
<1>2. ASSUME NEW u \in Task \ {t}
      PROVE  Avoids(u, p)'
  <2>1. UNCHANGED <<pc[u], at[u], queue[u]>>
    BY OtherTasks
  <2> QED
    BY <1>1, <2>1 DEF Avoids, Ended
<1>3. Avoids(t, p)'
  <2>1. CASE Start(t)
    <3>1. PICK s \in CandidateLists(t) \ {<<>>} : Attempt(t, s)
      BY <2>1 DEF Start
    <3>2. \A c \in RangeOf(s) : ProviderOf(c) # p
      BY OfferedInService DEF InService, OutOfService, Isolated
    <3> QED
      BY <3>1, <3>2, CandidateListsType, AttemptAvoids
  <2>2. ASSUME NEW e \in Faults, FailOver(t, e)
        PROVE  Avoids(t, p)'
    <3>1. \A c \in RangeOf(queue[t]) : ProviderOf(c) # p
      BY <1>1, <2>2 DEF FailOver, Avoids, Ended
    <3> QED
      BY <2>2, <3>1, AttemptAvoids DEF FailOver, TypeTasks
  <2>3. CASE Refuse(t) \/ AnswerAtOnce(t)
             \/ StreamPull(t) \/ StreamChunk(t) \/ StreamEnds(t) \/ AttemptSucceeds(t)
             \/ \E e \in Faults : GiveUp(t, e)
    BY <1>1, <2>3 DEF Refuse, AnswerAtOnce,
                      StreamPull, StreamChunk, StreamEnds, AttemptSucceeds, GiveUp, Finish,
                      Avoids, Ended, TypeTasks
  <2>4. CASE Cancel(t) \/ StreamDeadline(t)
    BY <1>1, <2>4 DEF Cancel, StreamDeadline, Abandon, Avoids, Ended, TypeTasks
  <2>5. CASE BackoffEnds(t) \/ \E e \in Faults : RetryLater(t, e)
    BY <1>1, <2>5 DEF BackoffEnds, RetryLater, Avoids, Ended, TypeTasks
  <2> QED
    BY <2>1, <2>2, <2>3, <2>4, <2>5 DEF AttemptReturns
<1>4. status'[p] = "unavailable"
  <2>1. CASE AttemptReturns(t)
    <3>1. ProviderOf(at[t]) # p
      BY <1>1, <2>1 DEF AttemptReturns, AttemptSucceeds, RetryLater, FailOver, GiveUp, Avoids
    <3> QED
      BY <2>1, <3>1 DEF AttemptReturns, AttemptSucceeds, RetryLater, FailOver, GiveUp,
                        RecordSuccess, RecordFailure, TypeHealth, Isolated
  <2>2. CASE ~AttemptReturns(t)
    BY <2>2 DEF Refuse, AnswerAtOnce, Start, Cancel, StreamDeadline, Abandon,
                StreamPull, StreamChunk, StreamEnds,
                BackoffEnds, health, Isolated
  <2> QED
    BY <2>1, <2>2
<1> QED
  BY <1>2, <1>3, <1>4 DEF Isolated, Avoids

IsolationStep ==
  \A p \in Providers :
    Isolated(p) => \/ Isolated(p)'
                   \/ \E h \in Checks : check[h] = "probing"
                   \/ life # "idle"

\* Without a health check or the lifecycle no step ends an isolation.
LEMMA IsolationNext == TypeInv /\ [Next]_vars => IsolationStep
<1> SUFFICES ASSUME TypeInv, [Next]_vars, NEW p \in Providers, Isolated(p),
                    \A h \in Checks : check[h] # "probing", life = "idle"
             PROVE  Isolated(p)'
  BY DEF IsolationStep
<1>1. CASE UNCHANGED <<status, tasks>>
  BY <1>1 DEF Isolated, Ended, tasks
<1>2. CASE InitializeBegin \/ CloseBegin
  BY <1>1, <1>2 DEF InitializeBegin, CloseBegin, health
<1>3. CASE LifecycleStep \/ LifecycleCancelled
  BY <1>3 DEF LifecycleStep, LifecycleCancelled, Discover, UseDefault, StartupFails,
              InitializeTurn, CloseProvider
<1>4. ASSUME NEW h \in Checks, \/ CheckBegin(h) \/ CheckEnd(h) \/ CheckCancelled(h)
                               \/ \E q \in Providers : ProbeStart(h, q)
      PROVE  Isolated(p)'
  BY <1>1, <1>4 DEF CheckBegin, CheckEnd, CheckCancelled, ProbeStart, health
<1>5. CASE UNCHANGED vars
  BY <1>1, <1>5 DEF vars, health
<1> QED
  BY <1>2, <1>3, <1>4, <1>5, IsolatedTask DEF Next, Task

\* A provider out of service that no task still holds stays unused until a health
\* check or the lifecycle, however many calls are made.
THEOREM IsolationTheorem == Spec => IsolationEndsByProbe
<1>1. TypeInv /\ [Next]_vars => [IsolationStep]_vars
  BY IsolationNext
<1>2. Spec => []TypeInv
  BY TypeInit, TypeNext, PTL DEF Spec
<1>3. Spec => [][IsolationStep]_vars
  BY <1>1, <1>2, PTL DEF Spec
<1> QED
  BY <1>3 DEF IsolationStep, IsolationEndsByProbe
=============================================================================
