---------------------------- MODULE ServiceProofs ----------------------------
(***************************************************************************)
(* What holds of the tool calls, and of calls and lifespan together, for   *)
(* every set of calls and tools, every number of workers and every race    *)
(* between handlers, deadlines, cancellations and threads.                 *)
(***************************************************************************)
EXTENDS LifecycleProofs, FiniteSetTheorems

-----------------------------------------------------------------------------
(* Type correctness of the calls                                            *)

Counters == [total : Nat, succeeded : Nat, failed : Nat]
InFlightStages == {"running", "expiring", "cancelling", "both"}
EndedStages    == {"refused", "answered"}
Stages         == {"waiting"} \union InFlightStages \union EndedStages

\* What is counted for a name is a triple of numbers.
TallyType ==
  /\ DOMAIN tally \subseteq Names \ {NoName}
  /\ \A n \in DOMAIN tally : tally[n] \in Counters

LEMMA MetricsType ==
  ASSUME TallyType, NEW name
  PROVE  Metrics(name) \in Counters
BY DEF TallyType, Metrics, NoMetrics, Counters

\* Counting for one name changes one counter of that name.
LEMMA CountType ==
  ASSUME TallyType, NEW name \in Names \ {NoName}, NEW field \in {"total", "succeeded", "failed"},
         tally' = Count(name, field, Metrics(name))
  PROVE  /\ TallyType'
         /\ \A n : n # name => Metrics(n)' = Metrics(n)
         /\ Metrics(name)'.total = Metrics(name).total + (IF field = "total" THEN 1 ELSE 0)
         /\ Metrics(name)'.succeeded = Metrics(name).succeeded + (IF field = "succeeded" THEN 1 ELSE 0)
         /\ Metrics(name)'.failed = Metrics(name).failed + (IF field = "failed" THEN 1 ELSE 0)
<1> DEFINE entry == [Metrics(name) EXCEPT ![field] = @ + 1]
<1>1. Metrics(name) \in Counters
  BY MetricsType
<1>2. /\ entry \in Counters
      /\ entry.total = Metrics(name).total + (IF field = "total" THEN 1 ELSE 0)
      /\ entry.succeeded = Metrics(name).succeeded + (IF field = "succeeded" THEN 1 ELSE 0)
      /\ entry.failed = Metrics(name).failed + (IF field = "failed" THEN 1 ELSE 0)
  BY <1>1 DEF Counters
<1>3. tally' = [n \in DOMAIN tally \union {name} |-> IF n = name THEN entry ELSE tally[n]]
  BY DEF Count
<1> HIDE DEF entry
<1>4. TallyType'
  BY <1>2, <1>3 DEF TallyType
<1>5. Metrics(name)' = entry
  BY <1>3 DEF Metrics
<1>6. \A n : n # name => Metrics(n)' = Metrics(n)
  BY <1>3 DEF Metrics
<1> QED
  BY <1>2, <1>4, <1>5, <1>6

\* A failed call is counted once for its name, if it has one, and once for its code.
LEMMA FailedType ==
  ASSUME ExecutionTypeOK, NEW c \in Calls, NEW name, name = toolOf[c],
         NEW code \in Codes, Failed(c, code)
  PROVE  /\ TallyType' /\ categories' = [categories EXCEPT ![code] = @ + 1]
         /\ \A n : n # name => Metrics(n)' = Metrics(n)
         /\ name # NoName => /\ Metrics(name)'.total = Metrics(name).total
                             /\ Metrics(name)'.succeeded = Metrics(name).succeeded
                             /\ Metrics(name)'.failed = Metrics(name).failed + 1
<1>1. TallyType /\ name \in Names
  BY ExecutionAssumption DEF ExecutionTypeOK, TallyType, Counters
<1>2. Metrics(name) \in Counters
  BY <1>1, MetricsType
<1>3. CASE name = NoName
  BY <1>1, <1>3 DEF Failed, TallyType, Metrics
<1>4. CASE name # NoName
  <2>1. tally' = Count(name, "failed", Metrics(name))
    BY <1>4 DEF Failed
  <2>2. /\ TallyType' /\ \A n : n # name => Metrics(n)' = Metrics(n)
        /\ Metrics(name)'.total = Metrics(name).total + 0
        /\ Metrics(name)'.succeeded = Metrics(name).succeeded + 0
        /\ Metrics(name)'.failed = Metrics(name).failed + 1
    BY <1>1, <1>4, <2>1, CountType
  <2>3. Metrics(name).total \in Nat /\ Metrics(name).succeeded \in Nat
    BY <1>2 DEF Counters
  <2> QED
    BY <2>2, <2>3 DEF Failed
<1> QED
  BY <1>3, <1>4

-----------------------------------------------------------------------------
(* Counting calls                                                           *)

\* Every set of calls that have arrived is finite: one arrives at a time.
Begun == {c \in Calls : stage[c] # "waiting"}

Bit(b) == IF b THEN 1 ELSE 0

\* A set that changes at one element only.
LEMMA Recount ==
  ASSUME NEW S, IsFiniteSet(S), NEW T, NEW c, T \ {c} = S \ {c}
  PROVE  /\ IsFiniteSet(T) /\ Cardinality(S) \in Nat /\ Cardinality(T) \in Nat
         /\ Cardinality(T) = Cardinality(S) - Bit(c \in S) + Bit(c \in T)
<1> DEFINE R == S \ {c}
<1>1. /\ IsFiniteSet(R) /\ Cardinality(R) \in Nat /\ Cardinality(S) \in Nat
      /\ Cardinality(R) = Cardinality(S) - Bit(c \in S)
  BY FS_RemoveElement, FS_CardinalityType DEF Bit
<1>2. CASE c \in T
  <2>1. T = R \union {c} /\ c \notin R
    BY <1>2
  <2>2. IsFiniteSet(T) /\ Cardinality(T) = Cardinality(R) + 1
    BY <1>1, <2>1, FS_AddElement
  <2> QED
    BY <1>1, <1>2, <2>2 DEF Bit
<1>3. CASE c \notin T
  <2>1. T = R
    BY <1>3
  <2> QED
    BY <1>1, <1>3, <2>1 DEF Bit
<1> QED
  BY <1>2, <1>3

\* The calls of a name that were refused, that are in flight, that succeeded.
RefusedOf(name)   == {c \in For(name, Calls) : stage[c] = "refused"}
SucceededOf(name) == {c \in For(name, Ended) : answer[c] = "result"}
AnsweredWith(code) == {c \in Ended : answer[c] = code}

\* A step of one call, seen by what is counted: it has not ended before.
OneCallMoves(c) ==
  /\ UNCHANGED toolOf /\ stage[c] \notin EndedStages
  /\ \A d \in Calls \ {c} : stage'[d] = stage[d] /\ answer'[d] = answer[d]

LEMMA MoveCounts ==
  ASSUME IsFiniteSet(Begun), NEW c \in Calls, OneCallMoves(c), NEW name, NEW code
  PROVE  /\ IsFiniteSet(Begun')
         /\ Cardinality(RefusedOf(name)) \in Nat /\ Cardinality(For(name, InFlight)) \in Nat
         /\ Cardinality(SucceededOf(name)) \in Nat /\ Cardinality(AnsweredWith(code)) \in Nat
         /\ Cardinality(RefusedOf(name)')
              = Cardinality(RefusedOf(name)) + Bit(stage'[c] = "refused" /\ toolOf[c] = name)
         /\ Cardinality(For(name, InFlight)')
              = Cardinality(For(name, InFlight)) - Bit(stage[c] \in InFlightStages /\ toolOf[c] = name)
                + Bit(stage'[c] \in InFlightStages /\ toolOf[c] = name)
         /\ Cardinality(SucceededOf(name)')
              = Cardinality(SucceededOf(name))
                + Bit(stage'[c] \in EndedStages /\ answer'[c] = "result" /\ toolOf[c] = name)
         /\ Cardinality(AnsweredWith(code)')
              = Cardinality(AnsweredWith(code)) + Bit(stage'[c] \in EndedStages /\ answer'[c] = code)
<1>1. /\ RefusedOf(name) \in SUBSET Begun /\ For(name, InFlight) \in SUBSET Begun
      /\ SucceededOf(name) \in SUBSET Begun /\ AnsweredWith(code) \in SUBSET Begun
  BY DEF RefusedOf, For, InFlight, SucceededOf, AnsweredWith, Ended, Begun
<1>2. /\ IsFiniteSet(RefusedOf(name)) /\ IsFiniteSet(For(name, InFlight))
      /\ IsFiniteSet(SucceededOf(name)) /\ IsFiniteSet(AnsweredWith(code))
  BY <1>1, FS_Subset
<1>3. Begun' \ {c} = Begun \ {c}
  BY DEF Begun, OneCallMoves
<1>4. RefusedOf(name)' \ {c} = RefusedOf(name) \ {c}
  BY DEF RefusedOf, For, OneCallMoves
<1>5. For(name, InFlight)' \ {c} = For(name, InFlight) \ {c}
  BY DEF InFlight, For, OneCallMoves
<1>6. SucceededOf(name)' \ {c} = SucceededOf(name) \ {c}
  BY DEF SucceededOf, Ended, For, OneCallMoves
<1>7. AnsweredWith(code)' \ {c} = AnsweredWith(code) \ {c}
  BY DEF AnsweredWith, Ended, OneCallMoves
<1>8. /\ c \notin RefusedOf(name) /\ (c \in RefusedOf(name)' <=> stage'[c] = "refused" /\ toolOf[c] = name)
      /\ c \in For(name, InFlight) <=> stage[c] \in InFlightStages /\ toolOf[c] = name
      /\ c \in For(name, InFlight)' <=> stage'[c] \in InFlightStages /\ toolOf[c] = name
  BY DEF RefusedOf, For, InFlight, OneCallMoves, InFlightStages, EndedStages
<1>9. /\ c \notin SucceededOf(name) /\ c \notin AnsweredWith(code)
      /\ c \in SucceededOf(name)' <=>
           stage'[c] \in EndedStages /\ answer'[c] = "result" /\ toolOf[c] = name
      /\ c \in AnsweredWith(code)' <=> stage'[c] \in EndedStages /\ answer'[c] = code
  BY DEF SucceededOf, AnsweredWith, For, Ended, OneCallMoves, EndedStages
<1>10. /\ Cardinality(RefusedOf(name)) \in Nat
       /\ Cardinality(RefusedOf(name)') = Cardinality(RefusedOf(name))
            + Bit(stage'[c] = "refused" /\ toolOf[c] = name)
  BY <1>2, <1>4, <1>8, Recount DEF Bit
<1>11. /\ Cardinality(For(name, InFlight)) \in Nat
       /\ Cardinality(For(name, InFlight)')
              = Cardinality(For(name, InFlight)) - Bit(stage[c] \in InFlightStages /\ toolOf[c] = name)
                + Bit(stage'[c] \in InFlightStages /\ toolOf[c] = name)
  BY <1>2, <1>5, <1>8, Recount
<1>12. /\ Cardinality(SucceededOf(name)) \in Nat
       /\ Cardinality(SucceededOf(name)') = Cardinality(SucceededOf(name))
            + Bit(stage'[c] \in EndedStages /\ answer'[c] = "result" /\ toolOf[c] = name)
  BY <1>2, <1>6, <1>9, Recount DEF Bit
<1>13. /\ Cardinality(AnsweredWith(code)) \in Nat
       /\ Cardinality(AnsweredWith(code)') = Cardinality(AnsweredWith(code))
            + Bit(stage'[c] \in EndedStages /\ answer'[c] = code)
  BY <1>2, <1>7, <1>9, Recount DEF Bit
<1>14. IsFiniteSet(Begun')
  BY <1>3, Recount
<1> QED
  BY <1>10, <1>11, <1>12, <1>13, <1>14 DEF Bit

-----------------------------------------------------------------------------
(* The inductive invariant of the calls                                     *)

\* A thread works only for a tool that has a synchronous handler, and work
\* waits in the queue only while its call is in flight.
ThreadOfCall ==
  \A c \in Calls : /\ stage[c] \in {"waiting", "refused"} => thread[c] = "none"
                   /\ thread[c] # "none" => toolOf[c] \in Threaded
                   /\ thread[c] = "queued" => stage[c] \in InFlightStages

\* A call that was started names a registered tool.
NameOfCall ==
  \A c \in Calls : stage[c] \notin {"waiting", "refused"} => toolOf[c] \in Tools

CallInv ==
  ExecutionTypeOK /\ ThreadOfCall /\ NameOfCall /\ IsFiniteSet(Begun) /\ MetricsAccount

\* MetricsAccount, by the sets that it counts.
LEMMA AccountSets ==
  MetricsAccount <=>
    /\ \A name \in Names \ {NoName} :
         /\ Metrics(name).total + Cardinality(RefusedOf(name))
              = Metrics(name).succeeded + Metrics(name).failed + Cardinality(For(name, InFlight))
         /\ Metrics(name).succeeded = Cardinality(SucceededOf(name))
    /\ \A code \in Codes : categories[code] = Cardinality(AnsweredWith(code))
BY DEF MetricsAccount, RefusedOf, SucceededOf, AnsweredWith

\* What a step of a call adds for its name and for its code is what it moves.
NameMoves(c, name) ==
  name # NoName =>
    /\ Metrics(name)'.total + Bit(stage'[c] = "refused") + Metrics(name).succeeded
         + Metrics(name).failed + Bit(stage[c] \in InFlightStages)
        = Metrics(name).total + Metrics(name)'.succeeded + Metrics(name)'.failed
         + Bit(stage'[c] \in InFlightStages)
    /\ Metrics(name)'.succeeded
        = Metrics(name).succeeded + Bit(stage'[c] \in EndedStages /\ answer'[c] = "result")

CodesMove(c) ==
  \A code \in Codes :
    categories'[code] = categories[code] + Bit(stage'[c] \in EndedStages /\ answer'[c] = code)

\* A step of one call that balances keeps the account.
LEMMA AccountKeeps ==
  ASSUME CallInv, TallyType', NEW c \in Calls, OneCallMoves(c), NEW name, name = toolOf[c],
         \A n : n # name => Metrics(n)' = Metrics(n),
         NameMoves(c, name), CodesMove(c)
  PROVE  IsFiniteSet(Begun') /\ MetricsAccount'
<1> USE DEF CallInv
<1>1. IsFiniteSet(Begun')
  BY MoveCounts
<1>2. TallyType
  BY DEF ExecutionTypeOK, TallyType, Counters
<1>3. ASSUME NEW n \in Names \ {NoName}
      PROVE  /\ Metrics(n)'.total + Cardinality(RefusedOf(n)')
                  = Metrics(n)'.succeeded + Metrics(n)'.failed + Cardinality(For(n, InFlight)')
             /\ Metrics(n)'.succeeded = Cardinality(SucceededOf(n)')
  <2>1. /\ Metrics(n).total + Cardinality(RefusedOf(n))
              = Metrics(n).succeeded + Metrics(n).failed + Cardinality(For(n, InFlight))
        /\ Metrics(n).succeeded = Cardinality(SucceededOf(n))
    BY AccountSets
  <2>2. Metrics(n) \in Counters /\ Metrics(n)' \in Counters
    BY <1>2, MetricsType DEF TallyType, Metrics, NoMetrics, Counters
  <2>3. /\ Cardinality(RefusedOf(n)) \in Nat /\ Cardinality(For(n, InFlight)) \in Nat
        /\ Cardinality(SucceededOf(n)) \in Nat
        /\ Cardinality(RefusedOf(n)')
              = Cardinality(RefusedOf(n)) + Bit(stage'[c] = "refused" /\ toolOf[c] = n)
        /\ Cardinality(For(n, InFlight)')
              = Cardinality(For(n, InFlight)) - Bit(stage[c] \in InFlightStages /\ toolOf[c] = n)
                + Bit(stage'[c] \in InFlightStages /\ toolOf[c] = n)
        /\ Cardinality(SucceededOf(n)')
              = Cardinality(SucceededOf(n))
                + Bit(stage'[c] \in EndedStages /\ answer'[c] = "result" /\ toolOf[c] = n)
    BY MoveCounts
  <2>4. CASE n = name
    BY <2>1, <2>2, <2>3, <2>4 DEF Bit, Counters, NameMoves
  <2>5. CASE n # name
    <3>1. Metrics(n)' = Metrics(n)
      BY <2>5
    <3>2. /\ Cardinality(RefusedOf(n)') = Cardinality(RefusedOf(n))
          /\ Cardinality(For(n, InFlight)') = Cardinality(For(n, InFlight))
          /\ Cardinality(SucceededOf(n)') = Cardinality(SucceededOf(n))
      BY <2>3, <2>5 DEF Bit
    <3> QED
      BY <2>1, <3>1, <3>2
  <2> QED
    BY <2>4, <2>5
<1>4. ASSUME NEW code \in Codes
      PROVE  categories'[code] = Cardinality(AnsweredWith(code)')
  <2>1. categories[code] = Cardinality(AnsweredWith(code))
    BY AccountSets
  <2>2. Cardinality(AnsweredWith(code)')
              = Cardinality(AnsweredWith(code)) + Bit(stage'[c] \in EndedStages /\ answer'[c] = code)
    BY MoveCounts
  <2> QED
    BY <2>1, <2>2 DEF CodesMove
<1>5. MetricsAccount'
  BY <1>3, <1>4 DEF MetricsAccount, RefusedOf, SucceededOf, AnsweredWith
<1> QED
  BY <1>1, <1>5

-----------------------------------------------------------------------------
(* Every step of a call                                                     *)

\* The types without the account.
CallTypes == ExecutionTypeOK /\ ThreadOfCall /\ NameOfCall

\* What the types say of one call.
LEMMA CallType ==
  ASSUME CallInv, NEW c \in Calls
  PROVE  /\ toolOf[c] \in Names /\ TallyType
         /\ stage[c] \in Stages /\ categories \in [Codes -> Nat]
BY ExecutionAssumption
   DEF CallInv, ExecutionTypeOK, TallyType, Counters, Stages, InFlightStages, EndedStages

\* Ending a call with a code.
LEMMA ConcludeType ==
  ASSUME CallInv, NEW c \in Calls, NEW code \in Answers, Conclude(c, code),
         stage[c] \notin EndedStages, toolOf[c] \in Tools, TallyType', categories' \in [Codes -> Nat],
         \/ UNCHANGED thread /\ thread[c] # "queued"
         \/ thread' = Withdrawn(c)
  PROVE  CallTypes' /\ OneCallMoves(c) /\ stage'[c] = "answered" /\ answer'[c] = code
<1> USE DEF CallInv
<1>1. /\ toolOf' = toolOf /\ stage' = [stage EXCEPT ![c] = "answered"]
      /\ answer' = [answer EXCEPT ![c] = code]
  BY DEF Conclude
<1>2. OneCallMoves(c) /\ stage'[c] = "answered" /\ answer'[c] = code
  BY <1>1 DEF OneCallMoves, ExecutionTypeOK
<1>3. /\ thread' \in [Calls -> {"none", "queued", "running", "done"}]
      /\ thread'[c] # "queued" /\ (thread'[c] # "none" => thread[c] # "none")
      /\ \A d \in Calls \ {c} : thread'[d] = thread[d]
  BY DEF Withdrawn, ExecutionTypeOK
<1>4. ExecutionTypeOK'
  BY <1>1, <1>3 DEF ExecutionTypeOK, TallyType, Counters
<1>5. ThreadOfCall'
  BY <1>1, <1>2, <1>3 DEF ThreadOfCall, OneCallMoves
<1>6. NameOfCall'
  BY <1>1, <1>2 DEF NameOfCall, OneCallMoves
<1> QED
  BY <1>2, <1>4, <1>5, <1>6 DEF CallTypes

\* A request refused before its start is a failure without an execution.
LEMMA RefuseKeeps ==
  ASSUME CallInv, NEW c \in Calls, NEW code \in Codes, Refuse(c, code)
  PROVE  CallInv'
<1>1. PICK name : name = toolOf[c]
  OBVIOUS
<1>2. /\ stage[c] = "waiting" /\ UNCHANGED <<toolOf, thread>>
      /\ stage' = [stage EXCEPT ![c] = "refused"] /\ answer' = [answer EXCEPT ![c] = code]
      /\ Failed(c, code)
  BY DEF Refuse
<1>3. /\ OneCallMoves(c) /\ stage'[c] = "refused" /\ answer'[c] = code
  BY <1>2 DEF CallInv, ExecutionTypeOK, OneCallMoves, EndedStages
<1>4. /\ TallyType' /\ categories' = [categories EXCEPT ![code] = @ + 1]
      /\ \A n : n # name => Metrics(n)' = Metrics(n)
      /\ name # NoName => /\ Metrics(name)'.total = Metrics(name).total
                          /\ Metrics(name)'.succeeded = Metrics(name).succeeded
                          /\ Metrics(name)'.failed = Metrics(name).failed + 1
  BY <1>1, <1>2, FailedType DEF CallInv
<1>5. TallyType /\ categories \in [Codes -> Nat] /\ Metrics(name) \in Counters
  BY CallType, MetricsType
<1>6. ExecutionTypeOK'
  <2>1. code \in Answers
    BY DEF Answers
  <2> QED
    BY <1>2, <1>4, <1>5, <2>1 DEF CallInv, ExecutionTypeOK, TallyType, Counters
<1>7. ThreadOfCall' /\ NameOfCall'
  BY <1>2, <1>3 DEF CallInv, ThreadOfCall, NameOfCall, OneCallMoves
<1>8. IsFiniteSet(Begun') /\ MetricsAccount'
  <2>1. code # "result"
    BY DEF Codes
  <2>2. CodesMove(c)
    BY <1>3, <1>4, <1>5 DEF CodesMove, Bit, EndedStages
  <2>3. NameMoves(c, name)
    BY <1>2, <1>3, <1>4, <1>5, <2>1 DEF NameMoves, Bit, Counters, InFlightStages
  <2> QED
    BY <1>1, <1>3, <1>4, <2>2, <2>3, AccountKeeps
<1> QED
  BY <1>6, <1>7, <1>8 DEF CallInv

\* A call in flight that ends with a code is one failure.
LEMMA FailsKeeps ==
  ASSUME CallInv, NEW c \in Calls, NEW code \in Codes, stage[c] \in InFlightStages,
         Conclude(c, code), Failed(c, code),
         (UNCHANGED thread /\ thread[c] # "queued") \/ thread' = Withdrawn(c)
  PROVE  CallInv'
<1>1. PICK name : name = toolOf[c]
  OBVIOUS
<1>2. toolOf[c] \in Tools /\ name # NoName /\ stage[c] \notin EndedStages /\ code \in Answers
      /\ code # "result"
  BY <1>1, ExecutionAssumption
     DEF CallInv, NameOfCall, InFlightStages, EndedStages, Answers, Codes
<1>3. /\ TallyType' /\ categories' = [categories EXCEPT ![code] = @ + 1]
      /\ \A n : n # name => Metrics(n)' = Metrics(n)
      /\ Metrics(name)'.total = Metrics(name).total
      /\ Metrics(name)'.succeeded = Metrics(name).succeeded
      /\ Metrics(name)'.failed = Metrics(name).failed + 1
  BY <1>1, <1>2, FailedType DEF CallInv
<1>4. TallyType /\ categories \in [Codes -> Nat] /\ Metrics(name) \in Counters
  BY CallType, MetricsType
<1>5. categories' \in [Codes -> Nat]
  BY <1>3, <1>4
<1>6. CallTypes' /\ OneCallMoves(c) /\ stage'[c] = "answered" /\ answer'[c] = code
  BY <1>2, <1>3, <1>5, ConcludeType
<1>7. CodesMove(c)
  BY <1>3, <1>4, <1>6 DEF CodesMove, Bit, EndedStages
<1>8. NameMoves(c, name)
  BY <1>2, <1>3, <1>4, <1>6 DEF NameMoves, Bit, Counters, InFlightStages
<1>9. IsFiniteSet(Begun') /\ MetricsAccount'
  BY <1>1, <1>3, <1>6, <1>7, <1>8, AccountKeeps
<1> QED
  BY <1>6, <1>9 DEF CallInv, CallTypes

\* A call in flight that ends with a result is one success.
LEMMA SucceedsKeeps ==
  ASSUME CallInv, NEW c \in Calls, stage[c] \in InFlightStages,
         Conclude(c, "result"), Succeeded(c), UNCHANGED thread, thread[c] # "queued"
  PROVE  CallInv'
<1>1. PICK name : name = toolOf[c]
  OBVIOUS
<1>2. toolOf[c] \in Tools /\ name \in Names \ {NoName} /\ stage[c] \notin EndedStages
      /\ "result" \in Answers /\ "result" \notin Codes
  BY <1>1, ExecutionAssumption
     DEF CallInv, NameOfCall, InFlightStages, EndedStages, Answers, Codes
<1>3. TallyType /\ categories \in [Codes -> Nat] /\ Metrics(name) \in Counters
  BY CallType, MetricsType
<1>4. /\ TallyType' /\ UNCHANGED categories
      /\ \A n : n # name => Metrics(n)' = Metrics(n)
      /\ Metrics(name)'.total = Metrics(name).total + 0
      /\ Metrics(name)'.succeeded = Metrics(name).succeeded + 1
      /\ Metrics(name)'.failed = Metrics(name).failed + 0
  BY <1>1, <1>2, <1>3, CountType DEF Succeeded
<1>5. categories' \in [Codes -> Nat]
  BY <1>3, <1>4
<1>6. CallTypes' /\ OneCallMoves(c) /\ stage'[c] = "answered" /\ answer'[c] = "result"
  BY <1>2, <1>4, <1>5, ConcludeType
<1>7. CodesMove(c)
  BY <1>2, <1>3, <1>4, <1>6 DEF CodesMove, Bit, EndedStages
<1>8. NameMoves(c, name)
  BY <1>3, <1>4, <1>6 DEF NameMoves, Bit, Counters, InFlightStages, EndedStages
<1>9. IsFiniteSet(Begun') /\ MetricsAccount'
  BY <1>1, <1>4, <1>6, <1>7, <1>8, AccountKeeps
<1> QED
  BY <1>6, <1>9 DEF CallInv, CallTypes

\* Arguments refused after the start was logged are an execution that failed.
LEMMA RefuseArgumentsKeeps ==
  ASSUME CallInv, NEW c \in Calls, RefuseArguments(c)
  PROVE  CallInv'
<1>1. PICK name : name = toolOf[c]
  OBVIOUS
<1> DEFINE code  == "invalid_request"
           entry == [Metrics(name) EXCEPT !.total = @ + 1]
           counted == [entry EXCEPT !.failed = @ + 1]
<1>2. /\ stage[c] = "waiting" /\ toolOf[c] \in Tools /\ name \in Names \ {NoName}
      /\ stage[c] \notin EndedStages
      /\ code \in Answers /\ code \in Codes /\ code # "result" /\ Conclude(c, code)
      /\ thread[c] # "queued" /\ UNCHANGED thread
  BY <1>1, ExecutionAssumption
     DEF RefuseArguments, CallInv, ThreadOfCall, EndedStages, Answers, Codes
<1>3. TallyType /\ categories \in [Codes -> Nat] /\ Metrics(name) \in Counters
  BY CallType, MetricsType
<1>4. categories' = [categories EXCEPT ![code] = @ + 1] /\ categories' \in [Codes -> Nat]
  BY <1>2, <1>3 DEF RefuseArguments
<1>5. tally' = [n \in DOMAIN tally \union {name} |-> IF n = name THEN counted ELSE tally[n]]
  BY <1>1 DEF RefuseArguments, Count
<1>6. /\ entry \in Counters /\ entry.total = Metrics(name).total + 1
      /\ entry.succeeded = Metrics(name).succeeded /\ entry.failed = Metrics(name).failed
  BY <1>3 DEF Counters
<1> HIDE DEF entry
<1>7. /\ counted \in Counters /\ counted.total = Metrics(name).total + 1
      /\ counted.succeeded = Metrics(name).succeeded
      /\ counted.failed = Metrics(name).failed + 1
  BY <1>6 DEF Counters
<1> HIDE DEF counted
<1>8. TallyType'
  BY <1>2, <1>3, <1>5, <1>7 DEF TallyType
<1>9. Metrics(name)' = counted /\ \A n : n # name => Metrics(n)' = Metrics(n)
  BY <1>5 DEF Metrics
<1>10. CallTypes' /\ OneCallMoves(c) /\ stage'[c] = "answered" /\ answer'[c] = code
  BY <1>2, <1>4, <1>8, ConcludeType
<1>11. CodesMove(c)
  BY <1>3, <1>4, <1>10 DEF CodesMove, Bit, EndedStages
<1>12. NameMoves(c, name)
  BY <1>2, <1>3, <1>7, <1>9, <1>10 DEF NameMoves, Bit, Counters, InFlightStages
<1>13. IsFiniteSet(Begun') /\ MetricsAccount'
  BY <1>1, <1>8, <1>9, <1>10, <1>11, <1>12, AccountKeeps
<1> QED
  BY <1>10, <1>13 DEF CallInv, CallTypes

\* A start is counted as the call goes into flight.
LEMMA InvokeKeeps ==
  ASSUME CallInv, NEW c \in Calls, Invoke(c)
  PROVE  CallInv'
<1>1. PICK name : name = toolOf[c]
  OBVIOUS
<1>2. /\ stage[c] = "waiting" /\ toolOf[c] \in Tools /\ name \in Names \ {NoName}
      /\ stage' = [stage EXCEPT ![c] = "running"]
      /\ thread' = [thread EXCEPT ![c] = IF toolOf[c] \in Threaded THEN "queued" ELSE "none"]
      /\ UNCHANGED <<toolOf, answer, categories>>
  BY <1>1, ExecutionAssumption DEF Invoke
<1>3. TallyType /\ categories \in [Codes -> Nat] /\ Metrics(name) \in Counters
  BY CallType, MetricsType
<1>4. /\ TallyType'
      /\ \A n : n # name => Metrics(n)' = Metrics(n)
      /\ Metrics(name)'.total = Metrics(name).total + 1
      /\ Metrics(name)'.succeeded = Metrics(name).succeeded + 0
      /\ Metrics(name)'.failed = Metrics(name).failed + 0
  BY <1>1, <1>2, <1>3, CountType DEF Invoke, Started
<1>5. OneCallMoves(c) /\ stage'[c] = "running"
  BY <1>2 DEF CallInv, ExecutionTypeOK, OneCallMoves, EndedStages
<1>6. ExecutionTypeOK'
  BY <1>2, <1>4 DEF CallInv, ExecutionTypeOK, TallyType, Counters
<1>7. ThreadOfCall' /\ NameOfCall'
  BY <1>2, <1>5 DEF CallInv, ExecutionTypeOK, ThreadOfCall, NameOfCall, OneCallMoves, InFlightStages
<1>8. CodesMove(c)
  BY <1>2, <1>3, <1>5 DEF CodesMove, Bit, EndedStages
<1>9. NameMoves(c, name)
  BY <1>2, <1>3, <1>4, <1>5 DEF NameMoves, Bit, Counters, InFlightStages, EndedStages
<1>10. IsFiniteSet(Begun') /\ MetricsAccount'
  BY <1>1, <1>4, <1>5, <1>8, <1>9, AccountKeeps
<1> QED
  BY <1>6, <1>7, <1>10 DEF CallInv

\* The deadline or the client's cancellation moves a call within its flight.
LEMMA CancelKeeps ==
  ASSUME CallInv, NEW c \in Calls, DeadlinePasses(c) \/ ClientCancels(c)
  PROVE  CallInv'
<1>1. PICK name : name = toolOf[c]
  OBVIOUS
<1>2. PICK s \in InFlightStages : stage' = [stage EXCEPT ![c] = s]
  BY DEF DeadlinePasses, ClientCancels, InFlightStages
<1>3. stage[c] \in InFlightStages /\ UNCHANGED <<toolOf, answer, thread, tally, categories>>
  BY DEF DeadlinePasses, ClientCancels, InFlightStages
<1>4. TallyType /\ categories \in [Codes -> Nat] /\ Metrics(name) \in Counters
  BY CallType, MetricsType
<1>5. OneCallMoves(c) /\ stage'[c] = s
  BY <1>2, <1>3 DEF CallInv, ExecutionTypeOK, OneCallMoves, EndedStages, InFlightStages
<1>6. TallyType' /\ \A n : Metrics(n)' = Metrics(n)
  BY <1>3, <1>4 DEF TallyType, Metrics
<1>7. ExecutionTypeOK'
  BY <1>2, <1>3 DEF CallInv, ExecutionTypeOK, InFlightStages
<1>8. ThreadOfCall' /\ NameOfCall'
  BY <1>3, <1>5 DEF CallInv, ThreadOfCall, NameOfCall, OneCallMoves, InFlightStages
<1>9. CodesMove(c)
  BY <1>3, <1>4, <1>5 DEF CodesMove, Bit, EndedStages, InFlightStages
<1>10. NameMoves(c, name)
  BY <1>3, <1>4, <1>5, <1>6 DEF NameMoves, Bit, Counters, EndedStages, InFlightStages
<1>11. IsFiniteSet(Begun') /\ MetricsAccount'
  BY <1>1, <1>5, <1>6, <1>9, <1>10, AccountKeeps
<1> QED
  BY <1>7, <1>8, <1>11 DEF CallInv

\* What is counted does not look at the threads.
LEMMA ThreadKeeps ==
  ASSUME CallInv, UNCHANGED <<toolOf, stage, answer, tally, categories>>, ThreadOfCall',
         thread' \in [Calls -> {"none", "queued", "running", "done"}]
  PROVE  CallInv'
<1>1. ExecutionTypeOK' /\ NameOfCall'
  BY DEF CallInv, ExecutionTypeOK, NameOfCall
<1>2. IsFiniteSet(Begun')
  BY DEF CallInv, Begun
<1>3. MetricsAccount'
  BY DEF CallInv, MetricsAccount, For, Ended, InFlight, Metrics
<1> QED
  BY <1>1, <1>2, <1>3 DEF CallInv

LEMMA WorkerKeeps ==
  ASSUME CallInv, NEW c \in Calls, WorkerTakes(c) \/ ThreadEnds(c)
  PROVE  CallInv'
<1>1. /\ UNCHANGED <<toolOf, stage, answer, tally, categories>>
      /\ thread[c] # "none"
      /\ thread' \in {[thread EXCEPT ![c] = "running"], [thread EXCEPT ![c] = "done"]}
  BY DEF WorkerTakes, ThreadEnds
<1>2. thread' \in [Calls -> {"none", "queued", "running", "done"}] /\ ThreadOfCall'
  BY <1>1 DEF CallInv, ExecutionTypeOK, ThreadOfCall
<1> QED
  BY <1>1, <1>2, ThreadKeeps

\* The handler's end, whatever it is, is one answer.
LEMMA HandlerEndedKeeps ==
  ASSUME CallInv, NEW c \in Calls, NEW end \in HandlerEnds, HandlerEnded(c, end)
  PROVE  CallInv'
<1>1. stage[c] \in InFlightStages /\ thread[c] # "queued" /\ UNCHANGED thread
  BY DEF HandlerEnded, InFlightStages
<1>2. CASE end = "output"
  BY <1>1, <1>2, SucceedsKeeps DEF HandlerEnded
<1>3. CASE end # "output"
  <2>1. PICK code \in Codes : Conclude(c, code) /\ Failed(c, code)
    BY <1>3 DEF HandlerEnded, HandlerEnds, Codes
  <2> QED
    BY <1>1, <2>1, FailsKeeps
<1> QED
  BY <1>2, <1>3

\* A cancellation, or an error in its place, is one failure; queued work is withdrawn.
LEMMA CancelledKeeps ==
  ASSUME CallInv, NEW c \in Calls, CancellationDelivered(c) \/ CleanUpFails(c)
  PROVE  CallInv'
<1>1. stage[c] \in InFlightStages
  BY DEF CancellationDelivered, CleanUpFails, InFlightStages
<1>2. CASE CancellationDelivered(c)
  <2>1. PICK code \in Codes : Conclude(c, code) /\ Failed(c, code)
    BY <1>2 DEF CancellationDelivered, Codes
  <2> QED
    BY <1>1, <1>2, <2>1, FailsKeeps DEF CancellationDelivered
<1>3. CASE CleanUpFails(c)
  <2>1. Conclude(c, "execution_failed") /\ Failed(c, "execution_failed") /\ UNCHANGED thread
        /\ "execution_failed" \in Codes
    BY <1>3 DEF CleanUpFails, Codes
  <2>2. thread[c] # "queued"
    BY <1>3 DEF CleanUpFails, CallInv, ThreadOfCall
  <2> QED
    BY <1>1, <2>1, <2>2, FailsKeeps
<1> QED
  BY <1>2, <1>3

LEMMA ServesKeeps ==
  ASSUME CallInv, NEW c \in Calls, Serves(c)
  PROVE  CallInv'
<1>1. CASE Arrive(c)
  <2>1. "invalid_request" \in Codes /\ "tool_not_found" \in Codes
    BY DEF Codes
  <2> QED
    BY <1>1, <2>1, RefuseKeeps, RefuseArgumentsKeeps, InvokeKeeps
       DEF Arrive, RefuseRequest, RefuseTool
<1>2. CASE Proceed(c)
  BY <1>2, WorkerKeeps, HandlerEndedKeeps, CancelKeeps, CancelledKeeps DEF Proceed
<1> QED
  BY <1>1, <1>2 DEF Serves

LEMMA CallsStay ==
  ASSUME CallInv, UNCHANGED executionVars
  PROVE  CallInv'
<1>1. UNCHANGED <<toolOf, stage, answer, thread, tally, categories>>
  BY DEF executionVars
<1>2. ThreadOfCall' /\ thread' \in [Calls -> {"none", "queued", "running", "done"}]
  BY <1>1 DEF CallInv, ThreadOfCall, ExecutionTypeOK
<1> QED
  BY <1>1, <1>2, ThreadKeeps

LEMMA CallInvNext == CallInv /\ [ServiceNext]_serviceVars => CallInv'
BY ServesKeeps, CallsStay DEF ServiceNext, serviceVars

\* Nothing has been counted before the first call.
LEMMA CallInvInit == ServiceInit => CallInv
<1> SUFFICES ASSUME ServiceInit PROVE CallInv
  OBVIOUS
<1> USE DEF ServiceInit, ExecutionInit
<1>1. tally = <<>> /\ DOMAIN tally = {}
  OBVIOUS
<1>2. ExecutionTypeOK
  BY <1>1, ExecutionAssumption DEF ExecutionTypeOK, Answers
<1>3. ThreadOfCall /\ NameOfCall
  BY DEF ThreadOfCall, NameOfCall
<1>4. Begun = {} /\ IsFiniteSet(Begun)
  BY FS_EmptySet DEF Begun
<1>5. ASSUME NEW name
      PROVE  /\ Metrics(name) = NoMetrics
             /\ Cardinality(RefusedOf(name)) = 0 /\ Cardinality(For(name, InFlight)) = 0
             /\ Cardinality(SucceededOf(name)) = 0
  <2>1. RefusedOf(name) = {} /\ For(name, InFlight) = {} /\ SucceededOf(name) = {}
    BY DEF RefusedOf, For, InFlight, SucceededOf, Ended
  <2> QED
    BY <1>1, <2>1, FS_EmptySet DEF Metrics
<1>6. ASSUME NEW code \in Codes
      PROVE  Cardinality(AnsweredWith(code)) = 0
  <2>1. AnsweredWith(code) = {}
    BY DEF AnsweredWith, Ended
  <2> QED
    BY <2>1, FS_EmptySet
<1>7. MetricsAccount
  BY <1>5, <1>6, AccountSets DEF NoMetrics
<1> QED
  BY <1>2, <1>3, <1>4, <1>7 DEF CallInv

LEMMA CallsHold == ServiceSpec => []CallInv
BY CallInvInit, CallInvNext, PTL DEF ServiceSpec

-----------------------------------------------------------------------------
(* Theorems                                                                 *)

\* Lifespan, tools, calls, threads and counters have the types of the model.
THEOREM ServiceTypeTheorem == ServiceSpec => []ServiceTypeOK
<1>1. LifecycleInv /\ CallInv => ServiceTypeOK
  BY DEF LifecycleInv, CallInv, ServiceTypeOK
<1> QED
  BY <1>1, LifecycleHolds, CallsHold, PTL

\* Every started call is counted once, as a success or a failure, and every
\* failed answer once in its category (ToolExecutor, InMemoryToolMetrics,
\* InMemoryOperationalMetrics).
THEOREM MetricsTheorem == ServiceSpec => []MetricsAccount
<1>1. CallInv => MetricsAccount
  BY DEF CallInv
<1> QED
  BY <1>1, CallsHold, PTL

\* A handler in the thread pool's queue never starts once its call has been
\* answered, and an answer never changes (ToolExecutor._invoke, asyncio.timeout).
THEOREM NoWorkTheorem == ServiceSpec => NoWorkAfterAnswer
<1> DEFINE Step == \A c \in Calls :
                     stage[c] \in {"refused", "answered"} =>
                       /\ answer'[c] = answer[c]
                       /\ thread'[c] = "running" => thread[c] = "running"
<1>1. ASSUME CallInv, [ServiceNext]_serviceVars, NEW c \in Calls, stage[c] \in {"refused", "answered"}
      PROVE  answer'[c] = answer[c] /\ (thread'[c] = "running" => thread[c] = "running")
  <2>1. thread[c] # "queued"
    BY <1>1 DEF CallInv, ThreadOfCall, InFlightStages
  <2>2. CASE UNCHANGED executionVars
    BY <2>2 DEF executionVars
  <2>3. ASSUME NEW d \in Calls, Serves(d)
        PROVE  answer'[c] = answer[c] /\ (thread'[c] = "running" => thread[c] = "running")
    <3> USE DEF CallInv, ExecutionTypeOK
    <3>1. CASE d # c
      BY <1>1, <2>3, <3>1 DEF Serves, Arrive, Proceed, RefuseRequest, RefuseTool, RefuseArguments, Refuse,
         Invoke, WorkerTakes, ThreadEnds, HandlerEnded, DeadlinePasses, ClientCancels,
         CancellationDelivered, CleanUpFails, Conclude, Withdrawn
    <3>2. CASE d = c
      <4>1. ThreadEnds(c)
        BY <1>1, <2>1, <2>3, <3>2 DEF Serves, Arrive, Proceed, RefuseRequest, RefuseTool, RefuseArguments,
           Refuse, Invoke, WorkerTakes, HandlerEnded, DeadlinePasses, ClientCancels,
           CancellationDelivered, CleanUpFails
      <4> QED
        BY <1>1, <4>1 DEF ThreadEnds
    <3> QED
      BY <3>1, <3>2
  <2> QED
    BY <1>1, <2>2, <2>3 DEF ServiceNext, serviceVars
<1>2. CallInv /\ [ServiceNext]_serviceVars => [Step]_executionVars
  BY <1>1
<1>3. ServiceSpec => [][Step]_executionVars
  BY <1>2, CallsHold, PTL DEF ServiceSpec
<1> QED
  BY <1>3 DEF NoWorkAfterAnswer

\* Calls are in flight only at the lifespan's yield and while the session ends.
CallsInService == InFlight # {} => app \in {"serving", "leaving"}

LEMMA CallsInServiceNext ==
  ASSUME CallInv, CallsInService, [ServiceNext]_serviceVars
  PROVE  CallsInService'
<1>1. ASSUME UNCHANGED executionVars
      PROVE  InFlight' = InFlight
  BY <1>1 DEF executionVars, InFlight
<1>2. ASSUME NEW c \in Calls, Proceed(c)
      PROVE  InFlight' \subseteq InFlight
  <2> USE DEF CallInv, ExecutionTypeOK, InFlight
  <2>1. CASE UNCHANGED stage
    BY <2>1
  <2>2. ASSUME NEW s, stage' = [stage EXCEPT ![c] = s], stage[c] \in InFlightStages
        PROVE  InFlight' \subseteq InFlight
    BY <2>2 DEF InFlightStages
  <2>3. CASE stage' # stage
    <3>1. PICK s : stage' = [stage EXCEPT ![c] = s] /\ stage[c] \in InFlightStages
      BY <1>2, <2>3 DEF Proceed, WorkerTakes, ThreadEnds, HandlerEnded, DeadlinePasses, ClientCancels,
         CancellationDelivered, CleanUpFails, Conclude, InFlightStages
    <3> QED
      BY <2>2, <3>1
  <2> QED
    BY <2>1, <2>3
<1>3. CASE Lives /\ UNCHANGED executionVars
  <2>1. ASSUME InFlight # {}
        PROVE  app' \in {"serving", "leaving"}
    <3>1. app \in {"serving", "leaving"}
      BY <2>1 DEF CallsInService
    <3>2. CASE Health
      BY <3>1, <3>2 DEF Health, ProbeTools, ToolsProbed, ProbeCancelled, ToolProbed
    <3>3. CASE BeginStopping
      BY <3>3 DEF BeginStopping
    <3>4. ~ValidateStartup /\ ~FinishClosing
      BY <3>1 DEF ValidateStartup, FinishClosing
    <3>5. ASSUME NEW outcome \in AnyOutcome, Lifespan(outcome), app = "leaving" => InFlight = {}
          PROVE  FALSE
      BY <2>1, <3>1, <3>5 DEF Lifespan, InitializeTool, StartSession, InitializeRouter, EndSession,
         CloseRouter, CloseTool
    <3> QED
      BY <1>3, <3>2, <3>3, <3>4, <3>5 DEF Lives
  <2> QED
    BY <1>1, <1>3, <2>1 DEF CallsInService
<1>4. ASSUME NEW c \in Calls, Serves(c), UNCHANGED lifecycleVars
      PROVE  CallsInService'
  <2>1. app' = app
    BY <1>4 DEF lifecycleVars
  <2> QED
    BY <1>2, <1>4, <2>1 DEF Serves, CallsInService
<1>5. CASE UNCHANGED serviceVars
  BY <1>1, <1>5 DEF serviceVars, lifecycleVars, CallsInService
<1> QED
  BY <1>3, <1>4, <1>5 DEF ServiceNext

\* While a call is in flight every tool is open and the router has not begun to
\* close (the MCP session manager's task group inside main.lifespan).
THEOREM CallsEndTheorem == ServiceSpec => []CallsEndBeforeTools
<1>1. ServiceInit => CallsInService
  BY DEF ServiceInit, ExecutionInit, CallsInService, InFlight
<1>2. ServiceSpec => []CallsInService
  BY <1>1, CallsInServiceNext, CallsHold, PTL DEF ServiceSpec
<1>3. LifecycleInv /\ CallsInService => CallsEndBeforeTools
  <2> SUFFICES ASSUME LifecycleInv, CallsInService, InFlight # {}
               PROVE  /\ app \in {"serving", "leaving"}
                      /\ \A t \in ManagedTools : resource[t] = "open"
    BY DEF CallsEndBeforeTools
  <2>1. app \in {"serving", "leaving"}
    BY DEF CallsInService
  <2>2. \A i \in 1..ToolCount : resource[ToolOrder[i]] = "open"
    BY <2>1, OrderType DEF LifecycleInv, StandingTools, Standing, OpenedSoFar
  <2> QED
    BY <2>1, <2>2, OrderType
<1> QED
  BY <1>2, <1>3, LifecycleHolds, PTL
=============================================================================
