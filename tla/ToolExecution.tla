---------------------------- MODULE ToolExecution ----------------------------
(* One MCP tool call from the transport to its answer: the adapter that calls *)
(* ToolExecutor.execute, the validators, the deadline around the handler, the *)
(* worker threads of synchronous handlers, and the observers that count every  *)
(* outcome (InMemoryToolMetrics, InMemoryOperationalMetrics).       *)
(*                                                                            *)
(* asyncio.timeout cancels the task; the cancellation is delivered at a later *)
(* turn of the event loop, so a client's cancellation, a handler's answer and *)
(* an error in the handler's own clean-up can all race with the deadline.     *)
EXTENDS Naturals, Sequences, FiniteSets

CONSTANTS Calls,        \* the tool calls
          Tools,        \* registered names
          Names,        \* names a call may carry; NoName is one that is not valid
          NoName,
          Requests,     \* the assignments of names to calls that are considered
          Threaded,     \* tools with a synchronous handler
          Workers       \* threads of the default executor

ASSUME ExecutionAssumption ==
  /\ Tools \subseteq Names /\ NoName \in Names \ Tools
  /\ Requests \subseteq [Calls -> Names] /\ Threaded \subseteq Tools
  /\ Workers \in Nat \ {0}

VARIABLES
  toolOf,      \* [call -> the name it carries]
  stage,       \* [call -> where execute is]
  answer,      \* [call -> how it was answered]
  thread,      \* [call -> its handler's thread: none, queued, running or done]
  tally,       \* [name -> the tool metrics kept for it]
  categories   \* [error code -> failures counted by the operational metrics]

executionVars == <<toolOf, stage, answer, thread, tally, categories>>

\* The codes the executor itself gives; a tool error carries the tool's own code.
Codes == {"invalid_request", "tool_not_found", "execution_timeout",
          "execution_cancelled", "execution_failed", "invalid_response", "tool_error"}
Answers == {"none", "result"} \cup Codes

\* What a handler can end with.  A TimeoutError of its own inside the deadline
\* is taken for the deadline.
HandlerEnds == {"output", "wrong_output", "tool_error", "timeout_error", "exception"}

NoMetrics == [total |-> 0, succeeded |-> 0, failed |-> 0]

ExecutionTypeOK ==
  /\ toolOf \in Requests
  /\ stage \in [Calls -> {"waiting", "running", "expiring", "cancelling", "both",
                          "refused", "answered"}]
  /\ answer \in [Calls -> Answers]
  /\ thread \in [Calls -> {"none", "queued", "running", "done"}]
  /\ DOMAIN tally \subseteq Names \ {NoName}
  /\ \A n \in DOMAIN tally : tally[n] \in [total : Nat, succeeded : Nat, failed : Nat]
  /\ categories \in [Codes -> Nat]

ExecutionInit ==
  /\ stage = [c \in Calls |-> "waiting"]
  /\ answer = [c \in Calls |-> "none"]
  /\ thread = [c \in Calls |-> "none"]
  /\ tally = <<>>
  /\ categories = [k \in Codes |-> 0]
  /\ toolOf \in Requests

(* ------------------------------------------------------------------------ *)
(* The observers.                                                             *)

Metrics(name) == IF name \in DOMAIN tally THEN tally[name] ELSE NoMetrics

Count(name, field, entry) ==
  [n \in DOMAIN tally \cup {name} |->
     IF n = name THEN [entry EXCEPT ![field] = @ + 1] ELSE tally[n]]

\* execute logs nothing of a call before the registry knows its tool.
Started(c) ==
  tally' = Count(toolOf[c], "total", Metrics(toolOf[c]))

Succeeded(c) ==
  /\ tally' = Count(toolOf[c], "succeeded", Metrics(toolOf[c]))
  /\ UNCHANGED categories

\* Mutant: a nameless call gets metrics of its own.
FailedNameless(c, code) ==
  /\ tally' = Count(toolOf[c], "failed", Metrics(toolOf[c]))
  /\ categories' = [categories EXCEPT ![code] = @ + 1]

\* A call without a valid name reaches only the operational metrics.
Failed(c, code) ==
  /\ tally' = IF toolOf[c] = NoName THEN tally
              ELSE Count(toolOf[c], "failed", Metrics(toolOf[c]))
  /\ categories' = [categories EXCEPT ![code] = @ + 1]

(* ------------------------------------------------------------------------ *)
(* The call.                                                                  *)

Conclude(c, code) ==
  /\ answer' = [answer EXCEPT ![c] = code]
  /\ stage' = [stage EXCEPT ![c] = "answered"]
  /\ UNCHANGED toolOf

Refuse(c, code) ==
  /\ stage[c] = "waiting"
  /\ answer' = [answer EXCEPT ![c] = code]
  /\ stage' = [stage EXCEPT ![c] = "refused"]
  /\ Failed(c, code)
  /\ UNCHANGED <<toolOf, thread>>

\* RequestValidator.validate_request: JSON values, size, contract.
RefuseRequest(c) == Refuse(c, "invalid_request")

\* ToolRegistry.get knows no such tool.
RefuseTool(c) == toolOf[c] \notin Tools \cup {NoName} /\ Refuse(c, "tool_not_found")

\* Mutant: the arguments are validated before the start is logged.
RefuseArgumentsFirst(c) ==
  /\ stage[c] = "waiting" /\ toolOf[c] \in Tools
  /\ Conclude(c, "invalid_request") /\ Failed(c, "invalid_request")
  /\ UNCHANGED thread

\* The start is logged before the arguments are validated; both events happen
\* in this step.
RefuseArguments(c) ==
  LET begun == Count(toolOf[c], "total", Metrics(toolOf[c])) IN
  /\ stage[c] = "waiting" /\ toolOf[c] \in Tools
  /\ tally' = [begun EXCEPT ![toolOf[c]].failed = @ + 1]
  /\ categories' = [categories EXCEPT !["invalid_request"] = @ + 1]
  /\ Conclude(c, "invalid_request")
  /\ UNCHANGED thread

\* _invoke: await a coroutine handler, or hand a plain one to a thread.
Invoke(c) ==
  /\ stage[c] = "waiting" /\ toolOf[c] \in Tools
  /\ stage' = [stage EXCEPT ![c] = "running"]
  /\ thread' = [thread EXCEPT ![c] = IF toolOf[c] \in Threaded THEN "queued" ELSE "none"]
  /\ Started(c)
  /\ UNCHANGED <<toolOf, answer, categories>>

Busy == {c \in Calls : thread[c] = "running"}

\* A worker takes a queued handler, unless its call has been answered: the
\* cancelled future withdraws the work that no thread has begun.
WorkerTakes(c) ==
  /\ thread[c] = "queued" /\ Cardinality(Busy) < Workers
  /\ thread' = [thread EXCEPT ![c] = "running"]
  /\ UNCHANGED <<toolOf, stage, answer, tally, categories>>

\* The handler ends; its result is awaited, or nobody waits for it any more.
ThreadEnds(c) ==
  /\ thread[c] = "running"
  /\ thread' = [thread EXCEPT ![c] = "done"]
  /\ UNCHANGED <<toolOf, stage, answer, tally, categories>>

\* The awaited handler has ended: the response validator and the answer.
HandlerEnded(c, end) ==
  /\ stage[c] = "running" /\ thread[c] \in {"none", "done"}
  /\ IF end = "output" THEN Conclude(c, "result") /\ Succeeded(c)
     ELSE LET code == CASE end = "wrong_output"  -> "invalid_response"
                        [] end = "tool_error"    -> "tool_error"
                        [] end = "timeout_error" -> "execution_timeout"
                        [] end = "exception"     -> "execution_failed"
          IN Conclude(c, code) /\ Failed(c, code)
  /\ UNCHANGED thread

\* Mutant: the deadline runs from the moment a worker takes the handler.
DeadlineOfWorker(c) ==
  /\ stage[c] \in {"running", "cancelling"} /\ thread[c] # "queued"
  /\ stage' = [stage EXCEPT ![c] = IF stage[c] = "running" THEN "expiring" ELSE "both"]
  /\ UNCHANGED <<toolOf, answer, thread, tally, categories>>

\* The deadline passes, or the client's cancellation arrives: the task is
\* cancelled, once or by both.
DeadlinePasses(c) ==
  /\ stage[c] \in {"running", "cancelling"}
  /\ stage' = [stage EXCEPT ![c] = IF stage[c] = "running" THEN "expiring" ELSE "both"]
  /\ UNCHANGED <<toolOf, answer, thread, tally, categories>>

ClientCancels(c) ==
  /\ stage[c] \in {"running", "expiring"}
  /\ stage' = [stage EXCEPT ![c] = IF stage[c] = "running" THEN "cancelling" ELSE "both"]
  /\ UNCHANGED <<toolOf, answer, thread, tally, categories>>

\* Mutant: work that was queued stays queued.
StaysQueued(c) == thread

Withdrawn(c) ==
  IF thread[c] = "queued" THEN [thread EXCEPT ![c] = "none"] ELSE thread

\* The cancellation reaches the handler.  asyncio.timeout turns it into a
\* TimeoutError only when the deadline alone asked for it; the client's is
\* logged and re-raised.
CancellationDelivered(c) ==
  LET code == IF stage[c] = "expiring" THEN "execution_timeout" ELSE "execution_cancelled" IN
  /\ stage[c] \in {"expiring", "cancelling", "both"}
  /\ Conclude(c, code) /\ Failed(c, code)
  /\ thread' = Withdrawn(c)

\* The handler's clean-up raises instead: the error replaces the cancellation,
\* and the call is answered although its client has cancelled it.
CleanUpFails(c) ==
  /\ stage[c] \in {"expiring", "cancelling", "both"} /\ toolOf[c] \notin Threaded
  /\ Conclude(c, "execution_failed") /\ Failed(c, "execution_failed")
  /\ UNCHANGED thread

(* ------------------------------------------------------------------------ *)

Arrive(c) == RefuseRequest(c) \/ RefuseTool(c) \/ RefuseArguments(c) \/ Invoke(c)

Proceed(c) ==
  \/ WorkerTakes(c) \/ ThreadEnds(c)
  \/ \E end \in HandlerEnds : HandlerEnded(c, end)
  \/ DeadlinePasses(c) \/ ClientCancels(c)
  \/ CancellationDelivered(c) \/ CleanUpFails(c)

\* The event loop runs its timers and delivers what it has scheduled; nothing
\* makes a handler or a thread ever end.
ExecutionFairness ==
  \A c \in Calls : /\ WF_executionVars(DeadlinePasses(c))
                   /\ WF_executionVars(CancellationDelivered(c))

(* ------------------------------------------------------------------------ *)
(* Properties.                                                                *)

InFlight == {c \in Calls : stage[c] \in {"running", "expiring", "cancelling", "both"}}
Ended    == {c \in Calls : stage[c] \in {"refused", "answered"}}
For(name, calls) == {c \in calls : toolOf[c] = name}

\* Whatever the race between handler, deadline and client, every call that was
\* started is counted exactly once as a success or a failure, and a request
\* refused before its start is a failure without an execution.  The operational
\* counters hold one entry for each failed answer, of its category, the calls
\* that no tool metric knows included.
MetricsAccount ==
  /\ \A name \in Names \ {NoName} :
       LET refused == Cardinality({c \in For(name, Calls) : stage[c] = "refused"})
           counted == Metrics(name)
       IN /\ counted.total + refused
               = counted.succeeded + counted.failed + Cardinality(For(name, InFlight))
          /\ counted.succeeded = Cardinality({c \in For(name, Ended) : answer[c] = "result"})
  /\ \A code \in Codes : categories[code] = Cardinality({c \in Ended : answer[c] = code})

\* A handler in the queue of the thread pool never starts once its call has
\* been answered, and a late result changes no answer.
NoWorkAfterAnswer ==
  [][\A c \in Calls :
       stage[c] \in {"refused", "answered"} =>
         /\ answer'[c] = answer[c]
         /\ thread'[c] = "running" => thread[c] = "running"]_executionVars

\* Every started call is answered, even when its handler never ends and every
\* worker is busy with a handler whose call has timed out.
EveryCallAnswered ==
  \A c \in Calls : stage[c] = "running" ~> stage[c] = "answered"
=============================================================================
