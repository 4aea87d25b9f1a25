------------------------------- MODULE Service -------------------------------
(* The running process: the lifespan, and the tool calls that arrive while it *)
(* is at its yield.  The two share nothing but the order in which they may    *)
(* happen: uvicorn serves requests between startup and shutdown, and the MCP  *)
(* session manager's context does not exit before its task group has          *)
(* cancelled every call and each of them has ended.                           *)
EXTENDS ServiceLifecycle, ToolExecution

serviceVars == <<lifecycleVars, executionVars>>

ServiceTypeOK == TypeOK /\ ExecutionTypeOK

ServiceInit == Init /\ ExecutionInit

\* Mutant: the session's context exits without waiting for its calls.
LivesRegardless ==
  \/ ValidateStartup \/ BeginStopping \/ FinishClosing \/ Health
  \/ \E outcome \in AnyOutcome : Lifespan(outcome)

Lives ==
  \/ ValidateStartup \/ BeginStopping \/ FinishClosing \/ Health
  \/ \E outcome \in AnyOutcome :
       /\ Lifespan(outcome)
       /\ app = "leaving" => InFlight = {}

Serves(c) == (app = "serving" /\ Arrive(c)) \/ Proceed(c)

ServiceNext ==
  \/ Lives /\ UNCHANGED executionVars
  \/ \E c \in Calls : Serves(c) /\ UNCHANGED lifecycleVars

\* The steps of the lifespan end, and the exiting session cancels its calls.
ServiceFairness ==
  /\ WF_serviceVars(\E outcome \in AnyOutcome : Lifespan(outcome) /\ InFlight = {}
                                                /\ UNCHANGED executionVars)
  /\ WF_serviceVars((ValidateStartup \/ FinishClosing) /\ UNCHANGED executionVars)
  /\ \A c \in Calls :
       /\ WF_serviceVars(DeadlinePasses(c) /\ UNCHANGED lifecycleVars)
       /\ WF_serviceVars(CancellationDelivered(c) /\ UNCHANGED lifecycleVars)
       /\ WF_serviceVars(app = "leaving" /\ ClientCancels(c) /\ UNCHANGED lifecycleVars)

ServiceSpec == ServiceInit /\ [][ServiceNext]_serviceVars /\ ServiceFairness

(* ------------------------------------------------------------------------ *)

\* No tool is closed under a call: while a call is in flight every tool is
\* open, and no call is in flight once the router has begun to close.
CallsEndBeforeTools ==
  InFlight # {} => /\ app \in {"serving", "leaving"}
                   /\ \A t \in ManagedTools : resource[t] = "open"

\* A process that has begun to start or to stop gets there: it serves or ends,
\* and every in-flight call delays its end only until that call's deadline.
LifespanEnds ==
  /\ app = "validate" ~> app \in {"serving", "ended"}
  /\ app = "leaving" ~> app = "ended"
=============================================================================
