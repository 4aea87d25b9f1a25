--------------------------- MODULE ServiceLifecycle ---------------------------
(* The life of one server process: the FastAPI lifespan of main.py, the       *)
(* ToolManager that opens the managed tools in order and closes them in       *)
(* reverse, the health each tool keeps of itself, the health the manager      *)
(* caches, and the readiness the operations service answers from them.        *)
(*                                                                            *)
(* An awaited step ends ok, with an Exception, or interrupted (a              *)
(* BaseException: cancellation, KeyboardInterrupt).  A tool in Probing awaits *)
(* its providers inside health_check and then writes its own state; the       *)
(* others answer from memory.                                                 *)
EXTENDS Naturals, Sequences, FiniteSets, SequencesExt

CONSTANTS ToolOrder,        \* the managed tools in registration order
          Registered,       \* the names in the ToolRegistry
          Probing,          \* tools whose health check awaits (StockPriceTool)
          RequireProvider,  \* readiness_require_provider
          RequireHealthy,   \* readiness_require_all_tools_healthy
          Interrupts,       \* bound: interrupted steps
          Probes            \* bound: calls of ToolManager.statuses

ManagedTools == Range(ToolOrder)

ASSUME LifecycleAssumption ==
  /\ ToolOrder \in Seq(ManagedTools) /\ IsInjective(ToolOrder)
  /\ Probing \subseteq ManagedTools
  /\ RequireProvider \in BOOLEAN /\ RequireHealthy \in BOOLEAN
  /\ Interrupts \in Nat /\ Probes \in Nat

VARIABLES
  app,         \* where the lifespan is
  lifecycle,   \* OperationsService._lifecycle
  failed,      \* the lifespan is unwinding with an exception
  opened,      \* ToolManager._initialized
  closing,     \* tools the running ToolManager.close has still to visit
  failures,    \* that close has collected a failure
  own,         \* [tool -> the state the tool keeps of itself]
  resource,    \* [tool -> its clients: none, open, closed, or a close that failed]
  cached,      \* [tool -> ToolManager._health_cache]
  router,      \* the flag of the provider router: new, partial, open or closed; its
               \* close goes on over errors of its providers and then says closed
  probing,     \* tools whose health_check is awaiting, in the running statuses()
  seen,        \* the healths gathered so far by the running statuses()
  interrupts, probes  \* the bounded counters

manager == <<opened, closing, failures, own, resource, cached>>
health  == <<probing, seen, probes>>
lifecycleVars == <<app, lifecycle, failed, manager, router, health, interrupts>>

Probed     == {"healthy", "degraded", "unavailable"}
ToolHealth == Probed \cup {"uninitialized", "closed"}

TypeOK ==
  /\ app \in {"validate", "tools", "rollback", "router", "session", "serving",
              "leaving", "close_router", "close_tools", "ended"}
  /\ lifecycle \in {"starting", "ready", "stopping", "stopped", "failed"}
  /\ failed \in BOOLEAN /\ failures \in BOOLEAN 
  /\ opened \in Seq(ManagedTools) /\ closing \in Seq(ManagedTools)
  /\ own \in [ManagedTools -> ToolHealth] /\ cached \in [ManagedTools -> ToolHealth]
  /\ resource \in [ManagedTools -> {"none", "open", "closed", "failed"}]
  /\ router \in {"new", "partial", "open", "closed"}
  /\ probing \subseteq Probing /\ DOMAIN seen \subseteq ManagedTools
  /\ interrupts \in 0..Interrupts /\ probes \in 0..Probes

(* ------------------------------------------------------------------------ *)
(* What the process says of itself.                                           *)

IsInitialized == Len(opened) = Len(ToolOrder)

\* OperationsService.readiness: every check of the list holds.  Whether the
\* router has an active provider is for ProviderRouter to say.
Ready(activeProvider) ==
  /\ lifecycle = "ready"
  /\ Registered # {} /\ Cardinality(Registered) = Len(ToolOrder)
  /\ IsInitialized
  /\ router = "open"
  /\ RequireProvider => activeProvider
  /\ RequireHealthy => \A t \in ManagedTools : cached[t] = "healthy"

Init ==
  /\ app = "validate" /\ lifecycle = "starting" /\ failed = FALSE
  /\ opened = <<>> /\ closing = <<>> /\ failures = FALSE
  /\ own = [t \in ManagedTools |-> "uninitialized"]
  /\ resource = [t \in ManagedTools |-> "none"]
  /\ cached = [t \in ManagedTools |-> "uninitialized"]
  /\ router = "new"
  /\ probing = {} /\ seen = <<>> /\ probes = 0
  /\ interrupts = 0

\* An awaited step ends in one of the outcomes the caller allows it.
EndsWith(outcome, allowed) ==
  /\ outcome \in allowed
  /\ outcome = "interrupt" => interrupts < Interrupts
  /\ interrupts' = IF outcome = "interrupt" THEN interrupts + 1 ELSE interrupts

AnyOutcome == {"ok", "error", "interrupt"}

\* The handlers of the lifespan: record the failure, then close the tools.
Unwind ==
  /\ lifecycle' = "failed" /\ failed' = TRUE
  /\ app' = "close_tools"

(* ------------------------------------------------------------------------ *)
(* Startup.                                                                   *)

\* validate_startup.  Its other check, of the version, cannot fail: the package's
\* __version__ is a literal.
ValidateStartup ==
  /\ app = "validate"
  /\ IF Len(ToolOrder) > 0 /\ Cardinality(Registered) = Len(ToolOrder)
     THEN app' = "tools" /\ UNCHANGED <<lifecycle, failed>>
     ELSE Unwind
  /\ UNCHANGED <<manager, router, health, interrupts>>

\* One turn of ToolManager.initialize; a failure starts its rollback.
InitializeTool(outcome) ==
  LET tool == ToolOrder[Len(opened) + 1] IN
  /\ app = "tools"
  /\ EndsWith(outcome, AnyOutcome)
  /\ IF outcome = "ok"
     THEN /\ opened' = Append(opened, tool)
          /\ own' = [own EXCEPT ![tool] = "healthy"]
          /\ resource' = [resource EXCEPT ![tool] = "open"]
          /\ cached' = [cached EXCEPT ![tool] = "healthy"]
          /\ app' = IF Len(opened') = Len(ToolOrder) THEN "router" ELSE "tools"
          /\ UNCHANGED closing
     ELSE /\ app' = "rollback" /\ closing' = Reverse(opened)
          /\ UNCHANGED <<opened, own, resource, cached>>
  /\ UNCHANGED <<lifecycle, failed, failures, router, health>>

\* ProviderRouter.initialize turns every Exception of a provider into a failed
\* status; interrupted, it leaves the providers it has opened behind, and the
\* lifespan is not yet inside the block that closes the router.
InitializeRouter(outcome) ==
  /\ app = "router"
  /\ EndsWith(outcome, {"ok", "interrupt"})
  /\ IF outcome = "ok"
     THEN router' = "open" /\ app' = "session" /\ UNCHANGED <<lifecycle, failed, closing>>
     ELSE router' = "partial" /\ Unwind /\ closing' = Reverse(opened)
  /\ UNCHANGED <<opened, failures, own, resource, cached, health>>

\* The MCP session manager starts and the service is marked ready.
StartSession(outcome) ==
  /\ app = "session"
  /\ EndsWith(outcome, AnyOutcome)
  /\ IF outcome = "ok"
     THEN app' = "serving" /\ lifecycle' = "ready" /\ UNCHANGED failed
     ELSE app' = "close_router" /\ failed' = TRUE /\ UNCHANGED lifecycle
  /\ UNCHANGED <<manager, router, health>>

(* ------------------------------------------------------------------------ *)
(* Shutdown.                                                                  *)

\* Mutant: readiness does not fail before the resources begin to close.
BeginStoppingSilently ==
  /\ app = "serving" /\ app' = "leaving"
  /\ UNCHANGED <<lifecycle, failed, manager, router, health, interrupts>>

BeginStopping ==
  /\ app = "serving"
  /\ app' = "leaving" /\ lifecycle' = "stopping"
  /\ UNCHANGED <<failed, manager, router, health, interrupts>>

\* The session manager's context exits: its task group has ended every call.
EndSession(outcome) ==
  /\ app = "leaving"
  /\ EndsWith(outcome, AnyOutcome)
  /\ app' = "close_router"
  /\ failed' = (outcome # "ok")
  /\ UNCHANGED <<lifecycle, manager, router, health>>

\* Mutant: the tools are closed in the order they were opened.
CloseRouterForward(outcome) ==
  /\ app = "close_router"
  /\ EndsWith(outcome, {"ok"})
  /\ router' = "closed" /\ app' = "close_tools" /\ closing' = opened
  /\ UNCHANGED <<lifecycle, failed, opened, failures, own, resource, cached, health>>

\* ProviderRouter.close swallows the Exceptions of the providers.
CloseRouter(outcome) ==
  /\ app = "close_router"
  /\ EndsWith(outcome, {"ok", "interrupt"})
  /\ IF outcome = "ok" THEN router' = "closed" ELSE UNCHANGED router
  /\ IF failed \/ outcome # "ok" THEN Unwind
     ELSE app' = "close_tools" /\ UNCHANGED <<lifecycle, failed>>
  /\ closing' = Reverse(opened)
  /\ UNCHANGED <<opened, failures, own, resource, cached, health>>

\* Mutant: the first failing close ends the loop.
CloseToolOrGiveUp(outcome) ==
  LET tool == Head(closing) IN
  /\ app \in {"rollback", "close_tools"} /\ closing # <<>>
  /\ EndsWith(outcome, {"ok", "error"})
  /\ cached' = [cached EXCEPT ![tool] = "closed"]
  /\ resource' = [resource EXCEPT ![tool] = IF outcome = "ok" THEN "closed" ELSE "failed"]
  /\ closing' = IF outcome = "ok" THEN Tail(closing) ELSE <<>>
  /\ failures' = (outcome = "error")
  /\ UNCHANGED <<app, lifecycle, failed, opened, own, router, health>>

\* One turn of ToolManager.close.  An Exception is collected, the health cache
\* says closed in any case, and an interrupt leaves the loop and keeps _initialized.
CloseTool(outcome) ==
  LET tool == Head(closing) IN
  /\ app \in {"rollback", "close_tools"} /\ closing # <<>>
  /\ EndsWith(outcome, AnyOutcome)
  /\ cached' = [cached EXCEPT ![tool] = "closed"]
  /\ IF outcome = "ok"
     THEN own' = [own EXCEPT ![tool] = "closed"] /\ resource' = [resource EXCEPT ![tool] = "closed"]
     ELSE UNCHANGED own /\ resource' = [resource EXCEPT ![tool] = "failed"]
  /\ failures' = (failures \/ outcome = "error")
  /\ IF outcome # "interrupt"
     THEN closing' = Tail(closing) /\ UNCHANGED <<app, lifecycle, failed>>
     ELSE IF app = "rollback"
     THEN Unwind /\ closing' = Reverse(opened)
     ELSE /\ app' = "ended" /\ lifecycle' = "failed"
          /\ closing' = Tail(closing) /\ UNCHANGED failed
  /\ UNCHANGED <<opened, router, health>>

\* Mutants: failed closes are forgotten; the rollback swallows the failure and the
\* start-up is tried again.
FinishClosingAnyway ==
  /\ app \in {"rollback", "close_tools"} /\ closing = <<>>
  /\ opened' = <<>> /\ failures' = FALSE
  /\ IF app = "rollback" THEN Unwind
     ELSE app' = "ended" /\ lifecycle' = (IF failed THEN lifecycle ELSE "stopped") /\ UNCHANGED failed
  /\ UNCHANGED <<closing, own, resource, cached, router, health, interrupts>>
FinishClosingAgain ==
  /\ app \in {"rollback", "close_tools"} /\ closing = <<>>
  /\ opened' = <<>> /\ failures' = FALSE
  /\ IF app = "rollback" THEN app' = "tools" /\ UNCHANGED <<lifecycle, failed>>
     ELSE app' = "ended" /\ lifecycle' = (IF failures THEN "failed" ELSE "stopped") /\ UNCHANGED failed
  /\ UNCHANGED <<closing, own, resource, cached, router, health, interrupts>>

\* The loop is over: what the rollback and what the lifespan do next.
FinishClosing ==
  /\ app \in {"rollback", "close_tools"} /\ closing = <<>>
  /\ opened' = <<>> /\ failures' = FALSE
  /\ IF app = "rollback" THEN Unwind
     ELSE /\ app' = "ended"
          /\ lifecycle' = IF failures THEN "failed"
                          ELSE IF failed THEN lifecycle ELSE "stopped"
          /\ UNCHANGED failed
  /\ UNCHANGED <<closing, own, resource, cached, router, health, interrupts>>

(* ------------------------------------------------------------------------ *)
(* Health: ToolManager.statuses probes every tool at once.                    *)

\* A probing tool that is not open, and every other tool, answers from memory.
ProbeTools ==
  /\ probing = {} /\ seen = <<>> /\ probes < Probes
  /\ LET awaits == {t \in Probing : own[t] \in Probed} IN
     /\ probing' = awaits
     /\ seen' = [t \in ManagedTools \ awaits |-> own[t]]
  /\ probes' = probes + 1
  /\ UNCHANGED <<app, lifecycle, failed, manager, router, interrupts>>

\* StockPriceTool.health_check writes its state after the await, whatever
\* has become of the tool meanwhile.
ToolProbed(tool, state) ==
  /\ tool \in probing /\ state \in Probed
  /\ own' = [own EXCEPT ![tool] = state]
  /\ seen' = [t \in DOMAIN seen \cup {tool} |-> IF t = tool THEN state ELSE seen[t]]
  /\ probing' = probing \ {tool}
  /\ UNCHANGED <<app, lifecycle, failed, opened, closing, failures, resource, cached,
                 router, probes, interrupts>>

\* The gathered healths replace the cached ones.
ToolsProbed ==
  /\ probing = {} /\ seen # <<>>
  /\ cached' = [t \in ManagedTools |-> IF t \in DOMAIN seen THEN seen[t] ELSE cached[t]]
  /\ seen' = <<>>
  /\ UNCHANGED <<app, lifecycle, failed, opened, closing, failures, own, resource,
                 router, probing, probes, interrupts>>

\* The caller of statuses is cancelled: nothing is cached.
ProbeCancelled ==
  /\ seen # <<>> \/ probing # {}
  /\ probing' = {} /\ seen' = <<>>
  /\ UNCHANGED <<app, lifecycle, failed, manager, router, probes, interrupts>>

(* ------------------------------------------------------------------------ *)

Lifespan(outcome) ==
  \/ InitializeTool(outcome) \/ StartSession(outcome)
  \/ InitializeRouter(outcome)
  \/ EndSession(outcome) \/ CloseRouter(outcome) \/ CloseTool(outcome)

Health ==
  \/ ProbeTools \/ ToolsProbed \/ ProbeCancelled
  \/ \E t \in Probing, h \in Probed : ToolProbed(t, h)

(* ------------------------------------------------------------------------ *)
(* Properties.                                                                *)

\* GET /ready answers 200 only while the lifespan is at its yield, every
\* tool's clients are open and the router takes requests.
ReadyIsServing ==
  (\E activeProvider \in BOOLEAN : Ready(activeProvider)) =>
    /\ app = "serving" /\ router = "open"
    /\ \A t \in ManagedTools : resource[t] = "open"

\* After the lifespan no tool is left open unless an interrupt ended the last
\* close before it reached that tool, and only an interrupt leaves a router
\* open: a failed startup is rolled back, and what the rollback missed is closed
\* by the lifespan's own close.
NothingLeftOpen ==
  app = "ended" =>
    /\ \A t \in ManagedTools : resource[t] = "open" => t \in Range(closing)
    /\ closing # <<>> \/ router \in {"partial", "open"} => interrupts > 0

\* "stopped" is recorded only for a shutdown in which every resource was closed.
StoppedMeansReleased ==
  lifecycle = "stopped" =>
    router = "closed" /\ \A t \in ManagedTools : resource[t] = "closed"

\* A tool is closed only after every tool that was opened after it has had its
\* turn, so no tool outlives one it may depend on.
ClosedInReverse ==
  [][\A i, j \in DOMAIN ToolOrder :
       i < j /\ resource[ToolOrder[i]] = "open" /\ resource'[ToolOrder[i]] # "open"
         => resource'[ToolOrder[j]] # "open"]_lifecycleVars
=============================================================================
