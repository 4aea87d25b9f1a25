--------------------------- MODULE LifecycleProofs ---------------------------
(***************************************************************************)
(* What holds of the life of the process for every list of managed tools,  *)
(* every number of calls and every interleaving of the lifespan, the health*)
(* probes and the calls.                                                   *)
(***************************************************************************)
EXTENDS Service, SequenceTheorems, TLAPS

-----------------------------------------------------------------------------
(* The inductive invariant                                                  *)

ToolCount == Len(ToolOrder)

\* The tools that were opened are the first of the order.
OpenedInOrder ==
  /\ Len(opened) <= ToolCount
  /\ \A i \in 1..Len(opened) : opened[i] = ToolOrder[i]

\* A running close has the first tools still to visit, the last of them first.
ClosingBackwards ==
  /\ Len(closing) <= Len(opened)
  /\ \A i \in 1..Len(closing) : closing[i] = ToolOrder[Len(closing) + 1 - i]

\* The lifespan has not begun to close tools.
Standing == app \in {"validate", "tools", "router", "session", "serving", "leaving", "close_router"}

\* Until then the opened tools are open and the others untouched.
StandingTools ==
  Standing => /\ closing = <<>> /\ failures = FALSE
              /\ \A i \in 1..ToolCount :
                   resource[ToolOrder[i]] = IF i <= Len(opened) THEN "open" ELSE "none"

\* From then on no tool behind the running close is open.
BehindClose ==
  ~Standing => \A i \in 1..ToolCount : Len(closing) < i => resource[ToolOrder[i]] # "open"

\* The router is started after the last tool.
OpenedSoFar ==
  /\ app = "validate" => opened = <<>>
  /\ app = "tools" => Len(opened) < ToolCount
  /\ app \in {"router", "session", "serving", "leaving", "close_router"} =>
       Len(opened) = ToolCount

\* Only an interrupt leaves the router behind.
RouterPhase ==
  /\ app \in {"validate", "tools", "router", "rollback"} => router = "new"
  /\ app \in {"session", "serving", "leaving", "close_router"} => router = "open"
  /\ router = "partial" => interrupts > 0
  /\ app \in {"close_tools", "ended"} /\ router = "open" => interrupts > 0
  /\ app = "ended" /\ closing # <<>> => interrupts > 0

\* A close that nothing has failed releases everything.
CleanClose ==
  app = "close_tools" /\ failed = FALSE =>
    /\ router = "closed" /\ Len(opened) = ToolCount
    /\ failures = FALSE =>
         \A i \in 1..ToolCount : Len(closing) < i => resource[ToolOrder[i]] = "closed"

LifecyclePhase ==
  /\ lifecycle = "ready" <=> app = "serving"
  /\ lifecycle = "stopped" =>
       app = "ended" /\ router = "closed" /\ \A t \in ManagedTools : resource[t] = "closed"

\* The healths gathered so far are healths of managed tools.
SeenHealths == \E known \in SUBSET ManagedTools : seen \in [known -> ToolHealth]

LifecycleInv ==
  /\ TypeOK /\ SeenHealths
  /\ OpenedInOrder /\ ClosingBackwards /\ StandingTools /\ BehindClose
  /\ OpenedSoFar /\ RouterPhase /\ CleanClose /\ LifecyclePhase

-----------------------------------------------------------------------------
(* The order of the tools, and sequences taken from it                      *)

\* Every managed tool has one place in the order.
LEMMA OrderType ==
  /\ ToolOrder \in Seq(ManagedTools) /\ ToolCount \in Nat
  /\ \A i \in 1..ToolCount : ToolOrder[i] \in ManagedTools
  /\ \A t \in ManagedTools : \E i \in 1..ToolCount : t = ToolOrder[i]
  /\ \A i, j \in 1..ToolCount : ToolOrder[i] = ToolOrder[j] => i = j
<1>1. ToolOrder \in Seq(ManagedTools) /\ IsInjective(ToolOrder)
  BY LifecycleAssumption
<1>2. ToolCount \in Nat /\ DOMAIN ToolOrder = 1..ToolCount
  BY <1>1, LenProperties DEF ToolCount
<1>3. ManagedTools = {ToolOrder[i] : i \in DOMAIN ToolOrder}
  BY DEF ManagedTools, Range
<1> QED
  BY <1>1, <1>2, <1>3 DEF IsInjective

\* Reversing a sequence of tools keeps its length and turns its places round.
LEMMA ReverseType ==
  ASSUME NEW s \in Seq(ManagedTools)
  PROVE  /\ Reverse(s) \in Seq(ManagedTools) /\ Len(Reverse(s)) = Len(s)
         /\ \A i \in 1..Len(s) : Reverse(s)[i] = s[Len(s) + 1 - i]
<1> DEFINE n == Len(s)
<1>1. n \in Nat /\ \A i \in 1..n : s[i] \in ManagedTools
  BY LenProperties, ElementOfSeq
<1>2. Reverse(s) = [i \in 1..n |-> s[(n - i) + 1]]
  BY DEF Reverse
<1>3. \A i \in 1..n : (n - i) + 1 \in 1..n /\ (n - i) + 1 = n + 1 - i
  BY <1>1
<1>4. Reverse(s) \in [1..n -> ManagedTools]
  BY <1>1, <1>2, <1>3
<1>5. Reverse(s) \in Seq(ManagedTools)
  BY <1>1, <1>4, SeqDef
<1>6. Len(Reverse(s)) \in Nat /\ DOMAIN Reverse(s) = 1..Len(Reverse(s))
  BY <1>5, LenProperties
<1>7. Len(Reverse(s)) = n
  BY <1>1, <1>4, <1>6
<1> QED
  BY <1>2, <1>3, <1>5, <1>7

\* A close that begins has every opened tool to visit, the last one first.
LEMMA ClosesAll ==
  ASSUME TypeOK, OpenedInOrder, closing' = Reverse(opened), UNCHANGED opened
  PROVE  /\ closing' \in Seq(ManagedTools) /\ Len(closing') = Len(opened)
         /\ Len(opened) \in Nat
         /\ OpenedInOrder' /\ ClosingBackwards'
<1>1. opened \in Seq(ManagedTools)
  BY DEF TypeOK
<1>2. Len(opened) \in Nat
  BY <1>1, LenProperties
<1> DEFINE backwards == Reverse(opened)
<1>3. /\ backwards \in Seq(ManagedTools) /\ Len(backwards) = Len(opened)
      /\ \A i \in 1..Len(opened) : backwards[i] = opened[Len(opened) + 1 - i]
  BY <1>1, ReverseType
<1>4. closing' = backwards
  OBVIOUS
<1> HIDE DEF backwards
<1>5. ASSUME NEW i \in 1..Len(opened)
      PROVE  backwards[i] = ToolOrder[Len(opened) + 1 - i]
  <2>1. Len(opened) + 1 - i \in 1..Len(opened)
    BY <1>2
  <2> QED
    BY <1>3, <2>1 DEF OpenedInOrder
<1>6. OpenedInOrder'
  BY DEF OpenedInOrder, ToolCount
<1>7. ClosingBackwards'
  BY <1>2, <1>3, <1>4, <1>5 DEF ClosingBackwards
<1> QED
  BY <1>2, <1>3, <1>4, <1>6, <1>7

\* The next tool to close, and what is left after it.
LEMMA NextToClose ==
  ASSUME TypeOK, OpenedInOrder, ClosingBackwards, closing # <<>>
  PROVE  /\ Len(closing) \in 1..ToolCount /\ Len(closing) <= Len(opened)
         /\ Len(opened) \in Nat
         /\ Head(closing) = ToolOrder[Len(closing)] /\ Head(closing) \in ManagedTools
         /\ Tail(closing) \in Seq(ManagedTools) /\ Len(Tail(closing)) = Len(closing) - 1
         /\ \A i \in 1..Len(Tail(closing)) :
              Tail(closing)[i] = ToolOrder[Len(Tail(closing)) + 1 - i]
<1>1. closing \in Seq(ManagedTools) /\ opened \in Seq(ManagedTools)
  BY DEF TypeOK
<1>2. Len(closing) \in Nat \ {0} /\ Len(opened) \in Nat
  BY <1>1, EmptySeq, LenProperties
<1>3. Len(closing) \in 1..ToolCount /\ Len(closing) <= Len(opened)
  BY <1>2, OrderType DEF ClosingBackwards, OpenedInOrder
<1>4. closing[1] = ToolOrder[Len(closing)]
  <2>1. closing[1] = ToolOrder[Len(closing) + 1 - 1]
    BY <1>2 DEF ClosingBackwards
  <2> QED
    BY <1>2, <2>1
<1>5. Head(closing) = closing[1]
  BY <1>1, <1>2
<1> DEFINE rest == Tail(closing)
<1>6. /\ rest \in Seq(ManagedTools) /\ Len(rest) = Len(closing) - 1
      /\ \A i \in 1..Len(rest) : rest[i] = closing[i + 1]
  BY <1>1, HeadTailProperties
<1> HIDE DEF rest
<1>7. ASSUME NEW i \in 1..Len(rest)
      PROVE  rest[i] = ToolOrder[Len(rest) + 1 - i]
  <2>1. i + 1 \in 1..Len(closing) /\ Len(closing) + 1 - (i + 1) = Len(rest) + 1 - i
    BY <1>2, <1>6
  <2>2. closing[i + 1] = ToolOrder[Len(closing) + 1 - (i + 1)]
    BY <2>1 DEF ClosingBackwards
  <2> QED
    BY <1>6, <2>1, <2>2
<1> QED
  BY <1>2, <1>3, <1>4, <1>5, <1>6, <1>7, OrderType DEF rest

\* Before the first step of the lifespan.
LEMMA LifecycleInit == Init => LifecycleInv
<1> SUFFICES ASSUME Init PROVE LifecycleInv
  OBVIOUS
<1>1. opened = <<>> /\ closing = <<>> /\ Len(opened) = 0 /\ Len(closing) = 0
  BY DEF Init
<1>2. TypeOK
  <2>1. opened \in Seq(ManagedTools) /\ closing \in Seq(ManagedTools) /\ DOMAIN seen = {}
    BY EmptySeq DEF Init
  <2>2. /\ own \in [ManagedTools -> ToolHealth] /\ cached \in [ManagedTools -> ToolHealth]
        /\ resource \in [ManagedTools -> {"none", "open", "closed", "failed"}]
    BY DEF Init, ToolHealth
  <2>3. interrupts \in 0..Interrupts /\ probes \in 0..Probes
    BY LifecycleAssumption DEF Init
  <2> QED
    BY <2>1, <2>2, <2>3 DEF Init, TypeOK
<1>3. SeenHealths
  <2>1. seen \in [{} -> ToolHealth]
    BY DEF Init
  <2> QED
    BY <2>1 DEF SeenHealths
<1>4. OpenedInOrder /\ ClosingBackwards
  BY <1>1, OrderType DEF OpenedInOrder, ClosingBackwards
<1>5. StandingTools /\ BehindClose
  BY <1>1, OrderType DEF Init, StandingTools, BehindClose, Standing
<1>6. OpenedSoFar /\ RouterPhase /\ CleanClose /\ LifecyclePhase
  BY <1>1 DEF Init, OpenedSoFar, RouterPhase, CleanClose, LifecyclePhase
<1> QED
  BY <1>2, <1>3, <1>4, <1>5, <1>6 DEF LifecycleInv

-----------------------------------------------------------------------------
(* Every step of the lifespan                                               *)

\* A refused startup closes nothing, for nothing was opened.
LEMMA ValidateKeeps ==
  ASSUME LifecycleInv, ValidateStartup
  PROVE  LifecycleInv'
<1> USE DEF LifecycleInv
<1>1. UNCHANGED <<opened, closing, failures, own, resource, cached, router, probing, seen,
                  probes, interrupts>>
  BY DEF ValidateStartup, manager, health
<1>2. app = "validate" /\ app' \in {"tools", "close_tools"} /\ lifecycle' # "ready"
      /\ lifecycle' # "stopped" /\ (app' = "close_tools" => failed' = TRUE)
  BY DEF ValidateStartup, Unwind, LifecyclePhase
<1>3. TypeOK'
  BY <1>1 DEF ValidateStartup, Unwind, TypeOK
<1>4. SeenHealths' /\ OpenedInOrder' /\ ClosingBackwards'
  BY <1>1 DEF SeenHealths, OpenedInOrder, ClosingBackwards
<1>5. opened = <<>> /\ closing = <<>> /\ Len(opened) = 0 /\ Len(closing) = 0
  BY <1>2 DEF OpenedSoFar, StandingTools, Standing
<1>6. \A i \in 1..ToolCount : resource[ToolOrder[i]] = "none"
  BY <1>2, <1>5 DEF StandingTools, Standing
<1>7. StandingTools' /\ BehindClose'
  BY <1>1, <1>2, <1>5, <1>6 DEF StandingTools, BehindClose, Standing
<1>8. OpenedSoFar'
  BY <1>1, <1>2, <1>5 DEF ValidateStartup, Unwind, OpenedSoFar, ToolCount
<1>9. RouterPhase' /\ CleanClose' /\ LifecyclePhase'
  BY <1>1, <1>2 DEF RouterPhase, CleanClose, LifecyclePhase
<1> QED
  BY <1>3, <1>4, <1>7, <1>8, <1>9

\* An opened tool is the next of the order; a failure leaves what was opened to
\* the rollback.
LEMMA InitializeToolKeeps ==
  ASSUME LifecycleInv, NEW outcome, InitializeTool(outcome)
  PROVE  LifecycleInv'
<1> USE DEF LifecycleInv
<1> DEFINE tool == ToolOrder[Len(opened) + 1]
<1>1. /\ app = "tools" /\ Standing
      /\ UNCHANGED <<lifecycle, failed, failures, router, probing, seen, probes>>
  BY DEF InitializeTool, health, Standing
<1>2. Len(opened) \in Nat /\ Len(opened) + 1 \in 1..ToolCount
  BY <1>1, OrderType, LenProperties DEF OpenedSoFar, TypeOK
<1>3. tool \in ManagedTools
  BY <1>2, OrderType
<1>4. closing = <<>> /\ Len(closing) = 0 /\ failures = FALSE /\ router = "new"
  BY <1>1 DEF StandingTools, RouterPhase
<1>5. interrupts' \in 0..Interrupts
  BY LifecycleAssumption DEF InitializeTool, EndsWith, TypeOK
<1>6. CASE outcome = "ok"
  <2>1. /\ opened' = Append(opened, tool)
        /\ own' = [own EXCEPT ![tool] = "healthy"]
        /\ resource' = [resource EXCEPT ![tool] = "open"]
        /\ cached' = [cached EXCEPT ![tool] = "healthy"]
        /\ app' = IF Len(opened') = ToolCount THEN "router" ELSE "tools"
        /\ UNCHANGED closing
    BY <1>6 DEF InitializeTool, ToolCount
  <2>2. /\ opened' \in Seq(ManagedTools) /\ Len(opened') = Len(opened) + 1
        /\ \A i \in 1..Len(opened) : opened'[i] = opened[i]
        /\ opened'[Len(opened) + 1] = tool
    BY <1>2, <1>3, <2>1, AppendProperties DEF TypeOK
  <2>3. Standing'
    BY <2>1 DEF Standing
  <2>4. TypeOK'
    BY <1>1, <1>3, <1>5, <2>1, <2>2 DEF TypeOK, ToolHealth, Probed
  <2>5. SeenHealths' /\ OpenedInOrder' /\ ClosingBackwards'
    BY <1>1, <1>2, <1>4, <2>1, <2>2 DEF SeenHealths, OpenedInOrder, ClosingBackwards, ToolCount
  <2>6. ASSUME NEW i \in 1..ToolCount
        PROVE  resource'[ToolOrder[i]] = IF i <= Len(opened') THEN "open" ELSE "none"
    <3>1. resource[ToolOrder[i]] = IF i <= Len(opened) THEN "open" ELSE "none"
      BY <1>1 DEF StandingTools
    <3>2. resource'[ToolOrder[i]] = IF ToolOrder[i] = tool THEN "open" ELSE resource[ToolOrder[i]]
      BY <2>1, OrderType DEF TypeOK
    <3>3. ToolOrder[i] = tool <=> i = Len(opened) + 1
      BY <1>2, OrderType
    <3> QED
      BY <1>2, <2>2, <3>1, <3>2, <3>3, OrderType
  <2>7. StandingTools' /\ BehindClose'
    BY <1>1, <1>4, <2>1, <2>3, <2>6 DEF StandingTools, BehindClose, ToolCount
  <2>8. OpenedSoFar'
    BY <1>2, <2>1, <2>2, OrderType DEF OpenedSoFar, ToolCount
  <2>9. RouterPhase' /\ CleanClose' /\ LifecyclePhase'
    BY <1>1, <1>4, <2>1 DEF RouterPhase, CleanClose, LifecyclePhase
  <2> QED
    BY <2>4, <2>5, <2>7, <2>8, <2>9
<1>7. CASE outcome # "ok"
  <2>1. /\ app' = "rollback" /\ closing' = Reverse(opened) /\ ~Standing'
        /\ UNCHANGED <<opened, own, resource, cached>>
    BY <1>7 DEF InitializeTool, Standing
  <2>2. closing' \in Seq(ManagedTools) /\ Len(closing') = Len(opened)
        /\ OpenedInOrder' /\ ClosingBackwards'
    BY <2>1, ClosesAll
  <2>3. TypeOK'
    BY <1>1, <1>5, <2>1, <2>2 DEF TypeOK
  <2>4. SeenHealths'
    BY <1>1 DEF SeenHealths
  <2>5. \A i \in 1..ToolCount : i > Len(opened) => resource[ToolOrder[i]] = "none"
    BY <1>1, <1>2, OrderType DEF StandingTools
  <2>6. StandingTools' /\ BehindClose'
    BY <1>2, <2>1, <2>2, <2>5, OrderType DEF StandingTools, BehindClose, ToolCount
  <2>7. OpenedSoFar' /\ RouterPhase' /\ CleanClose' /\ LifecyclePhase'
    BY <1>1, <1>4, <2>1 DEF OpenedSoFar, RouterPhase, CleanClose, LifecyclePhase
  <2> QED
    BY <2>2, <2>3, <2>4, <2>6, <2>7
<1> QED
  BY <1>6, <1>7

\* An interrupt while the router starts leaves it partly open and closes the tools.
LEMMA InitializeRouterKeeps ==
  ASSUME LifecycleInv, NEW outcome, InitializeRouter(outcome)
  PROVE  LifecycleInv'
<1> USE DEF LifecycleInv
<1>1. /\ app = "router" /\ Standing
      /\ UNCHANGED <<opened, failures, own, resource, cached, probing, seen, probes>>
  BY DEF InitializeRouter, health, Standing
<1>2. Len(opened) \in Nat /\ Len(opened) = ToolCount /\ failures = FALSE /\ closing = <<>>
  BY <1>1, OrderType DEF OpenedSoFar, StandingTools
<1>3. /\ interrupts' \in 0..Interrupts /\ interrupts \in Nat
      /\ outcome = "interrupt" => interrupts' > 0
  BY LifecycleAssumption DEF InitializeRouter, EndsWith, TypeOK
<1>4. SeenHealths' /\ OpenedInOrder'
  BY <1>1 DEF SeenHealths, OpenedInOrder, ToolCount
<1>5. CASE outcome = "ok"
  <2>1. router' = "open" /\ app' = "session" /\ UNCHANGED <<lifecycle, failed, closing>>
    BY <1>5 DEF InitializeRouter
  <2>2. TypeOK'
    BY <1>1, <1>3, <2>1 DEF TypeOK
  <2>3. ClosingBackwards' /\ StandingTools' /\ BehindClose'
    BY <1>1, <2>1 DEF ClosingBackwards, StandingTools, BehindClose, Standing, ToolCount
  <2>4. OpenedSoFar'
    BY <1>1, <1>2, <2>1 DEF OpenedSoFar, ToolCount
  <2>5. RouterPhase' /\ CleanClose' /\ LifecyclePhase'
    BY <1>1, <2>1 DEF RouterPhase, CleanClose, LifecyclePhase
  <2> QED
    BY <1>4, <2>2, <2>3, <2>4, <2>5
<1>6. CASE outcome # "ok"
  <2>1. /\ router' = "partial" /\ app' = "close_tools" /\ lifecycle' = "failed" /\ failed' = TRUE
        /\ closing' = Reverse(opened) /\ outcome = "interrupt" /\ ~Standing'
    BY <1>6 DEF InitializeRouter, Unwind, EndsWith, Standing
  <2>2. closing' \in Seq(ManagedTools) /\ Len(closing') = Len(opened) /\ ClosingBackwards'
    BY <1>1, <2>1, ClosesAll
  <2>3. TypeOK'
    BY <1>1, <1>3, <2>1, <2>2 DEF TypeOK
  <2>4. StandingTools' /\ BehindClose' /\ OpenedSoFar'
    BY <1>1, <1>2, <2>1, <2>2, OrderType DEF StandingTools, BehindClose, OpenedSoFar, ToolCount
  <2>5. RouterPhase' /\ CleanClose' /\ LifecyclePhase'
    BY <1>1, <1>3, <2>1 DEF RouterPhase, CleanClose, LifecyclePhase
  <2> QED
    BY <1>4, <2>2, <2>3, <2>4, <2>5
<1> QED
  BY <1>5, <1>6

\* The service is ready with every tool and the router open.
LEMMA StartSessionKeeps ==
  ASSUME LifecycleInv, NEW outcome, StartSession(outcome)
  PROVE  LifecycleInv'
<1> USE DEF LifecycleInv
<1>1. /\ app = "session" /\ app' \in {"serving", "close_router"} /\ Standing /\ Standing'
      /\ lifecycle' # "stopped" /\ (lifecycle' = "ready" <=> app' = "serving")
      /\ lifecycle' \in {lifecycle, "ready"} /\ failed' \in {failed, TRUE}
      /\ UNCHANGED <<opened, closing, failures, own, resource, cached, router, probing, seen, probes>>
  BY DEF StartSession, manager, health, Standing, LifecyclePhase
<1>2. interrupts' \in 0..Interrupts
  BY LifecycleAssumption DEF StartSession, EndsWith, TypeOK
<1>3. TypeOK' /\ SeenHealths' /\ OpenedInOrder' /\ ClosingBackwards'
  <2>1. TypeOK'
    BY <1>1, <1>2 DEF TypeOK
  <2> QED
    BY <1>1, <2>1 DEF SeenHealths, OpenedInOrder, ClosingBackwards, ToolCount
<1>4. StandingTools' /\ BehindClose' /\ OpenedSoFar'
  BY <1>1 DEF StandingTools, BehindClose, OpenedSoFar, ToolCount
<1>5. RouterPhase' /\ CleanClose' /\ LifecyclePhase'
  BY <1>1 DEF RouterPhase, CleanClose, LifecyclePhase
<1> QED
  BY <1>3, <1>4, <1>5

\* The service stops being ready before anything is closed.
LEMMA BeginStoppingKeeps ==
  ASSUME LifecycleInv, BeginStopping
  PROVE  LifecycleInv'
<1> USE DEF LifecycleInv
<1>1. /\ app = "serving" /\ app' = "leaving" /\ lifecycle' = "stopping" /\ Standing /\ Standing'
      /\ UNCHANGED <<failed, opened, closing, failures, own, resource, cached, router, probing,
                     seen, probes, interrupts>>
  BY DEF BeginStopping, manager, health, Standing
<1>2. TypeOK' /\ SeenHealths' /\ OpenedInOrder' /\ ClosingBackwards'
  BY <1>1 DEF TypeOK, SeenHealths, OpenedInOrder, ClosingBackwards, ToolCount
<1>3. StandingTools' /\ BehindClose' /\ OpenedSoFar'
  BY <1>1 DEF StandingTools, BehindClose, OpenedSoFar, ToolCount
<1>4. RouterPhase' /\ CleanClose' /\ LifecyclePhase'
  BY <1>1 DEF RouterPhase, CleanClose, LifecyclePhase
<1> QED
  BY <1>2, <1>3, <1>4

LEMMA EndSessionKeeps ==
  ASSUME LifecycleInv, NEW outcome, EndSession(outcome)
  PROVE  LifecycleInv'
<1> USE DEF LifecycleInv
<1>1. /\ app = "leaving" /\ app' = "close_router" /\ failed' \in BOOLEAN /\ Standing /\ Standing'
      /\ UNCHANGED <<lifecycle, opened, closing, failures, own, resource, cached, router, probing,
                     seen, probes>>
  BY DEF EndSession, manager, health, Standing
<1>2. interrupts' \in 0..Interrupts
  BY LifecycleAssumption DEF EndSession, EndsWith, TypeOK
<1>3. TypeOK'
  BY <1>1, <1>2 DEF TypeOK
<1>4. SeenHealths' /\ OpenedInOrder' /\ ClosingBackwards'
  BY <1>1 DEF SeenHealths, OpenedInOrder, ClosingBackwards, ToolCount
<1>5. StandingTools' /\ BehindClose' /\ OpenedSoFar'
  BY <1>1 DEF StandingTools, BehindClose, OpenedSoFar, ToolCount
<1>6. RouterPhase' /\ CleanClose' /\ LifecyclePhase'
  BY <1>1 DEF RouterPhase, CleanClose, LifecyclePhase
<1> QED
  BY <1>3, <1>4, <1>5, <1>6

\* The tools begin to close once the router is closed, or has been interrupted.
LEMMA CloseRouterKeeps ==
  ASSUME LifecycleInv, NEW outcome, CloseRouter(outcome)
  PROVE  LifecycleInv'
<1> USE DEF LifecycleInv
<1>1. /\ app = "close_router" /\ app' = "close_tools" /\ Standing /\ ~Standing'
      /\ closing' = Reverse(opened)
      /\ UNCHANGED <<opened, failures, own, resource, cached, probing, seen, probes>>
      /\ IF outcome = "ok" THEN router' = "closed" ELSE UNCHANGED router
      /\ failed' \in BOOLEAN /\ (failed' = FALSE => outcome = "ok")
      /\ lifecycle' \in {lifecycle, "failed"}
      /\ outcome \in {"ok", "interrupt"}
  BY DEF CloseRouter, Unwind, EndsWith, health, Standing, TypeOK
<1>2. /\ interrupts' \in 0..Interrupts /\ interrupts \in Nat
      /\ outcome = "interrupt" => interrupts' > 0
  BY LifecycleAssumption DEF CloseRouter, EndsWith, TypeOK
<1>3. /\ closing' \in Seq(ManagedTools) /\ Len(closing') = Len(opened)
      /\ OpenedInOrder' /\ ClosingBackwards'
  BY <1>1, ClosesAll
<1>4. Len(opened) = ToolCount /\ failures = FALSE /\ router = "open"
  BY <1>1 DEF OpenedSoFar, StandingTools, RouterPhase
<1>5. TypeOK' /\ SeenHealths'
  BY <1>1, <1>2, <1>3 DEF TypeOK, SeenHealths
<1>6. StandingTools' /\ BehindClose' /\ OpenedSoFar'
  BY <1>1, <1>3, <1>4, OrderType DEF StandingTools, BehindClose, OpenedSoFar, ToolCount
<1>7. RouterPhase'
  BY <1>1, <1>2, <1>4 DEF RouterPhase
<1>8. CleanClose'
  BY <1>1, <1>3, <1>4, OrderType DEF CleanClose, ToolCount
<1>9. LifecyclePhase'
  BY <1>1 DEF LifecyclePhase
<1> QED
  BY <1>3, <1>5, <1>6, <1>7, <1>8, <1>9

\* A close visits the last tool that is left; interrupted in the rollback, the
\* lifespan's own close visits every opened tool again.
LEMMA CloseToolKeeps ==
  ASSUME LifecycleInv, NEW outcome, CloseTool(outcome)
  PROVE  LifecycleInv'
<1> USE DEF LifecycleInv
<1> DEFINE tool == Head(closing)
           rest == Tail(closing)
<1>1. /\ app \in {"rollback", "close_tools"} /\ closing # <<>> /\ ~Standing
      /\ outcome \in AnyOutcome
      /\ UNCHANGED <<opened, router, probing, seen, probes>>
      /\ cached' = [cached EXCEPT ![tool] = "closed"]
      /\ resource' = [resource EXCEPT ![tool] = IF outcome = "ok" THEN "closed" ELSE "failed"]
      /\ own' \in {own, [own EXCEPT ![tool] = "closed"]}
      /\ failures' \in BOOLEAN /\ (failures' = FALSE => failures = FALSE /\ outcome # "error")
  BY DEF CloseTool, EndsWith, health, Standing, TypeOK
<1>2. /\ interrupts' \in 0..Interrupts /\ interrupts \in Nat
      /\ outcome = "interrupt" => interrupts' > 0
      /\ outcome # "interrupt" => interrupts' = interrupts
  BY LifecycleAssumption DEF CloseTool, EndsWith, TypeOK
<1>3. /\ Len(closing) \in 1..ToolCount /\ Len(closing) <= Len(opened)
      /\ Len(opened) \in Nat /\ ToolCount \in Nat /\ Len(opened) <= ToolCount
      /\ tool = ToolOrder[Len(closing)] /\ tool \in ManagedTools
      /\ rest \in Seq(ManagedTools) /\ Len(rest) = Len(closing) - 1
      /\ \A i \in 1..Len(rest) : rest[i] = ToolOrder[Len(rest) + 1 - i]
  BY <1>1, NextToClose, OrderType DEF OpenedInOrder
<1>4. outcome # "interrupt" => closing' = rest /\ UNCHANGED <<app, lifecycle, failed>>
  BY DEF CloseTool
<1>5. outcome = "interrupt" =>
        /\ lifecycle' = "failed"
        /\ \/ app = "rollback" /\ app' = "close_tools" /\ failed' = TRUE /\ closing' = Reverse(opened)
           \/ app = "close_tools" /\ app' = "ended" /\ UNCHANGED failed /\ closing' = rest
  BY <1>1 DEF CloseTool, Unwind
<1> HIDE DEF tool, rest
<1>6. /\ closing' \in Seq(ManagedTools) /\ OpenedInOrder' /\ ClosingBackwards'
      /\ Len(closing') \in Nat /\ Len(rest) <= Len(closing')
      /\ closing' = rest \/ Len(closing') = Len(opened)
  <2>1. OpenedInOrder'
    BY <1>1 DEF OpenedInOrder, ToolCount
  <2>2. CASE closing' = rest
    BY <1>1, <1>3, <2>1, <2>2 DEF ClosingBackwards
  <2>3. CASE closing' = Reverse(opened)
    BY <1>1, <1>3, <2>1, <2>3, ClosesAll
  <2> QED
    BY <1>4, <1>5, <2>2, <2>3
<1>7. /\ app' \in {"rollback", "close_tools", "ended"} /\ ~Standing'
      /\ lifecycle' \in {lifecycle, "failed"} /\ failed' \in {failed, TRUE}
  BY <1>1, <1>4, <1>5 DEF Standing
<1>8. TypeOK' /\ SeenHealths'
  <2>1. cached' \in [ManagedTools -> ToolHealth] /\ own' \in [ManagedTools -> ToolHealth]
    BY <1>1, <1>3 DEF TypeOK, ToolHealth
  <2>2. resource' \in [ManagedTools -> {"none", "open", "closed", "failed"}]
    BY <1>1, <1>3 DEF TypeOK
  <2> QED
    BY <1>1, <1>2, <1>6, <1>7, <2>1, <2>2 DEF TypeOK, SeenHealths
<1>9. \A i \in 1..ToolCount : resource'[ToolOrder[i]] =
        IF i = Len(closing) THEN IF outcome = "ok" THEN "closed" ELSE "failed"
        ELSE resource[ToolOrder[i]]
  BY <1>1, <1>3, OrderType DEF TypeOK
<1>10. StandingTools' /\ BehindClose'
  <2>1. \A i \in 1..ToolCount : Len(closing) < i => resource[ToolOrder[i]] # "open"
    BY <1>1 DEF BehindClose
  <2>2. \A i \in 1..ToolCount : Len(closing') < i => i = Len(closing) \/ Len(closing) < i
    BY <1>3, <1>6
  <2> QED
    BY <1>7, <1>9, <2>1, <2>2 DEF StandingTools, BehindClose, ToolCount
<1>11. OpenedSoFar' /\ LifecyclePhase'
  BY <1>1, <1>4, <1>5, <1>7 DEF OpenedSoFar, LifecyclePhase
<1>12. RouterPhase'
  BY <1>1, <1>2, <1>4, <1>5 DEF RouterPhase
<1>13. CleanClose'
  <2> SUFFICES ASSUME app' = "close_tools", failed' = FALSE
               PROVE  CleanClose'
    BY DEF CleanClose
  <2>1. /\ app = "close_tools" /\ failed = FALSE /\ closing' = rest /\ outcome # "interrupt"
    BY <1>4, <1>5
  <2>2. router' = "closed" /\ Len(opened') = ToolCount
    BY <1>1, <2>1 DEF CleanClose
  <2>3. ASSUME failures' = FALSE, NEW i \in 1..ToolCount, Len(closing') < i
        PROVE  resource'[ToolOrder[i]] = "closed"
    <3>1. failures = FALSE /\ outcome = "ok"
      BY <1>1, <2>1, <2>3 DEF AnyOutcome
    <3>2. i = Len(closing) \/ Len(closing) < i
      BY <1>3, <2>1, <2>3
    <3>3. Len(closing) < i => resource[ToolOrder[i]] = "closed"
      BY <2>1, <3>1 DEF CleanClose
    <3> QED
      BY <1>9, <3>1, <3>2, <3>3
  <2> QED
    BY <2>2, <2>3 DEF CleanClose, ToolCount
<1> QED
  BY <1>6, <1>8, <1>10, <1>11, <1>12, <1>13

\* A close that has visited every tool ends the rollback or the lifespan.
LEMMA FinishClosingKeeps ==
  ASSUME LifecycleInv, FinishClosing
  PROVE  LifecycleInv'
<1> USE DEF LifecycleInv
<1>1. /\ app \in {"rollback", "close_tools"} /\ closing = <<>> /\ ~Standing /\ ~Standing'
      /\ app' \in {"close_tools", "ended"}
      /\ opened' = <<>> /\ failures' = FALSE
      /\ UNCHANGED <<closing, own, resource, cached, router, probing, seen, probes, interrupts>>
  BY DEF FinishClosing, Unwind, health, Standing
<1>2. /\ app' = "close_tools" => app = "rollback" /\ failed' = TRUE /\ lifecycle' = "failed"
      /\ app' = "ended" => /\ app = "close_tools" /\ UNCHANGED failed
                           /\ lifecycle' \in {"failed", "stopped", lifecycle}
                           /\ lifecycle' = "stopped" => (lifecycle = "stopped" \/ (failed = FALSE /\ failures = FALSE))
  BY <1>1 DEF FinishClosing, Unwind, TypeOK
<1>3. /\ Len(closing) = 0 /\ Len(opened') = 0 /\ opened' \in Seq(ManagedTools)
      /\ \A i \in 1..ToolCount : Len(closing) < i
  BY <1>1, EmptySeq, OrderType
<1>4. TypeOK' /\ SeenHealths'
  BY <1>1, <1>2, <1>3 DEF TypeOK, SeenHealths
<1>5. OpenedInOrder' /\ ClosingBackwards' /\ OpenedSoFar'
  BY <1>1, <1>3, OrderType DEF OpenedInOrder, ClosingBackwards, OpenedSoFar, ToolCount
<1>6. StandingTools' /\ BehindClose'
  BY <1>1, <1>3 DEF StandingTools, BehindClose, ToolCount
<1>7. RouterPhase' /\ CleanClose'
  BY <1>1, <1>2 DEF RouterPhase, CleanClose
<1>8. LifecyclePhase'
  <2>1. ASSUME lifecycle' = "stopped"
        PROVE  app' = "ended" /\ router = "closed" /\ \A t \in ManagedTools : resource[t] = "closed"
    <3>1. app = "close_tools" /\ app' = "ended" /\ failed = FALSE /\ failures = FALSE
      BY <1>1, <1>2, <2>1 DEF LifecyclePhase
    <3>2. router = "closed" /\ \A i \in 1..ToolCount : resource[ToolOrder[i]] = "closed"
      BY <1>3, <3>1 DEF CleanClose
    <3> QED
      BY <3>1, <3>2, OrderType
  <2>2. lifecycle' # "ready" /\ app' # "serving"
    BY <1>1, <1>2 DEF LifecyclePhase
  <2> QED
    BY <1>1, <2>1, <2>2 DEF LifecyclePhase
<1> QED
  BY <1>4, <1>5, <1>6, <1>7, <1>8

-----------------------------------------------------------------------------
(* The health probes write only healths                                     *)

LEMMA HealthKeeps ==
  ASSUME LifecycleInv, Health
  PROVE  LifecycleInv'
<1> USE DEF LifecycleInv
<1>1. UNCHANGED <<app, lifecycle, failed, opened, closing, failures, resource, router, interrupts>>
  BY DEF Health, ProbeTools, ToolsProbed, ProbeCancelled, ToolProbed, manager
<1>2. /\ OpenedInOrder' /\ ClosingBackwards' /\ StandingTools' /\ BehindClose' /\ OpenedSoFar'
      /\ RouterPhase' /\ CleanClose' /\ LifecyclePhase'
  BY <1>1 DEF OpenedInOrder, ClosingBackwards, StandingTools, BehindClose, OpenedSoFar, RouterPhase,
              CleanClose, LifecyclePhase, Standing, ToolCount
<1>3. ASSUME own' \in [ManagedTools -> ToolHealth], cached' \in [ManagedTools -> ToolHealth],
             probing' \in SUBSET Probing, probes' \in 0..Probes,
             NEW known \in SUBSET ManagedTools, seen' \in [known -> ToolHealth]
      PROVE  TypeOK' /\ SeenHealths'
  BY <1>1, <1>3 DEF TypeOK, SeenHealths
<1>4. PICK known \in SUBSET ManagedTools : seen \in [known -> ToolHealth]
  BY DEF SeenHealths
<1>5. CASE ProbeTools
  <2> DEFINE awaits == {t \in Probing : own[t] \in Probed}
  <2>1. seen' \in [ManagedTools \ awaits -> ToolHealth] /\ UNCHANGED <<own, cached>>
    BY <1>5 DEF ProbeTools, TypeOK, manager
  <2>2. probing' \in SUBSET Probing /\ probes' \in 0..Probes
    BY <1>5, LifecycleAssumption DEF ProbeTools, TypeOK
  <2> QED
    BY <1>2, <1>3, <2>1, <2>2 DEF TypeOK
<1>6. ASSUME NEW t \in Probing, NEW h \in Probed, ToolProbed(t, h)
      PROVE  LifecycleInv'
  <2>1. t \in ManagedTools /\ h \in ToolHealth
    BY LifecycleAssumption DEF ToolHealth
  <2>2. own' \in [ManagedTools -> ToolHealth]
    BY <1>6, <2>1 DEF ToolProbed, TypeOK
  <2>3. seen' \in [known \union {t} -> ToolHealth]
    BY <1>4, <1>6, <2>1 DEF ToolProbed
  <2>4. probing' \in SUBSET Probing /\ UNCHANGED <<cached, probes>>
    BY <1>6 DEF ToolProbed, TypeOK
  <2>5. known \union {t} \in SUBSET ManagedTools
    BY <2>1
  <2> QED
    BY <1>2, <1>3, <2>2, <2>3, <2>4, <2>5 DEF TypeOK
<1>7. CASE ToolsProbed
  <2>1. cached' \in [ManagedTools -> ToolHealth]
    BY <1>4, <1>7 DEF ToolsProbed, TypeOK
  <2>2. seen' \in [{} -> ToolHealth] /\ UNCHANGED <<own, probing, probes>>
    BY <1>7 DEF ToolsProbed
  <2> QED
    BY <1>2, <1>3, <2>1, <2>2 DEF TypeOK
<1>8. CASE ProbeCancelled
  <2>1. seen' \in [{} -> ToolHealth] /\ probing' = {} /\ UNCHANGED <<own, cached, probes>>
    BY <1>8 DEF ProbeCancelled, manager
  <2> QED
    BY <1>2, <1>3, <2>1 DEF TypeOK
<1> QED
  BY <1>5, <1>6, <1>7, <1>8 DEF Health

-----------------------------------------------------------------------------
(* The process                                                              *)

\* A step of a call leaves the lifespan alone, and so does a stutter.
LEMMA LifecycleStays ==
  ASSUME LifecycleInv, UNCHANGED lifecycleVars
  PROVE  LifecycleInv'
<1>1. UNCHANGED <<app, lifecycle, failed, opened, closing, failures, own, resource, cached, router,
                  probing, seen, probes, interrupts>>
  BY DEF lifecycleVars, manager, health
<1>2. TypeOK' /\ SeenHealths'
  BY <1>1 DEF LifecycleInv, TypeOK, SeenHealths
<1>3. /\ OpenedInOrder' /\ ClosingBackwards' /\ StandingTools' /\ BehindClose' /\ OpenedSoFar'
      /\ RouterPhase' /\ CleanClose' /\ LifecyclePhase'
  BY <1>1 DEF LifecycleInv, OpenedInOrder, ClosingBackwards, StandingTools, BehindClose, OpenedSoFar,
              RouterPhase, CleanClose, LifecyclePhase, Standing, ToolCount
<1> QED
  BY <1>2, <1>3 DEF LifecycleInv

LEMMA LivesKeeps ==
  ASSUME LifecycleInv, Lives
  PROVE  LifecycleInv'
<1>1. ASSUME NEW outcome \in AnyOutcome, Lifespan(outcome)
      PROVE  LifecycleInv'
  BY <1>1, InitializeToolKeeps, StartSessionKeeps, InitializeRouterKeeps, EndSessionKeeps,
     CloseRouterKeeps, CloseToolKeeps DEF Lifespan
<1> QED
  BY <1>1, ValidateKeeps, BeginStoppingKeeps, FinishClosingKeeps, HealthKeeps DEF Lives

LEMMA LifecycleNext == LifecycleInv /\ [ServiceNext]_serviceVars => LifecycleInv'
BY LivesKeeps, LifecycleStays DEF ServiceNext, serviceVars

LEMMA LifecycleHolds == ServiceSpec => []LifecycleInv
<1>1. ServiceInit => LifecycleInv
  BY LifecycleInit DEF ServiceInit
<1> QED
  BY <1>1, LifecycleNext, PTL DEF ServiceSpec

\* /ready answers 200 only at the lifespan's yield, with every tool's clients
\* and the router open (OperationsService.readiness, main.py).
THEOREM ReadyTheorem == ServiceSpec => []ReadyIsServing
<1>1. ASSUME LifecycleInv, NEW activeProvider \in BOOLEAN, Ready(activeProvider)
      PROVE  app = "serving" /\ router = "open" /\ \A t \in ManagedTools : resource[t] = "open"
  <2>1. app = "serving" /\ router = "open"
    BY <1>1 DEF Ready, LifecycleInv, LifecyclePhase, RouterPhase
  <2>2. \A i \in 1..ToolCount : resource[ToolOrder[i]] = "open"
    BY <1>1, <2>1, OrderType DEF LifecycleInv, StandingTools, Standing, OpenedSoFar
  <2> QED
    BY <2>1, <2>2, OrderType
<1>2. LifecycleInv => ReadyIsServing
  BY <1>1 DEF ReadyIsServing
<1> QED
  BY <1>2, LifecycleHolds, PTL

\* When the lifespan has ended, a tool is open or the router not closed only
\* after an interrupt (ToolManager.close, the handlers of main.lifespan).
THEOREM NothingOpenTheorem == ServiceSpec => []NothingLeftOpen
<1>1. ASSUME LifecycleInv, app = "ended", NEW t \in ManagedTools, resource[t] = "open"
      PROVE  t \in Range(closing)
  <2>1. PICK i \in 1..ToolCount : t = ToolOrder[i]
    BY OrderType
  <2>2. closing \in Seq(ManagedTools) /\ Len(closing) \in Nat /\ DOMAIN closing = 1..Len(closing)
    BY <1>1, LenProperties DEF LifecycleInv, TypeOK
  <2>3. i <= Len(closing)
    BY <1>1, <2>1, <2>2, OrderType DEF LifecycleInv, BehindClose, Standing
  <2>4. Len(closing) + 1 - i \in 1..Len(closing) /\ Len(closing) + 1 - (Len(closing) + 1 - i) = i
    BY <2>2, <2>3
  <2>5. closing[Len(closing) + 1 - i] = ToolOrder[i]
    BY <1>1, <2>4 DEF LifecycleInv, ClosingBackwards
  <2> QED
    BY <2>1, <2>2, <2>4, <2>5 DEF Range
<1>2. LifecycleInv => NothingLeftOpen
  BY <1>1 DEF NothingLeftOpen, LifecycleInv, RouterPhase
<1> QED
  BY <1>2, LifecycleHolds, PTL

\* The state "stopped" is recorded only when every tool and the router were
\* closed (OperationsService.mark_stopped).
THEOREM StoppedTheorem == ServiceSpec => []StoppedMeansReleased
<1>1. LifecycleInv => StoppedMeansReleased
  BY DEF StoppedMeansReleased, LifecycleInv, LifecyclePhase
<1> QED
  BY <1>1, LifecycleHolds, PTL

\* No tool is closed before a tool that was opened after it
\* (ToolManager.close walks reversed(self._initialized)).
THEOREM ClosedInReverseTheorem == ServiceSpec => ClosedInReverse
<1> DEFINE Step == \A i, j \in DOMAIN ToolOrder :
                     i < j /\ resource[ToolOrder[i]] = "open" /\ resource'[ToolOrder[i]] # "open"
                       => resource'[ToolOrder[j]] # "open"
<1>1. ASSUME LifecycleInv, [ServiceNext]_serviceVars, NEW i \in DOMAIN ToolOrder,
             NEW j \in DOMAIN ToolOrder, i < j,
             resource[ToolOrder[i]] = "open", resource'[ToolOrder[i]] # "open"
      PROVE  resource'[ToolOrder[j]] # "open"
  <2> USE DEF LifecycleInv
  <2>1. i \in 1..ToolCount /\ j \in 1..ToolCount
    BY OrderType, LenProperties DEF ToolCount
  <2>2. ToolOrder[i] \in ManagedTools /\ ToolOrder[j] \in ManagedTools
    BY <2>1, OrderType
  <2>3. resource' # resource
    BY <1>1
  <2>4. PICK outcome \in AnyOutcome : InitializeTool(outcome) \/ CloseTool(outcome)
    BY <1>1, <2>3 DEF ServiceNext, serviceVars, lifecycleVars, manager, Lives, Lifespan, ValidateStartup,
       BeginStopping, FinishClosing, Health, ProbeTools, ToolsProbed, ProbeCancelled, ToolProbed,
       StartSession, InitializeRouter, EndSession, CloseRouter
  <2>5. ~InitializeTool(outcome)
    BY <1>1, <2>2, <2>3 DEF InitializeTool, TypeOK
  <2>6. CASE CloseTool(outcome)
    <3>1. /\ closing # <<>> /\ ~Standing
          /\ resource' = [resource EXCEPT ![Head(closing)] = IF outcome = "ok" THEN "closed" ELSE "failed"]
      BY <2>6 DEF CloseTool, Standing
    <3>2. Len(closing) \in 1..ToolCount /\ Head(closing) = ToolOrder[Len(closing)]
      BY <1>1, <3>1, NextToClose
    <3>3. i = Len(closing)
      BY <1>1, <2>1, <2>2, <3>1, <3>2, OrderType DEF TypeOK
    <3>4. resource[ToolOrder[j]] # "open"
      BY <1>1, <2>1, <3>1, <3>3 DEF BehindClose
    <3> QED
      BY <1>1, <2>2, <3>1, <3>4 DEF TypeOK
  <2> QED
    BY <2>4, <2>5, <2>6
<1>2. LifecycleInv /\ [ServiceNext]_serviceVars => [Step]_lifecycleVars
  BY <1>1
<1>3. ServiceSpec => [][Step]_lifecycleVars
  BY <1>2, LifecycleHolds, PTL DEF ServiceSpec
<1> QED
  BY <1>3 DEF ClosedInReverse
=============================================================================
