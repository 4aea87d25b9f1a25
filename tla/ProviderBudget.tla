---------------------------- MODULE ProviderBudget ----------------------------
(***************************************************************************)
(* Provider budgets: ProviderBudgetManager (providers/application/         *)
(* budget.py) and the use the router makes of it.                          *)
(*                                                                         *)
(* A request is permitted when its candidates are chosen, before the first *)
(* provider is called, and its cost is recorded after a response; other    *)
(* requests run between the two.  The manager's lock makes each of its     *)
(* operations one step, and each first brings the totals of the provider   *)
(* up to date (_current).                                                  *)
(*                                                                         *)
(* Amounts are whole units of money and rounding is left out.  Any cost    *)
(* may follow any estimate, because the estimate knows max_tokens at most. *)
(***************************************************************************)
EXTENDS Integers, Sequences, FiniteSets, SequencesExt

CONSTANTS
  Providers,
  Models, ProviderOf,  \* the models discovered, each of one provider
  Requests,     \* requests that may be under way together, each used again and again
  DailyLimit, MonthlyLimit, RequestLimit,  \* BudgetPolicy of each provider
  Estimates,    \* what estimate_cost may say before a request
  Costs,        \* what it may say of the tokens a response used
  MaxCost,
  LastDay,      \* bound: the calendar is 0..LastDay
  MonthOf,
  NoLimit, Never

Limit == Nat \union {NoLimit}
Day   == 0..LastDay

ASSUME BudgetAssumption ==
  /\ IsFiniteSet(Models) /\ IsFiniteSet(Requests)
  /\ ProviderOf \in [Models -> Providers]
  /\ DailyLimit \in [Providers -> Limit]
  /\ MonthlyLimit \in [Providers -> Limit]
  /\ RequestLimit \in [Providers -> Limit]
  /\ Estimates \subseteq Nat
  /\ MaxCost \in Nat /\ Costs \subseteq 0..MaxCost
  /\ LastDay \in Nat /\ MonthOf \in [Day -> Nat]
  /\ \A d, e \in Day : d <= e => MonthOf[d] <= MonthOf[e]
  /\ NoLimit \notin Int /\ Never \notin Nat

VARIABLES
  day,       \* the date the clock shows
  spend,     \* _spend: the totals of a provider and the dates they are of
  queue      \* the models a request has left to try, the one it calls first

vars == <<day, spend, queue>>

-----------------------------------------------------------------------------
\* _spend.setdefault: the totals of no day, which the first _current dates.
Init ==
  /\ day = 0
  /\ spend = [p \in Providers |-> [day |-> Never, month |-> Never, daily |-> 0, monthly |-> 0]]
  /\ queue = [r \in Requests |-> <<>>]

\* Mutation: the month is overwritten with the day.
CurrentSwapped(s) ==
  [day |-> day, month |-> day,
   daily |-> IF s.day = day THEN s.daily ELSE 0,
   monthly |-> IF s.month = MonthOf[day] THEN s.monthly ELSE 0]

\* _current: totals of another month, or of another day, start again.
Current(s) ==
  [day |-> day, month |-> MonthOf[day],
   daily |-> IF s.day = day THEN s.daily ELSE 0,
   monthly |-> IF s.month = MonthOf[day] THEN s.monthly ELSE 0]

Within(amount, limit) == limit = NoLimit \/ amount <= limit

\* Mutation: only the limit for one request is enforced.
PermitsOneRequest(p, e) == Within(e, RequestLimit[p])

Permits(p, e) ==
  LET s == Current(spend[p])
  IN  /\ Within(e, RequestLimit[p])
      /\ Within(s.daily + e, DailyLimit[p])
      /\ Within(s.monthly + e, MonthlyLimit[p])

\* _generation_candidates: soft_limit_reached() and permits() look at the totals of
\* the providers; permitted models the ranking does not reject remain, in any order.
\* Without one the request is refused.
Choose(r) ==
  /\ queue[r] = <<>>
  /\ \E e \in [Models -> Estimates] :
       \E s \in SetToAllKPermutations({m \in Models : Permits(ProviderOf[m], e[m])}) :
          queue' = [queue EXCEPT ![r] = s]
  /\ spend' = [p \in Providers |-> Current(spend[p])]
  /\ UNCHANGED day

\* The candidate fails and the next one is called, without another look at its budget.
FailOver(r) ==
  /\ queue[r] # <<>>
  /\ queue' = [queue EXCEPT ![r] = Tail(@)]
  /\ UNCHANGED <<day, spend>>

Paid(s, c) ==
  [day |-> s.day, month |-> s.month, daily |-> s.daily + c, monthly |-> s.monthly + c]

\* Mutation: the cost is added to totals that may be of another day.
RecordUndated(p, c) ==
  spend' = [spend EXCEPT ![p] = Paid(@, c)]

Record(p, c) == spend' = [spend EXCEPT ![p] = Paid(Current(@), c)]

\* generate() returns: the cost of the response is recorded.
Respond(r) ==
  /\ queue[r] # <<>>
  /\ \E c \in Costs : Record(ProviderOf[Head(queue[r])], c)
  /\ queue' = [queue EXCEPT ![r] = <<>>]
  /\ UNCHANGED day

\* The request ends without a record: an error that is raised, a cancellation, a
\* stream, or a response of a model that was not discovered.
EndUnrecorded(r) ==
  /\ queue[r] # <<>>
  /\ queue' = [queue EXCEPT ![r] = <<>>]
  /\ UNCHANGED <<day, spend>>

\* snapshot(): the dashboard looks at one provider's totals.
Snapshot(p) ==
  /\ spend' = [spend EXCEPT ![p] = Current(@)]
  /\ UNCHANGED <<day, queue>>

Midnight ==
  /\ day < LastDay
  /\ day' = day + 1
  /\ UNCHANGED <<spend, queue>>

Next ==
  \/ \E r \in Requests : Choose(r) \/ FailOver(r) \/ Respond(r) \/ EndUnrecorded(r)
  \/ \E p \in Providers : Snapshot(p)
  \/ Midnight

Spec == Init /\ [][Next]_vars
-----------------------------------------------------------------------------
(* Properties *)

\* Every variable holds a value the program could store.
TypeOK ==
  /\ day \in Day
  /\ spend \in [Providers -> [day : Day \union {Never},
                              month : {MonthOf[d] : d \in Day} \union {Never},
                              daily : Nat, monthly : Nat]]
  /\ queue \in [Requests -> Seq(Models)]

Today     == [p \in Providers |-> Current(spend[p]).daily]
ThisMonth == [p \in Providers |-> Current(spend[p]).monthly]

\* The totals, reset lazily by whoever looks at them first, are those of accounts that
\* start again at midnight and with the month: no cost is lost, counted twice or
\* booked to another day.
Ledger == INSTANCE BudgetLedger WITH today <- Today, thisMonth <- ThisMonth
LedgerSpec == Ledger!Spec

\* Hard limits are checked before the await and recorded after it, so they can be
\* exceeded, by no more than one response of each request that runs concurrently.
OverspendBounded ==
  \A p \in Providers :
    /\ DailyLimit[p] # NoLimit
         => Today[p] <= DailyLimit[p] + MaxCost * Cardinality(Requests)
    /\ MonthlyLimit[p] # NoLimit
         => ThisMonth[p] <= MonthlyLimit[p] + MaxCost * Cardinality(Requests)

OverBudget(p) ==
  ~(Within(Today[p], DailyLimit[p]) /\ Within(ThisMonth[p], MonthlyLimit[p]))

\* What CHANGELOG.md says of the hard limits: a provider that is over its budget is not
\* called.
RoutedWithinBudget ==
  [][\A r \in Requests :
       (queue'[r] # queue[r] /\ queue'[r] # <<>>) => ~OverBudget(ProviderOf[Head(queue'[r])])]_vars
=============================================================================
