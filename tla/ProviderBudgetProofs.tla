------------------------- MODULE ProviderBudgetProofs -------------------------
(***************************************************************************)
(* What holds of the budgets for every set of providers and requests, every*)
(* policy, price and calendar.                                             *)
(***************************************************************************)
EXTENDS ProviderBudget, FiniteSetTheorems, SequenceTheorems, TLAPS

-----------------------------------------------------------------------------
(* Type correctness                                                         *)

\* The type of a provider's totals.
Totals == [day : Day \union {Never}, month : {MonthOf[d] : d \in Day} \union {Never},
           daily : Nat, monthly : Nat]

\* Totals brought up to date are totals.
LEMMA CurrentType ==
  ASSUME day \in Day, NEW s \in Totals
  PROVE  /\ Current(s) \in Totals
         /\ Current(s).day = day /\ Current(s).month = MonthOf[day]
         /\ Current(s).daily = (IF s.day = day THEN s.daily ELSE 0)
         /\ Current(s).monthly = (IF s.month = MonthOf[day] THEN s.monthly ELSE 0)
BY DEF Current, Totals

\* A candidate list is a sequence of permitted models.
LEMMA CandidatesType ==
  ASSUME NEW S \in SUBSET Models, NEW s \in SetToAllKPermutations(S)
  PROVE  s \in Seq(Models) /\ \A i \in DOMAIN s : s[i] \in S
<1>1. PICK T \in SUBSET S : s \in SetToSeqs(T)
  BY DEF SetToAllKPermutations
<1>2. IsFiniteSet(T) /\ Cardinality(T) \in Nat
  BY BudgetAssumption, FS_Subset, FS_CardinalityType
<1>3. s \in [1..Cardinality(T) -> T]
  BY <1>1 DEF SetToSeqs
<1> QED
  BY <1>2, <1>3, SeqDef

\* Totals are of a day that has come, and of its month, or of no day and empty.
DatedTotals(s) ==
  \/ s.day = Never /\ s.month = Never /\ s.daily = 0 /\ s.monthly = 0
  \/ s.day \in 0..day /\ s.month = MonthOf[s.day]

Dated == \A p \in Providers : DatedTotals(spend[p])

TypeInv == TypeOK /\ Dated

\* Before the first request.
LEMMA TypeInit == Init => TypeInv
BY BudgetAssumption DEF Init, TypeInv, TypeOK, Dated, DatedTotals, Day

\* The types as the totals of each provider.
LEMMA SpendType == TypeOK <=> /\ day \in Day /\ spend \in [Providers -> Totals]
                             /\ queue \in [Requests -> Seq(Models)]
BY DEF TypeOK, Totals

\* Totals that were brought up to date are dated.
LEMMA CurrentDated ==
  ASSUME TypeInv, NEW p \in Providers
  PROVE  Current(spend[p]) \in Totals /\ DatedTotals(Current(spend[p]))
<1>1. day \in Day /\ day \in 0..day /\ spend[p] \in Totals
  BY SpendType, BudgetAssumption DEF TypeInv, Day
<1> QED
  BY <1>1, CurrentType DEF DatedTotals

\* Paying adds to both totals.
LEMMA PaidType ==
  ASSUME NEW s \in Totals, NEW c \in Nat
  PROVE  /\ Paid(s, c) \in Totals /\ Paid(s, c).day = s.day /\ Paid(s, c).month = s.month
         /\ Paid(s, c).daily = s.daily + c /\ Paid(s, c).monthly = s.monthly + c
BY DEF Paid, Totals

\* Recording a cost brings the totals up to date and adds to both.
LEMMA RecordType ==
  ASSUME TypeInv, NEW p \in Providers, NEW c \in Costs, Record(p, c)
  PROVE  /\ spend' \in [Providers -> Totals]
         /\ \A q \in Providers : q # p => spend'[q] = spend[q]
         /\ spend'[p].day = day /\ spend'[p].month = MonthOf[day]
         /\ spend'[p].daily = Current(spend[p]).daily + c
         /\ spend'[p].monthly = Current(spend[p]).monthly + c
<1> DEFINE s == Current(spend[p])
<1>1. spend \in [Providers -> Totals] /\ s \in Totals /\ day \in Day /\ c \in Nat
  BY SpendType, CurrentDated, BudgetAssumption DEF TypeInv
<1>2. s.day = day /\ s.month = MonthOf[day]
  BY <1>1, CurrentType
<1>3. spend' = [spend EXCEPT ![p] = Paid(s, c)]
  BY DEF Record
<1> HIDE DEF s
<1>4. /\ Paid(s, c) \in Totals /\ Paid(s, c).day = s.day /\ Paid(s, c).month = s.month
      /\ Paid(s, c).daily = s.daily + c /\ Paid(s, c).monthly = s.monthly + c
  BY <1>1, PaidType
<1> QED
  BY <1>1, <1>2, <1>3, <1>4 DEF s

\* Every step keeps the types and the dates.
LEMMA TypeNext == TypeInv /\ [Next]_vars => TypeInv'
<1> SUFFICES ASSUME TypeInv, [Next]_vars PROVE TypeInv'
  OBVIOUS
<1> USE SpendType DEF TypeInv
<1>1. CASE UNCHANGED vars
  BY <1>1 DEF vars, TypeOK, Dated, DatedTotals
<1>2. ASSUME NEW r \in Requests, Choose(r)
      PROVE  TypeInv'
  <2>1. PICK e \in [Models -> Estimates] :
          \E s \in SetToAllKPermutations({m \in Models : Permits(ProviderOf[m], e[m])}) :
             queue' = [queue EXCEPT ![r] = s]
    BY <1>2 DEF Choose
  <2>2. queue' \in [Requests -> Seq(Models)]
    BY <2>1, CandidatesType
  <2>3. day' = day /\ spend' = [p \in Providers |-> Current(spend[p])]
    BY <1>2 DEF Choose
  <2>4. spend' \in [Providers -> Totals] /\ Dated'
    BY <2>3, CurrentDated DEF Dated, DatedTotals
  <2>5. TypeOK'
    BY <2>2, <2>3, <2>4 DEF TypeOK, Totals
  <2> QED
    BY <2>4, <2>5
<1>3. ASSUME NEW r \in Requests, FailOver(r) \/ EndUnrecorded(r)
      PROVE  TypeInv'
  <2>1. day' = day /\ spend' = spend /\ queue' \in [Requests -> Seq(Models)]
    <3>1. queue[r] \in Seq(Models) /\ queue[r] # <<>> /\ queue \in [Requests -> Seq(Models)]
      BY <1>3 DEF FailOver, EndUnrecorded
    <3>2. Tail(queue[r]) \in Seq(Models) /\ <<>> \in Seq(Models)
      BY <3>1
    <3>3. CASE FailOver(r)
      BY <3>1, <3>2, <3>3 DEF FailOver
    <3>4. CASE EndUnrecorded(r)
      BY <3>1, <3>2, <3>4 DEF EndUnrecorded
    <3> QED
      BY <1>3, <3>3, <3>4
  <2> QED
    BY <2>1 DEF TypeOK, Dated, DatedTotals
<1>4. ASSUME NEW r \in Requests, Respond(r)
      PROVE  TypeInv'
  <2>1. PICK c \in Costs : Record(ProviderOf[Head(queue[r])], c)
    BY <1>4 DEF Respond
  <2>2. ProviderOf[Head(queue[r])] \in Providers /\ day' = day /\ queue' \in [Requests -> Seq(Models)]
    BY <1>4, BudgetAssumption DEF Respond
  <2>3. spend' \in [Providers -> Totals] /\ Dated'
    <3>1. day \in 0..day
      BY BudgetAssumption DEF Day
    <3>2. PICK p \in Providers : Record(p, c)
      BY <2>1, <2>2
    <3>3. /\ spend' \in [Providers -> Totals] /\ \A q \in Providers : q # p => spend'[q] = spend[q]
          /\ spend'[p].day = day /\ spend'[p].month = MonthOf[day] /\ day' = day
      BY <2>2, <3>2, RecordType
    <3>4. ASSUME NEW q \in Providers
          PROVE  DatedTotals(spend[q])'
      <4>1. CASE q = p
        BY <3>1, <3>3, <4>1 DEF DatedTotals
      <4>2. CASE q # p
        BY <3>3, <4>2 DEF Dated, DatedTotals
      <4> QED
        BY <4>1, <4>2
    <3> QED
      BY <3>3, <3>4 DEF Dated
  <2>4. TypeOK'
    BY <2>2, <2>3 DEF TypeOK, Totals
  <2> QED
    BY <2>3, <2>4
<1>5. ASSUME NEW p \in Providers, Snapshot(p)
      PROVE  TypeInv'
  <2>1. day' = day /\ queue' = queue /\ spend' = [spend EXCEPT ![p] = Current(spend[p])]
    BY <1>5 DEF Snapshot
  <2>2. spend' \in [Providers -> Totals] /\ Dated'
    BY <2>1, CurrentDated DEF Dated, DatedTotals
  <2>3. TypeOK'
    BY <2>1, <2>2 DEF TypeOK, Totals
  <2> QED
    BY <2>2, <2>3
<1>6. CASE Midnight
  <2>1. day' = day + 1 /\ day' \in Day /\ spend' = spend /\ queue' = queue
    BY <1>6, BudgetAssumption DEF Midnight, Day
  <2>2. 0..day \subseteq 0..day'
    BY <2>1 DEF Day
  <2> QED
    BY <2>1, <2>2 DEF TypeOK, Dated, DatedTotals
<1> QED
  BY <1>1, <1>2, <1>3, <1>4, <1>5, <1>6 DEF Next

\* Every variable of the budgets holds a value of its type.
THEOREM TypeCorrect == Spec => []TypeOK
<1>1. TypeInv => TypeOK
  BY DEF TypeInv
<1> QED
  BY <1>1, TypeInit, TypeNext, PTL DEF Spec

-----------------------------------------------------------------------------
(* The totals implement the ledger                                          *)

\* What a reader of the totals sees: the stored total, when it is of this day or month.
LEMMA Views ==
  ASSUME TypeInv, NEW p \in Providers
  PROVE  /\ Today[p] = (IF spend[p].day = day THEN spend[p].daily ELSE 0)
         /\ ThisMonth[p] = (IF spend[p].month = MonthOf[day] THEN spend[p].monthly ELSE 0)
         /\ Today[p] \in Nat /\ ThisMonth[p] \in Nat
BY SpendType DEF TypeInv, Today, ThisMonth, Current, Totals

\* The same of the totals after a step.
LEMMA ViewsAfter ==
  ASSUME TypeInv', NEW p \in Providers
  PROVE  /\ Today'[p] = (IF spend'[p].day = day' THEN spend'[p].daily ELSE 0)
         /\ ThisMonth'[p] = (IF spend'[p].month = MonthOf[day'] THEN spend'[p].monthly ELSE 0)
         /\ Today'[p] \in Nat /\ ThisMonth'[p] \in Nat
BY DEF TypeInv, TypeOK, Today, ThisMonth, Current

\* Both views are functions of the provider.
LEMMA ViewsAreFunctions ==
  /\ Today = [p \in Providers |-> Today[p]] /\ ThisMonth = [p \in Providers |-> ThisMonth[p]]
  /\ Today' = [p \in Providers |-> Today'[p]] /\ ThisMonth' = [p \in Providers |-> ThisMonth'[p]]
BY DEF Today, ThisMonth

\* To bring totals up to date changes nothing a reader sees.
LEMMA ViewsCurrent ==
  ASSUME TypeInv, TypeInv', day' = day,
         \A p \in Providers : spend'[p] = spend[p] \/ spend'[p] = Current(spend[p])
  PROVE  Today' = Today /\ ThisMonth' = ThisMonth
<1>1. ASSUME NEW p \in Providers
      PROVE  Today'[p] = Today[p] /\ ThisMonth'[p] = ThisMonth[p]
  <2>1. day \in Day /\ spend[p] \in Totals
    BY SpendType DEF TypeInv
  <2>2. CASE spend'[p] = spend[p]
    BY <2>2, Views, ViewsAfter
  <2>3. CASE spend'[p] = Current(spend[p])
    BY <2>1, <2>3, CurrentType, Views, ViewsAfter
  <2> QED
    BY <2>2, <2>3
<1> QED
  BY <1>1, ViewsAreFunctions

\* A recorded cost is paid from both accounts of the provider, today.
LEMMA ViewsRecord ==
  ASSUME TypeInv, TypeInv', day' = day, NEW p \in Providers, NEW c \in Costs, Record(p, c)
  PROVE  /\ \A q \in Providers : q # p => Today'[q] = Today[q] /\ ThisMonth'[q] = ThisMonth[q]
         /\ Today'[p] = Today[p] + c /\ ThisMonth'[p] = ThisMonth[p] + c
<1>1. /\ \A q \in Providers : q # p => spend'[q] = spend[q]
      /\ spend'[p].day = day /\ spend'[p].month = MonthOf[day]
      /\ spend'[p].daily = Current(spend[p]).daily + c
      /\ spend'[p].monthly = Current(spend[p]).monthly + c
  BY RecordType
<1>2. \A q \in Providers : q # p => Today'[q] = Today[q] /\ ThisMonth'[q] = ThisMonth[q]
  BY <1>1, Views, ViewsAfter
<1>3. Today[p] = Current(spend[p]).daily /\ ThisMonth[p] = Current(spend[p]).monthly
  BY DEF Today, ThisMonth
<1>4. Today'[p] = spend'[p].daily /\ ThisMonth'[p] = spend'[p].monthly
  BY <1>1, ViewsAfter
<1> QED
  BY <1>1, <1>2, <1>3, <1>4

\* The same, as steps of the two accounts.
LEMMA ViewsPaid ==
  ASSUME TypeInv, TypeInv', day' = day, NEW p \in Providers, NEW c \in Costs, Record(p, c)
  PROVE  Today' = [Today EXCEPT ![p] = @ + c] /\ ThisMonth' = [ThisMonth EXCEPT ![p] = @ + c]
<1>1. /\ Today' = [q \in Providers |-> Today'[q]]
      /\ ThisMonth' = [q \in Providers |-> ThisMonth'[q]]
      /\ Today = [q \in Providers |-> Today[q]]
      /\ ThisMonth = [q \in Providers |-> ThisMonth[q]]
  BY ViewsAreFunctions
<1> QED
  BY <1>1, ViewsRecord

\* At midnight the daily accounts start again, and with the month the monthly ones.
LEMMA ViewsMidnight ==
  ASSUME TypeInv, TypeInv', Midnight
  PROVE  /\ Today' = [p \in Providers |-> 0]
         /\ ThisMonth' = ThisMonth \/ ThisMonth' = [p \in Providers |-> 0]
<1>1. day \in Day /\ day + 1 \in Day /\ day' = day + 1 /\ spend' = spend
  BY BudgetAssumption DEF Midnight, TypeInv, TypeOK, Day
<1>2. \A p \in Providers : spend[p] \in Totals /\ DatedTotals(spend[p])
  BY SpendType DEF TypeInv, Dated
<1>3. \A d \in Day : MonthOf[d] \in Nat
  BY BudgetAssumption
<1>4. ASSUME NEW p \in Providers
      PROVE  spend[p].day # day + 1
  BY <1>1, <1>2, BudgetAssumption DEF DatedTotals, Day
<1>5. Today' = [p \in Providers |-> 0]
  BY <1>1, <1>4 DEF Today, Current
<1>6. CASE MonthOf[day + 1] = MonthOf[day]
  <2>1. ThisMonth' = ThisMonth
    BY <1>1, <1>6 DEF ThisMonth, Current
  <2> QED
    BY <1>5, <2>1
<1>7. CASE MonthOf[day + 1] # MonthOf[day]
  <2>1. \A d \in 0..day : d \in Day /\ MonthOf[d] <= MonthOf[day]
    BY <1>1, BudgetAssumption DEF Day
  <2>2. MonthOf[day] <= MonthOf[day + 1]
    <3>1. day <= day + 1
      BY <1>1 DEF Day
    <3> QED
      BY <1>1, <3>1, BudgetAssumption
  <2>3. \A d \in 0..day : MonthOf[d] # MonthOf[day + 1]
    BY <1>1, <1>3, <1>7, <2>1, <2>2
  <2>4. ASSUME NEW p \in Providers
        PROVE  spend[p].month # MonthOf[day + 1]
    BY <1>1, <1>2, <1>3, <2>3, BudgetAssumption DEF DatedTotals
  <2>5. ThisMonth' = [p \in Providers |-> 0]
    BY <1>1, <2>4 DEF ThisMonth, Current
  <2> QED
    BY <1>5, <2>5
<1> QED
  BY <1>6, <1>7

\* What a step of the budgets is to a reader of the totals.
LEMMA ViewsNext ==
  ASSUME TypeInv, TypeInv', [Next]_vars
  PROVE  \/ Today' = Today /\ ThisMonth' = ThisMonth
         \/ \E p \in Providers, c \in Costs :
              /\ Today' = [Today EXCEPT ![p] = @ + c]
              /\ ThisMonth' = [ThisMonth EXCEPT ![p] = @ + c]
         \/ /\ Today' = [p \in Providers |-> 0]
            /\ ThisMonth' = ThisMonth \/ ThisMonth' = [p \in Providers |-> 0]
<1>1. ASSUME NEW r \in Requests, Choose(r)
      PROVE  Today' = Today /\ ThisMonth' = ThisMonth
  BY <1>1, ViewsCurrent DEF Choose
<1>2. ASSUME NEW p \in Providers, Snapshot(p)
      PROVE  Today' = Today /\ ThisMonth' = ThisMonth
  <2>1. spend \in [Providers -> Totals]
    BY SpendType DEF TypeInv
  <2> QED
    BY <1>2, <2>1, ViewsCurrent DEF Snapshot
<1>3. ASSUME NEW r \in Requests, Respond(r)
      PROVE  \E p \in Providers, c \in Costs :
               /\ Today' = [Today EXCEPT ![p] = @ + c]
               /\ ThisMonth' = [ThisMonth EXCEPT ![p] = @ + c]
  <2>1. ProviderOf[Head(queue[r])] \in Providers /\ day' = day
    BY <1>3, BudgetAssumption DEF Respond, TypeInv, TypeOK
  <2>2. PICK c \in Costs : Record(ProviderOf[Head(queue[r])], c)
    BY <1>3 DEF Respond
  <2> QED
    BY <2>1, <2>2, ViewsPaid
<1>4. CASE UNCHANGED <<day, spend>>
  BY <1>4 DEF Today, ThisMonth, Current
<1> QED
  BY <1>1, <1>2, <1>3, <1>4, ViewsMidnight DEF Next, FailOver, EndUnrecorded, vars

\* The lazily reset totals implement accounts that start again at midnight and with the
\* month: a refinement of BudgetLedger.
THEOREM LedgerTheorem == Spec => LedgerSpec
<1>1. Init => Ledger!Init
  <2> SUFFICES ASSUME Init PROVE Ledger!Init
    OBVIOUS
  <2>1. \A p \in Providers : Current(spend[p]).daily = 0 /\ Current(spend[p]).monthly = 0
    BY DEF Init, Current
  <2> QED
    BY <2>1 DEF Ledger!Init, Ledger!Empty, Today, ThisMonth
<1>2. TypeInv /\ TypeInv' /\ [Next]_vars => [Ledger!Next]_(Ledger!vars)
  BY ViewsNext
     DEF Ledger!Next, Ledger!Pay, Ledger!Midnight, Ledger!EndOfMonth, Ledger!Empty, Ledger!vars
<1> QED
  BY <1>1, <1>2, TypeInit, TypeNext, PTL DEF Spec, LedgerSpec, Ledger!Spec
-----------------------------------------------------------------------------
(* How far a limit can be exceeded                                          *)

\* The requests that may still be answered by p.
Queued(p) == {r \in Requests : \E i \in DOMAIN queue[r] : ProviderOf[queue[r][i]] = p}

\* A total that is over its limit leaves room for k responses below the bound.
Room(total, limit, k) ==
  (limit # NoLimit /\ total > limit)
    => total + MaxCost * k <= limit + MaxCost * Cardinality(Requests)

OverspendInv ==
  \A p \in Providers : /\ Room(Today[p], DailyLimit[p], Cardinality(Queued(p)))
                       /\ Room(ThisMonth[p], MonthlyLimit[p], Cardinality(Queued(p)))

\* Multiplication by one more.
LEMMA OneMore ==
  ASSUME NEW m \in Nat, NEW k \in Nat
  PROVE  m * (k + 1) = m * k + m
OBVIOUS

\* Multiplication keeps the order.
LEMMA Monotone ==
  ASSUME NEW m \in Nat, NEW j \in Nat, NEW k \in Nat, j <= k
  PROVE  m * j <= m * k /\ m * j \in Nat /\ m * k \in Nat
OBVIOUS

\* A response of a request takes the room that the request had.
LEMMA RoomPaid ==
  ASSUME NEW t \in Nat, NEW l \in Limit, NEW k \in Nat, NEW c \in 0..MaxCost,
         k + 1 <= Cardinality(Requests), Room(t, l, k + 1)
  PROVE  Room(t + c, l, k)
<1>1. MaxCost \in Nat /\ Cardinality(Requests) \in Nat
  BY BudgetAssumption, FS_CardinalityType
<1>2. SUFFICES ASSUME l \in Nat, t + c > l
              PROVE  t + c + MaxCost * k <= l + MaxCost * Cardinality(Requests)
  BY DEF Room, Limit
<1> DEFINE mk == MaxCost * k
           mn == MaxCost * Cardinality(Requests)
<1>3. MaxCost * (k + 1) = mk + MaxCost /\ MaxCost * (k + 1) <= mn /\ mk \in Nat /\ mn \in Nat
  BY <1>1, OneMore, Monotone
<1>4. t > l => t + MaxCost * (k + 1) <= l + mn
  BY <1>2, BudgetAssumption DEF Room
<1>5. t > l => t + mk + MaxCost <= l + mn
  BY <1>1, <1>3, <1>4
<1> HIDE DEF mk, mn
<1>6. t + c + mk <= l + mn
  BY <1>1, <1>2, <1>3, <1>5
<1> QED
  BY <1>6 DEF mk, mn

\* Fewer requests need no more room.
LEMMA RoomFewer ==
  ASSUME NEW t \in Nat, NEW l \in Limit, NEW j \in Nat, NEW k \in Nat, j <= k, Room(t, l, k)
  PROVE  Room(t, l, j)
<1>1. MaxCost \in Nat /\ Cardinality(Requests) \in Nat
  BY BudgetAssumption, FS_CardinalityType
<1> DEFINE mj == MaxCost * j
           mk == MaxCost * k
           mn == MaxCost * Cardinality(Requests)
<1>2. mj <= mk /\ mj \in Nat /\ mk \in Nat
  BY <1>1, Monotone
<1>3. mn \in Nat
  BY <1>1, Monotone
<1>4. SUFFICES ASSUME l \in Nat, t > l PROVE t + mj <= l + mn
  BY DEF Room, Limit
<1>5. t + mk <= l + mn
  BY <1>4, BudgetAssumption DEF Room
<1> HIDE DEF mj, mk, mn
<1> QED
  BY <1>2, <1>3, <1>4, <1>5

\* The requests that may be answered by p are at most all requests.
LEMMA QueuedSize ==
  ASSUME NEW p \in Providers
  PROVE  /\ Queued(p) \subseteq Requests /\ IsFiniteSet(Queued(p))
         /\ Cardinality(Queued(p)) \in Nat /\ Cardinality(Queued(p)) <= Cardinality(Requests)
BY BudgetAssumption, FS_Subset, FS_CardinalityType DEF Queued

\* The same after a step.
LEMMA QueuedSizeAfter ==
  ASSUME NEW p \in Providers
  PROVE  /\ Queued(p)' \subseteq Requests /\ IsFiniteSet(Queued(p)')
         /\ Cardinality(Queued(p)') \in Nat /\ Cardinality(Queued(p)') <= Cardinality(Requests)
BY BudgetAssumption, FS_Subset, FS_CardinalityType DEF Queued

\* A provider no request newly waits for, and whose totals stay or start again, keeps
\* its room.
LEMMA RoomKept ==
  ASSUME TypeInv, TypeInv', OverspendInv, NEW p \in Providers, Queued(p)' \subseteq Queued(p),
         Today'[p] \in {Today[p], 0}, ThisMonth'[p] \in {ThisMonth[p], 0}
  PROVE  /\ Room(Today'[p], DailyLimit[p], Cardinality(Queued(p)'))
         /\ Room(ThisMonth'[p], MonthlyLimit[p], Cardinality(Queued(p)'))
<1> DEFINE k == Cardinality(Queued(p))
           j == Cardinality(Queued(p)')
<1>1. j \in Nat /\ k \in Nat /\ j <= k
  BY QueuedSize, QueuedSizeAfter, FS_Subset
<1>2. DailyLimit[p] \in Limit /\ MonthlyLimit[p] \in Limit
  BY BudgetAssumption
<1>3. Today[p] \in Nat /\ ThisMonth[p] \in Nat
  BY Views
<1>4. Room(Today[p], DailyLimit[p], k) /\ Room(ThisMonth[p], MonthlyLimit[p], k)
  BY DEF OverspendInv
<1> HIDE DEF j, k
<1>5. Room(Today[p], DailyLimit[p], j) /\ Room(ThisMonth[p], MonthlyLimit[p], j)
  BY <1>1, <1>2, <1>3, <1>4, RoomFewer
<1>6. Room(0, DailyLimit[p], j) /\ Room(0, MonthlyLimit[p], j)
  BY <1>2 DEF Room, Limit
<1>7. Room(Today'[p], DailyLimit[p], j) /\ Room(ThisMonth'[p], MonthlyLimit[p], j)
  BY <1>5, <1>6
<1> QED
  BY <1>7 DEF j

\* Choosing candidates: only a provider that is within its limits is waited for anew.
LEMMA OverspendChoose ==
  ASSUME TypeInv, TypeInv', OverspendInv, NEW r \in Requests, Choose(r)
  PROVE  OverspendInv'
<1>1. PICK e \in [Models -> Estimates] :
        \E s \in SetToAllKPermutations({m \in Models : Permits(ProviderOf[m], e[m])}) :
           queue' = [queue EXCEPT ![r] = s]
  BY DEF Choose
<1>2. Today' = Today /\ ThisMonth' = ThisMonth
  BY ViewsCurrent DEF Choose
<1> SUFFICES ASSUME NEW p \in Providers
             PROVE  /\ Room(Today'[p], DailyLimit[p], Cardinality(Queued(p)'))
                    /\ Room(ThisMonth'[p], MonthlyLimit[p], Cardinality(Queued(p)'))
  BY DEF OverspendInv
<1>3. ASSUME NEW m \in Models, ProviderOf[m] = p, Permits(p, e[m])
      PROVE  /\ Room(Today'[p], DailyLimit[p], Cardinality(Queued(p)'))
             /\ Room(ThisMonth'[p], MonthlyLimit[p], Cardinality(Queued(p)'))
  <2>1. e[m] \in Nat /\ Today[p] \in Nat /\ ThisMonth[p] \in Nat
    BY Views, BudgetAssumption
  <2>2. Within(Today[p] + e[m], DailyLimit[p]) /\ Within(ThisMonth[p] + e[m], MonthlyLimit[p])
    BY <1>3 DEF Permits, Today, ThisMonth
  <2>3. DailyLimit[p] \in Limit /\ MonthlyLimit[p] \in Limit
    BY BudgetAssumption
  <2> QED
    BY <1>2, <2>1, <2>2, <2>3 DEF Room, Within, Limit
<1>4. CASE \A m \in Models : ProviderOf[m] = p => ~Permits(p, e[m])
  <2>1. \A i \in DOMAIN queue'[r] : ProviderOf[queue'[r][i]] # p
    <3>1. PICK s \in SetToAllKPermutations({m \in Models : Permits(ProviderOf[m], e[m])}) :
            queue' = [queue EXCEPT ![r] = s]
      BY <1>1
    <3>2. \A i \in DOMAIN s : s[i] \in {m \in Models : Permits(ProviderOf[m], e[m])}
      BY <3>1, CandidatesType
    <3>3. queue'[r] = s
      BY <3>1 DEF TypeInv, TypeOK
    <3> QED
      BY <1>4, <3>2, <3>3
  <2>2. \A q \in Requests : q # r => queue'[q] = queue[q]
    BY <1>1 DEF TypeInv, TypeOK
  <2>3. Queued(p)' \subseteq Queued(p)
    BY <2>1, <2>2 DEF Queued
  <2> QED
    BY <1>2, <2>3, RoomKept
<1> QED
  BY <1>3, <1>4

\* Recording a response: the request is waited for no longer.
LEMMA OverspendRespond ==
  ASSUME TypeInv, TypeInv', OverspendInv, NEW r \in Requests, Respond(r)
  PROVE  OverspendInv'
<1>1. /\ queue \in [Requests -> Seq(Models)] /\ queue[r] # <<>>
      /\ queue' = [queue EXCEPT ![r] = <<>>] /\ day' = day
  BY DEF Respond, TypeInv, TypeOK
<1>2. PICK c \in Costs : Record(ProviderOf[Head(queue[r])], c)
  BY DEF Respond
<1>3. PICK h \in Providers :
        /\ h = ProviderOf[Head(queue[r])] /\ c \in 0..MaxCost
        /\ 1 \in DOMAIN queue[r] /\ ProviderOf[queue[r][1]] = h
  <2>1. queue[r] \in Seq(Models) /\ queue[r] # <<>> /\ c \in 0..MaxCost
    BY <1>1, BudgetAssumption
  <2>2. 1 \in DOMAIN queue[r] /\ Head(queue[r]) = queue[r][1] /\ queue[r][1] \in Models
    BY <2>1
  <2> QED
    BY <2>1, <2>2, BudgetAssumption
<1>4. Record(h, c)
  BY <1>2, <1>3
<1>5. /\ \A q \in Providers : q # h => Today'[q] = Today[q] /\ ThisMonth'[q] = ThisMonth[q]
      /\ Today'[h] = Today[h] + c /\ ThisMonth'[h] = ThisMonth[h] + c
  BY <1>1, <1>3, <1>4, ViewsRecord
<1>6. \A p \in Providers : Queued(p)' = Queued(p) \ {r}
  BY <1>1 DEF Queued
<1> SUFFICES ASSUME NEW p \in Providers
             PROVE  /\ Room(Today'[p], DailyLimit[p], Cardinality(Queued(p)'))
                    /\ Room(ThisMonth'[p], MonthlyLimit[p], Cardinality(Queued(p)'))
  BY DEF OverspendInv
<1>7. CASE p # h
  BY <1>5, <1>6, <1>7, RoomKept
<1>8. CASE p = h
  <2> DEFINE j == Cardinality(Queued(h)')
  <2>1. r \in Queued(h)
    BY <1>3 DEF Queued
  <2>2. j \in Nat /\ Cardinality(Queued(h)) = j + 1
    <3>1. Cardinality(Queued(h)) \in Nat /\ IsFiniteSet(Queued(h)) /\ j \in Nat
      BY <1>3, QueuedSize, QueuedSizeAfter
    <3>2. j = Cardinality(Queued(h)) - 1
      BY <1>3, <1>6, <2>1, <3>1, FS_RemoveElement
    <3> QED
      BY <3>1, <3>2
  <2>3. j + 1 <= Cardinality(Requests)
    BY <1>3, <2>2, QueuedSize
  <2>4. Room(Today[h], DailyLimit[h], j + 1) /\ Room(ThisMonth[h], MonthlyLimit[h], j + 1)
    BY <1>3, <2>2 DEF OverspendInv
  <2>5. /\ DailyLimit[h] \in Limit /\ MonthlyLimit[h] \in Limit
        /\ Today[h] \in Nat /\ ThisMonth[h] \in Nat
    BY <1>3, Views, BudgetAssumption
  <2> HIDE DEF j
  <2>6. Room(Today[h] + c, DailyLimit[h], j) /\ Room(ThisMonth[h] + c, MonthlyLimit[h], j)
    BY <1>3, <2>2, <2>3, <2>4, <2>5, RoomPaid
  <2> QED
    BY <1>5, <1>8, <2>6 DEF j
<1> QED
  BY <1>7, <1>8

\* Every step keeps the room.
LEMMA OverspendNext ==
  ASSUME TypeInv, TypeInv', OverspendInv, [Next]_vars
  PROVE  OverspendInv'
<1>1. ASSUME NEW r \in Requests, FailOver(r) \/ EndUnrecorded(r)
      PROVE  OverspendInv'
  <2>1. day' = day /\ spend' = spend
    BY <1>1 DEF FailOver, EndUnrecorded
  <2>2. Today' = Today /\ ThisMonth' = ThisMonth
    BY <2>1 DEF Today, ThisMonth, Current
  <2>3. queue[r] \in Seq(Models) /\ queue[r] # <<>> /\ queue \in [Requests -> Seq(Models)]
    BY <1>1 DEF FailOver, EndUnrecorded, TypeInv, TypeOK
  <2>4. \A i \in DOMAIN Tail(queue[r]) :
          i + 1 \in DOMAIN queue[r] /\ Tail(queue[r])[i] = queue[r][i + 1]
    BY <2>3
  <2>5. /\ queue'[r] \in {Tail(queue[r]), <<>>}
        /\ \A q \in Requests : q # r => queue'[q] = queue[q]
    BY <1>1, <2>3 DEF FailOver, EndUnrecorded
  <2>6. \A p \in Providers : Queued(p)' \subseteq Queued(p)
    <3>1. ASSUME NEW p \in Providers, NEW q \in Requests,
                 \E i \in DOMAIN queue'[q] : ProviderOf[queue'[q][i]] = p
          PROVE  \E i \in DOMAIN queue[q] : ProviderOf[queue[q][i]] = p
      <4>1. CASE q # r
        BY <2>5, <3>1, <4>1
      <4>2. CASE q = r /\ queue'[r] = <<>>
        BY <3>1, <4>2
      <4>3. CASE q = r /\ queue'[r] = Tail(queue[r])
        BY <2>4, <3>1, <4>3
      <4> QED
        BY <2>5, <4>1, <4>2, <4>3
    <3> QED
      BY <3>1 DEF Queued
  <2> QED
    BY <2>2, <2>6, RoomKept DEF OverspendInv
<1>2. ASSUME NEW p \in Providers, Snapshot(p)
      PROVE  OverspendInv'
  <2>1. spend \in [Providers -> Totals]
    BY SpendType DEF TypeInv
  <2>2. Today' = Today /\ ThisMonth' = ThisMonth
    BY <1>2, <2>1, ViewsCurrent DEF Snapshot
  <2>3. \A q \in Providers : Queued(q)' = Queued(q)
    BY <1>2 DEF Snapshot, Queued
  <2> QED
    BY <2>2, <2>3, RoomKept DEF OverspendInv
<1>3. CASE Midnight
  <2>1. \A q \in Providers : Queued(q)' = Queued(q)
    BY <1>3 DEF Midnight, Queued
  <2>2. \A q \in Providers : Today'[q] = 0 /\ ThisMonth'[q] \in {ThisMonth[q], 0}
    BY <1>3, ViewsMidnight
  <2> QED
    BY <2>1, <2>2, RoomKept DEF OverspendInv
<1>4. CASE UNCHANGED vars
  BY <1>4 DEF vars, OverspendInv, Today, ThisMonth, Current, Queued, Room
<1> QED
  BY <1>1, <1>2, <1>3, <1>4, OverspendChoose, OverspendRespond DEF Next

\* A limit that is checked before the await and recorded after it is exceeded by no
\* more than one response of each concurrent request.
THEOREM OverspendTheorem == Spec => []OverspendBounded
<1>1. Init => OverspendInv
  <2> SUFFICES ASSUME Init PROVE OverspendInv
    OBVIOUS
  <2>1. \A p \in Providers : Today[p] = 0 /\ ThisMonth[p] = 0
    BY DEF Init, Today, ThisMonth, Current
  <2> QED
    BY <2>1, BudgetAssumption DEF OverspendInv, Room, Limit
<1>2. TypeInv /\ TypeInv' /\ OverspendInv /\ [Next]_vars => OverspendInv'
  BY OverspendNext
<1>3. TypeInv /\ OverspendInv => OverspendBounded
  <2> SUFFICES ASSUME TypeInv, OverspendInv, NEW p \in Providers
               PROVE  /\ DailyLimit[p] # NoLimit
                           => Today[p] <= DailyLimit[p] + MaxCost * Cardinality(Requests)
                      /\ MonthlyLimit[p] # NoLimit
                           => ThisMonth[p] <= MonthlyLimit[p] + MaxCost * Cardinality(Requests)
    BY DEF OverspendBounded
  <2> DEFINE mk == MaxCost * Cardinality(Queued(p))
             mn == MaxCost * Cardinality(Requests)
  <2>1. mk \in Nat /\ mn \in Nat
    BY QueuedSize, BudgetAssumption, FS_CardinalityType, Monotone
  <2>2. Today[p] \in Nat /\ ThisMonth[p] \in Nat
    BY Views
  <2>3. DailyLimit[p] \in Limit /\ MonthlyLimit[p] \in Limit
    BY BudgetAssumption
  <2>4. /\ DailyLimit[p] # NoLimit /\ Today[p] > DailyLimit[p]
             => Today[p] + mk <= DailyLimit[p] + mn
        /\ MonthlyLimit[p] # NoLimit /\ ThisMonth[p] > MonthlyLimit[p]
             => ThisMonth[p] + mk <= MonthlyLimit[p] + mn
    BY DEF OverspendInv, Room
  <2> HIDE DEF mk, mn
  <2>5. /\ DailyLimit[p] # NoLimit => Today[p] <= DailyLimit[p] + mn
        /\ MonthlyLimit[p] # NoLimit => ThisMonth[p] <= MonthlyLimit[p] + mn
    BY <2>1, <2>2, <2>3, <2>4 DEF Limit
  <2> QED
    BY <2>5 DEF mn
<1> QED
  BY <1>1, <1>2, <1>3, TypeInit, TypeNext, PTL DEF Spec
=============================================================================
