---------------------------- MODULE FilesProofs ----------------------------
(***************************************************************************)
(* What holds of the two parts that work on a file: the .env file the      *)
(* dashboard writes, for every number of sessions and providers and        *)
(* wherever the process is killed, and the analysis of a CSV file, for     *)
(* every file, every number of columns and every limit.                    *)
(***************************************************************************)
EXTENDS Requests, SequenceTheorems, FiniteSetTheorems, TLAPS

-----------------------------------------------------------------------------
(* The .env file: types                                                     *)

\* A priority names a provider once.
Priorities == {q \in Seq(Providers) : \A i, j \in 1..Len(q) : q[i] = q[j] => i = j}

EnvFile  == [exists : BOOLEAN, whole : BOOLEAN, set : SUBSET Env!Variables, priority : Priorities]
EnvWrite == [var : Env!Variables] \cup [priority : Priorities]
Run      == [place : {"idle", "testing", "reading", "opening", "writing", "replacing"},
             provider : Providers \cup {"none"}, tries : Nat, priority : Priorities,
             todo : Seq(EnvWrite), content : EnvFile, target : {"tmp", "env", "nowhere"}]

SetsVariable(write) == "var" \in DOMAIN write

\* Whoever saves has something left to write, and a wizard that tests has a provider.
RunOK(run) ==
  /\ run.place \in {"reading", "opening", "writing", "replacing"} => run.todo # <<>>
  /\ run.place = "testing" => run.provider \in Providers

EnvTypes ==
  /\ env \in EnvFile /\ tmp \in EnvFile
  /\ session \in [Sessions -> Run] /\ \A s \in Sessions : RunOK(session[s])
  /\ saves \in 0..MaxSaves /\ overlapped \in BOOLEAN /\ saved \subseteq Env!Variables

LEMMA FieldNames ==
  /\ Env!Range(Env!Fields) = {"KEY", "BASE_URL", "MODEL", "ENABLED"}
  /\ \A p \in Providers : \A n \in {"KEY", "BASE_URL", "MODEL", "ENABLED"} : <<p, n>> \in Env!Variables
<1>1. Env!Range(Env!Fields) = {Env!Fields[i] : i \in 1..4}
  BY DEF Env!Range, Env!Fields
<1>2. Env!Range(Env!Fields) = {"KEY", "BASE_URL", "MODEL", "ENABLED"}
  BY <1>1 DEF Env!Fields
<1> QED
  BY <1>2 DEF Env!Variables

LEMMA WriteKinds ==
  ASSUME NEW write \in EnvWrite
  PROVE  /\ SetsVariable(write) => write.var \in Env!Variables
         /\ ~SetsVariable(write) => write.priority \in Priorities
BY DEF EnvWrite, SetsVariable

LEMMA NoPriority == <<>> \in Priorities
BY DEF Priorities

LEMMA FileTypes == Env!NoFile \in EnvFile /\ Env!Empty \in EnvFile
BY NoPriority DEF Env!NoFile, Env!Empty, EnvFile

\* The rest of a priority has the other providers, each once.
LEMMA RestOfPriority ==
  ASSUME NEW priority \in Priorities, NEW p \in Providers
  PROVE  /\ Env!Rest(priority, p) \in Priorities
         /\ \A i \in 1..Len(Env!Rest(priority, p)) :
              /\ Env!Rest(priority, p)[i] # p
              /\ \E j \in 1..Len(priority) : Env!Rest(priority, p)[i] = priority[j]
<1> DEFINE n == Len(priority)
           at == {i \in DOMAIN priority : priority[i] = p}
           rest == Env!Rest(priority, p)
<1>1. priority \in Seq(Providers) /\ n \in Nat /\ DOMAIN priority = 1..n
      /\ \A i, j \in 1..n : priority[i] = priority[j] => i = j
  BY LenProperties DEF Priorities
<1>2. CASE at = {}
  <2>1. rest = priority
    BY <1>2 DEF Env!Rest
  <2> QED
    BY <1>1, <1>2, <2>1
<1>3. CASE at # {}
  <2>1. PICK i \in at : rest = Env!RemoveAt(priority, i)
    BY <1>3 DEF Env!Rest
  <2>2. i \in 1..n /\ priority[i] = p
    BY <1>1, <2>1
  <2> DEFINE front == SubSeq(priority, 1, i - 1)
             back  == SubSeq(priority, i + 1, n)
  <2>3. rest = front \o back
    BY <2>1 DEF Env!RemoveAt
  <2>4. /\ front \in Seq(Providers) /\ Len(front) = i - 1
        /\ \A k \in 1..(i - 1) : front[k] = priority[k]
    <3>1. \A k \in 1..(i - 1) : priority[k] \in Providers
      BY <1>1, <2>2, ElementOfSeq
    <3>2. 1 \in Int /\ i - 1 \in Int
      BY <2>2
    <3> QED
      BY <2>2, <3>1, <3>2, SubSeqProperties
  <2>5. /\ back \in Seq(Providers) /\ Len(back) = n - i
        /\ \A k \in 1..(n - i) : back[k] = priority[i + k]
    <3>1. \A k \in (i + 1)..n : priority[k] \in Providers
      BY <1>1, <2>2, ElementOfSeq
    <3>2. n \in Int /\ i \in Int /\ i + 1 \in Int /\ i <= n
      BY <1>1, <2>2
    <3>3. /\ back \in Seq(Providers) /\ Len(back) = IF i + 1 <= n THEN n - (i + 1) + 1 ELSE 0
          /\ \A k \in 1..(n - (i + 1) + 1) : back[k] = priority[i + 1 + k - 1]
      BY <3>1, <3>2, SubSeqProperties
    <3> HIDE DEF back
    <3>4. ASSUME NEW k \in 1..(n - i)
          PROVE  back[k] = priority[i + k]
      <4>1. k \in 1..(n - (i + 1) + 1) /\ i + 1 + k - 1 = i + k
        BY <3>2
      <4> QED
        BY <3>3, <4>1
    <3>5. (IF i + 1 <= n THEN n - (i + 1) + 1 ELSE 0) = n - i
      BY <3>2
    <3> QED
      BY <3>3, <3>4, <3>5
  <2> HIDE DEF front, back, rest
  <2>6. /\ rest \in Seq(Providers) /\ Len(rest) = n - 1
        /\ \A k \in 1..(n - 1) : rest[k] = IF k < i THEN priority[k] ELSE priority[k + 1]
    <3>1. /\ rest \in Seq(Providers) /\ Len(rest) = Len(front) + Len(back)
          /\ \A k \in 1..(Len(front) + Len(back)) :
               rest[k] = IF k <= Len(front) THEN front[k] ELSE back[k - Len(front)]
      <4>1. front \in Seq(Providers) /\ back \in Seq(Providers)
        BY <2>4, <2>5
      <4> QED
        BY <2>3, <4>1, ConcatProperties
    <3>2. Len(front) + Len(back) = n - 1
      BY <1>1, <2>2, <2>4, <2>5
    <3>3. ASSUME NEW k \in 1..(n - 1)
          PROVE  rest[k] = IF k < i THEN priority[k] ELSE priority[k + 1]
      <4>1. CASE k < i
        <5>1. k \in 1..(i - 1) /\ k <= Len(front)
          BY <2>2, <2>4, <3>3, <4>1
        <5> QED
          BY <2>4, <3>1, <3>2, <3>3, <4>1, <5>1
      <4>2. CASE ~(k < i)
        <5>1. k - Len(front) \in 1..(n - i) /\ ~(k <= Len(front)) /\ i + (k - Len(front)) = k + 1
          BY <1>1, <2>2, <2>4, <3>3, <4>2
        <5> QED
          BY <2>5, <3>1, <3>2, <3>3, <4>2, <5>1
      <4> QED
        BY <4>1, <4>2
    <3> QED
      BY <3>1, <3>2, <3>3
  <2>7. \A k \in 1..(n - 1) : \E j \in 1..n : j # i /\ rest[k] = priority[j]
                                            /\ j = IF k < i THEN k ELSE k + 1
    BY <1>1, <2>2, <2>6
  <2>8. \A k, l \in 1..Len(rest) : rest[k] = rest[l] => k = l
    BY <1>1, <2>2, <2>6
  <2>9. \A k \in 1..Len(rest) : rest[k] # p /\ \E j \in 1..n : rest[k] = priority[j]
    BY <1>1, <2>2, <2>6, <2>7
  <2> QED
    BY <2>6, <2>8, <2>9 DEF Priorities, rest
<1> QED
  BY <1>2, <1>3

\* A provider in front of the rest is a priority of the same providers and this one.
LEMMA FrontOfPriority ==
  ASSUME NEW priority \in Priorities, NEW p \in Providers, NEW front,
         front = <<p>> \o Env!Rest(priority, p)
  PROVE  /\ front \in Priorities
         /\ \A q \in Env!Range(front) : q = p \/ q \in Env!Range(priority)
<1> DEFINE rest == Env!Rest(priority, p)
<1>1. /\ rest \in Priorities /\ rest \in Seq(Providers) /\ Len(rest) \in Nat
      /\ \A i \in 1..Len(rest) : rest[i] # p /\ \E j \in 1..Len(priority) : rest[i] = priority[j]
  BY RestOfPriority, LenProperties DEF Priorities
<1>2. priority \in Seq(Providers) /\ DOMAIN priority = 1..Len(priority)
  BY LenProperties DEF Priorities
<1>3. \A i, j \in 1..Len(rest) : rest[i] = rest[j] => i = j
  BY <1>1 DEF Priorities
<1> HIDE DEF rest
<1>4. <<p>> \in Seq(Providers) /\ Len(<<p>>) = 1 /\ <<p>>[1] = p
  OBVIOUS
<1>5. /\ front \in Seq(Providers) /\ Len(front) = 1 + Len(rest)
      /\ \A i \in 1..(1 + Len(rest)) : front[i] = IF i <= 1 THEN <<p>>[i] ELSE rest[i - 1]
  BY <1>1, <1>4, ConcatProperties DEF rest
<1>6. /\ Len(front) = 1 + Len(rest) /\ DOMAIN front = 1..Len(front) /\ front[1] = p
      /\ \A i \in 1..Len(front) : i # 1 => i - 1 \in 1..Len(rest) /\ front[i] = rest[i - 1]
  BY <1>1, <1>4, <1>5, LenProperties
<1>7. ASSUME NEW i \in 1..Len(front), NEW j \in 1..Len(front), front[i] = front[j]
      PROVE  i = j
  <2>0. ASSUME NEW k \in 1..Len(front), k # 1
        PROVE  front[k] # p
    <3>1. k - 1 \in 1..Len(rest) /\ front[k] = rest[k - 1]
      BY <1>6, <2>0
    <3>2. rest[k - 1] # p
      BY <1>1, <3>1
    <3> QED
      BY <3>1, <3>2
  <2>1. CASE i = 1 \/ j = 1
    <3>1. front[1] = p
      BY <1>6
    <3> QED
      BY <1>7, <2>0, <2>1, <3>1
  <2>2. CASE i # 1 /\ j # 1
    <3>0. /\ i - 1 \in 1..Len(rest) /\ front[i] = rest[i - 1]
          /\ j - 1 \in 1..Len(rest) /\ front[j] = rest[j - 1]
      BY <1>6, <2>2
    <3>1. i - 1 = j - 1
      BY <1>3, <1>7, <3>0
    <3>2. i \in Int /\ j \in Int
      OBVIOUS
    <3> QED
      BY <3>1, <3>2
  <2> QED
    BY <2>1, <2>2
<1>8. front \in Priorities
  BY <1>5, <1>7 DEF Priorities
<1>9. ASSUME NEW i \in 1..Len(front), front[i] # p
      PROVE  \E j \in 1..Len(priority) : front[i] = priority[j]
  BY <1>1, <1>6, <1>9
<1>10. \A q \in Env!Range(front) : q = p \/ q \in Env!Range(priority)
  <2> SUFFICES ASSUME NEW q \in Env!Range(front), q # p
               PROVE  q \in Env!Range(priority)
    OBVIOUS
  <2>1. PICK i \in 1..Len(front) : q = front[i]
    BY <1>6 DEF Env!Range
  <2>2. PICK j \in 1..Len(priority) : q = priority[j]
    BY <1>9, <2>1
  <2> QED
    BY <1>2, <2>2 DEF Env!Range
<1> QED
  BY <1>8, <1>10

-----------------------------------------------------------------------------
(* The .env file: types are kept                                            *)

LEMMA UpdatedType ==
  ASSUME NEW text \in EnvFile, NEW write \in EnvWrite
  PROVE  /\ Env!Updated(text, write) \in EnvFile
         /\ Env!Updated(text, write).whole = TRUE
         /\ Env!Updated(text, write).set = text.set \cup Env!Written(write)
         /\ Env!Updated(text, write).priority =
              IF SetsVariable(write) THEN text.priority ELSE write.priority
<1>1. CASE SetsVariable(write)
  BY <1>1, WriteKinds DEF SetsVariable, Env!Updated, Env!Written, EnvFile
<1>2. CASE ~SetsVariable(write)
  BY <1>2, WriteKinds DEF SetsVariable, Env!Updated, Env!Written, EnvFile
<1> QED
  BY <1>1, <1>2

\* The writes of the wizard, one after the other.
SetField(p, name) == [var |-> <<p, name>>]
SetFront(p, priority) == [priority |-> <<p>> \o Env!Rest(priority, p)]
Bit(b) == IF b THEN 1 ELSE 0

LEMMA WizardForms ==
  ASSUME NEW p \in Providers, NEW key \in BOOLEAN, NEW priority \in Priorities, NEW active \in BOOLEAN,
         NEW writes, writes = Env!WizardWrites(p, key, priority, active)
  PROVE  /\ writes \in Seq(EnvWrite) /\ Len(writes) = Bit(key) + 3 + Bit(active)
         /\ key => writes[1] = SetField(p, "KEY")
         /\ writes[Bit(key) + 1] = SetField(p, "BASE_URL")
         /\ writes[Bit(key) + 2] = SetField(p, "MODEL")
         /\ writes[Bit(key) + 3] = SetField(p, "ENABLED")
         /\ active => writes[Bit(key) + 4] = SetFront(p, priority)
<1> DEFINE k == SetField(p, "KEY")
           b == SetField(p, "BASE_URL")
           m == SetField(p, "MODEL")
           e == SetField(p, "ENABLED")
           a == SetFront(p, priority)
           front == IF key THEN <<k>> ELSE <<>>
           back == IF active THEN <<a>> ELSE <<>>
           middle == <<b, m, e>>
<1>1. k \in EnvWrite /\ b \in EnvWrite /\ m \in EnvWrite /\ e \in EnvWrite /\ a \in EnvWrite
  BY FrontOfPriority, FieldNames DEF EnvWrite, SetField, SetFront
<1>2. writes = (front \o middle) \o back
  BY DEF Env!WizardWrites, SetField, SetFront
<1> HIDE DEF k, b, m, e, a
<1>3. front \in Seq(EnvWrite) /\ Len(front) = Bit(key) /\ (key => front[1] = k)
  BY <1>1 DEF Bit
<1>4. back \in Seq(EnvWrite) /\ Len(back) = Bit(active) /\ (active => back[1] = a)
  BY <1>1 DEF Bit
<1>5. middle \in Seq(EnvWrite) /\ Len(middle) = 3 /\ middle[1] = b /\ middle[2] = m /\ middle[3] = e
  BY <1>1
<1> HIDE DEF front, middle, back
<1> DEFINE first == front \o middle
<1>6. /\ first \in Seq(EnvWrite) /\ Len(first) = Bit(key) + 3
      /\ \A i \in 1..(Bit(key) + 3) : first[i] = IF i <= Bit(key) THEN front[i] ELSE middle[i - Bit(key)]
  <2>1. /\ first \in Seq(EnvWrite) /\ Len(first) = Len(front) + Len(middle)
        /\ \A i \in 1..(Len(front) + Len(middle)) :
             first[i] = IF i <= Len(front) THEN front[i] ELSE middle[i - Len(front)]
    BY <1>3, <1>5, ConcatProperties
  <2> QED
    BY <1>3, <1>5, <2>1
<1>7. Bit(key) \in {0, 1} /\ Bit(active) \in {0, 1} /\ (key <=> Bit(key) = 1) /\ (active <=> Bit(active) = 1)
  BY DEF Bit
<1>8. /\ key => first[1] = k
      /\ first[Bit(key) + 1] = b /\ first[Bit(key) + 2] = m /\ first[Bit(key) + 3] = e
  BY <1>3, <1>5, <1>6, <1>7
<1> HIDE DEF first
<1>9. /\ writes \in Seq(EnvWrite) /\ Len(writes) = Bit(key) + 3 + Bit(active)
      /\ \A i \in 1..(Bit(key) + 3 + Bit(active)) :
           writes[i] = IF i <= Bit(key) + 3 THEN first[i] ELSE back[i - (Bit(key) + 3)]
  <2>1. /\ first \o back \in Seq(EnvWrite) /\ Len(first \o back) = Len(first) + Len(back)
        /\ \A i \in 1..(Len(first) + Len(back)) :
             (first \o back)[i] = IF i <= Len(first) THEN first[i] ELSE back[i - Len(first)]
    BY <1>4, <1>6, ConcatProperties
  <2>2. writes = first \o back
    BY <1>2 DEF first
  <2> QED
    BY <1>4, <1>6, <2>1, <2>2
<1>10. /\ key => writes[1] = k
       /\ writes[Bit(key) + 1] = b /\ writes[Bit(key) + 2] = m /\ writes[Bit(key) + 3] = e
       /\ active => writes[Bit(key) + 4] = a
  BY <1>4, <1>7, <1>8, <1>9
<1> QED
  BY <1>9, <1>10 DEF k, b, m, e, a

LEMMA IdleType == Env!Idle \in Run /\ RunOK(Env!Idle)
<1>1. <<>> \in Seq(EnvWrite)
  OBVIOUS
<1> QED
  BY <1>1, NoPriority, FileTypes DEF Env!Idle, Run, RunOK

LEMMA EnvTypesInit ==
  ASSUME Env!Init
  PROVE  EnvTypes
<1>1. session \in [Sessions -> Run] /\ \A s \in Sessions : RunOK(session[s])
  BY IdleType DEF Env!Init
<1>2. saves \in 0..MaxSaves /\ overlapped \in BOOLEAN /\ saved \subseteq Env!Variables
  <2>1. MaxSaves \in Nat
    BY BoundsAssumption
  <2>2. saves = 0 /\ overlapped = FALSE /\ saved = {}
    BY DEF Env!Init
  <2>3. saves \in 0..MaxSaves
    BY <2>1, <2>2
  <2>4. overlapped \in BOOLEAN
    BY <2>2
  <2> QED
    BY <2>2, <2>3, <2>4
<1>3. env \in EnvFile /\ tmp \in EnvFile
  BY FileTypes DEF Env!Init
<1> QED
  BY <1>1, <1>2, <1>3 DEF EnvTypes

\* One session changes.
LEMMA RunChanges ==
  ASSUME EnvTypes, NEW s \in Sessions, NEW run \in Run, RunOK(run),
         session' = [session EXCEPT ![s] = run]
  PROVE  /\ session' \in [Sessions -> Run] /\ \A t \in Sessions : RunOK(session'[t])
         /\ session'[s] = run /\ \A t \in Sessions : t # s => session'[t] = session[t]
BY DEF EnvTypes

\* The records a session becomes.
Testing(p, priority) == [Env!Idle EXCEPT !.place = "testing", !.provider = p, !.priority = priority]
SavingRun(writes)    == [Env!Idle EXCEPT !.place = "reading", !.todo = writes]

LEMMA RunTypes ==
  /\ \A p \in Providers, priority \in Priorities :
       Testing(p, priority) \in Run /\ RunOK(Testing(p, priority))
  /\ \A writes \in Seq(EnvWrite) : writes # <<>> =>
       SavingRun(writes) \in Run /\ RunOK(SavingRun(writes))
  /\ \A run \in Run : RunOK(run) /\ run.place = "testing" =>
       [run EXCEPT !.tries = @ + 1] \in Run /\ RunOK([run EXCEPT !.tries = @ + 1])
<1>1. ASSUME NEW p \in Providers, NEW priority \in Priorities
      PROVE  Testing(p, priority) \in Run /\ RunOK(Testing(p, priority))
  BY IdleType DEF Testing, Run, RunOK
<1>2. ASSUME NEW writes \in Seq(EnvWrite), writes # <<>>
      PROVE  SavingRun(writes) \in Run /\ RunOK(SavingRun(writes))
  <2>1. SavingRun(writes) \in Run
    BY IdleType DEF SavingRun, Run
  <2>2. SavingRun(writes).place = "reading" /\ SavingRun(writes).todo = writes
    BY IdleType DEF SavingRun, Run
  <2> QED
    BY <1>2, <2>1, <2>2 DEF RunOK
<1>3. ASSUME NEW run \in Run, RunOK(run), run.place = "testing"
      PROVE  [run EXCEPT !.tries = @ + 1] \in Run /\ RunOK([run EXCEPT !.tries = @ + 1])
  BY <1>3 DEF Run, RunOK
<1> QED
  BY <1>1, <1>2, <1>3

LEMMA EnvTypesStep ==
  ASSUME EnvTypes, Env!Next \/ UNCHANGED envVars
  PROVE  EnvTypes'
<1>n. MaxSaves \in Nat
  BY BoundsAssumption
<1>r. \A s \in Sessions : session[s] \in Run /\ RunOK(session[s])
  BY DEF EnvTypes
<1>d. session \in [Sessions -> Run]
  BY DEF EnvTypes
<1>o. \A s \in Sessions : Env!Overlaps(s) => overlapped' \in BOOLEAN
  BY DEF Env!Overlaps
<1>s. saves < MaxSaves /\ saves' = saves + 1 => saves' \in 0..MaxSaves
  BY <1>n DEF EnvTypes
<1>0. CASE UNCHANGED envVars
  BY <1>0 DEF envVars, EnvTypes, RunOK
\* A step of a session that leaves the files alone.
<1>a. ASSUME NEW s \in Sessions, NEW run \in Run, RunOK(run), session' = [session EXCEPT ![s] = run],
             Env!Stays, saves' \in 0..MaxSaves, overlapped' \in BOOLEAN
      PROVE  EnvTypes'
  <2>1. session' \in [Sessions -> Run] /\ \A t \in Sessions : RunOK(session'[t])
    BY <1>a, RunChanges
  <2> QED
    BY <1>a, <2>1 DEF Env!Stays, EnvTypes, RunOK
<1>u. saves \in 0..MaxSaves /\ overlapped \in BOOLEAN /\ env \in EnvFile /\ tmp \in EnvFile
  BY DEF EnvTypes
<1>1. ASSUME NEW s \in Sessions, NEW p \in Providers, Env!BeginWizard(s, p)
      PROVE  EnvTypes'
  <2>1. env.priority \in Priorities
    BY DEF EnvTypes, EnvFile
  <2>2. session' = [session EXCEPT ![s] = Testing(p, env.priority)]
    BY <1>1 DEF Env!BeginWizard, Testing
  <2> QED
    BY <1>1, <1>a, <1>s, <1>u, <2>1, <2>2, RunTypes DEF Env!BeginWizard
<1>2. ASSUME NEW s \in Sessions, NEW outcome, Env!TestFails(s, outcome)
      PROVE  EnvTypes'
  <2>1. \/ session' = [session EXCEPT ![s] = [session[s] EXCEPT !.tries = @ + 1]]
        \/ session' = [session EXCEPT ![s] = Env!Idle]
    BY <1>2, <1>d DEF Env!TestFails
  <2>2. session[s].place = "testing" /\ Env!Stays /\ saves' = saves /\ overlapped' = overlapped
    BY <1>2 DEF Env!TestFails
  <2> QED
    BY <1>a, <1>r, <1>u, <2>1, <2>2, RunTypes, IdleType
<1>3. ASSUME NEW s \in Sessions, NEW key \in BOOLEAN, NEW active \in BOOLEAN, Env!TestSucceeds(s, key, active)
      PROVE  EnvTypes'
  <2>0. PICK writes : writes = Env!WizardWrites(session[s].provider, key, session[s].priority, active)
    OBVIOUS
  <2>1. session[s].provider \in Providers /\ session[s].priority \in Priorities
    BY <1>3, <1>r DEF Env!TestSucceeds, Run, RunOK
  <2>2. writes \in Seq(EnvWrite) /\ Len(writes) # 0
    <3>1. writes \in Seq(EnvWrite) /\ Len(writes) = Bit(key) + 3 + Bit(active)
      BY <2>0, <2>1, WizardForms
    <3> QED
      BY <3>1 DEF Bit
  <2>3. session' = [session EXCEPT ![s] = SavingRun(writes)]
    BY <1>3, <2>0 DEF Env!TestSucceeds, SavingRun
  <2>4. Env!Stays /\ saves' = saves /\ Env!Overlaps(s)
    BY <1>3 DEF Env!TestSucceeds
  <2>5. writes # <<>>
    BY <2>2
  <2> QED
    BY <1>a, <1>o, <1>u, <2>2, <2>3, <2>4, <2>5, RunTypes
<1>4. ASSUME NEW s \in Sessions, NEW p \in Providers, Env!BeginKey(s, p)
      PROVE  EnvTypes'
  <2> DEFINE k == SetField(p, "KEY")
  <2>1. k \in EnvWrite
    BY FieldNames DEF EnvWrite, SetField
  <2>2. session' = [session EXCEPT ![s] = SavingRun(<<k>>)]
    BY <1>4 DEF Env!BeginKey, SavingRun, SetField
  <2>3. Env!Stays /\ Env!Overlaps(s) /\ saves' \in 0..MaxSaves
    BY <1>4, <1>s DEF Env!BeginKey
  <2> HIDE DEF k
  <2>4. <<k>> \in Seq(EnvWrite) /\ <<k>> # <<>>
    BY <2>1
  <2> QED
    BY <1>a, <1>o, <2>2, <2>3, <2>4, RunTypes
<1>5. ASSUME NEW s \in Sessions, Env!Read(s)
      PROVE  EnvTypes'
  <2> DEFINE text == Env!Updated(env, Head(session[s].todo))
             run  == [session[s] EXCEPT !.place = "opening", !.content = text]
  <2>1. session[s].place = "reading" /\ session[s].todo \in Seq(EnvWrite) /\ session[s].todo # <<>>
    BY <1>5, <1>r DEF Env!Read, Run, RunOK
  <2>2. text \in EnvFile
    BY <1>u, <2>1, HeadTailProperties, UpdatedType
  <2>3. session' = [session EXCEPT ![s] = run]
    BY <1>5, <1>d DEF Env!Read
  <2> HIDE DEF text
  <2>4. run \in Run /\ RunOK(run)
    BY <1>r, <2>1, <2>2 DEF Run, RunOK
  <2> HIDE DEF run
  <2> QED
    BY <1>5, <1>a, <1>u, <2>3, <2>4 DEF Env!Read
<1>6. ASSUME NEW s \in Sessions, Env!OpenTmp(s)
      PROVE  EnvTypes'
  <2> DEFINE run  == [session[s] EXCEPT !.place = "writing", !.target = "tmp"]
  <2>1. run \in Run /\ RunOK(run)
    BY <1>6, <1>r DEF Env!OpenTmp, Run, RunOK
  <2>2. session' = [session EXCEPT ![s] = run]
    BY <1>6, <1>d DEF Env!OpenTmp
  <2> HIDE DEF run
  <2>3. session' \in [Sessions -> Run] /\ \A t \in Sessions : RunOK(session'[t])
    BY <2>1, <2>2, RunChanges
  <2> QED
    BY <1>6, <2>3, FileTypes DEF Env!OpenTmp, EnvTypes
<1>7. ASSUME NEW s \in Sessions, Env!WriteTmp(s)
      PROVE  EnvTypes'
  <2> DEFINE run  == [session[s] EXCEPT !.place = "replacing", !.content = Env!NoFile, !.target = "tmp"]
  <2>1. run \in Run /\ RunOK(run)
    BY <1>7, <1>r, FileTypes DEF Env!WriteTmp, Run, RunOK
  <2>2. session' = [session EXCEPT ![s] = run]
    BY <1>7, <1>d DEF Env!WriteTmp
  <2> HIDE DEF run
  <2>3. session' \in [Sessions -> Run] /\ \A t \in Sessions : RunOK(session'[t])
    BY <2>1, <2>2, RunChanges
  <2>4. tmp' \in EnvFile /\ env' \in EnvFile
    <3>1. PICK w \in BOOLEAN : LET text == [session[s].content EXCEPT !.whole = w]
                               IN tmp' \in {tmp, text} /\ env' \in {env, text}
      BY <1>7 DEF Env!WriteTmp
    <3>2. session[s].content \in EnvFile
      BY <1>r DEF Run
    <3>3. [session[s].content EXCEPT !.whole = w] \in EnvFile
      BY <3>2 DEF EnvFile
    <3> QED
      BY <1>u, <3>1, <3>3
  <2> QED
    BY <1>7, <2>3, <2>4 DEF Env!WriteTmp, EnvTypes
<1>8. ASSUME NEW s \in Sessions, Env!Replace(s)
      PROVE  EnvTypes'
  <2>0. session[s].place = "replacing" /\ session[s].todo \in Seq(EnvWrite) /\ session[s].todo # <<>>
        /\ saves' = saves /\ overlapped' = overlapped
    BY <1>8, <1>r DEF Env!Replace, Run, RunOK
  <2>1. CASE ~tmp.exists
    BY <1>8, <1>a, <1>u, <2>1, IdleType DEF Env!Replace
  <2>2. CASE tmp.exists
    <3> DEFINE next == IF Len(session[s].todo) = 1 THEN Env!Idle
                       ELSE [session[s] EXCEPT !.place = "reading", !.todo = Tail(@)]
    <3>1. next \in Run /\ RunOK(next)
      <4>1. Len(session[s].todo) # 1 => Tail(session[s].todo) \in Seq(EnvWrite)
                                        /\ Tail(session[s].todo) # <<>>
        <5>1. Tail(session[s].todo) \in Seq(EnvWrite) /\ Len(Tail(session[s].todo)) = Len(session[s].todo) - 1
              /\ Len(session[s].todo) \in Nat \ {0}
          BY <2>0, HeadTailProperties, EmptySeq
        <5>2. Len(session[s].todo) # 1 => Len(Tail(session[s].todo)) # 0
          BY <5>1
        <5> QED
          BY <5>1, <5>2, EmptySeq
      <4> QED
        BY <1>r, <4>1, IdleType DEF Run, RunOK
    <3>2. \A o \in Sessions : [session[o] EXCEPT !.target = IF @ = "tmp" THEN "env" ELSE "nowhere"] \in Run
                              /\ RunOK([session[o] EXCEPT !.target = IF @ = "tmp" THEN "env" ELSE "nowhere"])
      BY <1>r DEF Run, RunOK
    <3>3. session' = [o \in Sessions |->
               IF o = s THEN next
               ELSE IF session[o].place = "writing"
               THEN [session[o] EXCEPT !.target = IF @ = "tmp" THEN "env" ELSE "nowhere"]
               ELSE session[o]]
      BY <1>8, <1>d, <2>2 DEF Env!Replace
    <3> HIDE DEF next
    <3>4. session' \in [Sessions -> Run] /\ \A t \in Sessions : RunOK(session'[t])
      BY <1>r, <3>1, <3>2, <3>3
    <3>5. saved' \subseteq Env!Variables
      <4>1. saved' = saved \cup Env!Written(Head(session[s].todo)) /\ Head(session[s].todo) \in EnvWrite
        BY <1>8, <2>0, <2>2, HeadTailProperties DEF Env!Replace
      <4> QED
        BY <4>1, WriteKinds DEF Env!Written, SetsVariable, EnvTypes
    <3>6. env' \in EnvFile /\ tmp' \in EnvFile
      BY <1>8, <1>u, <2>2, FileTypes DEF Env!Replace
    <3> QED
      BY <1>u, <2>0, <3>4, <3>5, <3>6 DEF EnvTypes
  <2> QED
    BY <2>1, <2>2
<1>9. CASE Env!Killed
  <2>1. session' \in [Sessions -> Run] /\ \A t \in Sessions : RunOK(session'[t])
    BY <1>9, IdleType DEF Env!Killed
  <2> QED
    BY <1>9, <2>1 DEF Env!Killed, Env!Stays, EnvTypes
<1> QED
  BY <1>0, <1>1, <1>2, <1>3, <1>4, <1>5, <1>6, <1>7, <1>8, <1>9 DEF Env!Next

-----------------------------------------------------------------------------
(* The .env file: what is left to write is in order                         *)

\* The variable is in the set, or it is written before the i-th write.
SetBefore(set, writes, i, variable) ==
  variable \in set \/ \E j \in 1..(i - 1) : SetsVariable(writes[j]) /\ writes[j].var = variable

\* A provider is enabled after its other variables are there, and gets into the
\* priority after it is enabled.
Orderly(set, writes) ==
  \A i \in 1..Len(writes) :
    /\ SetsVariable(writes[i]) =>
         \A p \in Providers : writes[i].var = <<p, "ENABLED">> =>
           \A n \in {"KEY", "BASE_URL", "MODEL"} : SetBefore(set, writes, i, <<p, n>>)
    /\ ~SetsVariable(writes[i]) =>
         \A q \in Env!Range(writes[i].priority) : SetBefore(set, writes, i, <<q, "ENABLED">>)

\* What a program that starts now can make use of.
Usable(text) ==
  /\ text.whole
  /\ \A p \in Providers : <<p, "ENABLED">> \in text.set =>
       {p} \X {"KEY", "BASE_URL", "MODEL", "ENABLED"} \subseteq text.set
  /\ \A p \in Env!Range(text.priority) : <<p, "ENABLED">> \in text.set

LEMMA PriorityRange ==
  ASSUME NEW priority \in Priorities
  PROVE  Env!Range(priority) \subseteq Providers
<1>1. priority \in Seq(Providers)
  BY DEF Priorities
<1> QED
  BY <1>1 DEF Env!Range

\* The first of the writes leaves the file usable.
LEMMA FirstWriteUsable ==
  ASSUME NEW text \in EnvFile, Usable(text), NEW writes \in Seq(EnvWrite), writes # <<>>,
         Orderly(text.set, writes), NEW next, next = Env!Updated(text, Head(writes))
  PROVE  Usable(next)
<1>1. Head(writes) = writes[1] /\ 1 \in 1..Len(writes) /\ writes[1] \in EnvWrite
  BY EmptySeq
<1>2. /\ next.whole /\ next.set = text.set \cup Env!Written(writes[1])
      /\ next.priority = IF SetsVariable(writes[1]) THEN text.priority ELSE writes[1].priority
  <2>1. Head(writes) \in EnvWrite
    BY <1>1
  <2>2. /\ next.whole = TRUE /\ next.set = text.set \cup Env!Written(Head(writes))
        /\ next.priority = IF SetsVariable(Head(writes)) THEN text.priority ELSE Head(writes).priority
    BY <2>1, UpdatedType
  <2> QED
    BY <1>1, <2>2
<1>3. \A variable : SetBefore(text.set, writes, 1, variable) => variable \in text.set
  BY DEF SetBefore
<1>4. CASE SetsVariable(writes[1])
  <2>1. Env!Written(writes[1]) = {writes[1].var}
    BY <1>4 DEF Env!Written, SetsVariable
  <2>2. ASSUME NEW p \in Providers, <<p, "ENABLED">> \in next.set
        PROVE  {p} \X {"KEY", "BASE_URL", "MODEL", "ENABLED"} \subseteq next.set
    <3>1. CASE <<p, "ENABLED">> \in text.set
      BY <1>2, <3>1 DEF Usable
    <3>2. CASE <<p, "ENABLED">> \notin text.set
      <4>1. writes[1].var = <<p, "ENABLED">>
        BY <1>2, <2>1, <2>2, <3>2
      <4>2. \A n \in {"KEY", "BASE_URL", "MODEL"} : <<p, n>> \in text.set
        BY <1>1, <1>3, <1>4, <4>1 DEF Orderly
      <4> QED
        BY <1>2, <2>1, <4>1, <4>2
    <3> QED
      BY <3>1, <3>2
  <2> QED
    BY <1>2, <1>4, <2>2 DEF Usable
<1>5. CASE ~SetsVariable(writes[1])
  <2>1. Env!Written(writes[1]) = {}
    BY <1>5 DEF Env!Written, SetsVariable
  <2>2. \A q \in Env!Range(writes[1].priority) : <<q, "ENABLED">> \in text.set
    BY <1>1, <1>3, <1>5 DEF Orderly
  <2> QED
    BY <1>2, <1>5, <2>1, <2>2 DEF Usable
<1> QED
  BY <1>4, <1>5

\* What is left after the first write is in order for the file that has it.
LEMMA RestOrderly ==
  ASSUME NEW set, NEW writes \in Seq(EnvWrite), writes # <<>>, Orderly(set, writes)
  PROVE  Orderly(set \cup Env!Written(Head(writes)), Tail(writes))
<1> DEFINE more == set \cup Env!Written(Head(writes))
           rest == Tail(writes)
<1>1. /\ Head(writes) = writes[1] /\ Len(writes) \in Nat \ {0} /\ Len(rest) = Len(writes) - 1
      /\ \A i \in 1..Len(rest) : rest[i] = writes[i + 1]
  BY EmptySeq, HeadTailProperties
<1>2. SetsVariable(writes[1]) => writes[1].var \in more
  BY <1>1 DEF Env!Written, SetsVariable
<1>3. set \subseteq more
  OBVIOUS
<1> HIDE DEF more, rest
<1>4. ASSUME NEW i \in 1..Len(rest), NEW variable, SetBefore(set, writes, i + 1, variable)
      PROVE  SetBefore(more, rest, i, variable)
  <2>1. CASE variable \in set
    BY <1>3, <2>1 DEF SetBefore
  <2>2. CASE variable \notin set
    <3>1. PICK j \in 1..i : SetsVariable(writes[j]) /\ writes[j].var = variable
      BY <1>4, <2>2 DEF SetBefore
    <3>2. CASE j = 1
      BY <1>2, <3>1, <3>2 DEF SetBefore
    <3>3. CASE j # 1
      <4>1. j - 1 \in 1..(i - 1) /\ j - 1 \in 1..Len(rest) /\ (j - 1) + 1 = j
        BY <1>1, <3>3
      <4>2. rest[j - 1] = writes[j]
        BY <1>1, <4>1
      <4> QED
        BY <3>1, <4>1, <4>2 DEF SetBefore
    <3> QED
      BY <3>2, <3>3
  <2> QED
    BY <2>1, <2>2
<1>5. ASSUME NEW i \in 1..Len(rest)
      PROVE  i + 1 \in 1..Len(writes) /\ rest[i] = writes[i + 1]
  BY <1>1
<1>6. Orderly(more, rest)
  <2> SUFFICES ASSUME NEW i \in 1..Len(rest)
               PROVE  /\ SetsVariable(rest[i]) =>
                           \A p \in Providers : rest[i].var = <<p, "ENABLED">> =>
                             \A n \in {"KEY", "BASE_URL", "MODEL"} : SetBefore(more, rest, i, <<p, n>>)
                      /\ ~SetsVariable(rest[i]) =>
                           \A q \in Env!Range(rest[i].priority) : SetBefore(more, rest, i, <<q, "ENABLED">>)
    BY DEF Orderly
  <2>1. i + 1 \in 1..Len(writes) /\ rest[i] = writes[i + 1]
    BY <1>5
  <2>2. /\ SetsVariable(rest[i]) =>
             \A p \in Providers : rest[i].var = <<p, "ENABLED">> =>
               \A n \in {"KEY", "BASE_URL", "MODEL"} : SetBefore(set, writes, i + 1, <<p, n>>)
        /\ ~SetsVariable(rest[i]) =>
             \A q \in Env!Range(rest[i].priority) : SetBefore(set, writes, i + 1, <<q, "ENABLED">>)
    BY <2>1 DEF Orderly
  <2> QED
    BY <1>4, <2>2
<1> QED
  BY <1>6 DEF more, rest

\* Adding variables keeps the order.
LEMMA OrderlyGrows ==
  ASSUME NEW set, NEW more, set \subseteq more, NEW writes, Orderly(set, writes)
  PROVE  Orderly(more, writes)
BY DEF Orderly, SetBefore

\* The writes of the key manager and of the wizard are in order.
LEMMA KeyOrderly ==
  ASSUME NEW set, NEW p
  PROVE  Orderly(set, <<SetField(p, "KEY")>>)
<1>1. SetsVariable(SetField(p, "KEY")) /\ SetField(p, "KEY").var = <<p, "KEY">>
  BY DEF SetsVariable, SetField
<1> DEFINE k == SetField(p, "KEY")
<1>2. \A q : k.var # <<q, "ENABLED">>
  BY <1>1
<1> HIDE DEF k
<1>3. Len(<<k>>) = 1 /\ <<k>>[1] = k
  OBVIOUS
<1> QED
  BY <1>1, <1>2, <1>3 DEF Orderly, k

LEMMA WizardOrderly ==
  ASSUME NEW p \in Providers, NEW key \in BOOLEAN, NEW priority \in Priorities, NEW active \in BOOLEAN,
         NEW writes, writes = Env!WizardWrites(p, key, priority, active),
         NEW set, key \/ <<p, "KEY">> \in set,
         \A q \in Env!Range(priority) : <<q, "ENABLED">> \in set
  PROVE  Orderly(set, writes)
<1> DEFINE o == Bit(key)
<1>1. o \in {0, 1} /\ Bit(active) \in {0, 1} /\ (key => o = 1) /\ (active <=> Bit(active) = 1)
      /\ (o = 1 => key)
  BY DEF Bit
<1>2. /\ Len(writes) = o + 3 + Bit(active) /\ (key => writes[1] = SetField(p, "KEY"))
      /\ writes[o + 1] = SetField(p, "BASE_URL") /\ writes[o + 2] = SetField(p, "MODEL")
      /\ writes[o + 3] = SetField(p, "ENABLED") /\ (active => writes[o + 4] = SetFront(p, priority))
  BY WizardForms
<1> HIDE DEF o
<1>3. \A n : SetsVariable(SetField(p, n)) /\ SetField(p, n).var = <<p, n>>
  BY DEF SetsVariable, SetField
<1>4. ~SetsVariable(SetFront(p, priority))
      /\ \A q \in Env!Range(SetFront(p, priority).priority) : q = p \/ q \in Env!Range(priority)
  BY FrontOfPriority DEF SetsVariable, SetFront
<1>5. \A n \in {"KEY", "BASE_URL", "MODEL"} : SetBefore(set, writes, o + 3, <<p, n>>)
  <2>1. SetBefore(set, writes, o + 3, <<p, "KEY">>)
    <3>1. CASE <<p, "KEY">> \in set
      BY <3>1 DEF SetBefore
    <3>2. CASE key
      <4>1. SetsVariable(writes[1]) /\ writes[1].var = <<p, "KEY">> /\ 1 \in 1..((o + 3) - 1)
        <5>1. writes[1] = SetField(p, "KEY")
          BY <1>2, <3>2
        <5>2. 1 \in 1..((o + 3) - 1)
          BY <1>1
        <5> QED
          BY <1>3, <5>1, <5>2
      <4> QED
        BY <4>1 DEF SetBefore
    <3> QED
      BY <3>1, <3>2
  <2>2. SetBefore(set, writes, o + 3, <<p, "BASE_URL">>)
    BY <1>1, <1>2, <1>3 DEF SetBefore
  <2>3. SetBefore(set, writes, o + 3, <<p, "MODEL">>)
    BY <1>1, <1>2, <1>3 DEF SetBefore
  <2> QED
    BY <2>1, <2>2, <2>3
<1>6. SetBefore(set, writes, o + 4, <<p, "ENABLED">>)
  BY <1>1, <1>2, <1>3 DEF SetBefore
<1>7. ASSUME NEW i \in 1..Len(writes)
      PROVE  \/ writes[i] \in {SetField(p, n) : n \in {"KEY", "BASE_URL", "MODEL"}}
             \/ i = o + 3 /\ writes[i] = SetField(p, "ENABLED")
             \/ i = o + 4 /\ writes[i] = SetFront(p, priority)
  <2>1. (i = 1 /\ key) \/ i = o + 1 \/ i = o + 2 \/ i = o + 3 \/ (i = o + 4 /\ active)
    BY <1>1, <1>2
  <2> QED
    BY <1>2, <2>1
<1> SUFFICES ASSUME NEW i \in 1..Len(writes)
             PROVE  /\ SetsVariable(writes[i]) =>
                         \A r \in Providers : writes[i].var = <<r, "ENABLED">> =>
                           \A n \in {"KEY", "BASE_URL", "MODEL"} : SetBefore(set, writes, i, <<r, n>>)
                    /\ ~SetsVariable(writes[i]) =>
                         \A q \in Env!Range(writes[i].priority) : SetBefore(set, writes, i, <<q, "ENABLED">>)
  BY DEF Orderly
<1>8. CASE writes[i] \in {SetField(p, n) : n \in {"KEY", "BASE_URL", "MODEL"}}
  <2>1. PICK n \in {"KEY", "BASE_URL", "MODEL"} : writes[i].var = <<p, n>> /\ SetsVariable(writes[i])
    BY <1>3, <1>8
  <2>2. \A r : writes[i].var # <<r, "ENABLED">>
    BY <2>1
  <2> QED
    BY <2>1, <2>2
<1>9. CASE i = o + 3 /\ writes[i] = SetField(p, "ENABLED")
  <2>1. SetsVariable(writes[i]) /\ writes[i].var = <<p, "ENABLED">>
    BY <1>3, <1>9
  <2>2. \A r : writes[i].var = <<r, "ENABLED">> => r = p
    BY <2>1
  <2> QED
    BY <1>5, <1>9, <2>1, <2>2
<1>10. CASE i = o + 4 /\ writes[i] = SetFront(p, priority)
  <2>1. \A q : <<q, "ENABLED">> \in set => SetBefore(set, writes, i, <<q, "ENABLED">>)
    BY DEF SetBefore
  <2> QED
    BY <1>4, <1>6, <1>10, <2>1
<1> QED
  BY <1>7, <1>8, <1>9, <1>10

-----------------------------------------------------------------------------
(* The .env file: as long as no two saves overlap                           *)

\* Where a save stands, the file it works on, the temporary file, and what it
\* has left.
SaveInOrder(run) ==
  /\ run.place \in {"reading", "opening", "writing", "replacing"} => Orderly(env.set, run.todo)
  /\ run.place \in {"opening", "writing"} => run.content = Env!Updated(env, Head(run.todo))
  /\ run.place = "writing" => run.target = "tmp" /\ tmp = Env!Empty
  /\ run.place = "replacing" => tmp = Env!Updated(env, Head(run.todo))
  /\ run.place = "testing" => \A q \in Env!Range(run.priority) : <<q, "ENABLED">> \in env.set

OneSaves == \A s, t \in Sessions : Env!Saving(s) /\ Env!Saving(t) => s = t

\* The file is usable or not there yet.
EnvUsable == Usable(env) /\ saved \subseteq env.set

Undisturbed ==
  ~overlapped => EnvUsable /\ OneSaves /\ \A s \in Sessions : SaveInOrder(session[s])

EnvInv == EnvTypes /\ Undisturbed

LEMMA EnvInit ==
  ASSUME Env!Init
  PROVE  EnvInv
<1>1. EnvTypes
  BY EnvTypesInit
<1>2. EnvUsable
  BY DEF Env!Init, Env!NoFile, EnvUsable, Usable, Env!Range
<1>3. \A s \in Sessions : session[s].place = "idle"
  BY DEF Env!Init, Env!Idle
<1> QED
  BY <1>1, <1>2, <1>3 DEF EnvInv, Undisturbed, OneSaves, SaveInOrder, Env!Saving

\* A session changes to a run that is in order, by itself if it saves.
LEMMA SessionStep ==
  ASSUME EnvInv, NEW s \in Sessions, NEW run \in Run, RunOK(run),
         session' = [session EXCEPT ![s] = run], env' = env, saved' = saved,
         ~overlapped' => /\ ~overlapped
                         /\ SaveInOrder(run)'
                         /\ run.place \in {"reading", "opening", "writing", "replacing"} =>
                              Env!Saving(s) \/ \A t \in Sessions \ {s} : ~Env!Saving(t)
                         /\ tmp' = tmp \/ Env!Saving(s)
  PROVE  Undisturbed'
<1> SUFFICES ASSUME ~overlapped'
             PROVE  EnvUsable' /\ OneSaves' /\ \A t \in Sessions : SaveInOrder(session[t])'
  BY DEF Undisturbed
<1>1. EnvUsable /\ OneSaves /\ \A t \in Sessions : SaveInOrder(session[t])
  BY DEF EnvInv, Undisturbed
<1>2. session'[s] = run /\ \A t \in Sessions : t # s => session'[t] = session[t]
  BY RunChanges DEF EnvInv
<1>3. EnvUsable'
  BY <1>1 DEF EnvUsable, Usable
<1>4. \A t \in Sessions \ {s} : Env!Saving(t)' <=> Env!Saving(t)
  BY <1>2 DEF Env!Saving
<1>5. Env!Saving(s)' => Env!Saving(s) \/ \A t \in Sessions \ {s} : ~Env!Saving(t)
  BY <1>2 DEF Env!Saving
<1>6. OneSaves'
  BY <1>1, <1>4, <1>5 DEF OneSaves
<1>7. ASSUME NEW t \in Sessions, t # s
      PROVE  SaveInOrder(session[t])'
  <2>1. session'[t] = session[t] /\ SaveInOrder(session[t])
    BY <1>1, <1>2, <1>7
  <2>2. tmp' = tmp \/ ~Env!Saving(t)
    BY <1>1, <1>7 DEF OneSaves
  <2> QED
    BY <2>1, <2>2 DEF SaveInOrder, Env!Saving
<1> QED
  BY <1>2, <1>3, <1>6, <1>7

LEMMA OverlapSeen ==
  ASSUME NEW s \in Sessions, Env!Overlaps(s), ~overlapped'
  PROVE  ~overlapped /\ \A t \in Sessions \ {s} : ~Env!Saving(t)
BY Zenon DEF Env!Overlaps

LEMMA UndisturbedStep ==
  ASSUME EnvInv, EnvTypes', Env!Next \/ UNCHANGED envVars
  PROVE  Undisturbed'
<1>r. \A s \in Sessions : session[s] \in Run /\ RunOK(session[s])
  BY DEF EnvInv, EnvTypes
<1>d. session \in [Sessions -> Run] /\ env \in EnvFile /\ tmp \in EnvFile
  BY DEF EnvInv, EnvTypes
<1>i. ~overlapped => EnvUsable /\ OneSaves /\ \A s \in Sessions : SaveInOrder(session[s])
  BY DEF EnvInv, Undisturbed
<1>p. SaveInOrder(Env!Idle)'
  BY DEF SaveInOrder, Env!Idle
<1>0. CASE UNCHANGED envVars
  BY <1>0, <1>i DEF envVars, Undisturbed, EnvUsable, Usable, OneSaves, SaveInOrder, Env!Saving
<1>1. ASSUME NEW s \in Sessions, NEW p \in Providers, Env!BeginWizard(s, p)
      PROVE  Undisturbed'
  <2>0. PICK run : run = Testing(p, env.priority)
    OBVIOUS
  <2>1. env.priority \in Priorities
    BY <1>d DEF EnvFile
  <2>2. run \in Run /\ RunOK(run) /\ run.place = "testing" /\ run.priority = env.priority
    BY <2>0, <2>1, RunTypes, IdleType DEF Testing, Run
  <2>3. /\ session' = [session EXCEPT ![s] = run] /\ env' = env /\ saved' = saved /\ tmp' = tmp
        /\ overlapped' = overlapped
    BY <1>1, <2>0 DEF Env!BeginWizard, Env!Stays, Testing
  <2>4. ~overlapped => SaveInOrder(run)'
    BY <1>i, <2>2, <2>3 DEF SaveInOrder, EnvUsable, Usable
  <2> QED
    BY <2>2, <2>3, <2>4, SessionStep
<1>2. ASSUME NEW s \in Sessions, NEW outcome, Env!TestFails(s, outcome)
      PROVE  Undisturbed'
  <2>0. PICK again : again = [session[s] EXCEPT !.tries = @ + 1]
    OBVIOUS
  <2>1. \/ session' = [session EXCEPT ![s] = again]
        \/ session' = [session EXCEPT ![s] = Env!Idle]
    BY <1>2, <1>d, <2>0 DEF Env!TestFails
  <2>2. /\ session[s].place = "testing" /\ env' = env /\ saved' = saved /\ tmp' = tmp
        /\ overlapped' = overlapped
    BY <1>2 DEF Env!TestFails, Env!Stays
  <2>3. again \in Run /\ RunOK(again) /\ again.place = "testing" /\ again.priority = session[s].priority
    BY <1>r, <2>0, <2>2, RunTypes DEF Run
  <2>4. ~overlapped => SaveInOrder(again)'
    BY <1>i, <2>2, <2>3 DEF SaveInOrder
  <2>5. Env!Idle.place = "idle"
    BY DEF Env!Idle
  <2>6. CASE session' = [session EXCEPT ![s] = again]
    BY <2>2, <2>3, <2>4, <2>6, SessionStep
  <2>7. CASE session' = [session EXCEPT ![s] = Env!Idle]
    BY <1>p, <2>2, <2>5, <2>7, IdleType, SessionStep
  <2> QED
    BY <2>1, <2>6, <2>7
<1>3. ASSUME NEW s \in Sessions, NEW key \in BOOLEAN, NEW active \in BOOLEAN, Env!TestSucceeds(s, key, active)
      PROVE  Undisturbed'
  <2> DEFINE provider == session[s].provider
             priority == session[s].priority
  <2>0. PICK writes : writes = Env!WizardWrites(provider, key, priority, active)
    OBVIOUS
  <2>1. provider \in Providers /\ priority \in Priorities
    BY <1>3, <1>r DEF Env!TestSucceeds, Run, RunOK
  <2>2. writes \in Seq(EnvWrite) /\ Len(writes) # 0
    <3>1. writes \in Seq(EnvWrite) /\ Len(writes) = Bit(key) + 3 + Bit(active)
      BY <2>0, <2>1, WizardForms
    <3> QED
      BY <3>1 DEF Bit
  <2>3. /\ session' = [session EXCEPT ![s] = SavingRun(writes)] /\ env' = env /\ saved' = saved
        /\ tmp' = tmp /\ Env!Overlaps(s) /\ session[s].place = "testing"
        /\ (key \/ <<provider, "KEY">> \in env.set)
    BY <1>3, <2>0 DEF Env!TestSucceeds, Env!Stays, SavingRun
  <2> HIDE DEF provider, priority
  <2>4. writes # <<>>
    BY <2>2
  <2>5. SavingRun(writes) \in Run /\ RunOK(SavingRun(writes)) /\ SavingRun(writes).place = "reading"
        /\ SavingRun(writes).todo = writes
    BY <2>2, <2>4, RunTypes, IdleType DEF SavingRun, Run
  <2>6. ~overlapped => Orderly(env.set, writes)
    <3>1. ~overlapped => \A q \in Env!Range(priority) : <<q, "ENABLED">> \in env.set
      BY <1>i, <2>3 DEF SaveInOrder, priority
    <3> QED
      BY <2>0, <2>1, <2>3, <3>1, WizardOrderly
  <2>7. ~overlapped => SaveInOrder(SavingRun(writes))'
    BY <2>3, <2>5, <2>6 DEF SaveInOrder
  <2> QED
    BY <2>3, <2>5, <2>7, OverlapSeen, SessionStep
<1>4. ASSUME NEW s \in Sessions, NEW p \in Providers, Env!BeginKey(s, p)
      PROVE  Undisturbed'
  <2> DEFINE writes == <<SetField(p, "KEY")>>
  <2>1. SetField(p, "KEY") \in EnvWrite
    BY FieldNames DEF EnvWrite, SetField
  <2>2. writes \in Seq(EnvWrite) /\ writes # <<>>
    BY <2>1
  <2>3. /\ session' = [session EXCEPT ![s] = SavingRun(writes)] /\ env' = env /\ saved' = saved
        /\ tmp' = tmp /\ Env!Overlaps(s)
    BY <1>4 DEF Env!BeginKey, Env!Stays, SavingRun, SetField
  <2>4. Orderly(env.set, writes)
    BY KeyOrderly
  <2> HIDE DEF writes
  <2>5. SavingRun(writes) \in Run /\ RunOK(SavingRun(writes)) /\ SavingRun(writes).place = "reading"
        /\ SavingRun(writes).todo = writes
    BY <2>2, RunTypes, IdleType DEF SavingRun, Run
  <2>6. SaveInOrder(SavingRun(writes))'
    BY <2>3, <2>4, <2>5 DEF SaveInOrder
  <2> QED
    BY <2>3, <2>5, <2>6, OverlapSeen, SessionStep
<1>5. ASSUME NEW s \in Sessions, Env!Read(s)
      PROVE  Undisturbed'
  <2> DEFINE text == Env!Updated(env, Head(session[s].todo))
  <2>0. PICK run : run = [session[s] EXCEPT !.place = "opening", !.content = text]
    OBVIOUS
  <2>1. /\ session[s].place = "reading" /\ session[s].todo \in Seq(EnvWrite) /\ session[s].todo # <<>>
        /\ env' = env /\ saved' = saved /\ tmp' = tmp /\ overlapped' = overlapped
    BY <1>5, <1>r DEF Env!Read, Env!Stays, Run, RunOK
  <2>2. text \in EnvFile
    BY <1>d, <2>1, HeadTailProperties, UpdatedType
  <2>3. session' = [session EXCEPT ![s] = run]
    BY <1>5, <1>d, <2>0 DEF Env!Read
  <2> HIDE DEF text
  <2>4. run \in Run /\ RunOK(run) /\ run.place = "opening" /\ run.content = text /\ run.todo = session[s].todo
    BY <1>r, <2>0, <2>1, <2>2 DEF Run, RunOK
  <2>5. ~overlapped => SaveInOrder(run)'
    BY <1>i, <2>1, <2>4 DEF SaveInOrder, text
  <2>6. Env!Saving(s)
    BY <2>1 DEF Env!Saving
  <2> QED
    BY <2>1, <2>3, <2>4, <2>5, <2>6, SessionStep
<1>6. ASSUME NEW s \in Sessions, Env!OpenTmp(s)
      PROVE  Undisturbed'
  <2>0. PICK run : run = [session[s] EXCEPT !.place = "writing", !.target = "tmp"]
    OBVIOUS
  <2>1. /\ session[s].place = "opening" /\ session' = [session EXCEPT ![s] = run]
        /\ env' = env /\ saved' = saved /\ tmp' = Env!Empty /\ overlapped' = overlapped
    BY <1>6, <1>d, <2>0 DEF Env!OpenTmp
  <2>2. /\ run \in Run /\ RunOK(run) /\ run.place = "writing" /\ run.target = "tmp"
        /\ run.todo = session[s].todo /\ run.content = session[s].content
    BY <1>r, <2>0, <2>1 DEF Run, RunOK
  <2>3. ~overlapped => SaveInOrder(run)'
    BY <1>i, <2>1, <2>2 DEF SaveInOrder
  <2>4. Env!Saving(s)
    BY <2>1 DEF Env!Saving
  <2> QED
    BY <2>1, <2>2, <2>3, <2>4, SessionStep
<1>7. ASSUME NEW s \in Sessions, Env!WriteTmp(s)
      PROVE  Undisturbed'
  <2> SUFFICES ASSUME ~overlapped
               PROVE  Undisturbed'
    <3>1. overlapped' = overlapped
      BY <1>7 DEF Env!WriteTmp
    <3> QED
      BY <3>1 DEF Undisturbed
  <2>0. PICK run : run = [session[s] EXCEPT !.place = "replacing", !.content = Env!NoFile, !.target = "tmp"]
    OBVIOUS
  <2> DEFINE text == session[s].content
  <2>1. /\ session[s].place = "writing" /\ session' = [session EXCEPT ![s] = run]
        /\ saved' = saved /\ overlapped' = overlapped
    BY <1>7, <1>d, <2>0 DEF Env!WriteTmp
  <2>2. session[s].target = "tmp" /\ tmp = Env!Empty /\ text = Env!Updated(env, Head(session[s].todo))
        /\ Orderly(env.set, session[s].todo)
    BY <1>i, <2>1 DEF SaveInOrder
  <2>3. tmp' = [text EXCEPT !.whole = TRUE] /\ env' = env
    BY <1>7, <2>2 DEF Env!WriteTmp, Env!Empty
  <2>4. text \in EnvFile /\ text.whole = TRUE
    <3>1. Head(session[s].todo) \in EnvWrite
      BY <1>r, <2>1, HeadTailProperties DEF Run, RunOK
    <3> QED
      BY <1>d, <2>2, <3>1, UpdatedType
  <2>5. tmp' = text
    BY <2>3, <2>4 DEF EnvFile
  <2>6. run \in Run /\ RunOK(run) /\ run.place = "replacing" /\ run.todo = session[s].todo
    BY <1>r, <2>0, <2>1, FileTypes DEF Run, RunOK
  <2> HIDE DEF text
  <2>7. SaveInOrder(run)'
    BY <2>2, <2>3, <2>5, <2>6 DEF SaveInOrder
  <2>8. Env!Saving(s)
    BY <2>1 DEF Env!Saving
  <2> QED
    BY <2>1, <2>3, <2>6, <2>7, <2>8, SessionStep
<1>8. ASSUME NEW s \in Sessions, Env!Replace(s)
      PROVE  Undisturbed'
  <2> SUFFICES ASSUME ~overlapped
               PROVE  Undisturbed'
    <3>1. overlapped' = overlapped
      BY <1>8 DEF Env!Replace
    <3> QED
      BY <3>1 DEF Undisturbed
  <2> DEFINE todo == session[s].todo
  <2>0. session[s].place = "replacing" /\ todo \in Seq(EnvWrite) /\ todo # <<>> /\ Env!Saving(s)
    BY <1>8, <1>r DEF Env!Replace, Run, RunOK, Env!Saving
  <2>1. tmp = Env!Updated(env, Head(todo)) /\ Orderly(env.set, todo)
    BY <1>i, <2>0 DEF SaveInOrder
  <2>2. \A t \in Sessions : t # s => ~Env!Saving(t) /\ SaveInOrder(session[t])
    BY <1>i, <2>0 DEF OneSaves
  <2>3. CASE ~tmp.exists
    <3>1. session' = [session EXCEPT ![s] = Env!Idle] /\ env' = env /\ saved' = saved /\ tmp' = tmp
          /\ overlapped' = overlapped
      BY <1>8, <2>3 DEF Env!Replace, Env!Stays
    <3>2. Env!Idle.place = "idle"
      BY DEF Env!Idle
    <3> QED
      BY <1>p, <3>1, <3>2, IdleType, SessionStep
  <2>4. CASE tmp.exists
    <3> DEFINE next == IF Len(todo) = 1 THEN Env!Idle
                       ELSE [session[s] EXCEPT !.place = "reading", !.todo = Tail(@)]
    <3>1. /\ env' = tmp /\ saved' = saved \cup Env!Written(Head(todo))
          /\ session'[s] = next /\ \A t \in Sessions : t # s => session'[t] = session[t]
      BY <1>8, <2>2, <2>4 DEF Env!Replace, Env!Saving
    <3>2. Head(todo) \in EnvWrite
      BY <2>0, HeadTailProperties
    <3>3. env'.set = env.set \cup Env!Written(Head(todo))
      BY <1>d, <2>1, <3>1, <3>2, UpdatedType
    <3>4. Usable(tmp)
      BY <1>d, <1>i, <2>0, <2>1, FirstWriteUsable DEF EnvUsable
    <3>5. EnvUsable'
      <4>1. Usable(env)'
        BY <3>1, <3>4 DEF Usable
      <4> QED
        BY <1>i, <3>1, <3>3, <4>1 DEF EnvUsable
    <3>6. next.place \in {"idle", "reading"} /\ (next.place = "reading" => next.todo = Tail(todo))
      BY <1>r DEF Env!Idle, Run
    <3> HIDE DEF next
    <3>7. SaveInOrder(session[s])'
      <4>1. Orderly(env.set \cup Env!Written(Head(todo)), Tail(todo))
        BY <2>0, <2>1, RestOrderly
      <4> QED
        BY <3>1, <3>3, <3>6, <4>1 DEF SaveInOrder
    <3>8. \A t \in Sessions : t # s => SaveInOrder(session[t])'
      BY <2>2, <3>1, <3>3 DEF SaveInOrder, Env!Saving
    <3>9. OneSaves'
      BY <2>2, <3>1 DEF OneSaves, Env!Saving
    <3> QED
      BY <3>5, <3>7, <3>8, <3>9 DEF Undisturbed
  <2> QED
    BY <2>3, <2>4
<1>9. CASE Env!Killed
  <2>1. /\ \A s \in Sessions : session'[s] = Env!Idle
        /\ env' = env /\ saved' = saved /\ overlapped' = overlapped
    BY <1>9 DEF Env!Killed, Env!Stays
  <2>2. Env!Idle.place = "idle"
    BY DEF Env!Idle
  <2> QED
    BY <1>i, <2>1, <2>2 DEF Undisturbed, EnvUsable, Usable, OneSaves, SaveInOrder, Env!Saving
<1> QED
  BY <1>0, <1>1, <1>2, <1>3, <1>4, <1>5, <1>6, <1>7, <1>8, <1>9 DEF Env!Next

LEMMA EnvStep ==
  ASSUME EnvInv, Env!Next \/ UNCHANGED envVars
  PROVE  EnvInv'
BY EnvTypesStep, UndisturbedStep DEF EnvInv

LEMMA EnvUsableProperty ==
  ASSUME EnvInv
  PROVE  Env!EnvStaysUsable
BY FieldNames DEF EnvInv, Undisturbed, EnvUsable, Usable, Env!EnvStaysUsable

-----------------------------------------------------------------------------
(* The CSV file: counting cells                                             *)

CsvRow == [Columns -> Cells]

CsvTypes ==
  /\ csvPlace \in {"idle", "reading", "done"}
  /\ file \in Seq(CsvRow) /\ Len(file) <= MaxFileRows
  /\ values \in [Columns -> Seq(Csv!CellKinds)] /\ missing \in [Columns -> 0..MaxRows]
  /\ preview \in Seq(CsvRow) /\ Len(preview) <= PreviewRows
  /\ scanned \in 0..MaxRows /\ truncated \in BOOLEAN
  /\ csvOutcome \in Csv!Reasons \cup {"none", "ok", "escaped"}

\* Every cell of the scanned rows of a column is missing or among its values.
BlankRows(c) == {i \in 1..scanned : Csv!Blank(file[i][c])}

ColumnAccounts(c) ==
  /\ Len(values[c]) + missing[c] = scanned
  /\ IsFiniteSet(BlankRows(c)) /\ missing[c] = Cardinality(BlankRows(c))
  /\ \A i \in 1..scanned : Csv!Blank(file[i][c]) \/ \E k \in 1..Len(values[c]) : values[c][k] = file[i][c]
  /\ \A k \in 1..Len(values[c]) : \E i \in 1..scanned : values[c][k] = file[i][c]

\* What has been read of the file so far.
RowsAccount ==
  /\ truncated => Len(file) = MaxRows + 1 /\ scanned = MaxRows
  /\ ~truncated => Len(file) = scanned
  /\ Len(preview) = IF scanned <= PreviewRows THEN scanned ELSE PreviewRows
  /\ \A i \in 1..Len(preview) : preview[i] = file[i]
  /\ \A c \in Columns : ColumnAccounts(c)

CsvInv ==
  /\ CsvTypes
  /\ csvPlace = "idle" => file = <<>> /\ csvOutcome = "none" /\ summaries = <<>>
  /\ csvPlace = "reading" => csvOutcome = "none" /\ summaries = <<>>
  /\ csvPlace # "done" \/ csvOutcome = "ok" => RowsAccount
  /\ csvOutcome = "ok" => /\ summaries = [c \in Columns |-> Csv!Summary(c)]
                          /\ \A c \in Columns : ~Csv!Overflows(values[c])
  /\ csvOutcome # "ok" => summaries = <<>>
  /\ csvOutcome = "escaped" =>
       file = <<>> \/ \E i \in DOMAIN Csv!Analysed : "huge" \in Csv!Range(Csv!Analysed[i])

LEMMA CsvNumbers ==
  /\ MaxRows \in Nat \ {0} /\ PreviewRows \in Nat \ {0} /\ MaxFileRows \in Nat
  /\ Cells \subseteq Csv!CellKinds
<1>1. {HistoryLimit, MaxRows, PreviewRows, Candidates} \subseteq Nat \ {0}
  BY BoundsAssumption
<1>2. MaxFileRows \in Nat
  BY BoundsAssumption
<1>3. Cells \subseteq Csv!CellKinds
  BY DataAssumption
<1> QED
  BY <1>1, <1>2, <1>3

LEMMA CsvMinOfPair ==
  ASSUME NEW m \in Int, NEW n \in Int
  PROVE  Csv!Min({m, n}) = IF m <= n THEN m ELSE n
<1>1. \E x \in {m, n} : \A y \in {m, n} : x <= y
  OBVIOUS
<1>2. Csv!Min({m, n}) \in {m, n} /\ \A y \in {m, n} : Csv!Min({m, n}) <= y
  BY <1>1 DEF Csv!Min
<1> QED
  BY <1>2

LEMMA CsvInit ==
  ASSUME Csv!Init
  PROVE  CsvInv
<1>1. /\ csvPlace = "idle" /\ file = <<>> /\ preview = <<>> /\ scanned = 0 /\ truncated = FALSE
      /\ summaries = <<>> /\ csvOutcome = "none"
      /\ values = [c \in Columns |-> <<>>] /\ missing = [c \in Columns |-> 0]
  BY DEF Csv!Init
<1>2. CsvTypes
  <2>1. file \in Seq(CsvRow) /\ Len(file) = 0 /\ preview \in Seq(CsvRow) /\ Len(preview) = 0
    BY <1>1
  <2>2. values \in [Columns -> Seq(Csv!CellKinds)] /\ missing \in [Columns -> 0..MaxRows]
    BY <1>1, CsvNumbers
  <2>3. scanned \in 0..MaxRows
    BY <1>1, CsvNumbers
  <2>4. truncated \in BOOLEAN
    BY <1>1
  <2> QED
    BY <1>1, <2>1, <2>2, <2>3, <2>4, CsvNumbers DEF CsvTypes
<1>3. ASSUME NEW c \in Columns
      PROVE  ColumnAccounts(c)
  <2>1. values[c] = <<>> /\ missing[c] = 0 /\ BlankRows(c) = {}
    BY <1>1 DEF BlankRows
  <2>2. IsFiniteSet({}) /\ Cardinality({}) = 0
    BY FS_EmptySet
  <2>3. Len(values[c]) = 0
    BY <2>1
  <2> QED
    BY <1>1, <2>1, <2>2, <2>3 DEF ColumnAccounts
<1>4. RowsAccount
  <2>1. Len(file) = 0 /\ Len(preview) = 0
    BY <1>1
  <2> QED
    BY <1>1, <1>3, <2>1, CsvNumbers DEF RowsAccount
<1> QED
  BY <1>1, <1>2, <1>4 DEF CsvInv

\* One more row is counted in every column.
LEMMA ColumnKeeps ==
  ASSUME CsvTypes, NEW c \in Columns, ColumnAccounts(c), Len(file) = scanned,
         NEW row \in CsvRow, file' = Append(file, row), Csv!Keep(row), scanned' = scanned + 1
  PROVE  ColumnAccounts(c)'
<1> DEFINE n == scanned
           cell == row[c]
           kept == Append(values[c], cell)
<1>0. /\ n \in Nat /\ file \in Seq(CsvRow) /\ values[c] \in Seq(Csv!CellKinds) /\ missing[c] \in Nat
      /\ cell \in Csv!CellKinds /\ Len(values[c]) \in Nat
  BY CsvNumbers, LenProperties DEF CsvTypes, CsvRow
<1>1. /\ \A i \in 1..n : file'[i] = file[i]
      /\ file'[n + 1] = row
  BY <1>0
<1>2. /\ kept \in Seq(Csv!CellKinds) /\ Len(kept) = Len(values[c]) + 1
      /\ \A k \in 1..Len(values[c]) : kept[k] = values[c][k]
      /\ kept[Len(values[c]) + 1] = cell
  BY <1>0
<1>3. /\ Csv!Blank(cell) => values'[c] = values[c] /\ missing'[c] = missing[c] + 1
      /\ ~Csv!Blank(cell) => values'[c] = kept /\ missing'[c] = missing[c]
  BY DEF Csv!Keep, Csv!Blank
<1>4. Csv!Blank(file'[n + 1][c]) <=> Csv!Blank(cell)
  BY <1>1
<1>5. BlankRows(c)' = IF Csv!Blank(cell) THEN BlankRows(c) \cup {n + 1} ELSE BlankRows(c)
  <2>1. \A i \in 1..n : Csv!Blank(file'[i][c]) <=> Csv!Blank(file[i][c])
    BY <1>1
  <2>2. \A i : i \in 1..(n + 1) <=> i \in 1..n \/ i = n + 1
    BY <1>0
  <2> QED
    BY <1>4, <2>1, <2>2 DEF BlankRows
<1>6. n + 1 \notin BlankRows(c)
  BY <1>0 DEF BlankRows
<1>7. IsFiniteSet(BlankRows(c)) /\ missing[c] = Cardinality(BlankRows(c))
  BY DEF ColumnAccounts
<1>8. IsFiniteSet(BlankRows(c))' /\ missing'[c] = Cardinality(BlankRows(c))'
  <2>1. CASE Csv!Blank(cell)
    <3>1. BlankRows(c)' = BlankRows(c) \cup {n + 1} /\ missing'[c] = missing[c] + 1
      BY <1>3, <1>5, <2>1
    <3>2. /\ IsFiniteSet(BlankRows(c) \cup {n + 1})
          /\ Cardinality(BlankRows(c) \cup {n + 1}) = missing[c] + 1
      BY <1>6, <1>7, FS_AddElement
    <3> QED
      BY <3>1, <3>2
  <2>2. CASE ~Csv!Blank(cell)
    <3>1. BlankRows(c)' = BlankRows(c) /\ missing'[c] = missing[c]
      BY <1>3, <1>5, <2>2
    <3> QED
      BY <1>7, <3>1
  <2> QED
    BY <2>1, <2>2
<1> HIDE DEF kept, cell
<1>9. Len(values'[c]) + missing'[c] = scanned + 1
  <2>1. Len(values[c]) + missing[c] = scanned
    BY DEF ColumnAccounts
  <2>2. \/ Len(values'[c]) = Len(values[c]) /\ missing'[c] = missing[c] + 1
        \/ Len(values'[c]) = Len(values[c]) + 1 /\ missing'[c] = missing[c]
    BY <1>2, <1>3
  <2>3. Len(values[c]) \in Nat /\ missing[c] \in Nat /\ scanned \in Nat
    BY <1>0
  <2> DEFINE l == Len(values[c])
             m == missing[c]
             longer == Len(values'[c])
             more == missing'[c]
  <2>4. /\ l \in Nat /\ m \in Nat /\ scanned \in Nat /\ l + m = scanned
        /\ (longer = l /\ more = m + 1) \/ (longer = l + 1 /\ more = m)
    BY <2>1, <2>2, <2>3
  <2> HIDE DEF l, m, longer, more
  <2>5. longer + more = scanned + 1
    BY <2>4
  <2> QED
    BY <2>5 DEF longer, more
<1>10. ASSUME NEW i \in 1..(n + 1), ~Csv!Blank(file'[i][c])
       PROVE  \E k \in 1..Len(values'[c]) : values'[c][k] = file'[i][c]
  <2>1. CASE i = n + 1
    <3>1. ~Csv!Blank(cell)
      BY <1>4, <1>10, <2>1
    <3>2. values'[c] = kept /\ file'[i][c] = cell
      BY <1>1, <1>3, <2>1, <3>1 DEF cell
    <3> QED
      BY <1>0, <1>2, <3>2
  <2>2. CASE i # n + 1
    <3>1. i \in 1..n /\ file'[i] = file[i]
      BY <1>0, <1>1, <2>2
    <3>2. PICK k \in 1..Len(values[c]) : values[c][k] = file[i][c]
      BY <1>10, <3>1 DEF ColumnAccounts
    <3>3. k \in 1..Len(values'[c]) /\ values'[c][k] = values[c][k]
      BY <1>0, <1>2, <1>3
    <3> QED
      BY <3>1, <3>2, <3>3
  <2> QED
    BY <2>1, <2>2
<1>11. ASSUME NEW k \in 1..Len(values'[c])
       PROVE  \E i \in 1..(n + 1) : values'[c][k] = file'[i][c]
  <2>1. CASE k \in 1..Len(values[c])
    <3>1. PICK i \in 1..n : values[c][k] = file[i][c]
      BY <2>1 DEF ColumnAccounts
    <3>2. values'[c][k] = values[c][k]
      BY <1>2, <1>3, <2>1
    <3>3. i \in 1..(n + 1) /\ file'[i] = file[i]
      BY <1>0, <1>1
    <3> QED
      BY <3>1, <3>2, <3>3
  <2>2. CASE k \notin 1..Len(values[c])
    <3>1. ~Csv!Blank(cell) /\ k = Len(values[c]) + 1
      BY <1>0, <1>2, <1>3, <2>2
    <3>2. values'[c][k] = cell /\ file'[n + 1][c] = cell
      BY <1>1, <1>2, <1>3, <3>1 DEF cell
    <3> QED
      BY <1>0, <3>2
  <2> QED
    BY <2>1, <2>2
<1> QED
  BY <1>8, <1>9, <1>10, <1>11 DEF ColumnAccounts

\* What the analysis looks at is what it has counted.
LEMMA AnalysedRows ==
  ASSUME CsvTypes, RowsAccount
  PROVE  /\ Csv!Analysed \in Seq(CsvRow) /\ Len(Csv!Analysed) = scanned
         /\ DOMAIN Csv!Analysed = 1..scanned
         /\ \A i \in 1..scanned : Csv!Analysed[i] = file[i]
<1>1. /\ file \in Seq(CsvRow) /\ Len(file) \in Nat /\ scanned \in 0..MaxRows /\ MaxRows \in Nat
      /\ truncated \in BOOLEAN
  BY CsvNumbers, LenProperties DEF CsvTypes
<1>2. Csv!Min({Len(file), MaxRows}) = scanned /\ scanned <= Len(file)
  <2>1. CASE truncated
    BY <1>1, <2>1, CsvMinOfPair DEF RowsAccount
  <2>2. CASE ~truncated
    BY <1>1, <2>2, CsvMinOfPair DEF RowsAccount
  <2> QED
    BY <2>1, <2>2
<1>3. Csv!Analysed = SubSeq(file, 1, scanned)
  BY <1>2 DEF Csv!Analysed
<1>4. \A i \in 1..scanned : file[i] \in CsvRow
  BY <1>1, <1>2, ElementOfSeq
<1>5. /\ SubSeq(file, 1, scanned) \in Seq(CsvRow)
      /\ Len(SubSeq(file, 1, scanned)) = IF 1 <= scanned THEN scanned - 1 + 1 ELSE 0
      /\ \A i \in 1..(scanned - 1 + 1) : SubSeq(file, 1, scanned)[i] = file[1 + i - 1]
  BY <1>1, <1>4, SubSeqProperties
<1>6. /\ Len(Csv!Analysed) = scanned /\ Csv!Analysed \in Seq(CsvRow)
      /\ \A i \in 1..scanned : Csv!Analysed[i] = file[i]
  BY <1>1, <1>3, <1>5
<1> QED
  BY <1>6, LenProperties

\* The preview is the beginning of what was analysed.
LEMMA PreviewIsBeginning ==
  ASSUME CsvTypes, RowsAccount
  PROVE  preview = SubSeq(file, 1, Csv!Min({scanned, PreviewRows}))
<1> DEFINE n == Len(preview)
<1>1. /\ file \in Seq(CsvRow) /\ Len(file) \in Nat /\ scanned \in 0..MaxRows /\ MaxRows \in Nat
      /\ truncated \in BOOLEAN /\ preview \in Seq(CsvRow) /\ PreviewRows \in Nat /\ n \in Nat
  BY CsvNumbers, LenProperties DEF CsvTypes
<1>2. n = Csv!Min({scanned, PreviewRows}) /\ n <= scanned
  BY <1>1, CsvMinOfPair DEF RowsAccount
<1>3. scanned <= Len(file)
  BY <1>1 DEF RowsAccount
<1>4. \A i \in 1..n : file[i] \in CsvRow
  BY <1>1, <1>2, <1>3, ElementOfSeq
<1> DEFINE front == SubSeq(file, 1, n)
<1>5. /\ front \in Seq(CsvRow) /\ Len(front) = IF 1 <= n THEN n - 1 + 1 ELSE 0
      /\ \A i \in 1..(n - 1 + 1) : front[i] = file[1 + i - 1]
  BY <1>1, <1>4, SubSeqProperties
<1>6. Len(front) = n /\ \A i \in 1..n : front[i] = file[i]
  BY <1>1, <1>5
<1>7. \A i \in 1..n : preview[i] = file[i]
  BY DEF RowsAccount
<1> HIDE DEF front
<1>8. preview = front
  BY <1>1, <1>5, <1>6, <1>7, SeqEqual
<1> QED
  BY <1>2, <1>8 DEF front

\* A column of numbers, none of them too large, has nothing but numbers.
LEMMA NumbersAreNumbers ==
  ASSUME NEW cells \in Seq(Csv!CellKinds), ~Csv!Overflows(cells),
         Csv!InferredType(cells) \in {"integer", "number"}, NEW k \in 1..Len(cells)
  PROVE  cells[k] \in {"integer", "number"}
<1>1. DOMAIN cells = 1..Len(cells) /\ cells[k] \in Csv!CellKinds
  BY LenProperties, ElementOfSeq
<1>2. cells[k] # "huge"
  BY <1>1 DEF Csv!Overflows, Csv!Range
<1>3. Csv!Kind(cells[k]) \in Csv!Kinds(cells)
  BY <1>1 DEF Csv!Kinds
<1>4. ASSUME NEW word \in {"boolean", "text"}, Csv!Kinds(cells) = {word}
      PROVE  FALSE
  <2>1. (CHOOSE kind \in {word} : TRUE) = word
    OBVIOUS
  <2>2. Csv!InferredType(cells) \in {"empty", word}
    BY <1>4, <2>1 DEF Csv!InferredType
  <2> QED
    BY <2>2
<1>5. Csv!Kinds(cells) \in {{"integer"}, {"number"}, {"integer", "number"}}
  BY <1>4 DEF Csv!InferredType
<1> QED
  BY <1>2, <1>3, <1>5 DEF Csv!Kind

\* A type is inferred for every column.
LEMMA TypeInferred ==
  ASSUME NEW cells
  PROVE  Csv!InferredType(cells) \in Csv!Types
<1>1. \A word : (CHOOSE kind \in {word} : TRUE) = word
  OBVIOUS
<1>2. CASE Csv!Kinds(cells) \in {{"boolean"}, {"text"}}
  <2>1. PICK word \in {"boolean", "text"} : Csv!Kinds(cells) = {word}
    BY <1>2
  <2>2. Csv!InferredType(cells) \in {"empty", word}
    BY <1>1, <2>1 DEF Csv!InferredType
  <2> QED
    BY <2>2 DEF Csv!Types
<1>3. CASE Csv!Kinds(cells) \notin {{"boolean"}, {"text"}}
  BY <1>3 DEF Csv!InferredType, Csv!Types
<1> QED
  BY <1>2, <1>3

\* What has been read stays accounted for while nothing is read.
LEMMA RowsStand ==
  ASSUME RowsAccount, UNCHANGED <<file, values, missing, preview, scanned, truncated>>
  PROVE  RowsAccount'
<1>1. ASSUME NEW c \in Columns
      PROVE  ColumnAccounts(c)'
  <2>1. ColumnAccounts(c)
    BY DEF RowsAccount
  <2>2. BlankRows(c)' = BlankRows(c)
    BY DEF BlankRows
  <2> QED
    BY <2>1, <2>2 DEF ColumnAccounts
<1> QED
  BY <1>1 DEF RowsAccount

\* Whoever refuses or fails reads nothing more.
LEMMA CsvEnds ==
  ASSUME CsvInv, NEW outcome \in Csv!Reasons \cup {"escaped"}, csvPlace \in {"idle", "reading"},
         csvPlace' = "done", csvOutcome' = outcome, file' \in Seq(CsvRow), Len(file') <= MaxFileRows,
         UNCHANGED <<values, missing, preview, scanned, truncated, summaries>>,
         outcome = "escaped" => file' = file /\ (csvPlace = "idle" \/ \E c \in Columns : Csv!Overflows(values[c]))
  PROVE  CsvInv'
<1>1. CsvTypes /\ RowsAccount /\ summaries = <<>> /\ (csvPlace = "idle" => file = <<>>)
  BY DEF CsvInv
<1>2. CsvTypes'
  BY <1>1 DEF CsvTypes
<1>3. outcome # "ok"
  BY DEF Csv!Reasons
<1>4. ASSUME outcome = "escaped", file # <<>>
      PROVE  \E i \in DOMAIN Csv!Analysed : "huge" \in Csv!Range(Csv!Analysed[i])
  <2>1. PICK c \in Columns : Csv!Overflows(values[c])
    BY <1>1, <1>4
  <2>2. values[c] \in Seq(Csv!CellKinds) /\ DOMAIN values[c] = 1..Len(values[c])
    BY <1>1, LenProperties DEF CsvTypes
  <2>3. PICK k \in 1..Len(values[c]) : values[c][k] = "huge"
    BY <2>1, <2>2 DEF Csv!Overflows, Csv!Range
  <2>4. PICK i \in 1..scanned : file[i][c] = "huge"
    <3>1. ColumnAccounts(c)
      BY <1>1 DEF RowsAccount
    <3>2. \E i \in 1..scanned : values[c][k] = file[i][c]
      BY <3>1, Zenon DEF ColumnAccounts
    <3> QED
      BY <2>3, <3>2
  <2>5. i \in DOMAIN Csv!Analysed /\ Csv!Analysed[i] \in CsvRow /\ Csv!Analysed[i][c] = "huge"
    BY <1>1, <2>4, AnalysedRows, ElementOfSeq
  <2>6. "huge" \in Csv!Range(Csv!Analysed[i])
    BY <2>5 DEF Csv!Range, CsvRow
  <2> QED
    BY <2>5, <2>6
<1>5. outcome = "escaped" => Csv!Analysed' = Csv!Analysed
  BY DEF Csv!Analysed
<1> QED
  BY <1>1, <1>2, <1>3, <1>4, <1>5 DEF CsvInv

LEMMA CsvStep ==
  ASSUME CsvInv, Csv!Next \/ UNCHANGED csvVars
  PROVE  CsvInv'
<1>t. CsvTypes
  BY DEF CsvInv
<1>l. Len(file) <= MaxFileRows /\ file \in Seq(CsvRow) /\ Len(file) \in Nat
  BY <1>t, LenProperties DEF CsvTypes
<1>0. CASE UNCHANGED csvVars
  <2>1. CsvTypes' /\ (RowsAccount => RowsAccount')
    <3>1. CsvTypes'
      BY <1>0, <1>t DEF csvVars, CsvTypes
    <3> QED
      BY <1>0, <3>1, RowsStand DEF csvVars
  <2>2. \A c \in Columns : Csv!Summary(c)' = Csv!Summary(c) /\ Csv!Overflows(values[c])' = Csv!Overflows(values[c])
    BY <1>0 DEF csvVars, Csv!Summary, Csv!Overflows
  <2>3. Csv!Analysed' = Csv!Analysed /\ UNCHANGED <<csvPlace, file, summaries, csvOutcome>>
    BY <1>0 DEF csvVars, Csv!Analysed
  <2>4. [c \in Columns |-> Csv!Summary(c)]' = [c \in Columns |-> Csv!Summary(c)]
    BY <2>2
  <2> QED
    BY <2>1, <2>2, <2>3, <2>4 DEF CsvInv
<1>1. ASSUME NEW reason \in Csv!Reasons, Csv!Refuse(reason) \/ Csv!BadRow(reason)
      PROVE  CsvInv'
  <2>1. /\ csvPlace \in {"idle", "reading"} /\ csvPlace' = "done" /\ csvOutcome' = reason /\ file' = file
        /\ UNCHANGED <<values, missing, preview, scanned, truncated, summaries>> /\ reason # "escaped"
    BY <1>1 DEF Csv!Refuse, Csv!BadRow, Csv!Ends
  <2> QED
    BY <1>l, <2>1, CsvEnds
<1>2. CASE Csv!Open
  <2>1. /\ csvPlace = "idle" /\ csvPlace' = "reading"
        /\ UNCHANGED <<file, values, missing, preview, scanned, truncated, summaries, csvOutcome>>
    BY <1>2 DEF Csv!Open
  <2>2. CsvTypes'
    BY <1>t, <2>1 DEF CsvTypes
  <2>3. RowsAccount'
    BY <2>1, RowsStand DEF CsvInv
  <2> QED
    BY <2>1, <2>2, <2>3 DEF CsvInv
<1>3. CASE Csv!UnknownEncoding
  BY <1>3, <1>l, CsvEnds DEF Csv!UnknownEncoding, Csv!Ends
<1>4. CASE Csv!Summarise
  <2>1. CASE \E c \in Columns : Csv!Overflows(values[c])
    BY <1>4, <1>l, <2>1, CsvEnds DEF Csv!Summarise, Csv!Ends
  <2>2. CASE ~\E c \in Columns : Csv!Overflows(values[c])
    <3>1. /\ csvPlace = "reading" /\ csvPlace' = "done" /\ csvOutcome' = "ok"
          /\ summaries' = [c \in Columns |-> Csv!Summary(c)]
          /\ UNCHANGED <<file, values, missing, preview, scanned, truncated>>
      BY <1>4, <2>2 DEF Csv!Summarise, Csv!Ends
    <3>2. CsvTypes'
      BY <1>t, <3>1 DEF CsvTypes
    <3>3. RowsAccount'
      BY <3>1, RowsStand DEF CsvInv
    <3>4. \A c \in Columns : Csv!Summary(c)' = Csv!Summary(c) /\ ~Csv!Overflows(values[c])'
      BY <2>2, <3>1 DEF Csv!Summary, Csv!Overflows
    <3>5. summaries' = [c \in Columns |-> Csv!Summary(c)']
      BY <3>1, <3>4
    <3> QED
      BY <3>1, <3>2, <3>3, <3>4, <3>5 DEF CsvInv
  <2> QED
    BY <2>1, <2>2
<1>5. ASSUME NEW row \in [Columns -> Cells], Csv!Row(row)
      PROVE  CsvInv'
  <2>1. /\ csvPlace = "reading" /\ truncated = FALSE /\ Len(file) < MaxFileRows
        /\ file' = Append(file, row) /\ summaries' = summaries
    BY <1>5, <1>t DEF Csv!Row, CsvTypes
  <2>2. file' \in Seq(CsvRow) /\ Len(file') = Len(file) + 1 /\ \A i \in 1..Len(file) : file'[i] = file[i]
    BY <1>l, <2>1 DEF CsvRow
  <2>3. Len(file') <= MaxFileRows
    BY <1>l, <2>1, <2>2, CsvNumbers
  <2>4. /\ RowsAccount /\ Len(file) = scanned /\ csvOutcome = "none" /\ summaries = <<>>
        /\ scanned \in 0..MaxRows /\ MaxRows \in Nat
    BY <2>1, CsvNumbers DEF CsvInv, RowsAccount, CsvTypes
  <2>5. CASE scanned >= MaxRows
    <3>1. truncated' = TRUE /\ UNCHANGED <<csvPlace, values, missing, preview, scanned, csvOutcome>>
      BY <1>5, <2>5 DEF Csv!Row
    <3>2. CsvTypes'
      BY <1>t, <2>2, <2>3, <3>1 DEF CsvTypes
    <3>3. \A i \in 1..scanned : file'[i] = file[i]
      BY <2>2, <2>4
    <3>4. ASSUME NEW c \in Columns
          PROVE  ColumnAccounts(c)'
      <4>1. ColumnAccounts(c)
        BY <2>4 DEF RowsAccount
      <4>2. BlankRows(c)' = BlankRows(c)
        BY <3>1, <3>3 DEF BlankRows
      <4> QED
        BY <3>1, <3>3, <4>1, <4>2 DEF ColumnAccounts
    <3>5. Len(preview) <= scanned /\ Len(preview) \in Nat
      BY <1>t, <2>4, CsvNumbers, LenProperties DEF RowsAccount, CsvTypes
    <3>6. RowsAccount'
      BY <2>2, <2>4, <2>5, <3>1, <3>3, <3>4, <3>5 DEF RowsAccount
    <3> QED
      BY <2>1, <2>4, <3>1, <3>2, <3>6 DEF CsvInv
  <2>6. CASE ~(scanned >= MaxRows) /\ "long" \in Csv!Range(row)
    <3>1. /\ csvPlace' = "done" /\ csvOutcome' = "field_too_large"
          /\ UNCHANGED <<values, missing, preview, scanned, truncated>>
      BY <1>5, <2>6 DEF Csv!Row, Csv!Ends
    <3>2. "field_too_large" \in Csv!Reasons
      BY DEF Csv!Reasons
    <3> QED
      BY <2>1, <2>2, <2>3, <3>1, <3>2, CsvEnds
  <2>7. CASE ~(scanned >= MaxRows) /\ "long" \notin Csv!Range(row)
    <3>1. /\ Csv!Keep(row) /\ scanned' = scanned + 1
          /\ preview' = IF Len(preview) < PreviewRows THEN Append(preview, row) ELSE preview
          /\ UNCHANGED <<csvPlace, truncated, csvOutcome>>
      BY <1>5, <2>7 DEF Csv!Row
    <3>2. ASSUME NEW c \in Columns
          PROVE  /\ ColumnAccounts(c)'
                 /\ values'[c] \in Seq(Csv!CellKinds) /\ missing'[c] \in 0..MaxRows
      <4>1. ColumnAccounts(c)
        BY <2>4 DEF RowsAccount
      <4>2. ColumnAccounts(c)'
        BY <1>t, <2>1, <2>4, <3>1, <4>1, ColumnKeeps DEF CsvRow
      <4>3. values'[c] \in {values[c], Append(values[c], row[c])} /\ missing'[c] \in {missing[c], missing[c] + 1}
        BY <3>1 DEF Csv!Keep
      <4>4. values[c] \in Seq(Csv!CellKinds) /\ row[c] \in Csv!CellKinds /\ missing[c] \in 0..MaxRows
        BY <1>t, CsvNumbers DEF CsvTypes
      <4>5. values'[c] \in Seq(Csv!CellKinds)
        <5>1. Append(values[c], row[c]) \in Seq(Csv!CellKinds)
          BY <4>4
        <5> QED
          BY <4>3, <4>4, <5>1
      <4>6. Len(values'[c]) \in Nat /\ Len(values'[c]) + missing'[c] = scanned'
        BY <4>2, <4>5, LenProperties DEF ColumnAccounts
      <4>7. missing'[c] \in 0..MaxRows
        BY <2>4, <2>7, <3>1, <4>3, <4>4, <4>6
      <4> QED
        BY <4>2, <4>5, <4>7
    <3>3. values' \in [Columns -> Seq(Csv!CellKinds)] /\ missing' \in [Columns -> 0..MaxRows]
      <4>1. values' = [c \in Columns |-> values'[c]] /\ missing' = [c \in Columns |-> missing'[c]]
        BY <3>1 DEF Csv!Keep
      <4> QED
        BY <3>2, <4>1
    <3> DEFINE n == Len(preview)
               longer == Append(preview, row)
    <3>4. preview \in Seq(CsvRow) /\ n \in Nat /\ PreviewRows \in Nat
          /\ n = IF scanned <= PreviewRows THEN scanned ELSE PreviewRows
      BY <1>t, <2>4, CsvNumbers, LenProperties DEF CsvTypes, RowsAccount
    <3>5. /\ longer \in Seq(CsvRow) /\ Len(longer) = n + 1 /\ longer[n + 1] = row
          /\ \A i \in 1..n : longer[i] = preview[i]
      BY <3>4 DEF CsvRow
    <3>6. file'[scanned + 1] = row /\ \A i \in 1..scanned : file'[i] = file[i]
      BY <1>l, <2>1, <2>4
    <3>7. \A i \in 1..n : preview[i] = file'[i]
      BY <2>4, <3>4, <3>6 DEF RowsAccount
    <3> HIDE DEF longer
    <3>8. /\ preview' \in Seq(CsvRow) /\ \A i \in 1..Len(preview') : preview'[i] = file'[i]
          /\ Len(preview') = IF scanned + 1 <= PreviewRows THEN scanned + 1 ELSE PreviewRows
      <4>1. CASE n < PreviewRows
        <5>1. preview' = longer /\ n = scanned
          BY <2>4, <3>1, <3>4, <4>1 DEF longer
        <5> QED
          BY <2>4, <3>4, <3>5, <3>6, <3>7, <4>1, <5>1
      <4>2. CASE ~(n < PreviewRows)
        <5>1. preview' = preview /\ n = PreviewRows /\ PreviewRows <= scanned
          BY <2>4, <3>1, <3>4, <4>2
        <5> QED
          BY <2>4, <3>4, <3>7, <5>1
      <4> QED
        BY <4>1, <4>2
    <3>9. scanned' \in 0..MaxRows
      BY <2>4, <2>7, <3>1
    <3>10. CsvTypes'
      <4>1. Len(preview') <= PreviewRows
        BY <2>4, <3>4, <3>8
      <4> QED
        BY <1>t, <2>2, <2>3, <3>1, <3>3, <3>8, <3>9, <4>1 DEF CsvTypes
    <3>11. RowsAccount'
      BY <2>1, <2>2, <2>4, <3>1, <3>2, <3>8 DEF RowsAccount
    <3> QED
      BY <2>1, <2>4, <3>1, <3>10, <3>11 DEF CsvInv
  <2> QED
    BY <2>5, <2>6, <2>7
<1> QED
  BY <1>0, <1>1, <1>2, <1>3, <1>4, <1>5 DEF Csv!Next

\* What an answer says of the columns.
SummariesAccount ==
  \A c \in Columns :
    /\ summaries[c].nonNull + summaries[c].missing = scanned
    /\ summaries[c].missing = Cardinality({i \in DOMAIN Csv!Analysed : Csv!Blank(Csv!Analysed[i][c])})
    /\ summaries[c].numbers > 0 =>
         \A i \in DOMAIN Csv!Analysed :
           Csv!Blank(Csv!Analysed[i][c]) \/ Csv!Analysed[i][c] \in {"integer", "number"}

LEMMA AnswerAccounts ==
  ASSUME CsvInv, csvOutcome = "ok"
  PROVE  /\ truncated <=> Len(file) > MaxRows
         /\ scanned = Len(Csv!Analysed)
         /\ preview = SubSeq(file, 1, Csv!Min({Len(Csv!Analysed), PreviewRows}))
         /\ SummariesAccount
<1>2. CsvTypes /\ RowsAccount /\ \A c \in Columns : summaries[c] = Csv!Summary(c) /\ ~Csv!Overflows(values[c])
  BY DEF CsvInv
<1>3. truncated <=> Len(file) > MaxRows
  <2>1. MaxRows \in Nat /\ scanned \in 0..MaxRows /\ truncated \in BOOLEAN
    BY <1>2, CsvNumbers DEF CsvTypes
  <2>2. CASE truncated
    BY <1>2, <2>1, <2>2 DEF RowsAccount
  <2>3. CASE ~truncated
    BY <1>2, <2>1, <2>3 DEF RowsAccount
  <2> QED
    BY <2>2, <2>3
<1>4. /\ scanned = Len(Csv!Analysed) /\ DOMAIN Csv!Analysed = 1..scanned
      /\ \A i \in 1..scanned : Csv!Analysed[i] = file[i]
  BY <1>2, AnalysedRows
<1>5. preview = SubSeq(file, 1, Csv!Min({Len(Csv!Analysed), PreviewRows}))
  BY <1>2, <1>4, PreviewIsBeginning
<1>6. ASSUME NEW c \in Columns
      PROVE  /\ summaries[c].nonNull + summaries[c].missing = scanned
             /\ summaries[c].missing = Cardinality({i \in DOMAIN Csv!Analysed : Csv!Blank(Csv!Analysed[i][c])})
             /\ summaries[c].numbers > 0 =>
                  \A i \in DOMAIN Csv!Analysed :
                    Csv!Blank(Csv!Analysed[i][c]) \/ Csv!Analysed[i][c] \in {"integer", "number"}
  <2>1. /\ summaries[c].nonNull = Len(values[c]) /\ summaries[c].missing = missing[c]
        /\ summaries[c].numbers = IF Csv!InferredType(values[c]) \in {"integer", "number"} THEN Len(values[c]) ELSE 0
    <3>1. summaries[c] = Csv!Summary(c)
      BY <1>2
    <3> QED
      BY <3>1 DEF Csv!Summary
  <2>2. ColumnAccounts(c)
    BY <1>2 DEF RowsAccount
  <2>3. {i \in DOMAIN Csv!Analysed : Csv!Blank(Csv!Analysed[i][c])} = BlankRows(c)
    BY <1>4 DEF BlankRows
  <2>4. ASSUME summaries[c].numbers > 0, NEW i \in DOMAIN Csv!Analysed, ~Csv!Blank(Csv!Analysed[i][c])
        PROVE  Csv!Analysed[i][c] \in {"integer", "number"}
    <3>1. Csv!InferredType(values[c]) \in {"integer", "number"}
      BY <2>1, <2>4
    <3>2. PICK k \in 1..Len(values[c]) : values[c][k] = Csv!Analysed[i][c]
      <4>1. i \in 1..scanned /\ Csv!Analysed[i] = file[i]
        BY <1>4
      <4>2. \E k \in 1..Len(values[c]) : values[c][k] = file[i][c]
        BY <2>2, <2>4, <4>1 DEF ColumnAccounts
      <4> QED
        BY <4>1, <4>2
    <3>3. values[c] \in Seq(Csv!CellKinds)
      BY <1>2 DEF CsvTypes
    <3> QED
      BY <1>2, <3>1, <3>2, <3>3, NumbersAreNumbers
  <2> QED
    BY <2>1, <2>2, <2>3, <2>4 DEF ColumnAccounts
<1> QED
  BY <1>3, <1>4, <1>5, <1>6 DEF SummariesAccount

\* The module of the analysis counts as this module does.
LEMMA CsvCount == \A S : Csv!Cardinality(S) = Cardinality(S)
BY Zenon DEF Csv!Cardinality, Csv!IsFiniteSet, Cardinality, IsFiniteSet

LEMMA SummaryProperty ==
  ASSUME CsvInv
  PROVE  Csv!SummaryAccounts
<1>1. csvOutcome = "escaped" =>
        file = <<>> \/ \E i \in DOMAIN Csv!Analysed : "huge" \in Csv!Range(Csv!Analysed[i])
  BY DEF CsvInv
<1>2. csvOutcome = "ok" =>
        /\ truncated <=> Len(file) > MaxRows
        /\ scanned = Len(Csv!Analysed)
        /\ preview = SubSeq(file, 1, Csv!Min({Len(Csv!Analysed), PreviewRows}))
        /\ SummariesAccount
  BY AnswerAccounts
<1> QED
  BY <1>1, <1>2, CsvCount DEF Csv!SummaryAccounts, SummariesAccount

-----------------------------------------------------------------------------
(* The types of the parts are among what the invariants say.                *)

LEMMA EnvTypeOK == EnvInv => Env!TypeOK
<1> SUFFICES ASSUME EnvInv
             PROVE  Env!TypeOK
  OBVIOUS
<1>1. EnvTypes
  BY DEF EnvInv
<1>2. env.set \subseteq Env!Variables /\ tmp.set \subseteq Env!Variables /\ env.priority \in Priorities
  BY <1>1 DEF EnvTypes, EnvFile
<1>3. Env!Range(env.priority) \subseteq Providers
  BY <1>2, PriorityRange
<1>4. \A s \in Sessions :
        session[s].place \in {"idle", "testing", "reading", "opening", "writing", "replacing"}
  BY <1>1 DEF EnvTypes, Run
<1> QED
  BY <1>1, <1>2, <1>3, <1>4 DEF EnvTypes, Env!TypeOK

LEMMA CsvTypeOK == CsvInv => Csv!TypeOK
<1> SUFFICES ASSUME CsvInv
             PROVE  Csv!TypeOK
  OBVIOUS
<1>1. CsvTypes
  BY DEF CsvInv
<1>2. summaries = <<>> \/ \A c \in Columns : summaries[c].type \in Csv!Types
  <2>1. CASE csvOutcome = "ok"
    <3>1. \A c \in Columns : summaries[c] = Csv!Summary(c)
      BY <2>1 DEF CsvInv
    <3>2. \A c \in Columns : Csv!Summary(c).type = Csv!InferredType(values[c])
      BY DEF Csv!Summary
    <3> QED
      BY <3>1, <3>2, TypeInferred
  <2>2. CASE csvOutcome # "ok"
    BY <2>2 DEF CsvInv
  <2> QED
    BY <2>1, <2>2
<1> QED
  BY <1>1, <1>2 DEF CsvTypes, Csv!TypeOK

-----------------------------------------------------------------------------
(* The process                                                              *)

FilesInv == EnvInv /\ CsvInv

\* Whichever part steps, a part on a file steps or stands still.
LEMMA FilesParts ==
  ASSUME [Next]_requestVars
  PROVE  /\ Env!Next \/ UNCHANGED envVars
         /\ Csv!Next \/ UNCHANGED csvVars
BY DEF Next, requestVars, Alone

\* The invariant of the two parts is inductive.
THEOREM FilesTheorem == Spec => []FilesInv
<1>1. Init => FilesInv
  BY EnvInit, CsvInit DEF Init, FilesInv
<1>2. FilesInv /\ [Next]_requestVars => FilesInv'
  BY FilesParts, EnvStep, CsvStep DEF FilesInv
<1> QED
  BY <1>1, <1>2, PTL DEF Spec

\* Wherever the process is killed, and however many sessions save one after the
\* other, the .env file is whole, keeps what was saved, and enables and ranks
\* only providers it has the variables of (setup_wizard.py, playground.py).
THEOREM UsableTheorem == Spec => []EnvStaysUsable
<1>1. FilesInv => EnvStaysUsable
  BY EnvUsableProperty DEF FilesInv, EnvStaysUsable
<1> QED
  BY <1>1, FilesTheorem, PTL

\* For every file, every number of columns and every limit the summaries account
\* for each cell of the rows they describe (csv_analysis.py, csv_file.py).
THEOREM SummaryTheorem == Spec => []SummaryAccounts
<1>1. FilesInv => SummaryAccounts
  BY SummaryProperty DEF FilesInv, SummaryAccounts
<1> QED
  BY <1>1, FilesTheorem, PTL

=============================================================================
