------------------------------- MODULE EnvStore -------------------------------
(* The .env file that the dashboard writes: the setup wizard tests a provider *)
(* and saves its variables one by one, the key manager saves a single key.    *)
(* Every single write reads the file, writes a temporary file of a fixed name *)
(* and renames it over the original.  Sessions run in threads of one process, *)
(* which may be killed at any point.                                          *)
EXTENDS Integers, FiniteSets, Sequences, SequencesExt

CONSTANTS Sessions,    \* browser sessions of the dashboard
          Providers,   \* presets of the wizard
          Candidates,  \* models it tries before it gives up
          MaxSaves     \* bound: saves that are started

VARIABLES env,         \* the .env file: whether it is whole, and its variables
          tmp,         \* the temporary file, or NoFile
          session,     \* [Sessions -> the local state of a script run]
          saves,       \* saves started
          overlapped,  \* history variable: two saves were under way at once
          saved        \* history variable: variables that a finished write has set

envVars == <<env, tmp, session, saves, overlapped, saved>>

\* A provider's variables, in the order in which they are saved; the priority
\* is one variable and holds a sequence of providers.
Fields    == <<"KEY", "BASE_URL", "MODEL", "ENABLED">>
Variables == Providers \X Range(Fields)
NoFile    == [exists |-> FALSE, whole |-> TRUE, set |-> {}, priority |-> <<>>]
Empty     == [exists |-> TRUE, whole |-> FALSE, set |-> {}, priority |-> <<>>]

Idle == [place |-> "idle", provider |-> "none", tries |-> 0, priority |-> <<>>, todo |-> <<>>,
         content |-> NoFile, target |-> "tmp"]

TypeOK ==
  /\ env.set \subseteq Variables /\ tmp.set \subseteq Variables
  /\ Range(env.priority) \subseteq Providers
  /\ \A s \in Sessions : session[s].place \in {"idle", "testing", "reading", "opening", "writing", "replacing"}
  /\ saves \in 0..MaxSaves /\ overlapped \in BOOLEAN /\ saved \subseteq Variables

Init ==
  /\ env = NoFile /\ tmp = NoFile /\ session = [s \in Sessions |-> Idle]
  /\ saves = 0 /\ overlapped = FALSE /\ saved = {}

(* ------------------------------------------------------------------------ *)
(* What is to be saved.                                                       *)

\* The priority without p.  A priority names a provider once: every one was
\* written with a provider in front of a rest without it.
Rest(priority, p) ==
  LET at == {i \in DOMAIN priority : priority[i] = p}
  IN IF at = {} THEN priority ELSE RemoveAt(priority, CHOOSE i \in at : TRUE)

\* Mutant: the provider is enabled before its other variables are there.
EnabledFirst(p, key, priority, active) ==
  <<[var |-> <<p, "ENABLED">>]>> \o (IF key THEN <<[var |-> <<p, "KEY">>]>> ELSE <<>>)
  \o <<[var |-> <<p, "BASE_URL">>], [var |-> <<p, "MODEL">>]>>
  \o IF active THEN <<[priority |-> <<p>> \o Rest(priority, p)]>> ELSE <<>>

\* The writes of the wizard: the key if one was typed in, then the rest, then
\* the priority with this provider in front of the ones it read when it drew
\* the page.
WizardWrites(p, key, priority, active) ==
  (IF key THEN <<[var |-> <<p, "KEY">>]>> ELSE <<>>)
  \o <<[var |-> <<p, "BASE_URL">>], [var |-> <<p, "MODEL">>], [var |-> <<p, "ENABLED">>]>>
  \o IF active THEN <<[priority |-> <<p>> \o Rest(priority, p)]>> ELSE <<>>

(* ------------------------------------------------------------------------ *)
(* The pages.                                                                 *)

Saving(s) == session[s].place \in {"reading", "opening", "writing", "replacing"}
Stays == UNCHANGED <<env, tmp, saved>>
Overlaps(s) == overlapped' = (overlapped \/ \E other \in Sessions \ {s} : Saving(other))

\* The wizard reads the priority, wants a key, typed in or in the file, and
\* tests before it saves.
BeginWizard(s, p) ==
  /\ session[s].place = "idle" /\ saves < MaxSaves
  /\ saves' = saves + 1
  /\ session' = [session EXCEPT ![s] = [Idle EXCEPT !.place = "testing", !.provider = p,
                                                    !.priority = env.priority]]
  /\ Stays /\ UNCHANGED overlapped

\* test_connection of one candidate after the other; an authentication error
\* ends the tries, and so does an answer of a shape it does not expect.
TestFails(s, outcome) ==
  /\ session[s].place = "testing" /\ outcome \in {"failed", "denied", "raised"}
  /\ session' = IF outcome = "failed" /\ session[s].tries + 1 < Candidates
                THEN [session EXCEPT ![s].tries = @ + 1]
                ELSE [session EXCEPT ![s] = Idle]
  /\ Stays /\ UNCHANGED <<saves, overlapped>>

TestSucceeds(s, key, active) ==
  /\ session[s].place = "testing"
  /\ key \/ <<session[s].provider, "KEY">> \in env.set
  /\ session' = [session EXCEPT ![s] = [Idle EXCEPT !.place = "reading",
       !.todo = WizardWrites(session[s].provider, key, session[s].priority, active)]]
  /\ Overlaps(s) /\ Stays /\ UNCHANGED saves

BeginKey(s, p) ==
  /\ session[s].place = "idle" /\ saves < MaxSaves
  /\ saves' = saves + 1
  /\ session' = [session EXCEPT ![s] = [Idle EXCEPT !.place = "reading",
                                                    !.todo = <<[var |-> <<p, "KEY">>]>>]]
  /\ Overlaps(s) /\ Stays

(* ------------------------------------------------------------------------ *)
(* One write_env_var.                                                         *)

\* The file's lines with the line of the variable replaced or appended.
Updated(file, write) ==
  IF "var" \in DOMAIN write
  THEN [file EXCEPT !.exists = TRUE, !.whole = TRUE, !.set = @ \cup {write.var}]
  ELSE [file EXCEPT !.exists = TRUE, !.whole = TRUE, !.priority = write.priority]

Read(s) ==
  /\ session[s].place = "reading"
  /\ session' = [session EXCEPT ![s].place = "opening",
                                ![s].content = Updated(env, Head(session[s].todo))]
  /\ Stays /\ UNCHANGED <<saves, overlapped>>

\* Opening truncates, also a temporary file another session is using.
OpenTmp(s) ==
  /\ session[s].place = "opening"
  /\ tmp' = Empty
  /\ session' = [session EXCEPT ![s].place = "writing", ![s].target = "tmp"]
  /\ UNCHANGED <<env, saves, overlapped, saved>>

\* The text goes where the opened file is by now; over a text somebody else
\* wrote meanwhile it may leave that one's end behind.
WriteTmp(s) ==
  /\ session[s].place = "writing"
  /\ LET file  == IF session[s].target = "tmp" THEN tmp ELSE env
         whole == IF file.set = {} /\ file.priority = <<>> THEN {TRUE} ELSE BOOLEAN
     IN \E w \in whole :
          LET text == [session[s].content EXCEPT !.whole = w] IN
          /\ tmp' = IF session[s].target = "tmp" THEN text ELSE tmp
          /\ env' = IF session[s].target = "env" THEN text ELSE env
  /\ session' = [session EXCEPT ![s].place = "replacing", ![s].content = NoFile, ![s].target = "tmp"]
  /\ UNCHANGED <<saves, overlapped, saved>>

Written(write) == IF "var" \in DOMAIN write THEN {write.var} ELSE {}

\* The rename takes the temporary file from everybody who has it open.  When it
\* is gone already, the save ends with an error.
Replace(s) ==
  /\ session[s].place = "replacing"
  /\ IF ~tmp.exists
     THEN session' = [session EXCEPT ![s] = Idle] /\ Stays
     ELSE /\ env' = tmp /\ tmp' = NoFile
          /\ saved' = saved \cup Written(Head(session[s].todo))
          /\ session' = [o \in Sessions |->
               IF o = s THEN IF Len(session[s].todo) = 1 THEN Idle
                             ELSE [session[s] EXCEPT !.place = "reading", !.todo = Tail(@)]
               ELSE IF session[o].place = "writing"
               THEN [session[o] EXCEPT !.target = IF @ = "tmp" THEN "env" ELSE "nowhere"]
               ELSE session[o]]
  /\ UNCHANGED <<saves, overlapped>>

\* The process is killed: the temporary file stays as it is.
Killed ==
  /\ session # [s \in Sessions |-> Idle]
  /\ session' = [s \in Sessions |-> Idle] /\ Stays /\ UNCHANGED <<saves, overlapped>>

Next ==
  \/ \E s \in Sessions :
       \/ \E p \in Providers : BeginWizard(s, p) \/ BeginKey(s, p)
       \/ \E outcome \in {"failed", "denied", "raised"} : TestFails(s, outcome)
       \/ \E key, active \in BOOLEAN : TestSucceeds(s, key, active)
       \/ Read(s) \/ OpenTmp(s) \/ WriteTmp(s) \/ Replace(s)
  \/ Killed

Spec == Init /\ [][Next]_envVars

(* ------------------------------------------------------------------------ *)
(* Properties.                                                                *)

\* As long as no two saves were under way at once, and wherever the process was
\* killed: the file is whole, it holds every variable that was ever saved, a
\* provider is enabled only with its key, address and model, and only enabled
\* providers are in the priority.
EnvStaysUsable ==
  ~overlapped =>
    /\ env.whole /\ saved \subseteq env.set
    /\ \A p \in Providers : <<p, "ENABLED">> \in env.set => {p} \X Range(Fields) \subseteq env.set
    /\ \A p \in Range(env.priority) : <<p, "ENABLED">> \in env.set
=============================================================================
