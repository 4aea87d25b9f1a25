----------------------------- MODULE BudgetLedger -----------------------------
(***************************************************************************)
(* What a provider's budget promises: two accounts for each provider, one  *)
(* that starts again at midnight and one that starts again with the month. *)
(* ProviderBudget implements this with totals it resets only when somebody *)
(* looks at them.                                                          *)
(***************************************************************************)
EXTENDS Integers

CONSTANTS Providers, Costs

VARIABLES today, thisMonth

vars == <<today, thisMonth>>

Empty == [p \in Providers |-> 0]

Init == today = Empty /\ thisMonth = Empty

Pay(p, c) ==
  /\ today' = [today EXCEPT ![p] = @ + c]
  /\ thisMonth' = [thisMonth EXCEPT ![p] = @ + c]

Midnight == today' = Empty /\ UNCHANGED thisMonth

EndOfMonth == today' = Empty /\ thisMonth' = Empty

Next ==
  \/ \E p \in Providers, c \in Costs : Pay(p, c)
  \/ Midnight \/ EndOfMonth

Spec == Init /\ [][Next]_vars
=============================================================================
