---------------------------- MODULE RevisionLog ----------------------------
(***************************************************************************)
(* What result authority promises its readers: the outcomes of a workflow  *)
(* are a list that only grows, each entry changing the one before it.      *)
(***************************************************************************)
EXTENDS Naturals, Sequences

CONSTANT Outcome

VARIABLE outcomes

Init ==
  /\ outcomes \in Seq(Outcome)
  /\ \A n \in 2..Len(outcomes) : outcomes[n] # outcomes[n - 1]

Revise(o) ==
  /\ outcomes # <<>> => o # outcomes[Len(outcomes)]
  /\ outcomes' = Append(outcomes, o)

Next == \E o \in Outcome : Revise(o)

Spec == Init /\ [][Next]_outcomes
=============================================================================
