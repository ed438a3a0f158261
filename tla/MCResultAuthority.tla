------------------------- MODULE MCResultAuthority -------------------------
(* What operators ask for, and symmetry, for the TLC run of ResultAuthority. *)
EXTENDS ResultAuthority, TLC

\* Which process runs a call makes no difference.
Symmetry == Permutations(Operator)

Ask(actor, status, reason) ==
  [actor |-> actor, outcome |-> [status |-> status, terms |-> "t1"], reason |-> reason]

\* One id asks twice for one outcome, for different reasons; another id asks for one
\* that corrects it.
MCAsks == {Ask("a1", "won", "r1"), Ask("a1", "won", "r2"), Ask("a2", "lost", "r1")}
=============================================================================
