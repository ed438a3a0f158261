-------------------------- MODULE MCLeadTransition --------------------------
(* Two operator ids, and symmetry, for the TLC runs of LeadTransition.     *)
EXTENDS LeadTransition, TLC

\* Which process runs a call makes no difference; the two ids do.
Symmetry == Permutations(Operator) \cup Permutations(Reason)

Ask(actor, next) == [actor |-> actor, next |-> next]

\* One id moves a lead away and back; two ids ask for the same move of it; or one
\* asks for work to wait and the other for readiness.
MCWishes == {{Ask("a1", "monitor"), Ask("a1", "hold")},
             {Ask("a1", "hold"), Ask("a2", "hold")},
             {Ask("a1", "monitor"), Ask("a2", "ready")}}

\* One id moves a lead away and back, and the other away.
MCAwayAndBack == {{Ask("a1", "monitor"), Ask("a1", "hold"), Ask("a2", "hold")}}
=============================================================================
