-------------------------- MODULE MCRegistryApply --------------------------
(* Invocations, files and the order of their locks for the TLC run of       *)
(* RegistryApply.                                                           *)
EXTENDS RegistryApply, TLC

CONSTANTS f, g, h, v0, v1, v2, other, first, second

Symmetry == Permutations({first, second})

A(source, target, audit, backup, overwrite, from, to) ==
  [source |-> source, target |-> target, audit |-> audit, backup |-> backup,
   overwrite |-> overwrite, from |-> from, to |-> to]

MCRank == [x \in {f, g, h} |-> CASE x = f -> 1 [] x = g -> 2 [] OTHER -> 3]

InPlaceOnce(overwrite) == A(f, f, g, h, overwrite, v0, v1)

\* One apply in place, with a retry that overwrites; two plans in a row;
\* one apply to a file of its own; an apply whose registry another one changes;
\* two targets, each the other's audit.
MCOffered ==
  {{InPlaceOnce(FALSE), InPlaceOnce(TRUE)},
   {InPlaceOnce(TRUE), A(f, f, g, h, TRUE, v1, v2)},
   {A(f, g, h, None, TRUE, v0, v1)},
   {A(f, g, h, None, FALSE, v0, v1)},
   {A(f, g, h, None, TRUE, v0, v1), A(f, h, g, None, FALSE, v0, v2)}}
MCApply == UNION MCOffered
=============================================================================
