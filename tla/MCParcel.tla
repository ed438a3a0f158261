------------------------------ MODULE MCParcel ------------------------------
(* Layers, workloads and symmetry for the TLC run of ParcelRehearsal.     *)
EXTENDS ParcelRehearsal, TLC
CONSTANTS first, second
UpTo(n) == {1 .. k : k \in 0 .. n}
Workload(ids, layers, advertised, sizes, edits_, probes, assessments, rehearsals) ==
  [ids |-> ids, layers |-> layers, advertised |-> advertised, sizes |-> sizes,
   edits |-> edits_, probes |-> probes, assessments |-> assessments,
   rehearsals |-> rehearsals]
\* Two probes of one plan, then of plans of two sample sizes over a layer of one record
\* that is edited or of two that are not, and their rows; two rehearsals; one of each
\* and the rows of both.
MCWorkloads ==
  {Workload(1 .. 2, {1 .. 2}, {TRUE}, {1}, 1, 2, 2, 0),
   Workload({1}, {{1}}, {TRUE}, {1, 2}, 1, 2, 2, 0),
   Workload(1 .. 2, {1 .. 2}, {TRUE}, {1, 2}, 0, 2, 2, 0),
   Workload(1 .. 5, UpTo(4), {TRUE}, {1}, 3, 0, 0, 2),
   Workload(1 .. 4, UpTo(3), {TRUE, FALSE}, {1}, 1, 1, 1, 1)}
Symmetry == Permutations({first, second})
=============================================================================
