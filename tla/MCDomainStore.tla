--------------------------- MODULE MCDomainStore ----------------------------
(* Write plans for the TLC run of DomainStore. *)
EXTENDS DomainStore, TLC

CONSTANTS i1, i2, r1, r2

C(title, posted) == [title |-> title, posted |-> posted]
Op(k, content) == [key |-> k, content |-> content]

\* A record as first published, and as published later with one or the other
\* column changed; a plan of two operations.
MCPlans ==
  {<<Op("k1", C(0, 0))>>, <<Op("k1", C(0, 1))>>,
   <<Op("k1", C(1, 0)), Op("k2", C(0, 0))>>}

\* Imports that overtake one another, of one record and a request meanwhile, or
\* of several; requests that overtake one another and an import of one record;
\* a request about one record while several are imported.
Single == {plan \in MCPlans : Len(plan) = 1}
MCWorkloads ==
  {[processes |-> {i1, i2, r}, plans |-> Single] : r \in {r1, r2}} \cup
  {[processes |-> {i, r1, r2}, plans |-> Single] : i \in {i1, i2}} \cup
  {[processes |-> {i, r}, plans |-> MCPlans] : i \in {i1, i2}, r \in {r1, r2}} \cup
  {[processes |-> {i1, i2}, plans |-> MCPlans]}

\* Imports are alike, and so are requests; the workloads are closed under both.
Symmetry == Permutations({i1, i2}) \cup Permutations({r1, r2})
=============================================================================
