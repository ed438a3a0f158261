----------------------------- MODULE MCEvidence -----------------------------
(* Published files and the evidence journal with its sweeps, for one TLC    *)
(* run.  The two share no state: a behaviour is of one of them, and the     *)
(* other rests in one of its initial states.                                *)
EXTENDS RuntimeArtifact, SmartsRoster, TLC

CONSTANTS p1, p2, c1, c2

VARIABLE part   \* what the behaviour is of: "publication" or "sweeps"

\* At first.
EvidenceInit ==
  /\ part \in {"publication", "sweeps"}
  /\ PublicationInit /\ (part = "sweeps" => dir = "durable")
  /\ Init /\ (part = "publication" =>
                source = [f \in Facility |-> CHOOSE row \in Published[f] : TRUE])

\* A step of the behaviour's part.
EvidenceNext ==
  \/ part = "publication" /\ PublicationNext /\ UNCHANGED <<part, vars>>
  \/ part = "sweeps" /\ Next /\ UNCHANGED <<part, publicationVars>>

EvidenceSpec == EvidenceInit /\ [][EvidenceNext]_<<part, publicationVars, vars>>

Symmetry == Permutations({p1, p2}) \cup Permutations({c1, c2})
              \cup Permutations(Sweeper) \cup Permutations(RunId)

R(app, wdid, content) == [app |-> app, wdid |-> wdid, content |-> content]

\* One facility is renumbered or loses its WDID; the other stays as it is.
MCPublished ==
  [f \in {"f1", "f2"} |->
     IF f = "f1" THEN {R("a1", "w1", "x"), R("a1", None, "x"), R("a1", "w2", "x")}
     ELSE {R("a2", "w2", "x")}]

MCRosters == {<<"a1", "w2">>, <<"a2">>}
=============================================================================
