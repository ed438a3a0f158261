---------------------------- MODULE MCCommercial ----------------------------
(* Workloads and contact records for the TLC runs of Commercial.           *)
EXTENDS Commercial, TLC

Symmetry == Permutations(Versions) \cup Permutations(Bids) \cup Permutations(Weights)

\* What happens in one behaviour: operations that share a table or a step occur together
\* in one of them, with collections ("publish") where the handler reads the lead.
MCWorkloads ==
    {{"feedback", "queue", "control", "publish"}, {"bid", "publish"}, {"queue", "bid"},
     {"facts", "review", "publish"}, {"watch", "publish"}, {"contact", "activity"},
     {"weights"}, {"bid", "contract", "entry"}, {"catalog"}}

C(email, phone) == [email |-> email, phone |-> phone]
MCContacts == {C("e1", None), C(None, "p1"), C("e1", "p2"), C("e2", "p1")}
=============================================================================
