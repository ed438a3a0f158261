---------------------------- MODULE SmartsRoster ----------------------------
(***************************************************************************)
(* Collection into the SMARTS evidence journal: sweeps over a roster of     *)
(* exact facilities (smarts_collection.collect_roster) and the pages that   *)
(* collect_active records (smarts_active.py) into the same journal.         *)
(*                                                                          *)
(* The journal and the checkpoint are two SQLite files.  A process commits  *)
(* an observation to the first and then a step to the second; it may crash  *)
(* in between, and several processes may work on one sweep at a time.       *)
(***************************************************************************)
EXTENDS SmartsJournal

CONSTANTS
  Facility,   \* what SMARTS lists; one row each
  Published,  \* rows a facility may be published with
  Rosters,    \* the operators' lists of identifiers to look up
  RunId,      \* names of sweeps
  Sweeper,    \* processes of smarts_collection
  Lister,     \* processes that collect the pages of the active list
  Budgets,    \* values of --max-requests
  MaxObservations, \* bound on the journal
  MaxChanges       \* bound on changes of the source

ASSUME RosterConstants ==
  /\ Published \in [Facility -> SUBSET Row] /\ \A f \in Facility : Published[f] # {}
  /\ \A roster \in Rosters :
       /\ roster \in Seq(App \cup Wdid) /\ roster # <<>>
       /\ \A i, k \in DOMAIN roster : roster[i] = roster[k] => i = k
  /\ Budgets \subseteq Nat \ {0}
  /\ IsFiniteSet(Facility)
  /\ Sweeper \cap Lister = {}
  /\ MaxObservations \in Nat /\ MaxChanges \in Nat

Process == Sweeper \cup Lister

VARIABLES
  source,   \* the row SMARTS publishes for each facility
  changes,  \* how often the source has changed
  journal,  \* evidence journal
  runs,     \* table collection_runs
  steps,    \* table collection_steps, by run and target index
  proc      \* per process: program counter and locals

vars == <<source, changes, journal, runs, steps, proc>>

NoProc == [pc |-> "idle", run |-> None, index |-> 0, last |-> 0, page |-> <<>>,
           receipt |-> None]

\* A sweep and how many of its targets are done; targets count from 1 here.
Run == [roster: Rosters, next: Nat]
Receipt == [observation: Nat, key: App \cup Wdid, row: Row]
Step == [run: RunId, index: Nat, receipt: Receipt]

\* None is no row of the checkpoint.
ASSUME NoneIsNoSweep == None \notin RunId /\ None \notin Run /\ None \notin Receipt

TypeOK ==
  /\ source \in [Facility -> Row] /\ \A f \in Facility : source[f] \in Published[f]
  /\ changes \in 0..MaxChanges
  /\ journal \in Journal
  /\ runs \in [RunId -> Run \cup {None}]
  /\ steps \subseteq Step
  /\ proc \in [Process ->
       [pc: {"idle", "fetch", "record", "advance"}, run: RunId \cup {None},
        index: Nat, last: Nat, page: Seq(Row), receipt: Receipt \cup {None}]]
  /\ \A p \in Process : proc[p].run # None =>
       /\ runs[proc[p].run] # None
       /\ proc[p].index \in DOMAIN runs[proc[p].run].roster

Init ==
  /\ source \in [Facility -> Row] /\ \A f \in Facility : source[f] \in Published[f]
  /\ changes = 0
  /\ journal = EmptyJournal
  /\ runs = [r \in RunId |-> None]
  /\ steps = {}
  /\ proc = [p \in Process |-> NoProc]

-----------------------------------------------------------------------------
\* SMARTS publishes another row for a facility.
Republish(f) ==
  /\ changes < MaxChanges
  /\ \E row \in Published[f] \ {source[f]} : source' = [source EXCEPT ![f] = row]
  /\ changes' = changes + 1
  /\ UNCHANGED <<journal, runs, steps, proc>>

At(p, label) == proc[p].pc = label
Target(p) == runs[proc[p].run].roster[proc[p].index]
StepsOf(r) == {s \in steps : s.run = r}

Evidence(receipt) ==
  /\ receipt.observation \in DOMAIN journal.observations
  /\ journal.observations[receipt.observation] =
       [key |-> receipt.key, row |-> receipt.row]

\* _verified_prefix: the steps are those the cursor counts, and have evidence.
VerifiedPrefix(r) ==
  /\ {s.index : s \in StepsOf(r)} = 1..runs[r].next
  /\ \A s \in StepsOf(r) : Evidence(s.receipt)

Unfinished(r) == runs[r] # None /\ runs[r].next < Len(runs[r].roster)

\* The last target of one invocation.
LastTarget(roster, next, budget) ==
  IF next + budget < Len(roster) THEN next + budget ELSE Len(roster)

Works(p, r, roster, next, budget) ==
  proc' = [proc EXCEPT ![p] =
    [NoProc EXCEPT !.pc = "fetch", !.run = r, !.index = next + 1,
                   !.last = LastTarget(roster, next, budget)]]

\* A new run id: no earlier sweep may be unfinished.
StartSweep(p, r, roster, budget) ==
  /\ At(p, "idle") /\ runs[r] = None
  /\ Verifies(journal)
  /\ ~\E other \in RunId : Unfinished(other)
  /\ runs' = [runs EXCEPT ![r] = [roster |-> roster, next |-> 0]]
  /\ Works(p, r, roster, 0, budget)
  /\ UNCHANGED <<source, changes, journal, steps>>

\* Slip: a sweep goes on with whatever roster it is given.
ResumeRebound(p, r, roster, budget) ==
  /\ At(p, "idle") /\ runs[r] # None
  /\ runs[r].next < Len(roster)
  /\ Verifies(journal) /\ VerifiedPrefix(r)
  /\ runs' = [runs EXCEPT ![r].roster = roster]
  /\ Works(p, r, roster, runs[r].next, budget)
  /\ UNCHANGED <<source, changes, journal, steps>>

\* A known run id: the roster is the same and what is done has its evidence.
\* A sweep that is complete makes no request.
ResumeSweep(p, r, roster, budget) ==
  /\ At(p, "idle") /\ runs[r] # None
  /\ runs[r].roster = roster /\ runs[r].next < Len(roster)
  /\ Verifies(journal) /\ VerifiedPrefix(r)
  /\ Works(p, r, roster, runs[r].next, budget)
  /\ UNCHANGED <<source, changes, journal, runs, steps>>

\* The exact lookup of a target, which is to return exactly one facility.
FetchTarget(p) ==
  /\ p \in Sweeper /\ At(p, "fetch")
  /\ LET found == {f \in Facility : Target(p) \in Aliases(source[f])} IN
     proc' = [proc EXCEPT ![p] =
       IF Cardinality(found) = 1
       THEN [@ EXCEPT !.pc = "record", !.page = <<source[CHOOSE f \in found : TRUE]>>]
       ELSE NoProc]
  /\ UNCHANGED <<source, changes, journal, runs, steps>>

\* A page of the active list (or the one row the intake command retains); equal
\* rows of a page are recorded once.
FetchPage(p) ==
  /\ p \in Lister /\ At(p, "idle")
  /\ \E listed \in SUBSET Facility \ {{}} :
       \E page \in SetToSeqs({source[f] : f \in listed}) :
         proc' = [proc EXCEPT ![p] = [NoProc EXCEPT !.pc = "record", !.page = page]]
  /\ UNCHANGED <<source, changes, journal, runs, steps>>

Recorded(p) == RecordPage(journal, proc[p].page)

\* The page is committed to the journal, or refused and the process ends.
Record(p) ==
  /\ At(p, "record")
  /\ Len(journal.observations) + Len(proc[p].page) <= MaxObservations
  /\ IF Recorded(p) = None THEN journal' = journal /\ proc' = [proc EXCEPT ![p] = NoProc]
     ELSE /\ journal' = Recorded(p)
          /\ LET id == Len(journal'.observations)
                 o  == journal'.observations[id]
             IN proc' = [proc EXCEPT ![p] =
                  IF p \in Lister THEN NoProc
                  ELSE [@ EXCEPT !.pc = "advance", !.page = <<>>,
                          !.receipt = [observation |-> id, key |-> o.key, row |-> o.row]]]
  /\ UNCHANGED <<source, changes, runs, steps>>

Onward(p) ==
  IF proc[p].index < proc[p].last
  THEN [proc[p] EXCEPT !.pc = "fetch", !.index = @ + 1, !.receipt = None]
  ELSE NoProc

NewStep(p) ==
  [run |-> proc[p].run, index |-> proc[p].index, receipt |-> proc[p].receipt]

\* Slip: the step is replaced and the cursor set, whoever was faster.
AdvanceBlindly(p) ==
  /\ At(p, "advance")
  /\ steps' = {s \in steps : s.run # proc[p].run \/ s.index # proc[p].index}
                \cup {NewStep(p)}
  /\ runs' = [runs EXCEPT ![proc[p].run].next = proc[p].index]
  /\ proc' = [proc EXCEPT ![p] = Onward(p)]
  /\ UNCHANGED <<source, changes, journal>>

\* The receipt is inserted (its index is part of the key) and the cursor moved,
\* if it still is where this process found it; else all is rolled back.
Advance(p) ==
  /\ At(p, "advance")
  /\ LET r == proc[p].run IN
     IF /\ \A s \in StepsOf(r) : s.index # proc[p].index
        /\ runs[r].next = proc[p].index - 1
     THEN /\ steps' = steps \cup {NewStep(p)}
          /\ runs' = [runs EXCEPT ![r].next = proc[p].index]
          /\ proc' = [proc EXCEPT ![p] = Onward(p)]
     ELSE proc' = [proc EXCEPT ![p] = NoProc] /\ UNCHANGED <<steps, runs>>
  /\ UNCHANGED <<source, changes, journal>>

\* A process is killed, or its request, or an SQLite call, raises.
Stops(p) ==
  /\ ~At(p, "idle")
  /\ proc' = [proc EXCEPT ![p] = NoProc]
  /\ UNCHANGED <<source, changes, journal, runs, steps>>

Next ==
  \/ \E f \in Facility : Republish(f)
  \/ \E p \in Sweeper, r \in RunId, roster \in Rosters, budget \in Budgets :
       StartSweep(p, r, roster, budget) \/ ResumeSweep(p, r, roster, budget)
  \/ \E p \in Process :
       FetchTarget(p) \/ FetchPage(p) \/ Record(p) \/ Advance(p) \/ Stops(p)

Spec == Init /\ [][Next]_vars

-----------------------------------------------------------------------------
(* Properties.                                                             *)

\* The journal is one that verify_smarts_journal accepts.
VerifierAccepts == Verifies(journal)

\* Two observations that share a WDID or an APP_ID have one source, and it is
\* the one their identifiers are bound to, whatever order they arrived in.
OneSourcePerAlias ==
  \A i \in DOMAIN journal.observations :
    LET o == journal.observations[i] IN
    /\ \A a \in Aliases(o.row) : journal.aliases[a] = o.key
    /\ \A k \in 1..i : Aliases(journal.observations[k].row) \cap Aliases(o.row) # {} =>
                         journal.observations[k].key = o.key

\* However sweeps and pages interleave, repeat and stop, the journal is sound:
\* no sweep is ever barred by its verification, and no source is split in two.
JournalIsSound == VerifierAccepts /\ OneSourcePerAlias

\* A new sweep never hides an unfinished one.
OneOpenSweep == \A r, q \in RunId : Unfinished(r) /\ Unfinished(q) => r = q

\* The checkpoint may lag the journal but never leads it: the cursor counts
\* the steps, each has an observation of what its target names, and at most
\* one sweep is open.
CheckpointHasEvidence ==
  /\ \A r \in RunId : runs[r] # None =>
       /\ VerifiedPrefix(r)
       /\ \A s \in StepsOf(r) : runs[r].roster[s.index] \in Aliases(s.receipt.row)
  /\ OneOpenSweep

\* A target that is done stays done, with its first receipt, and cursors move
\* one target at a time, whoever else works on the sweep.
StepsAreFinal ==
  [][/\ steps \subseteq steps'
     /\ \A r \in RunId : runs[r] # None =>
          runs'[r].next - runs[r].next = Cardinality(steps' \ steps)
          \/ runs'[r] = runs[r]]_vars
=============================================================================
