---------------------------- MODULE RegistryApply ----------------------------
(***************************************************************************)
(* constructionsight-source-plan apply (source_registry_update_plan_cli.py, *)
(* operator_services/source_registry_service.py): an approved plan is       *)
(* published as up to three files, backup, registry and audit report.  A    *)
(* record of all of it is written beside the target first; whoever comes    *)
(* after a failure with the same apply completes what the record says, and  *)
(* any other apply of that target is refused.  Processes hold a lock for    *)
(* each file they may write, may fail or die at any step, and the machine   *)
(* may lose power: a file or a removal is there for certain only once its   *)
(* directory was synced.  Each file counts as in a directory of its own.    *)
(***************************************************************************)
EXTENDS Naturals, FiniteSets

CONSTANTS
  Process, File, Version,  \* Version: contents of a registry
  Apply,     \* invocations: what _pending_identity compares, and the plan
  Offered,   \* the invocations that occur together in one behaviour
  Rank,      \* the order of the files' locks (device, inode, name)
  Foreign,   \* what others leave in a file
  MaxEdits,  \* bound on what others do to the files
  None

InPlace(a) == a.source = a.target
Outputs(a) == {a.target, a.audit, a.backup} \ {None}
Files(a) == Outputs(a) \cup {a.source}

\* The success report: its allowance (plan, registry, target) has only one.
Report(a) == [of |-> a.target, from |-> a.from, to |-> a.to]
Reports == {Report(a) : a \in Apply}
Content == Version \cup Reports \cup Foreign

ASSUME ApplyConstants ==
  /\ \A a \in Apply :
       /\ {a.source, a.target, a.audit} \subseteq File
       /\ a.backup \in File \cup {None} /\ (a.backup # None <=> InPlace(a))
       /\ a.audit \notin {a.source, a.target, a.backup}
       /\ a.backup # a.target
       /\ a.overwrite \in BOOLEAN
       /\ {a.from, a.to} \subseteq Version /\ a.from # a.to
  /\ Offered \subseteq SUBSET Apply
  /\ IsFiniteSet(File) /\ Rank \in [File -> Nat] /\ \A f, g \in File : Rank[f] = Rank[g] => f = g
  /\ None \notin Process \cup File \cup Version \cup Reports
  /\ Version \cap Reports = {}
  /\ MaxEdits \in Nat

\* The pending journal beside a target: the apply, and its files as they were.
Record == [apply : Apply, target : Content \cup {None}, audit : Content \cup {None},
           backup : Content \cup {None}]
ASSUME NoneIsNoRecord == None \notin Record

VARIABLES
  offered,     \* the invocations of this behaviour
  disk, kept,  \* file -> its content now, and after a power loss at the worst
  journal, safe,  \* target -> the pending record beside it, in the same two ways
  allowance,   \* report -> unspent; spent with nothing retained; or retained
  lock,        \* file -> the process that holds its lock, or None
  proc,        \* process -> where it is, for which apply; seen: the target was
               \* found committed when completion began
  told,        \* applies that reported success since they were last prepared
  touched,     \* apply -> its files that are not only its own work since then
  edits

files == <<disk, kept>>
journals == <<journal, safe>>
history == <<told, touched>>
vars == <<offered, files, journals, allowance, lock, proc, history, edits>>

Stages == {"idle", "lock", "recover", "prepare", "authorize", "record", "recorded",
           "complete", "backup", "write backup", "verify backup", "target",
           "write target", "verify target", "audit", "write audit",
           "verify audit", "final", "unlinked"}
Idle == [at |-> "idle", apply |-> None, seen |-> FALSE]

TypeOK ==
  /\ offered \in Offered
  /\ disk \in [File -> Content \cup {None}] /\ kept \in [File -> Content \cup {None}]
  /\ journal \in [File -> Record \cup {None}] /\ safe \in [File -> Record \cup {None}]
  /\ allowance \in [Reports -> {"unspent", "spent", "retained"}]
  /\ lock \in [File -> Process \cup {None}]
  /\ proc \in [Process -> [at : Stages, apply : Apply \cup {None}, seen : BOOLEAN]]
  /\ told \subseteq Apply /\ touched \in [Apply -> SUBSET File]
  /\ edits \in 0 .. MaxEdits

\* Registries hold the version that some plan of this behaviour starts from.
Init ==
  /\ offered \in Offered
  /\ disk \in [File -> {None} \cup {a.from : a \in offered}]
  /\ \A f \in File : disk[f] # None <=> f \in {a.source : a \in offered}
  /\ kept = disk
  /\ journal = [f \in File |-> None] /\ safe = journal
  /\ allowance = [r \in Reports |-> "unspent"]
  /\ lock = [f \in File |-> None]
  /\ proc = [p \in Process |-> Idle]
  /\ told = {} /\ touched = [a \in Apply |-> Files(a)]
  /\ edits = 0

At(p, stage) == proc[p].at = stage
Goto(p, stage) == proc' = [proc EXCEPT ![p].at = stage]
Pending(a) == journal[a.target]

\* fsync of a file and of its directory.
Sync(F) == kept' = [f \in File |-> IF f \in F THEN disk[f] ELSE kept[f]]
SyncJournal(a) == safe' = [safe EXCEPT ![a.target] = journal[a.target]]

\* Closing a descriptor releases its lock, when a process dies too.
Leave(p) ==
  /\ proc' = [proc EXCEPT ![p] = Idle]
  /\ lock' = [f \in File |-> IF lock[f] = p THEN None ELSE lock[f]]
-----------------------------------------------------------------------------
Begin(p, a) ==
  /\ At(p, "idle")
  /\ proc' = [proc EXCEPT ![p] = [at |-> "lock", apply |-> a, seen |-> FALSE]]
  /\ UNCHANGED <<offered, files, journals, allowance, lock, history, edits>>

\* Locks taken in the order of the operation's roles instead of the files'.
NextLockSlip(p, f) ==
  LET a == proc[p].apply IN
  \/ f = a.target
  \/ lock[a.target] = p /\ f = a.audit
  \/ lock[a.target] = p /\ lock[a.audit] = p /\ f = a.backup

NextLock(p, f) ==
  \A g \in Outputs(proc[p].apply) : lock[g] # p => Rank[f] <= Rank[g]

TakeLock(p, f) ==
  /\ At(p, "lock")
  /\ f \in Outputs(proc[p].apply) /\ NextLock(p, f) /\ lock[f] = None
  /\ lock' = [lock EXCEPT ![f] = p]
  /\ IF \A g \in Outputs(proc[p].apply) : lock'[g] = p THEN Goto(p, "recover")
     ELSE UNCHANGED proc
  /\ UNCHANGED <<offered, files, journals, allowance, history, edits>>

\* _recover_pending_registry_apply: another apply's record is a refusal.  A
\* record is read durably; that there is none is not.
Recover(p) ==
  LET a == proc[p].apply IN
  /\ At(p, "recover")
  /\ \/ /\ Pending(a) = None /\ Goto(p, "prepare") /\ UNCHANGED safe
     \/ /\ Pending(a) # None /\ Pending(a).apply = a
        /\ SyncJournal(a) /\ Goto(p, "complete")
  /\ UNCHANGED <<offered, files, journal, allowance, lock, history, edits>>

\* Only the registry's own name is looked at.
AvailableSlip(a) == a.overwrite \/ InPlace(a) \/ disk[a.target] = None

Available(a) ==
  a.overwrite \/ \A f \in Outputs(a) \ {a.source} : disk[f] = None

\* What this attempt does not find as it was left for good: contents that are
\* not synced, what happened since a record whose removal was not synced, and
\* the report of an earlier success of the same apply whose registry has been
\* undone.
Unsettled(a) ==
  {f \in Files(a) : disk[f] # kept[f]}
    \cup (IF safe[a.target] = None THEN {} ELSE touched[a])
    \cup (IF disk[a.audit] = Report(a) /\ disk[a.target] # a.to THEN {a.audit} ELSE {})

\* The registry must be the one the plan was made for.
Prepare(p) ==
  LET a == proc[p].apply IN
  /\ At(p, "prepare") /\ Available(a) /\ disk[a.source] = a.from
  /\ told' = told \ {a}
  /\ touched' = [touched EXCEPT ![a] = Unsettled(a)]
  /\ Goto(p, "authorize")
  /\ UNCHANGED <<offered, files, journals, allowance, lock, edits>>

\* The one-shot boundary, by its promise: the effect computes the new registry
\* and the report; an exact repetition is given what was retained.
Authorize(p) ==
  LET r == Report(proc[p].apply) IN
  /\ At(p, "authorize") /\ allowance[r] # "spent"
  /\ allowance' = [allowance EXCEPT ![r] = "retained"]
  /\ Goto(p, "record")
  /\ UNCHANGED <<offered, files, journals, lock, history, edits>>

\* A failure or the process's death between the claim and the commit.
Forfeit(p) ==
  LET r == Report(proc[p].apply) IN
  /\ At(p, "authorize") /\ allowance[r] = "unspent"
  /\ allowance' = [allowance EXCEPT ![r] = "spent"]
  /\ Leave(p)
  /\ UNCHANGED <<offered, files, journals, history, edits>>

Before(a) == [apply |-> a, target |-> disk[a.target], audit |-> disk[a.audit],
              backup |-> IF a.backup = None THEN None ELSE disk[a.backup]]

\* The journal's name is entered, create-only.
WriteJournal(p) ==
  LET a == proc[p].apply IN
  /\ At(p, "record") /\ Pending(a) = None
  /\ InPlace(a) => disk[a.target] = a.from
  /\ journal' = [journal EXCEPT ![a.target] = Before(a)]
  /\ Goto(p, "recorded")
  /\ UNCHANGED <<offered, files, safe, allowance, lock, history, edits>>

\* Its publication has synced it.
Recorded(p) ==
  /\ At(p, "recorded")
  /\ SyncJournal(proc[p].apply) /\ Goto(p, "complete")
  /\ UNCHANGED <<offered, files, journal, allowance, lock, history, edits>>
-----------------------------------------------------------------------------
(* _complete_pending_registry_apply *)

\* What the checks at its beginning compare.
Completable(a) ==
  /\ InPlace(a) \/ disk[a.source] = a.from
  /\ disk[a.target] \in {Pending(a).target, a.to}
  /\ disk[a.audit] \in {Pending(a).audit, Report(a)}
  /\ disk[a.target] # a.to => disk[a.audit] # Report(a)

Complete(p) ==
  LET a == proc[p].apply IN
  /\ At(p, "complete") /\ Completable(a)
  /\ SyncJournal(a)
  /\ proc' = [proc EXCEPT ![p] = [at |-> IF InPlace(a) THEN "backup" ELSE "target",
                                  apply |-> a, seen |-> disk[a.target] = a.to]]
  /\ UNCHANGED <<offered, files, journal, allowance, lock, history, edits>>

\* One output: found as wanted, or still as recorded and to be written.
Find(p, f, wanted, before, verify, write) ==
  /\ \/ disk[f] = wanted /\ Goto(p, verify)
     \/ disk[f] # wanted /\ disk[f] = before /\ Goto(p, write)
  /\ UNCHANGED <<offered, files, journals, allowance, lock, history, edits>>

\* A final name is entered; who else has a stake in the file is disturbed.
Enter(p, f, content, replace) ==
  /\ replace \/ disk[f] = None
  /\ disk' = [disk EXCEPT ![f] = content]
  /\ touched' = [b \in Apply |-> IF b # proc[p].apply /\ f \in Files(b)
                                 THEN touched[b] \cup {f} ELSE touched[b]]
  /\ UNCHANGED <<offered, kept, journals, allowance, lock, told, edits>>

\* The publication's sync and the durable reload that follows it.
Verify(p, f, wanted, next) ==
  /\ disk[f] = wanted /\ Sync({f}) /\ Goto(p, next)
  /\ UNCHANGED <<offered, disk, journals, allowance, lock, history, edits>>

FindBackup(p) ==
  LET a == proc[p].apply IN
  /\ At(p, "backup")
  /\ Find(p, a.backup, a.from, Pending(a).backup, "verify backup", "write backup")

WriteBackup(p) ==
  LET a == proc[p].apply IN
  At(p, "write backup") /\ Enter(p, a.backup, a.from, a.overwrite) /\ Goto(p, "verify backup")

\* A backup counts as soon as its name is there.
VerifyBackupSlip(p) ==
  LET a == proc[p].apply IN
  /\ At(p, "verify backup") /\ disk[a.backup] = a.from /\ Goto(p, "target")
  /\ UNCHANGED <<offered, files, journals, allowance, lock, history, edits>>

VerifyBackup(p) ==
  LET a == proc[p].apply IN
  At(p, "verify backup") /\ Verify(p, a.backup, a.from, "target")

\* A committed registry is taken as it is found, synced or not.
FindTargetSlip(p) ==
  LET a == proc[p].apply IN
  /\ At(p, "target")
  /\ \/ proc[p].seen /\ Goto(p, "audit")
     \/ ~proc[p].seen /\ disk[a.target] = Pending(a).target /\ Goto(p, "write target")
  /\ UNCHANGED <<offered, files, journals, allowance, lock, history, edits>>

\* What was seen when completion began decides, not what is there now.
FindTarget(p) ==
  LET a == proc[p].apply IN
  /\ At(p, "target")
  /\ \/ proc[p].seen /\ Goto(p, "verify target")
     \/ ~proc[p].seen /\ disk[a.target] = Pending(a).target /\ Goto(p, "write target")
  /\ UNCHANGED <<offered, files, journals, allowance, lock, history, edits>>

WriteTarget(p) ==
  LET a == proc[p].apply IN
  /\ At(p, "write target") /\ Enter(p, a.target, a.to, InPlace(a) \/ a.overwrite)
  /\ Goto(p, "verify target")

VerifyTarget(p) ==
  LET a == proc[p].apply IN
  At(p, "verify target") /\ Verify(p, a.target, a.to, "audit")

FindAudit(p) ==
  LET a == proc[p].apply IN
  /\ At(p, "audit")
  /\ Find(p, a.audit, Report(a), Pending(a).audit, "verify audit", "write audit")

WriteAudit(p) ==
  LET a == proc[p].apply IN
  At(p, "write audit") /\ Enter(p, a.audit, Report(a), a.overwrite) /\ Goto(p, "verify audit")

VerifyAudit(p) ==
  LET a == proc[p].apply IN
  At(p, "verify audit") /\ Verify(p, a.audit, Report(a), "final")

\* What an output of an apply holds in the end.
Wanted(a, f) == IF f = a.target THEN a.to ELSE IF f = a.audit THEN Report(a) ELSE a.from

\* All outputs are read back durably once more; then the journal is unlinked.
Unlink(p) ==
  LET a == proc[p].apply IN
  /\ At(p, "final") /\ \A f \in Outputs(a) : disk[f] = Wanted(a, f)
  /\ Sync(Outputs(a))
  /\ journal' = [journal EXCEPT ![a.target] = None]
  /\ Goto(p, "unlinked")
  /\ UNCHANGED <<offered, disk, safe, allowance, lock, history, edits>>

\* Success is reported with the removal of the record not yet synced.
SucceedSlip(p) ==
  LET a == proc[p].apply IN
  /\ At(p, "unlinked")
  /\ told' = told \cup {a} /\ Leave(p)
  /\ UNCHANGED <<offered, files, journals, allowance, touched, edits>>

Succeed(p) ==
  LET a == proc[p].apply IN
  /\ At(p, "unlinked")
  /\ SyncJournal(a) /\ told' = told \cup {a} /\ Leave(p)
  /\ UNCHANGED <<offered, files, journal, allowance, touched, edits>>
-----------------------------------------------------------------------------
\* A check refuses, a call fails, or the process dies: what was written stays.
Abort(p) ==
  /\ ~At(p, "idle") /\ Leave(p)
  /\ UNCHANGED <<offered, files, journals, allowance, history, edits>>

PowerLoss ==
  /\ \E F \in SUBSET {f \in File : disk[f] # kept[f]} :
       disk' = [f \in File |-> IF f \in F THEN disk[f] ELSE kept[f]]
  /\ \E J \in SUBSET {f \in File : journal[f] # safe[f]} :
       journal' = [f \in File |-> IF f \in J THEN journal[f] ELSE safe[f]]
  /\ kept' = disk' /\ safe' = journal'
  /\ proc' = [p \in Process |-> Idle] /\ lock' = [f \in File |-> None]
  /\ UNCHANGED <<offered, allowance, history, edits>>

\* Somebody without the locks restores, replaces or removes a file.
Edit(f, content) ==
  /\ edits < MaxEdits /\ edits' = edits + 1 /\ content # disk[f]
  /\ disk' = [disk EXCEPT ![f] = content]
  /\ touched' = [a \in Apply |-> IF f \in Files(a) THEN touched[a] \cup {f} ELSE touched[a]]
  /\ UNCHANGED <<offered, kept, journals, allowance, lock, proc, told>>

Step(p) ==
  \/ \E f \in File : TakeLock(p, f)
  \/ Recover(p) \/ Prepare(p) \/ Authorize(p) \/ WriteJournal(p) \/ Recorded(p)
  \/ Complete(p)
  \/ FindBackup(p) \/ WriteBackup(p) \/ VerifyBackup(p)
  \/ FindTarget(p) \/ WriteTarget(p) \/ VerifyTarget(p)
  \/ FindAudit(p) \/ WriteAudit(p) \/ VerifyAudit(p)
  \/ Unlink(p) \/ Succeed(p)

Next ==
  \/ \E p \in Process :
       \/ \E a \in offered : Begin(p, a)
       \/ Step(p) \/ Forfeit(p) \/ Abort(p)
  \/ PowerLoss
  \/ \E f \in File, c \in Foreign \cup {None} : Edit(f, c)

Spec == Init /\ [][Next]_vars
-----------------------------------------------------------------------------
Undisturbed(a, F) == F \cap touched[a] = {}

\* A success report is on disk, or may be after a power loss, only if the
\* registry it tells of is there for good ("success audit cannot precede
\* authoritative registry commit"), as long as nobody else changes the two.
AuditFollowsTarget ==
  \A a \in offered :
    Undisturbed(a, {a.target, a.audit})
      /\ Report(a) \in {disk[a.audit], kept[a.audit]} => kept[a.target] = a.to

\* "A changed registry target is never created before its required audit
\* artifact" (docs/architecture/source_registry_update_plan.md:79): where nobody
\* else changes the two, the new registry is there only with its report.
TargetFollowsAudit ==
  \A a \in offered :
    Undisturbed(a, {a.target, a.audit}) /\ disk[a.target] = a.to => disk[a.audit] = Report(a)

\* In place, the original registry is never lost: from the moment the new one
\* is entered the backup is durable, whenever the machine stops.
OriginalSurvives ==
  \A a \in offered :
    InPlace(a) /\ Undisturbed(a, Files(a)) /\ a.to \in {disk[a.target], kept[a.target]}
      => kept[a.backup] = a.from

\* A pending record can be completed by an exact retry, after any failure and
\* any power loss, unless somebody else changed one of the files since it was
\* written, or it was written over what is Unsettled.
PendingIsCompletable ==
  \A a \in offered :
    LET r == Pending(a) IN
    r # None /\ r.apply = a /\ Undisturbed(a, Files(a)) =>
      /\ Completable(a)
      /\ a.backup # None => disk[a.backup] \in {r.backup, a.from}
      /\ ~a.overwrite => \A f \in Outputs(a) \ {a.source} : disk[f] \in {None, Wanted(a, f)}

\* What was reported is there for good: the outputs survive every power loss,
\* and the record does not come back.
ReportedIsDurable ==
  \A a \in told :
    /\ \A f \in Outputs(a) \ touched[a] : disk[f] = Wanted(a, f) /\ kept[f] = Wanted(a, f)
    /\ safe[a.target] # None => safe[a.target].apply # a

\* The applies never wait for one another in a circle: if any is under way,
\* one of them is past its locks or finds the next one free.
LocksResolve ==
  (\E p \in Process : ~At(p, "idle")) =>
    \E p \in Process :
      /\ ~At(p, "idle")
      /\ At(p, "lock") => \E f \in Outputs(proc[p].apply) : NextLock(p, f) /\ lock[f] = None
=============================================================================
