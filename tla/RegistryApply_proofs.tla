------------------------ MODULE RegistryApply_proofs ------------------------
(***************************************************************************)
(* Safety of RegistryApply for any applies, files, lock order and number of *)
(* processes and edits.  None of the properties is inductive: that nothing  *)
(* but a's own steps changes an undisturbed file of a follows from the      *)
(* locks, and that a power loss does no harm from what each stage knows to  *)
(* be on disk for good.                                                     *)
(***************************************************************************)
EXTENDS RegistryApply, FiniteSetTheorems, TLAPS

\* The stages that know something of what is on disk.
Ready == {"authorize", "record"}
Unrecorded == {"prepare", "unlinked"} \cup Ready
Committed == {"audit", "write audit", "verify audit", "final", "unlinked"}
BackedUp == {"target", "write target", "verify target"} \cup Committed
Working == {"recorded", "complete", "backup", "write backup", "verify backup",
            "target", "write target", "verify target", "audit", "write audit",
            "verify audit", "final"}

\* A file of an apply is on disk, whenever the machine stops.
There(f, content) == disk[f] = content /\ kept[f] = content

\* A process past its locks holds the lock of each output of its apply.
LocksHeld ==
  \A p \in Process : ~At(p, "idle") =>
    /\ proc[p].apply \in Apply
    /\ proc[p].at \in {"backup", "write backup", "verify backup"} => InPlace(proc[p].apply)
    /\ ~At(p, "lock") => \A f \in Outputs(proc[p].apply) : lock[f] = p

\* What a process knows of the record, the backup and the registry of a at a
\* stage.
KnowsAt(a, stage) ==
  /\ stage \in Unrecorded => Pending(a) = None
  /\ stage \in Working => Pending(a) # None /\ Pending(a).apply = a
  /\ stage \in Ready /\ Undisturbed(a, Files(a)) =>
       /\ \A f \in Files(a) : disk[f] = kept[f]
       /\ disk[a.source] = a.from
       /\ a.overwrite \/ \A f \in Outputs(a) \ {a.source} : disk[f] = None
  /\ stage \in BackedUp /\ InPlace(a) /\ a.backup \notin touched[a] => There(a.backup, a.from)
  /\ stage \in Committed /\ a.target \notin touched[a] => There(a.target, a.to)
  /\ stage = "unlinked" => \A f \in Outputs(a) \ touched[a] : There(f, Wanted(a, f))

StagesKnow ==
  \A p \in Process, stage \in Stages \ {"idle"}, a \in Apply :
    At(p, stage) /\ proc[p].apply = a => KnowsAt(a, stage)

\* The report is nowhere, or the registry is there for good.
ReportRests(a) ==
  Undisturbed(a, {a.target, a.audit}) /\ Report(a) \in {disk[a.audit], kept[a.audit]}
    => There(a.target, a.to)

\* The new registry is nowhere, or the backup is there for good.
BackupRests(a) ==
  InPlace(a) /\ Undisturbed(a, Files(a)) /\ a.to \in {disk[a.target], kept[a.target]}
    => There(a.backup, a.from)

\* Each file is, shown and kept, as a record of the apply found it or as wanted.
Fits(a, r) ==
  /\ InPlace(a) \/ There(a.source, a.from)
  /\ {disk[a.target], kept[a.target]} \subseteq {r.target, a.to}
  /\ {disk[a.audit], kept[a.audit]} \subseteq {r.audit, Report(a)}
  /\ a.backup # None => {disk[a.backup], kept[a.backup]} \subseteq {r.backup, a.from}
  /\ ~a.overwrite => \A f \in Outputs(a) \ {a.source} :
                       {disk[f], kept[f]} \subseteq {None, Wanted(a, f)}

\* A record, shown or kept, still describes the files of its apply.
RecordsFit(a) ==
  Undisturbed(a, Files(a)) =>
    \A r \in {journal[a.target], safe[a.target]} : r # None /\ r.apply = a => Fits(a, r)

\* A reported apply is at rest: no record of it, nobody at work on it.
Rests(a) ==
  /\ \A r \in {journal[a.target], safe[a.target]} : r # None => r.apply # a
  /\ \A f \in Outputs(a) \ touched[a] : There(f, Wanted(a, f))
  /\ \A p \in Process : proc[p].apply = a =>
       proc[p].at \in {"idle", "lock", "recover", "prepare"}

AppliesRest ==
  /\ \A a \in Apply : ReportRests(a) /\ BackupRests(a) /\ RecordsFit(a)
  /\ \A a \in told : Rests(a)

\* IInv: TypeOK and the three parts above.
IInv == TypeOK /\ LocksHeld /\ StagesKnow /\ AppliesRest
-----------------------------------------------------------------------------
\* What the steps do to the files: nothing; some are synced; a process enters
\* an output of its apply; an apply is prepared; somebody else edits.
Quiet == UNCHANGED <<files, touched>>

Syncing ==
  /\ disk' = disk /\ touched' = touched
  /\ kept' \in [File -> Content \cup {None}]
  /\ \A f \in File : kept'[f] \in {kept[f], disk[f]}

Disturbs(a, f) ==
  touched' = [b \in Apply |-> IF b # a /\ f \in Files(b) THEN touched[b] \cup {f} ELSE touched[b]]

Entering(p, f) ==
  LET a == proc[p].apply IN
  /\ f \in Outputs(a) /\ disk' = [disk EXCEPT ![f] = Wanted(a, f)] /\ kept' = kept
  /\ Disturbs(a, f) /\ UNCHANGED <<journals, told>>
  /\ \/ At(p, "write backup") /\ f = a.backup /\ Goto(p, "verify backup")
     \/ At(p, "write target") /\ f = a.target /\ Goto(p, "verify target")
     \/ At(p, "write audit") /\ f = a.audit /\ Goto(p, "verify audit")

Preparing(p) ==
  LET a == proc[p].apply IN
  /\ UNCHANGED <<files, journals>> /\ At(p, "prepare") /\ Goto(p, "authorize")
  /\ told' = told \ {a} /\ touched' = [touched EXCEPT ![a] = Unsettled(a)]
  /\ Available(a) /\ disk[a.source] = a.from

\* An apply's fields, and its outputs.
LEMMA Fields ==
  ASSUME NEW a \in Apply
  PROVE  /\ a.source \in File /\ a.target \in File /\ a.audit \in File
         /\ a.backup \in File \cup {None} /\ (a.backup # None <=> InPlace(a))
         /\ a.audit # a.source /\ a.audit # a.target /\ a.audit # a.backup
         /\ a.backup # a.target
         /\ a.overwrite \in BOOLEAN
         /\ a.from \in Version /\ a.to \in Version /\ a.from # a.to
         /\ Report(a) \in Reports
         /\ Outputs(a) \subseteq File /\ Files(a) \subseteq File
         /\ a.target \in Outputs(a) /\ a.audit \in Outputs(a)
         /\ a.backup # None => a.backup \in Outputs(a)
         /\ Wanted(a, a.target) = a.to /\ Wanted(a, a.audit) = Report(a)
         /\ a.backup # None => Wanted(a, a.backup) = a.from
         /\ \A f \in Outputs(a) : Wanted(a, f) \in Content
         /\ Report(a) # a.to /\ Report(a) # a.from
         /\ a.from # None /\ a.to # None /\ Report(a) # None
<1>1. /\ a.source \in File /\ a.target \in File /\ a.audit \in File
      /\ a.backup \in File \cup {None} /\ (a.backup # None <=> InPlace(a))
      /\ a.audit # a.source /\ a.audit # a.target /\ a.audit # a.backup
      /\ a.backup # a.target
      /\ a.overwrite \in BOOLEAN
      /\ a.from \in Version /\ a.to \in Version /\ a.from # a.to
  BY ApplyConstants
<1>2. Report(a) \in Reports
  BY DEF Reports
<1>3. None \notin File /\ None \notin Version /\ None \notin Reports /\ Version \cap Reports = {}
  BY ApplyConstants
<1>4. /\ Outputs(a) \subseteq File /\ Files(a) \subseteq File
      /\ a.target \in Outputs(a) /\ a.audit \in Outputs(a)
      /\ a.backup # None => a.backup \in Outputs(a)
  BY <1>1, <1>3 DEF Outputs, Files
<1>5. /\ Wanted(a, a.target) = a.to /\ Wanted(a, a.audit) = Report(a)
      /\ a.backup # None => Wanted(a, a.backup) = a.from
      /\ \A f \in Outputs(a) : Wanted(a, f) \in Content
  BY <1>1, <1>2 DEF Wanted, Content
<1>6. QED
  BY <1>1, <1>2, <1>3, <1>4, <1>5

-----------------------------------------------------------------------------
\* What a process is, for the type of proc.
Proc == [at : Stages, apply : Apply \cup {None}, seen : BOOLEAN]

\* A process that goes on to a stage keeps its apply.
LEMMA Gone ==
  ASSUME NEW p \in Process, NEW stage \in Stages, TypeOK, Goto(p, stage)
  PROVE  /\ proc' \in [Process -> Proc]
         /\ proc'[p].at = stage /\ proc'[p].apply = proc[p].apply
         /\ \A q \in Process \ {p} : proc'[q] = proc[q]
<1>1. proc \in [Process -> Proc]
  BY DEF TypeOK, Proc
<1>2. [proc[p] EXCEPT !.at = stage] \in Proc
  BY <1>1 DEF Proc
<1>3. proc' = [proc EXCEPT ![p] = [proc[p] EXCEPT !.at = stage]]
  BY <1>1 DEF Goto
<1>4. [proc[p] EXCEPT !.at = stage].at = stage
      /\ [proc[p] EXCEPT !.at = stage].apply = proc[p].apply
  BY <1>1 DEF Proc
<1>5. proc'[p] = [proc[p] EXCEPT !.at = stage]
  BY <1>1, <1>3
<1>6. QED
  BY <1>1, <1>2, <1>3, <1>4, <1>5

\* A process that leaves is idle, and holds no lock.
LEMMA Left ==
  ASSUME NEW p \in Process, TypeOK, Leave(p)
  PROVE  /\ proc' \in [Process -> Proc] /\ lock' \in [File -> Process \cup {None}]
         /\ proc'[p] = Idle
         /\ \A q \in Process \ {p} : proc'[q] = proc[q]
         /\ \A f \in File : lock[f] # p => lock'[f] = lock[f]
<1>1. Idle \in Proc
  BY DEF Idle, Proc, Stages
<1>2. QED
  BY <1>1 DEF TypeOK, Leave, Proc

\* The type invariant holds initially.
LEMMA InitType == Init => TypeOK
<1> SUFFICES ASSUME Init PROVE TypeOK
  OBVIOUS
<1>1. offered \in Offered /\ offered \subseteq Apply
  BY ApplyConstants DEF Init
<1>2. disk \in [File -> Content \cup {None}] /\ kept = disk
  <2>1. \A a \in offered : a.from \in Content
    BY <1>1, Fields DEF Content
  <2>2. QED
    BY <2>1 DEF Init
<1>3. proc \in [Process -> Proc]
  BY DEF Init, Idle, Proc, Stages
<1>4. touched \in [Apply -> SUBSET File]
  BY Fields DEF Init
<1>5. edits \in 0 .. MaxEdits
  BY ApplyConstants DEF Init
<1>6. QED
  BY <1>1, <1>2, <1>3, <1>4, <1>5 DEF Init, TypeOK, Proc

\* A process that is not idle has an apply.
LEMMA Applies ==
  ASSUME TypeOK, LocksHeld, NEW p \in Process, ~At(p, "idle")
  PROVE  proc[p].apply \in Apply
BY DEF LocksHeld

\* A file that others have a stake in is a file.
LEMMA Disturbed ==
  ASSUME TypeOK, NEW a, NEW f \in File, Disturbs(a, f)
  PROVE  touched' \in [Apply -> SUBSET File]
BY DEF TypeOK, Disturbs

\* Each write enters what is wanted of one of the outputs.
LEMMA Writes ==
  ASSUME TypeOK, LocksHeld, NEW p \in Process,
         WriteBackup(p) \/ WriteTarget(p) \/ WriteAudit(p)
  PROVE  /\ \E f \in File : Entering(p, f)
         /\ UNCHANGED <<offered, journals, allowance, lock, told, edits>>
         /\ disk' \in [File -> Content \cup {None}] /\ kept' = kept
         /\ touched' \in [Apply -> SUBSET File]
         /\ \E stage \in {"verify backup", "verify target", "verify audit"} : Goto(p, stage)
<1> DEFINE a == proc[p].apply
<1>1. a \in Apply /\ (At(p, "write backup") => InPlace(a))
  BY Applies DEF WriteBackup, WriteTarget, WriteAudit, At, LocksHeld
<1>2. \E f \in File : Entering(p, f)
  <2>1. CASE WriteBackup(p)
    <3>1. Entering(p, a.backup) /\ a.backup \in File
      BY <1>1, <2>1, Fields DEF WriteBackup, Enter, Entering, Disturbs
    <3>2. QED
      BY <3>1
  <2>2. CASE WriteTarget(p)
    <3>1. Entering(p, a.target) /\ a.target \in File
      BY <1>1, <2>2, Fields DEF WriteTarget, Enter, Entering, Disturbs
    <3>2. QED
      BY <3>1
  <2>3. CASE WriteAudit(p)
    <3>1. Entering(p, a.audit) /\ a.audit \in File
      BY <1>1, <2>3, Fields DEF WriteAudit, Enter, Entering, Disturbs
    <3>2. QED
      BY <3>1
  <2>4. QED
    BY <2>1, <2>2, <2>3
<1>3. /\ UNCHANGED <<offered, journals, allowance, lock, told, edits>> /\ kept' = kept
      /\ \E stage \in {"verify backup", "verify target", "verify audit"} : Goto(p, stage)
  BY DEF WriteBackup, WriteTarget, WriteAudit, Enter
<1>4. disk' \in [File -> Content \cup {None}] /\ touched' \in [Apply -> SUBSET File]
  <2>1. PICK f \in File : Entering(p, f)
    BY <1>2
  <2>2. Wanted(a, f) \in Content
    BY <1>1, <2>1, Fields DEF Entering
  <2>3. QED
    BY <2>1, <2>2, Disturbed DEF Entering, TypeOK
<1>5. QED
  BY <1>2, <1>3, <1>4

\* Some files are synced.
LEMMA Syncs ==
  ASSUME TypeOK, NEW F, Sync(F), UNCHANGED <<disk, touched>>
  PROVE  Syncing
BY DEF TypeOK, Sync, Syncing

\* The journal beside a target is synced.
LEMMA SyncsJournal ==
  ASSUME TypeOK, NEW a \in Apply, SyncJournal(a)
  PROVE  /\ safe' \in [File -> Record \cup {None}]
         /\ safe'[a.target] = journal[a.target]
         /\ \A f \in File \ {a.target} : safe'[f] = safe[f]
BY Fields DEF TypeOK, SyncJournal

\* The step of a process that moves on, changing neither files, locks nor journals.
Goes(p) ==
  \/ Authorize(p) \/ FindBackup(p) \/ FindTarget(p) \/ FindAudit(p)

\* What the steps do to the files.
LEMMA StepKinds ==
  ASSUME TypeOK, LocksHeld, [Next]_vars
  PROVE  \/ Quiet \/ Syncing \/ PowerLoss
         \/ \E p \in Process : Preparing(p) \/ \E f \in File : Entering(p, f)
         \/ \E f \in File, c \in Foreign \cup {None} : Edit(f, c)
<1>1. CASE UNCHANGED vars
  BY <1>1 DEF vars, Quiet, history
<1>2. ASSUME NEW p \in Process, NEW a \in offered, Begin(p, a) PROVE Quiet
  BY <1>2 DEF Begin, Quiet, history
<1>3. ASSUME NEW p \in Process, NEW f \in File, TakeLock(p, f) PROVE Quiet
  BY <1>3 DEF TakeLock, Quiet, history
<1>4. ASSUME NEW p \in Process,
             Recover(p) \/ Goes(p) \/ WriteJournal(p) \/ Recorded(p) \/ Complete(p)
               \/ Succeed(p) \/ Forfeit(p) \/ Abort(p)
      PROVE  Quiet
  BY <1>4 DEF Recover, Goes, Authorize, FindBackup, FindTarget, FindAudit, Find, WriteJournal,
              Recorded, Complete, Succeed, Forfeit, Abort, Quiet, history
<1>5. ASSUME NEW p \in Process, Prepare(p) PROVE Preparing(p)
  BY <1>5 DEF Prepare, Preparing, history
<1>6. ASSUME NEW p \in Process,
             VerifyBackup(p) \/ VerifyTarget(p) \/ VerifyAudit(p) \/ Unlink(p)
      PROVE  Syncing
  BY <1>6, Syncs DEF VerifyBackup, VerifyTarget, VerifyAudit, Verify, Unlink, history
<1>7. QED
  BY <1>1, <1>2, <1>3, <1>4, <1>5, <1>6, Writes DEF Next, Step, Goes

\* Completion begins: the process goes on, with what it saw.
LEMMA Completes ==
  ASSUME NEW p \in Process, TypeOK, LocksHeld, Complete(p)
  PROVE  /\ proc' \in [Process -> Proc]
         /\ proc'[p].at = IF InPlace(proc[p].apply) THEN "backup" ELSE "target"
         /\ proc'[p].apply = proc[p].apply
         /\ \A q \in Process \ {p} : proc'[q] = proc[q]
<1> DEFINE a == proc[p].apply
           next == IF InPlace(a) THEN "backup" ELSE "target"
           new == [at |-> next, apply |-> a, seen |-> disk[a.target] = a.to]
<1>1. proc \in [Process -> Proc] /\ a \in Apply
  BY Applies DEF TypeOK, Proc, Complete, At
<1>2. next \in Stages
  BY DEF Stages
<1>3. new \in Proc
  BY <1>1, <1>2 DEF Proc
<1>4. proc' = [proc EXCEPT ![p] = new]
  BY DEF Complete
<1>5. QED
  BY <1>1, <1>3, <1>4

\* A record is what is written beside the target.
LEMMA Recording ==
  ASSUME TypeOK, NEW a \in Apply
  PROVE  Before(a) \in Record
<1>1. /\ disk[a.target] \in Content \cup {None} /\ disk[a.audit] \in Content \cup {None}
      /\ a.backup # None => disk[a.backup] \in Content \cup {None}
  BY Fields DEF TypeOK
<1>2. QED
  BY <1>1 DEF Before, Record

\* The invariant's type part is kept by every step.
LEMMA TypeNext ==
  ASSUME TypeOK, LocksHeld, [Next]_vars
  PROVE  TypeOK'
<1> USE DEF files, journals, history
<1>1. offered \subseteq Apply
  BY ApplyConstants DEF TypeOK
<1>2. \A stage \in Stages, p \in Process : Goto(p, stage) => proc' \in [Process -> Proc]
  BY Gone
<1>3. CASE UNCHANGED vars
  BY <1>3 DEF TypeOK, vars
<1>4. ASSUME NEW p \in Process, NEW a \in offered, Begin(p, a) PROVE TypeOK'
  <2>1. [at |-> "lock", apply |-> a, seen |-> FALSE] \in Proc
    BY <1>1 DEF Proc, Stages
  <2>2. proc' \in [Process -> Proc]
    BY <1>4, <2>1 DEF Begin, TypeOK, Proc
  <2>3. QED
    BY <1>4, <2>2 DEF Begin, TypeOK, Proc
<1>5. ASSUME NEW p \in Process, NEW f \in File, TakeLock(p, f) PROVE TypeOK'
  <2>1. proc' \in [Process -> Proc]
    BY <1>2, <1>5 DEF TakeLock, Stages, TypeOK, Proc
  <2>2. QED
    BY <1>5, <2>1 DEF TakeLock, TypeOK, Proc
<1>6. ASSUME NEW p \in Process, Recover(p) \/ Recorded(p) PROVE TypeOK'
  <2>1. proc' \in [Process -> Proc]
    BY <1>2, <1>6 DEF Recover, Recorded, Stages
  <2>2. safe' \in [File -> Record \cup {None}]
    BY <1>6, SyncsJournal, Applies DEF Recover, Recorded, TypeOK, At
  <2>3. QED
    BY <1>6, <2>1, <2>2 DEF Recover, Recorded, TypeOK, Proc
<1>7. ASSUME NEW p \in Process, Prepare(p) PROVE TypeOK'
  <2>1. proc' \in [Process -> Proc]
    BY <1>2, <1>7 DEF Prepare, Stages
  <2>2. proc[p].apply \in Apply
    BY <1>7, Applies DEF Prepare, At
  <2>3. Unsettled(proc[p].apply) \subseteq File
    BY <2>2, Fields DEF Unsettled, TypeOK
  <2>4. touched' \in [Apply -> SUBSET File] /\ told' \subseteq Apply
    BY <1>7, <2>3 DEF Prepare, TypeOK
  <2>5. QED
    BY <1>7, <2>1, <2>4 DEF Prepare, TypeOK, Proc
<1>8. ASSUME NEW p \in Process, Goes(p) PROVE TypeOK'
  <2>1. proc' \in [Process -> Proc]
    BY <1>2, <1>8 DEF Goes, Authorize, FindBackup, FindTarget, FindAudit, Find, Stages
  <2>2. allowance' \in [Reports -> {"unspent", "spent", "retained"}]
    BY <1>8 DEF Goes, Authorize, FindBackup, FindTarget, FindAudit, Find, TypeOK
  <2>3. UNCHANGED <<offered, files, journals, lock, history, edits>>
    BY <1>8 DEF Goes, Authorize, FindBackup, FindTarget, FindAudit, Find
  <2>4. QED
    BY <2>1, <2>2, <2>3 DEF TypeOK, Proc
<1>9. ASSUME NEW p \in Process, WriteJournal(p) PROVE TypeOK'
  <2>1. proc' \in [Process -> Proc]
    BY <1>2, <1>9 DEF WriteJournal, Stages
  <2>2. Before(proc[p].apply) \in Record
    BY <1>9, Applies, Recording DEF WriteJournal, At
  <2>3. QED
    BY <1>9, <2>1, <2>2 DEF WriteJournal, TypeOK, Proc
<1>10. ASSUME NEW p \in Process, Complete(p) PROVE TypeOK'
  <2>1. safe' \in [File -> Record \cup {None}]
    BY <1>10, SyncsJournal, Applies DEF Complete, At
  <2>2. QED
    BY <1>10, <2>1, Completes DEF Complete, TypeOK, Proc
<1>11. ASSUME NEW p \in Process, WriteBackup(p) \/ WriteTarget(p) \/ WriteAudit(p) PROVE TypeOK'
  <2>1. proc' \in [Process -> Proc]
    BY <1>2, <1>11, Writes DEF Stages
  <2>2. QED
    BY <1>11, <2>1, Writes DEF TypeOK, Proc
<1>12. ASSUME NEW p \in Process,
              VerifyBackup(p) \/ VerifyTarget(p) \/ VerifyAudit(p) \/ Unlink(p)
       PROVE  TypeOK'
  <2>1. proc' \in [Process -> Proc]
    BY <1>2, <1>12 DEF VerifyBackup, VerifyTarget, VerifyAudit, Verify, Unlink, Stages
  <2>2. kept' \in [File -> Content \cup {None}]
    <3>1. \E F : Sync(F)
      BY <1>12 DEF VerifyBackup, VerifyTarget, VerifyAudit, Verify, Unlink
    <3>2. QED
      BY <3>1 DEF Sync, TypeOK
  <2>3. journal' \in [File -> Record \cup {None}]
    BY <1>12 DEF VerifyBackup, VerifyTarget, VerifyAudit, Verify, Unlink, TypeOK
  <2>4. UNCHANGED <<offered, disk, safe, allowance, lock, history, edits>>
    BY <1>12 DEF VerifyBackup, VerifyTarget, VerifyAudit, Verify, Unlink
  <2>5. QED
    BY <2>1, <2>2, <2>3, <2>4 DEF TypeOK, Proc
<1>13. ASSUME NEW p \in Process, Succeed(p) PROVE TypeOK'
  <2>1. proc[p].apply \in Apply
    BY <1>13, Applies DEF Succeed, At
  <2>2. safe' \in [File -> Record \cup {None}]
    BY <1>13, <2>1, SyncsJournal DEF Succeed
  <2>3. QED
    BY <1>13, <2>1, <2>2, Left DEF Succeed, TypeOK, Proc
<1>14. ASSUME NEW p \in Process, Forfeit(p) \/ Abort(p) PROVE TypeOK'
  BY <1>14, Left DEF Forfeit, Abort, TypeOK, Proc
<1>15. CASE PowerLoss
  <2>1. disk' \in [File -> Content \cup {None}] /\ journal' \in [File -> Record \cup {None}]
    BY <1>15 DEF PowerLoss, TypeOK
  <2>2. Idle \in Proc
    BY DEF Idle, Proc, Stages
  <2>3. QED
    BY <1>15, <2>1, <2>2 DEF PowerLoss, TypeOK, Proc
<1>16. ASSUME NEW f \in File, NEW c \in Foreign \cup {None}, Edit(f, c) PROVE TypeOK'
  <2>1. c \in Content \cup {None}
    BY DEF Content
  <2>2. edits' \in 0 .. MaxEdits
    BY <1>16, ApplyConstants DEF Edit, TypeOK
  <2>3. QED
    BY <1>16, <2>1, <2>2 DEF Edit, TypeOK
<1>17. QED
  BY <1>3, <1>4, <1>5, <1>6, <1>7, <1>8, <1>9, <1>10, <1>11, <1>12, <1>13, <1>14, <1>15,
     <1>16 DEF Next, Step, Goes

-----------------------------------------------------------------------------
\* Initially nobody is at work, and every file counts as touched.
LEMMA InitRests == Init => LocksHeld /\ StagesKnow /\ AppliesRest
<1> SUFFICES ASSUME Init PROVE LocksHeld /\ StagesKnow /\ AppliesRest
  OBVIOUS
<1>1. \A p \in Process : At(p, "idle")
  BY DEF Init, Idle, At
<1>2. LocksHeld /\ StagesKnow
  BY <1>1 DEF LocksHeld, StagesKnow, At
<1>3. \A a \in Apply : ~Undisturbed(a, {a.target, a.audit}) /\ ~Undisturbed(a, Files(a))
  BY Fields DEF Init, Undisturbed, Files
<1>4. AppliesRest
  BY <1>3 DEF AppliesRest, ReportRests, BackupRests, RecordsFit, Init
<1>5. QED
  BY <1>2, <1>4

\* The stages of completion's first part, for applies in place.
Backing == {"backup", "write backup", "verify backup"}

\* A process past its locks goes on, and takes nothing and gives nothing up.
Proceeds(p) ==
  /\ lock' = lock
  /\ proc[p].at \notin {"idle", "lock"} /\ proc'[p].at \notin {"idle", "lock"}
  /\ proc'[p].apply = proc[p].apply
  /\ \A q \in Process \ {p} : proc'[q] = proc[q]
  /\ proc'[p].at \in Backing => InPlace(proc[p].apply)

\* Most steps proceed.
LEMMA Proceeding ==
  ASSUME TypeOK, LocksHeld, NEW p \in Process, Step(p), ~Succeed(p),
         \A f \in File : ~TakeLock(p, f)
  PROVE  Proceeds(p)
<1> USE DEF files, journals, history, Backing
<1>1. \A stage \in Stages : Goto(p, stage) =>
        /\ proc'[p].at = stage /\ proc'[p].apply = proc[p].apply
        /\ \A q \in Process \ {p} : proc'[q] = proc[q]
  BY Gone
<1>2. CASE Recover(p) \/ Prepare(p) \/ Authorize(p) \/ WriteJournal(p) \/ Recorded(p)
  BY <1>1, <1>2 DEF Recover, Prepare, Authorize, WriteJournal, Recorded, Proceeds, Stages, At
<1>3. CASE Complete(p)
  <2>1. lock' = lock /\ At(p, "complete")
    BY <1>3 DEF Complete
  <2>2. \/ proc'[p].at = "backup" /\ InPlace(proc[p].apply)
        \/ proc'[p].at = "target"
    BY <1>3, Completes
  <2>3. proc'[p].apply = proc[p].apply /\ \A q \in Process \ {p} : proc'[q] = proc[q]
    BY <1>3, Completes
  <2>4. QED
    BY <2>1, <2>2, <2>3 DEF Proceeds, At
<1>4. CASE FindBackup(p) \/ WriteBackup(p)
  <2>1. InPlace(proc[p].apply)
    BY <1>4 DEF FindBackup, WriteBackup, At, LocksHeld
  <2>2. QED
    BY <1>1, <1>4, <2>1 DEF FindBackup, WriteBackup, Find, Enter, Proceeds, Stages, At
<1>5. CASE FindTarget(p) \/ WriteTarget(p) \/ FindAudit(p) \/ WriteAudit(p)
  BY <1>1, <1>5 DEF FindTarget, WriteTarget, FindAudit, WriteAudit, Find, Enter, Proceeds, Stages, At
<1>6. CASE VerifyBackup(p) \/ VerifyTarget(p) \/ VerifyAudit(p) \/ Unlink(p)
  BY <1>1, <1>6 DEF VerifyBackup, VerifyTarget, VerifyAudit, Verify, Unlink, Proceeds, Stages, At
<1>7. QED
  BY <1>2, <1>3, <1>4, <1>5, <1>6 DEF Step

\* A process begins, takes a lock, leaves, or proceeds.
Turns(p) ==
  \/ \E a \in Apply : Begin(p, a)
  \/ \E f \in File : TakeLock(p, f)
  \/ Succeed(p) \/ Forfeit(p) \/ Abort(p)
  \/ Step(p) /\ Proceeds(p)

\* What a step does to processes and locks.
LEMMA NextParts ==
  ASSUME TypeOK, LocksHeld, [Next]_vars
  PROVE  \/ UNCHANGED <<proc, lock>>
         \/ PowerLoss
         \/ \E p \in Process : Turns(p)
<1>1. offered \subseteq Apply
  BY ApplyConstants DEF TypeOK
<1>2. CASE UNCHANGED vars
  BY <1>2 DEF vars
<1>3. CASE \E f \in File, c \in Foreign \cup {None} : Edit(f, c)
  BY <1>3 DEF Edit
<1>4. ASSUME NEW p \in Process, Step(p) PROVE Turns(p)
  BY <1>4, Proceeding DEF Turns
<1>5. ASSUME NEW p \in Process, NEW a \in offered, Begin(p, a) PROVE Turns(p)
  BY <1>1, <1>5 DEF Turns
<1>6. ASSUME NEW p \in Process, Forfeit(p) \/ Abort(p) PROVE Turns(p)
  BY <1>6 DEF Turns
<1>7. QED
  BY <1>2, <1>3, <1>4, <1>5, <1>6 DEF Next

\* A process that is idle, or still at its locks, or moves on with them.
LEMMA LocksNext ==
  ASSUME TypeOK, LocksHeld, [Next]_vars
  PROVE  LocksHeld'
<1>1. CASE UNCHANGED <<proc, lock>>
  BY <1>1 DEF LocksHeld, At
<1>2. CASE PowerLoss
  BY <1>2 DEF PowerLoss, LocksHeld, At, Idle
<1>3. ASSUME NEW p \in Process, NEW a \in Apply, Begin(p, a) PROVE LocksHeld'
  <2>1. /\ proc'[p].at = "lock" /\ proc'[p].apply = a /\ lock' = lock
        /\ \A q \in Process \ {p} : proc'[q] = proc[q]
    BY <1>3 DEF Begin, TypeOK
  <2>2. ASSUME NEW q \in Process, ~At(q, "idle")'
        PROVE  /\ proc'[q].apply \in Apply
               /\ proc'[q].at \in Backing => InPlace(proc'[q].apply)
               /\ proc'[q].at # "lock" => \A g \in Outputs(proc'[q].apply) : lock'[g] = q
    <3>1. CASE q = p
      BY <2>1, <3>1 DEF Backing
    <3>2. CASE q # p
      BY <2>1, <2>2, <3>2 DEF LocksHeld, At, Backing
    <3>3. QED
      BY <3>1, <3>2
  <2>3. QED
    BY <2>2 DEF LocksHeld, At, Backing
<1>4. ASSUME NEW p \in Process, NEW f \in File, TakeLock(p, f) PROVE LocksHeld'
  <2>1. /\ At(p, "lock") /\ proc[p].apply \in Apply
        /\ lock[f] = None /\ lock' = [lock EXCEPT ![f] = p]
        /\ lock' \in [File -> Process \cup {None}]
    BY <1>4, Applies DEF TakeLock, At, TypeOK
  <2>2. /\ proc'[p].at \in {"lock", "recover"} /\ proc'[p].apply = proc[p].apply
        /\ proc'[p].at = "recover" => \A g \in Outputs(proc[p].apply) : lock'[g] = p
        /\ \A q \in Process \ {p} : proc'[q] = proc[q]
    BY <1>4, Gone DEF TakeLock, At, Stages
  <2>3. \A q \in Process : q # None
    BY ApplyConstants
  <2>4. ASSUME NEW q \in Process, ~At(q, "idle")'
        PROVE  /\ proc'[q].apply \in Apply
               /\ proc'[q].at \in Backing => InPlace(proc'[q].apply)
               /\ proc'[q].at # "lock" => \A g \in Outputs(proc'[q].apply) : lock'[g] = q
    <3>1. CASE q = p
      BY <2>1, <2>2, <3>1 DEF Backing
    <3>2. CASE q # p
      <4>1. proc'[q] = proc[q] /\ ~At(q, "idle")
        BY <2>2, <2>4, <3>2 DEF At
      <4>2. proc[q].at # "lock" => \A g \in Outputs(proc[q].apply) : lock[g] = q /\ g \in File
        BY <4>1, Applies, Fields DEF LocksHeld, At
      <4>3. QED
        BY <2>1, <4>1, <4>2, <2>3 DEF LocksHeld, Backing, TypeOK
    <3>3. QED
      BY <3>1, <3>2
  <2>5. QED
    BY <2>4 DEF LocksHeld, At, Backing
<1>5. ASSUME NEW p \in Process, Succeed(p) \/ Forfeit(p) \/ Abort(p) PROVE LocksHeld'
  <2>1. /\ proc'[p].at = "idle" /\ \A q \in Process \ {p} : proc'[q] = proc[q]
        /\ \A f \in File : lock[f] # p => lock'[f] = lock[f]
    BY <1>5, Left DEF Succeed, Forfeit, Abort, Idle
  <2>2. ASSUME NEW q \in Process, ~At(q, "idle")'
        PROVE  /\ proc'[q].apply \in Apply
               /\ proc'[q].at \in Backing => InPlace(proc'[q].apply)
               /\ proc'[q].at # "lock" => \A g \in Outputs(proc'[q].apply) : lock'[g] = q
    <3>1. q # p /\ proc'[q] = proc[q] /\ ~At(q, "idle")
      BY <2>1, <2>2 DEF At
    <3>2. proc[q].at # "lock" => \A g \in Outputs(proc[q].apply) : lock[g] = q /\ g \in File
      BY <3>1, Applies, Fields DEF LocksHeld, At
    <3>3. QED
      BY <2>1, <3>1, <3>2 DEF LocksHeld, Backing, At
  <2>3. QED
    BY <2>2 DEF LocksHeld, At, Backing
<1>6. ASSUME NEW p \in Process, Proceeds(p) PROVE LocksHeld'
  BY <1>6 DEF Proceeds, LocksHeld, At, Backing
<1>7. QED
  BY <1>1, <1>2, <1>3, <1>4, <1>5, <1>6, NextParts DEF Turns

-----------------------------------------------------------------------------
\* Two processes past their locks have no output in common.
LEMMA Exclusive ==
  ASSUME TypeOK, LocksHeld, NEW p \in Process, NEW q \in Process \ {p},
         proc[p].at \notin {"idle", "lock"}, proc[q].at \notin {"idle", "lock"}
  PROVE  /\ proc[p].apply.target # proc[q].apply.target
         /\ proc[p].apply # proc[q].apply
<1>1. proc[p].apply \in Apply /\ proc[q].apply \in Apply
  BY DEF LocksHeld, At
<1>2. ASSUME NEW r \in {p, q} PROVE lock[proc[r].apply.target] = r
  <2>1. \A f \in Outputs(proc[r].apply) : lock[f] = r
    BY DEF LocksHeld, At
  <2>2. QED
    BY <1>1, <2>1, Fields
<1>3. QED
  BY <1>2

\* What others may do to an apply's files: change those that count as touched
\* afterwards, and sync the rest.
Steady(a) ==
  /\ touched[a] \subseteq touched'[a]
  /\ \A f \in Files(a) \ touched'[a] : disk'[f] = disk[f] /\ kept'[f] \in {kept[f], disk[f]}

\* The steps of a process on its own files, and on its record.
Alters(p) == Preparing(p) \/ \E f \in File : Entering(p, f)
Works(p) == Alters(p) \/ WriteJournal(p) \/ Unlink(p)

\* Every step but a power loss is steady for the applies it is not a step of.
LEMMA Steadies ==
  ASSUME TypeOK, LocksHeld, [Next]_vars, ~PowerLoss, NEW a \in Apply
  PROVE  Steady(a) \/ \E p \in Process : proc[p].apply = a /\ Alters(p)
<1>1. CASE Quiet
  BY <1>1 DEF Quiet, files, Steady
<1>2. CASE Syncing
  BY <1>2, Fields DEF Syncing, Steady
<1>3. ASSUME NEW p \in Process, Preparing(p), proc[p].apply # a PROVE Steady(a)
  BY <1>3 DEF Preparing, Steady, files, TypeOK
<1>4. ASSUME NEW p \in Process, NEW f \in File, Entering(p, f), proc[p].apply # a
      PROVE  Steady(a)
  BY <1>4, Fields DEF Entering, Disturbs, Steady, TypeOK
<1>5. ASSUME NEW f \in File, NEW c \in Foreign \cup {None}, Edit(f, c) PROVE Steady(a)
  BY <1>5, Fields DEF Edit, Steady, TypeOK
<1>6. CASE \E p \in Process : Preparing(p) \/ \E f \in File : Entering(p, f)
  <2>1. PICK p \in Process : Preparing(p) \/ \E f \in File : Entering(p, f)
    BY <1>6
  <2>2. Alters(p)
    BY <2>1 DEF Alters
  <2>3. CASE proc[p].apply = a
    BY <2>2, <2>3
  <2>4. CASE proc[p].apply # a
    BY <1>3, <1>4, <2>1, <2>4
  <2>5. QED
    BY <2>3, <2>4
<1>7. QED
  BY <1>1, <1>2, <1>5, <1>6, StepKinds

\* A record is written and removed by the process that works on its target.
LEMMA Journals ==
  ASSUME TypeOK, LocksHeld, [Next]_vars, ~PowerLoss, NEW f \in File
  PROVE  \/ journal'[f] = journal[f]
         \/ \E p \in Process : /\ proc[p].apply.target = f
                              /\ \/ WriteJournal(p)
                                 \/ Unlink(p) /\ journal'[f] = None
<1> USE DEF files, journals, history
<1>1. CASE UNCHANGED vars
  BY <1>1 DEF vars
<1>2. ASSUME NEW p \in Process, WriteJournal(p), proc[p].apply.target # f
      PROVE  journal'[f] = journal[f]
  BY <1>2, Applies, Fields DEF WriteJournal, TypeOK, At
<1>3. ASSUME NEW p \in Process, Unlink(p), proc[p].apply.target # f
      PROVE  journal'[f] = journal[f]
  BY <1>3, Applies, Fields DEF Unlink, TypeOK, At
<1>4. ASSUME NEW p \in Process, Unlink(p), proc[p].apply.target = f
      PROVE  journal'[f] = None
  BY <1>4, Applies, Fields DEF Unlink, TypeOK, At
<1>5. ASSUME NEW p \in Process,
             (\E a \in offered : Begin(p, a)) \/ (\E g \in File : TakeLock(p, g))
               \/ Recover(p) \/ Prepare(p) \/ Authorize(p) \/ Recorded(p) \/ Complete(p)
      PROVE  journal' = journal
  BY <1>5 DEF Begin, TakeLock, Recover, Prepare, Authorize, Recorded, Complete
<1>6. ASSUME NEW p \in Process, FindBackup(p) \/ FindTarget(p) \/ FindAudit(p)
      PROVE  journal' = journal
  BY <1>6 DEF FindBackup, FindTarget, FindAudit, Find
<1>7. ASSUME NEW p \in Process, VerifyBackup(p) \/ VerifyTarget(p) \/ VerifyAudit(p)
      PROVE  journal' = journal
  BY <1>7 DEF VerifyBackup, VerifyTarget, VerifyAudit, Verify
<1>8. ASSUME NEW p \in Process, WriteBackup(p) \/ WriteTarget(p) \/ WriteAudit(p)
      PROVE  journal' = journal
  BY <1>8, Writes
<1>9. ASSUME NEW p \in Process, Succeed(p) \/ Forfeit(p) \/ Abort(p) PROVE journal' = journal
  BY <1>9 DEF Succeed, Forfeit, Abort
<1>10. CASE \E g \in File, c \in Foreign \cup {None} : Edit(g, c)
  BY <1>10 DEF Edit
<1>11. ASSUME NEW p \in Process, Step(p)
       PROVE  \/ journal'[f] = journal[f]
              \/ /\ proc[p].apply.target = f
                 /\ \/ WriteJournal(p)
                    \/ Unlink(p) /\ journal'[f] = None
  <2>1. CASE WriteJournal(p)
    BY <1>2, <2>1
  <2>2. CASE Unlink(p)
    BY <1>3, <1>4, <2>2
  <2>3. CASE ~WriteJournal(p) /\ ~Unlink(p)
    BY <1>5, <1>6, <1>7, <1>8, <1>9, <1>11, <2>3 DEF Step
  <2>4. QED
    BY <2>1, <2>2, <2>3
<1>12. QED
  BY <1>1, <1>5, <1>9, <1>10, <1>11 DEF Next

\* What is synced of a journal is what is there.
LEMMA Saves ==
  ASSUME TypeOK, LocksHeld, [Next]_vars, NEW f \in File
  PROVE  safe'[f] \in {safe[f], journal[f]}
<1> USE DEF files, journals, history
<1>1. ASSUME NEW p \in Process, ~At(p, "idle"), SyncJournal(proc[p].apply)
      PROVE  safe'[f] \in {safe[f], journal[f]}
  BY <1>1, Applies, Fields DEF SyncJournal, TypeOK
<1>2. CASE UNCHANGED vars \/ \E g \in File, c \in Foreign \cup {None} : Edit(g, c)
  BY <1>2 DEF vars, Edit
<1>3. ASSUME NEW p \in Process,
             (\E a \in offered : Begin(p, a)) \/ (\E g \in File : TakeLock(p, g))
               \/ Prepare(p) \/ Authorize(p) \/ WriteJournal(p) \/ Forfeit(p) \/ Abort(p)
      PROVE  safe' = safe
  BY <1>3 DEF Begin, TakeLock, Prepare, Authorize, WriteJournal, Forfeit, Abort
<1>4. ASSUME NEW p \in Process,
             FindBackup(p) \/ FindTarget(p) \/ FindAudit(p) \/ VerifyBackup(p)
               \/ VerifyTarget(p) \/ VerifyAudit(p) \/ Unlink(p)
      PROVE  safe' = safe
  BY <1>4 DEF FindBackup, FindTarget, FindAudit, Find, VerifyBackup, VerifyTarget, VerifyAudit,
              Verify, Unlink
<1>5. ASSUME NEW p \in Process, WriteBackup(p) \/ WriteTarget(p) \/ WriteAudit(p)
      PROVE  safe' = safe
  BY <1>5, Writes
<1>6. ASSUME NEW p \in Process, Recover(p) \/ Recorded(p) \/ Complete(p) \/ Succeed(p)
      PROVE  safe'[f] \in {safe[f], journal[f]}
  BY <1>1, <1>6 DEF Recover, Recorded, Complete, Succeed, At
<1>7. CASE PowerLoss
  BY <1>7 DEF PowerLoss, TypeOK
<1>8. QED
  BY <1>2, <1>3, <1>4, <1>5, <1>6, <1>7 DEF Next, Step

\* What was known stays known while others are steady and leave the record.
LEMMA KnowsKept ==
  ASSUME TypeOK, NEW a \in Apply, NEW stage, KnowsAt(a, stage), Steady(a),
         journal'[a.target] = journal[a.target]
  PROVE  KnowsAt(a, stage)'
<1>1. Outputs(a) \subseteq Files(a) /\ a.source \in Files(a) /\ a.target \in Files(a)
      /\ (InPlace(a) => a.backup \in Files(a))
  BY Fields DEF Files
<1>2. Undisturbed(a, Files(a))' =>
        /\ Undisturbed(a, Files(a))
        /\ \A f \in Files(a) : disk'[f] = disk[f] /\ kept'[f] \in {kept[f], disk[f]}
  BY DEF Steady, Undisturbed
<1>3. ASSUME NEW f \in Files(a) \ touched'[a], NEW c
      PROVE  f \notin touched[a] /\ (There(f, c) => There(f, c)')
  BY DEF Steady, There
<1>4. (stage \in Unrecorded => Pending(a) = None)'
  BY DEF KnowsAt, Pending
<1>5. (stage \in Working => Pending(a) # None /\ Pending(a).apply = a)'
  BY DEF KnowsAt, Pending
<1>6. (stage \in Ready /\ Undisturbed(a, Files(a)) =>
        /\ \A f \in Files(a) : disk[f] = kept[f]
        /\ disk[a.source] = a.from
        /\ a.overwrite \/ \A f \in Outputs(a) \ {a.source} : disk[f] = None)'
  BY <1>1, <1>2 DEF KnowsAt
<1>7. (stage \in BackedUp /\ InPlace(a) /\ a.backup \notin touched[a]
        => There(a.backup, a.from))'
  BY <1>1, <1>3 DEF KnowsAt
<1>8. (stage \in Committed /\ a.target \notin touched[a] => There(a.target, a.to))'
  BY <1>1, <1>3 DEF KnowsAt
<1>9. (stage = "unlinked" => \A f \in Outputs(a) \ touched[a] : There(f, Wanted(a, f)))'
  BY <1>1, <1>3 DEF KnowsAt, Wanted
<1>10. QED
  BY <1>4, <1>5, <1>6, <1>7, <1>8, <1>9 DEF KnowsAt

\* A process keeps what it knows while others take their steps, and its own
\* other steps change nothing of it.
LEMMA OthersKnow ==
  ASSUME TypeOK, LocksHeld, StagesKnow, [Next]_vars, ~PowerLoss,
         NEW q \in Process, NEW stage \in Stages \ {"idle"}, NEW a \in Apply,
         At(q, stage), proc[q].apply = a, ~Works(q)
  PROVE  KnowsAt(a, stage)'
<1>1. CASE stage = "lock"
  BY <1>1 DEF KnowsAt, Unrecorded, Ready, Working, BackedUp, Committed
<1>2. CASE stage # "lock"
  <2>1. proc[q].at = stage /\ proc[q].at \notin {"idle", "lock"}
    BY <1>2 DEF At
  <2>2. KnowsAt(a, stage)
    BY DEF StagesKnow
  <2>3. ASSUME NEW p \in Process, Works(p)
        PROVE  proc[p].apply # a /\ proc[p].apply.target # a.target
    <3>1. proc[p].at \notin {"idle", "lock"} /\ p # q
      BY <2>3 DEF Works, Alters, Preparing, Entering, WriteJournal, Unlink, At
    <3>2. QED
      BY <2>1, <3>1, Exclusive
  <2>4. Steady(a)
    BY <2>3, Steadies DEF Works
  <2>5. journal'[a.target] = journal[a.target]
    BY <2>3, Journals, Fields DEF Works
  <2>6. QED
    BY <2>2, <2>4, <2>5, KnowsKept
<1>3. QED
  BY <1>1, <1>2

\* What a process knows after each of these steps: it has prepared an apply,
LEMMA PreparedKnows ==
  ASSUME TypeOK, LocksHeld, StagesKnow, NEW q \in Process, Preparing(q),
         NEW a \in Apply, proc[q].apply = a
  PROVE  KnowsAt(a, "authorize")'
<1>1. KnowsAt(a, "prepare")
  BY DEF Preparing, At, StagesKnow, Stages
<1>2. Pending(a) = None /\ Pending(a)' = Pending(a)
  BY <1>1 DEF KnowsAt, Unrecorded, Preparing, Pending, journals
<1>3. touched'[a] = Unsettled(a)
  BY <1>1 DEF Preparing, TypeOK
<1>4. Undisturbed(a, Files(a))' => \A f \in Files(a) : disk[f] = kept[f]
  BY <1>3 DEF Undisturbed, Unsettled
<1>5. /\ UNCHANGED files /\ disk[a.source] = a.from
      /\ a.overwrite \/ \A f \in Outputs(a) \ {a.source} : disk[f] = None
  BY DEF Preparing, Available
<1>6. ("authorize" \in Ready /\ Undisturbed(a, Files(a)) =>
        /\ \A f \in Files(a) : disk[f] = kept[f]
        /\ disk[a.source] = a.from
        /\ a.overwrite \/ \A f \in Outputs(a) \ {a.source} : disk[f] = None)'
  BY <1>4, <1>5 DEF files
<1>7. QED
  BY <1>2, <1>6 DEF KnowsAt, Unrecorded, Ready, Working, BackedUp, Committed

\* entered an output,
LEMMA EnteredKnows ==
  ASSUME TypeOK, LocksHeld, StagesKnow, NEW q \in Process, NEW f \in File, Entering(q, f),
         NEW a \in Apply, proc[q].apply = a, NEW stage \in Stages, At(q, stage)'
  PROVE  KnowsAt(a, stage)'
<1>1. /\ Pending(a)' = Pending(a) /\ kept' = kept /\ touched'[a] = touched[a]
      /\ disk' = [disk EXCEPT ![f] = Wanted(a, f)]
  BY DEF Entering, Disturbs, Pending, journals
<1>2. \A g \in File \ {f} : disk'[g] = disk[g]
  BY <1>1 DEF TypeOK
<1>3. CASE At(q, "write backup") /\ f = a.backup /\ Goto(q, "verify backup")
  <2>1. stage = "verify backup" /\ KnowsAt(a, "write backup")
    BY <1>3, Gone DEF At, StagesKnow, Stages
  <2>2. QED
    BY <1>1, <2>1 DEF KnowsAt, Unrecorded, Ready, Working, BackedUp, Committed
<1>4. CASE At(q, "write target") /\ f = a.target /\ Goto(q, "verify target")
  <2>1. stage = "verify target" /\ KnowsAt(a, "write target")
    BY <1>4, Gone DEF At, StagesKnow, Stages
  <2>2. Pending(a) # None /\ Pending(a).apply = a
    BY <2>1 DEF KnowsAt, Working
  <2>3. InPlace(a) /\ a.backup \notin touched[a] => There(a.backup, a.from)'
    BY <1>1, <1>2, <1>4, <2>1, Fields DEF KnowsAt, BackedUp, There
  <2>4. QED
    BY <1>1, <2>1, <2>2, <2>3 DEF KnowsAt, Unrecorded, Ready, Working, BackedUp, Committed
<1>5. CASE At(q, "write audit") /\ f = a.audit /\ Goto(q, "verify audit")
  <2>1. stage = "verify audit" /\ KnowsAt(a, "write audit")
    BY <1>5, Gone DEF At, StagesKnow, Stages
  <2>2. Pending(a) # None /\ Pending(a).apply = a
    BY <2>1 DEF KnowsAt, Working
  <2>3. /\ InPlace(a) /\ a.backup \notin touched[a] => There(a.backup, a.from)'
        /\ a.target \notin touched[a] => There(a.target, a.to)'
    BY <1>1, <1>2, <1>5, <2>1, Fields DEF KnowsAt, BackedUp, Committed, There
  <2>4. QED
    BY <1>1, <2>1, <2>2, <2>3 DEF KnowsAt, Unrecorded, Ready, Working, BackedUp, Committed
<1>6. QED
  BY <1>3, <1>4, <1>5 DEF Entering

\* written the record,
LEMMA RecordedKnows ==
  ASSUME TypeOK, LocksHeld, StagesKnow, NEW q \in Process, WriteJournal(q),
         NEW a \in Apply, proc[q].apply = a
  PROVE  KnowsAt(a, "recorded")'
<1>1. journal'[a.target] = Before(a)
  BY Fields DEF WriteJournal, TypeOK
<1>2. Before(a) # None /\ Before(a).apply = a
  BY Recording, NoneIsNoRecord DEF Before
<1>3. QED
  BY <1>1, <1>2 DEF KnowsAt, Unrecorded, Ready, Working, BackedUp, Committed, Pending

\* or unlinked it.
LEMMA UnlinkedKnows ==
  ASSUME TypeOK, LocksHeld, StagesKnow, NEW q \in Process, Unlink(q),
         NEW a \in Apply, proc[q].apply = a
  PROVE  KnowsAt(a, "unlinked")'
<1>1. journal'[a.target] = None
  BY Fields DEF Unlink, TypeOK
<1>2. \A f \in Outputs(a) : disk'[f] = Wanted(a, f) /\ kept'[f] = Wanted(a, f)
  BY Fields DEF Unlink, Sync
<1>3. \A f \in Outputs(a) : There(f, Wanted(a, f))'
  BY <1>2 DEF There, Wanted
<1>4. There(a.target, a.to)' /\ (InPlace(a) => There(a.backup, a.from)')
  BY <1>2, Fields DEF There
<1>5. QED
  BY <1>1, <1>3, <1>4 DEF KnowsAt, Unrecorded, Ready, Working, BackedUp, Committed, Pending

\* The other steps of a process add what they look at to what it knew.
LEMMA FoundKnows ==
  ASSUME TypeOK, LocksHeld, StagesKnow, [Next]_vars, ~PowerLoss,
         NEW q \in Process, Step(q), ~Works(q), ~At(q, "lock"), ~Succeed(q),
         NEW a \in Apply, proc[q].apply = a, NEW stage \in Stages, At(q, stage)'
  PROVE  KnowsAt(a, stage)'
<1> USE DEF At
<1>1. \A s \in Stages \ {"idle"} : At(q, s) => KnowsAt(a, s)'
  BY OthersKnow
<1>2. \A s \in Stages : Goto(q, s) => stage = s
  BY Gone
<1>3. CASE Recover(q)
  <2>1. Pending(a)' = Pending(a)
    BY <1>3 DEF Recover, Pending
  <2>2. \/ stage = "prepare" /\ Pending(a) = None
        \/ stage = "complete" /\ Pending(a) # None /\ Pending(a).apply = a
    BY <1>2, <1>3 DEF Recover, Stages
  <2>3. QED
    BY <2>1, <2>2 DEF KnowsAt, Unrecorded, Ready, Working, BackedUp, Committed
<1>4. CASE Authorize(q)
  <2>1. stage = "record" /\ KnowsAt(a, "authorize")'
    BY <1>1, <1>2, <1>4 DEF Authorize, Stages
  <2>2. QED
    BY <2>1 DEF KnowsAt, Unrecorded, Ready, Working, BackedUp, Committed
<1>5. CASE Recorded(q)
  <2>1. stage = "complete" /\ KnowsAt(a, "recorded")'
    BY <1>1, <1>2, <1>5 DEF Recorded, Stages
  <2>2. QED
    BY <2>1 DEF KnowsAt, Unrecorded, Ready, Working, BackedUp, Committed
<1>6. CASE Complete(q)
  <2>1. KnowsAt(a, "complete")' /\ (stage = "backup" \/ (stage = "target" /\ ~InPlace(a)))
    BY <1>1, <1>6, Completes DEF Complete, Stages
  <2>2. QED
    BY <2>1 DEF KnowsAt, Unrecorded, Ready, Working, BackedUp, Committed
<1>7. CASE FindBackup(q)
  <2>1. stage \in {"verify backup", "write backup"} /\ KnowsAt(a, "backup")'
    BY <1>1, <1>2, <1>7 DEF FindBackup, Find, Stages
  <2>2. QED
    BY <2>1 DEF KnowsAt, Unrecorded, Ready, Working, BackedUp, Committed
<1>8. CASE FindTarget(q)
  <2>1. stage \in {"verify target", "write target"} /\ KnowsAt(a, "target")'
    BY <1>1, <1>2, <1>8 DEF FindTarget, Stages
  <2>2. QED
    BY <2>1 DEF KnowsAt, Unrecorded, Ready, Working, BackedUp, Committed
<1>9. CASE FindAudit(q)
  <2>1. stage \in {"verify audit", "write audit"} /\ KnowsAt(a, "audit")'
    BY <1>1, <1>2, <1>9 DEF FindAudit, Find, Stages
  <2>2. QED
    BY <2>1 DEF KnowsAt, Unrecorded, Ready, Working, BackedUp, Committed
<1>10. CASE VerifyBackup(q)
  <2>1. stage = "target" /\ KnowsAt(a, "verify backup")' /\ InPlace(a)
    BY <1>1, <1>2, <1>10 DEF VerifyBackup, Verify, Stages, LocksHeld
  <2>2. There(a.backup, a.from)'
    BY <1>10, <2>1, Fields DEF VerifyBackup, Verify, Sync, There
  <2>3. QED
    BY <2>1, <2>2 DEF KnowsAt, Unrecorded, Ready, Working, BackedUp, Committed
<1>11. CASE VerifyTarget(q)
  <2>1. stage = "audit" /\ KnowsAt(a, "verify target")'
    BY <1>1, <1>2, <1>11 DEF VerifyTarget, Verify, Stages
  <2>2. There(a.target, a.to)'
    BY <1>11, Fields DEF VerifyTarget, Verify, Sync, There
  <2>3. QED
    BY <2>1, <2>2 DEF KnowsAt, Unrecorded, Ready, Working, BackedUp, Committed
<1>12. CASE VerifyAudit(q)
  <2>1. stage = "final" /\ KnowsAt(a, "verify audit")'
    BY <1>1, <1>2, <1>12 DEF VerifyAudit, Verify, Stages
  <2>2. QED
    BY <2>1 DEF KnowsAt, Unrecorded, Ready, Working, BackedUp, Committed
<1>13. ~Prepare(q) /\ ~WriteBackup(q) /\ ~WriteTarget(q) /\ ~WriteAudit(q)
       /\ ~WriteJournal(q) /\ ~Unlink(q)
  BY Writes DEF Works, Alters, Prepare, Preparing, files, journals, history
<1>14. \A f \in File : ~TakeLock(q, f)
  BY DEF TakeLock
<1>15. QED
  BY <1>3, <1>4, <1>5, <1>6, <1>7, <1>8, <1>9, <1>10, <1>11, <1>12, <1>13, <1>14 DEF Step

\* Every process keeps knowing what its stage says.
LEMMA StagesNext ==
  ASSUME TypeOK, LocksHeld, StagesKnow, [Next]_vars
  PROVE  StagesKnow'
<1> SUFFICES ASSUME NEW q \in Process, NEW stage \in Stages \ {"idle"}, NEW a \in Apply,
                    At(q, stage)', proc'[q].apply = a
             PROVE  KnowsAt(a, stage)'
  BY DEF StagesKnow
<1>1. CASE PowerLoss
  BY <1>1 DEF PowerLoss, Idle, At
<1>2. CASE stage \in {"lock", "recover"}
  BY <1>2 DEF KnowsAt, Unrecorded, Ready, Working, BackedUp, Committed
<1>3. CASE Works(q)
  <2>1. proc[q].apply = a
    BY <1>3, Gone DEF Works, Alters, Preparing, Entering, WriteJournal, Unlink, Stages
  <2>2. CASE Preparing(q)
    <3>1. stage = "authorize"
      BY <2>2, Gone DEF Preparing, Stages, At
    <3>2. QED
      BY <2>1, <2>2, <3>1, PreparedKnows
  <2>3. CASE \E f \in File : Entering(q, f)
    BY <2>1, <2>3, EnteredKnows
  <2>4. CASE WriteJournal(q)
    <3>1. stage = "recorded"
      BY <2>4, Gone DEF WriteJournal, Stages, At
    <3>2. QED
      BY <2>1, <2>4, <3>1, RecordedKnows
  <2>5. CASE Unlink(q)
    <3>1. stage = "unlinked"
      BY <2>5, Gone DEF Unlink, Stages, At
    <3>2. QED
      BY <2>1, <2>5, <3>1, UnlinkedKnows
  <2>6. QED
    BY <1>3, <2>2, <2>3, <2>4, <2>5 DEF Works, Alters
<1>4. CASE ~PowerLoss /\ ~Works(q) /\ proc'[q] = proc[q]
  BY <1>4, OthersKnow DEF At
<1>5. CASE ~PowerLoss /\ ~Works(q) /\ proc'[q] # proc[q] /\ stage \notin {"lock", "recover"}
  <2>1. PICK p \in Process : Turns(p)
    BY <1>5, NextParts
  <2>2. ASSUME NEW b \in Apply, Begin(p, b) PROVE FALSE
    BY <1>5, <2>2 DEF Begin, At, TypeOK
  <2>3. ASSUME NEW f \in File, TakeLock(p, f) PROVE FALSE
    BY <1>5, <2>3, Gone DEF TakeLock, At, Stages
  <2>4. CASE Succeed(p) \/ Forfeit(p) \/ Abort(p)
    BY <1>5, <2>4, Left DEF Succeed, Forfeit, Abort, Idle, At
  <2>5. CASE Step(p) /\ Proceeds(p)
    <3>1. p = q /\ ~At(q, "lock") /\ proc[q].apply = a /\ ~Succeed(q)
      BY <1>5, <2>5, Left DEF Proceeds, At, Succeed, Idle
    <3>2. QED
      BY <1>5, <2>5, <3>1, FoundKnows
  <2>6. QED
    BY <2>1, <2>2, <2>3, <2>4, <2>5 DEF Turns
<1>6. QED
  BY <1>1, <1>2, <1>3, <1>4, <1>5

-----------------------------------------------------------------------------
\* A power loss shows what was there, or what was kept, of each file and record.
LEMMA Loses ==
  ASSUME TypeOK, PowerLoss, NEW f \in File
  PROVE  /\ disk'[f] \in {disk[f], kept[f]} /\ kept'[f] = disk'[f]
         /\ journal'[f] \in {journal[f], safe[f]} /\ safe'[f] = journal'[f]
         /\ touched' = touched /\ told' = told
BY DEF PowerLoss, TypeOK, history

\* For an apply that rests, and none of whose own files or records a step
\* works on: what its files are and were kept as comes from what they were.
Settled(a) ==
  /\ touched[a] \subseteq touched'[a]
  /\ \A f \in Files(a) \ touched'[a] :
       disk'[f] \in {disk[f], kept[f]} /\ kept'[f] \in {disk[f], kept[f]}

\* So it is in a power loss, and in others' steps.
LEMMA Settles ==
  ASSUME TypeOK, NEW a \in Apply, PowerLoss \/ Steady(a)
  PROVE  Settled(a)
BY Loses, Fields DEF Settled, Steady

\* Then a file that is there for good stays there.
LEMMA StaysThere ==
  ASSUME NEW a \in Apply, Settled(a), NEW f \in Files(a) \ touched'[a], NEW c, There(f, c)
  PROVE  There(f, c)'
BY DEF Settled, There

\* The report rests in every step.
LEMMA ReportNext ==
  ASSUME IInv, [Next]_vars, NEW a \in Apply
  PROVE  ReportRests(a)'
<1> SUFFICES ASSUME Undisturbed(a, {a.target, a.audit})',
                    Report(a) \in {disk'[a.audit], kept'[a.audit]}
             PROVE  There(a.target, a.to)'
  BY DEF ReportRests, Report
<1> USE DEF IInv
<1>1. a.target \in Files(a) \ touched'[a] /\ a.audit \in Files(a) \ touched'[a]
  BY Fields DEF Undisturbed, Files
<1>2. CASE Settled(a)
  <2>1. Report(a) \in {disk[a.audit], kept[a.audit]}
        /\ a.target \notin touched[a] /\ a.audit \notin touched[a]
    BY <1>1, <1>2 DEF Settled
  <2>2. There(a.target, a.to)
    BY <2>1 DEF AppliesRest, ReportRests, Undisturbed
  <2>3. QED
    BY <1>1, <1>2, <2>2, StaysThere
<1>3. ASSUME NEW p \in Process, Preparing(p), proc[p].apply = a
      PROVE  There(a.target, a.to)'
  <2>1. touched'[a] = Unsettled(a) /\ UNCHANGED files
    BY <1>3 DEF Preparing, TypeOK
  <2>2. disk[a.audit] = kept[a.audit] /\ disk[a.target] = kept[a.target]
    BY <1>1, <2>1 DEF Unsettled
  <2>3. disk[a.target] = a.to
    BY <1>1, <2>1, <2>2 DEF Unsettled, files
  <2>4. QED
    BY <2>1, <2>2, <2>3 DEF There, files
<1>4. ASSUME NEW p \in Process, NEW f \in File, Entering(p, f), proc[p].apply = a
      PROVE  There(a.target, a.to)'
  <2>1. touched'[a] = touched[a] /\ kept' = kept /\ disk' = [disk EXCEPT ![f] = Wanted(a, f)]
    BY <1>4 DEF Entering, Disturbs
  <2>2. CASE f = a.audit
    <3>1. At(p, "write audit")
      BY <1>4, <2>2, Fields DEF Entering
    <3>2. There(a.target, a.to)
      BY <1>1, <1>4, <2>1, <3>1 DEF StagesKnow, KnowsAt, Committed, At, Stages
    <3>3. QED
      BY <2>1, <2>2, <3>2, Fields DEF There, TypeOK
  <2>3. CASE f # a.audit
    <3>1. There(a.target, a.to)
      BY <1>1, <2>1, <2>3, Fields DEF AppliesRest, ReportRests, Undisturbed, TypeOK
    <3>2. QED
      BY <2>1, <3>1, Fields DEF There, TypeOK
  <2>4. QED
    BY <2>2, <2>3
<1>5. QED
  BY <1>2, <1>3, <1>4, Steadies, Settles DEF Alters

\* The backup rests in every step.
LEMMA BackupNext ==
  ASSUME IInv, [Next]_vars, NEW a \in Apply
  PROVE  BackupRests(a)'
<1> SUFFICES ASSUME InPlace(a), Undisturbed(a, Files(a))', a.to \in {disk'[a.target], kept'[a.target]}
             PROVE  There(a.backup, a.from)'
  BY DEF BackupRests, InPlace
<1> USE DEF IInv
<1>1. a.target \in Files(a) \ touched'[a] /\ a.backup \in Files(a) \ touched'[a]
  BY Fields DEF Undisturbed, Files
<1>2. CASE Settled(a)
  <2>1. a.to \in {disk[a.target], kept[a.target]} /\ Undisturbed(a, Files(a))
    BY <1>1, <1>2 DEF Settled, Undisturbed
  <2>2. There(a.backup, a.from)
    BY <2>1 DEF AppliesRest, BackupRests
  <2>3. QED
    BY <1>1, <1>2, <2>2, StaysThere
<1>3. ASSUME NEW p \in Process, Preparing(p), proc[p].apply = a PROVE FALSE
  <2>1. touched'[a] = Unsettled(a) /\ UNCHANGED files /\ disk[a.target] = a.from
    BY <1>3 DEF Preparing, TypeOK, InPlace
  <2>2. disk[a.target] = kept[a.target]
    BY <1>1, <2>1 DEF Unsettled
  <2>3. QED
    BY <2>1, <2>2, Fields DEF files
<1>4. ASSUME NEW p \in Process, NEW f \in File, Entering(p, f), proc[p].apply = a
      PROVE  There(a.backup, a.from)'
  <2>1. touched'[a] = touched[a] /\ kept' = kept /\ disk' = [disk EXCEPT ![f] = Wanted(a, f)]
    BY <1>4 DEF Entering, Disturbs
  <2>2. Undisturbed(a, Files(a)) /\ a.backup \notin touched[a]
    BY <1>1, <2>1 DEF Undisturbed
  <2>3. CASE f = a.target
    <3>1. At(p, "write target")
      BY <1>4, <2>3, Fields DEF Entering
    <3>2. There(a.backup, a.from)
      BY <1>4, <2>2, <3>1 DEF StagesKnow, KnowsAt, BackedUp, At, Stages
    <3>3. QED
      BY <2>1, <2>3, <3>2, Fields DEF There, TypeOK
  <2>4. CASE f # a.target
    <3>1. There(a.backup, a.from)
      BY <2>1, <2>2, <2>4, Fields DEF AppliesRest, BackupRests, TypeOK
    <3>2. QED
      BY <2>1, <3>1, Fields DEF There, TypeOK
  <2>5. QED
    BY <2>3, <2>4
<1>5. QED
  BY <1>2, <1>3, <1>4, Steadies, Settles DEF Alters

\* Files that settle, or are prepared or entered as wanted, still fit a record.
LEMMA FitsKept ==
  ASSUME TypeOK, NEW a \in Apply, NEW r, Fits(a, r), Undisturbed(a, Files(a))',
         \A f \in Files(a) :
           \/ disk'[f] \in {disk[f], kept[f]} /\ kept'[f] \in {disk[f], kept[f]}
           \/ f \in Outputs(a) /\ disk'[f] = Wanted(a, f) /\ kept'[f] = kept[f]
  PROVE  Fits(a, r)'
<1>1. Outputs(a) \subseteq Files(a) /\ a.source \in Files(a)
  BY DEF Files
<1>2. InPlace(a) \/ There(a.source, a.from)'
  <2>1. a.source \in Outputs(a) => InPlace(a)
    BY Fields DEF Outputs, InPlace
  <2>2. CASE ~InPlace(a)
    <3>1. There(a.source, a.from) /\ a.source \notin Outputs(a)
      BY <2>1, <2>2 DEF Fits
    <3>2. QED
      BY <1>1, <3>1 DEF There
  <2>3. QED
    BY <2>2
<1>3. {disk'[a.target], kept'[a.target]} \subseteq {r.target, a.to}
  BY <1>1, Fields DEF Fits
<1>4. {disk'[a.audit], kept'[a.audit]} \subseteq {r.audit, Report(a)}
  BY <1>1, Fields DEF Fits
<1>5. a.backup # None => {disk'[a.backup], kept'[a.backup]} \subseteq {r.backup, a.from}
  BY <1>1, Fields DEF Fits
<1>6. ~a.overwrite => \A f \in Outputs(a) \ {a.source} :
                        {disk'[f], kept'[f]} \subseteq {None, Wanted(a, f)}
  BY <1>1 DEF Fits
<1>7. QED
  BY <1>2, <1>3, <1>4, <1>5, <1>6 DEF Fits, InPlace, Report, Wanted

\* Every record fits in every step.
LEMMA RecordsNext ==
  ASSUME IInv, [Next]_vars, NEW a \in Apply
  PROVE  RecordsFit(a)'
<1> USE DEF IInv
<1> SUFFICES ASSUME Undisturbed(a, Files(a))', NEW r, r \in {journal'[a.target], safe'[a.target]},
                    r # None, r.apply = a
             PROVE  Fits(a, r)'
  BY DEF RecordsFit
<1>1. CASE Settled(a) /\ r \in {journal[a.target], safe[a.target]}
  <2>1. /\ Undisturbed(a, Files(a))
        /\ \A f \in Files(a) : disk'[f] \in {disk[f], kept[f]} /\ kept'[f] \in {disk[f], kept[f]}
    BY <1>1 DEF Settled, Undisturbed
  <2>2. Fits(a, r)
    BY <1>1, <2>1 DEF AppliesRest, RecordsFit
  <2>3. QED
    BY <2>1, <2>2, FitsKept
<1>2. ASSUME NEW p \in Process, Preparing(p), proc[p].apply = a PROVE Fits(a, r)'
  <2>1. touched'[a] = Unsettled(a) /\ UNCHANGED <<files, journals>>
    BY <1>2 DEF Preparing, TypeOK
  <2>2. journal[a.target] = None
    BY <1>2 DEF Preparing, StagesKnow, KnowsAt, Unrecorded, At, Stages, Pending
  <2>3. r = safe[a.target]
    BY <2>1, <2>2 DEF journals
  <2>4. Undisturbed(a, Files(a))
    BY <2>1, <2>3 DEF Unsettled, Undisturbed
  <2>5. Fits(a, r)
    BY <2>3, <2>4 DEF AppliesRest, RecordsFit
  <2>6. QED
    BY <2>1, <2>5, FitsKept DEF files
<1>3. ASSUME NEW p \in Process, NEW f \in File, Entering(p, f), proc[p].apply = a
      PROVE  Fits(a, r)'
  <2>1. /\ touched'[a] = touched[a] /\ kept' = kept /\ disk' = [disk EXCEPT ![f] = Wanted(a, f)]
        /\ UNCHANGED journals /\ f \in Outputs(a)
    BY <1>3 DEF Entering, Disturbs
  <2>2. Undisturbed(a, Files(a)) /\ r \in {journal[a.target], safe[a.target]}
    BY <2>1 DEF Undisturbed, journals
  <2>3. Fits(a, r)
    BY <2>2 DEF AppliesRest, RecordsFit
  <2>4. \A g \in Files(a) : \/ disk'[g] \in {disk[g], kept[g]} /\ kept'[g] \in {disk[g], kept[g]}
                            \/ g \in Outputs(a) /\ disk'[g] = Wanted(a, g) /\ kept'[g] = kept[g]
    BY <2>1, Fields DEF TypeOK
  <2>5. QED
    BY <2>3, <2>4, FitsKept
<1>4. ASSUME NEW p \in Process, WriteJournal(p), proc[p].apply.target = a.target,
             r = journal'[a.target]
      PROVE  Fits(a, r)'
  <2>1. proc[p].apply \in Apply
    BY <1>4, Applies DEF WriteJournal, At
  <2>2. r = Before(proc[p].apply) /\ UNCHANGED <<files, history>>
    BY <1>4, Fields DEF WriteJournal, TypeOK
  <2>3. proc[p].apply = a
    BY <2>2 DEF Before
  <2>4. Undisturbed(a, Files(a))
    BY <2>2 DEF Undisturbed, history
  <2>5. /\ \A f \in Files(a) : disk[f] = kept[f]
        /\ disk[a.source] = a.from
        /\ a.overwrite \/ \A f \in Outputs(a) \ {a.source} : disk[f] = None
    BY <1>4, <2>3, <2>4 DEF WriteJournal, StagesKnow, KnowsAt, Ready, At, Stages
  <2>6. r.target = disk[a.target] /\ r.audit = disk[a.audit]
        /\ (a.backup # None => r.backup = disk[a.backup])
    BY <2>2, <2>3 DEF Before
  <2>7. Outputs(a) \subseteq Files(a) /\ {a.source, a.target, a.audit} \subseteq Files(a)
        /\ (a.backup # None => a.backup \in Files(a))
    BY Fields DEF Files
  <2>8. Fits(a, r)
    BY <2>5, <2>6, <2>7 DEF Fits, There
  <2>9. QED
    BY <2>2, <2>8, <2>4, FitsKept DEF files, history
<1>5. CASE PowerLoss
  BY <1>1, <1>5, Loses, Settles, Fields
<1>6. CASE ~PowerLoss /\ Steady(a)
  <2>1. r \in {journal'[a.target], journal[a.target], safe[a.target]}
    BY Saves, Fields
  <2>2. CASE r = journal'[a.target] /\ journal'[a.target] # journal[a.target]
    BY <1>4, <1>6, <2>2, Journals, Fields
  <2>3. CASE r \in {journal[a.target], safe[a.target]}
    BY <1>1, <1>6, <2>3, Settles
  <2>4. QED
    BY <2>1, <2>2, <2>3
<1>7. QED
  BY <1>2, <1>3, <1>5, <1>6, Steadies DEF Alters

\* Only success adds to what was told, and only preparing takes away.
Retells(p) == Preparing(p) \/ (Succeed(p) /\ told' = told \cup {proc[p].apply})

\* Every step leaves what was told as it was, or is one that retells it.
LEMMA Tells ==
  ASSUME TypeOK, LocksHeld, [Next]_vars
  PROVE  told' = told \/ \E p \in Process : Retells(p)
<1> USE DEF files, journals, history
<1>1. CASE UNCHANGED vars \/ PowerLoss \/ \E f \in File, c \in Foreign \cup {None} : Edit(f, c)
  BY <1>1 DEF vars, PowerLoss, Edit
<1>2. ASSUME NEW p \in Process,
             (\E a \in offered : Begin(p, a)) \/ (\E g \in File : TakeLock(p, g))
               \/ Recover(p) \/ Authorize(p) \/ WriteJournal(p) \/ Recorded(p) \/ Complete(p)
               \/ Forfeit(p) \/ Abort(p)
      PROVE  told' = told
  BY <1>2 DEF Begin, TakeLock, Recover, Authorize, WriteJournal, Recorded, Complete, Forfeit, Abort
<1>3. ASSUME NEW p \in Process,
             FindBackup(p) \/ FindTarget(p) \/ FindAudit(p) \/ VerifyBackup(p)
               \/ VerifyTarget(p) \/ VerifyAudit(p) \/ Unlink(p)
      PROVE  told' = told
  BY <1>3 DEF FindBackup, FindTarget, FindAudit, Find, VerifyBackup, VerifyTarget, VerifyAudit,
              Verify, Unlink
<1>4. ASSUME NEW p \in Process, WriteBackup(p) \/ WriteTarget(p) \/ WriteAudit(p)
      PROVE  told' = told
  BY <1>4, Writes
<1>5. ASSUME NEW p \in Process, Prepare(p) \/ Succeed(p) PROVE Retells(p)
  BY <1>5 DEF Prepare, Preparing, Succeed, Retells
<1>6. ASSUME NEW p \in Process, Step(p) PROVE told' = told \/ Retells(p)
  BY <1>2, <1>3, <1>4, <1>5, <1>6 DEF Step
<1>7. QED
  BY <1>1, <1>2, <1>6 DEF Next

\* The stages at which somebody may be with an apply that was told.
Early == {"idle", "lock", "recover", "prepare"}

\* An apply that rests keeps resting while nobody prepares it.
LEMMA RestsKept ==
  ASSUME IInv, [Next]_vars, NEW a \in told, a \in told'
  PROVE  Rests(a)'
<1> USE DEF IInv
<1>1. a \in Apply /\ Rests(a)
  BY DEF TypeOK, AppliesRest
<1>2. ASSUME NEW p \in Process, proc[p].apply = a PROVE proc[p].at \in Early
  BY <1>1, <1>2 DEF Rests, Early
<1>3. Settled(a)
  <2>1. ASSUME NEW p \in Process, Preparing(p), proc[p].apply = a PROVE FALSE
    BY <2>1 DEF Preparing
  <2>2. ASSUME NEW p \in Process, NEW f \in File, Entering(p, f), proc[p].apply = a PROVE FALSE
    BY <1>2, <2>2 DEF Entering, At, Early
  <2>3. QED
    BY <1>1, <2>1, <2>2, Steadies, Settles DEF Alters
<1>4. ASSUME NEW r \in {journal'[a.target], safe'[a.target]}, r # None PROVE r.apply # a
  <2>1. CASE r \in {journal[a.target], safe[a.target]}
    BY <1>1, <1>4, <2>1 DEF Rests
  <2>2. CASE r = journal'[a.target] /\ journal'[a.target] # journal[a.target] /\ ~PowerLoss
    <3>1. PICK p \in Process : WriteJournal(p) /\ proc[p].apply.target = a.target
      BY <1>1, <1>4, <2>2, Journals, Fields
    <3>2. proc[p].apply # a /\ proc[p].apply \in Apply
      BY <1>2, <3>1, Applies DEF WriteJournal, At, Early
    <3>3. r = Before(proc[p].apply)
      BY <1>1, <2>2, <3>1, <3>2, Fields DEF WriteJournal, TypeOK
    <3>4. QED
      BY <3>2, <3>3 DEF Before
  <2>3. r \in {journal'[a.target], journal[a.target], safe[a.target]}
    BY <1>1, Saves, Fields
  <2>4. PowerLoss => r \in {journal[a.target], safe[a.target]}
    BY <1>1, Loses, Fields
  <2>5. QED
    BY <2>1, <2>2, <2>3, <2>4
<1>5. ASSUME NEW f \in Outputs(a) \ touched'[a] PROVE There(f, Wanted(a, f))'
  <2>1. f \in Files(a) \ touched'[a] /\ f \notin touched[a]
    BY <1>3 DEF Files, Settled
  <2>2. There(f, Wanted(a, f))
    BY <1>1, <2>1 DEF Rests
  <2>3. QED
    BY <1>1, <1>3, <2>1, <2>2, StaysThere DEF Wanted
<1>6. ASSUME NEW p \in Process, proc'[p].apply = a PROVE proc'[p].at \in Early
  <2>1. CASE proc'[p] = proc[p]
    BY <1>2, <1>6, <2>1
  <2>2. CASE PowerLoss
    BY <2>2 DEF PowerLoss, Idle, Early
  <2>3. CASE proc'[p] # proc[p] /\ ~PowerLoss
    <3>1. PICK q \in Process : Turns(q)
      BY <2>3, NextParts
    <3>2. ASSUME NEW b \in Apply, Begin(q, b) PROVE proc'[p].at \in Early
      BY <2>3, <3>2 DEF Begin, TypeOK, Early
    <3>3. ASSUME NEW f \in File, TakeLock(q, f) PROVE proc'[p].at \in Early
      BY <2>3, <3>3, Gone DEF TakeLock, Stages, Early
    <3>4. CASE Succeed(q) \/ Forfeit(q) \/ Abort(q)
      BY <2>3, <3>4, Left DEF Succeed, Forfeit, Abort, Idle, Early
    <3>5. CASE Step(q) /\ Proceeds(q)
      <4>1. p = q /\ proc[p].apply = a /\ proc[p].at \in {"recover", "prepare"}
        BY <1>2, <1>6, <2>3, <3>5 DEF Proceeds, Early
      <4>2. CASE At(p, "recover")
        <5>1. Recover(p)
          BY <3>5, <4>1, <4>2 DEF Step, At, Recover, TakeLock, Prepare, Authorize, WriteJournal,
             Recorded, Complete, FindBackup, WriteBackup, VerifyBackup, FindTarget, WriteTarget,
             VerifyTarget, FindAudit, WriteAudit, VerifyAudit, Unlink, Succeed
        <5>2. Pending(a) = None \/ Pending(a).apply # a
          BY <1>1 DEF Rests, Pending
        <5>3. QED
          BY <4>1, <5>1, <5>2, Gone DEF Recover, Stages, Early
      <4>3. CASE At(p, "prepare")
        <5>1. Prepare(p)
          BY <3>5, <4>1, <4>3 DEF Step, At, Recover, TakeLock, Prepare, Authorize, WriteJournal,
             Recorded, Complete, FindBackup, WriteBackup, VerifyBackup, FindTarget, WriteTarget,
             VerifyTarget, FindAudit, WriteAudit, VerifyAudit, Unlink, Succeed
        <5>2. QED
          BY <4>1, <5>1 DEF Prepare
      <4>4. QED
        BY <4>1, <4>2, <4>3 DEF At
    <3>6. QED
      BY <3>1, <3>2, <3>3, <3>4, <3>5 DEF Turns
  <2>4. QED
    BY <2>1, <2>2, <2>3
<1>7. QED
  BY <1>4, <1>5, <1>6 DEF Rests, Early, Outputs, Wanted, Report

\* An apply that just reported success rests.
LEMMA RestsOnSuccess ==
  ASSUME IInv, NEW p \in Process, Succeed(p), NEW a \in Apply, proc[p].apply = a
  PROVE  Rests(a)'
<1> USE DEF IInv
<1>1. At(p, "unlinked") /\ KnowsAt(a, "unlinked")
  BY DEF Succeed, StagesKnow, Stages, At
<1>2. journal[a.target] = None
  BY <1>1 DEF KnowsAt, Unrecorded, Pending
<1>3. journal'[a.target] = None /\ safe'[a.target] = None
  BY <1>2, SyncsJournal DEF Succeed
<1>4. UNCHANGED <<files, touched>>
  BY DEF Succeed
<1>5. \A f \in Outputs(a) \ touched[a] : There(f, Wanted(a, f))
  BY <1>1 DEF KnowsAt
<1>6. (\A f \in Outputs(a) \ touched[a] : There(f, Wanted(a, f)))'
  BY <1>4, <1>5 DEF There, files, Outputs, Wanted, Report
<1>7. ASSUME NEW q \in Process, proc'[q].apply = a PROVE proc'[q].at \in Early
  <2>1. CASE q = p
    BY <2>1, Left DEF Succeed, Idle, Early
  <2>2. CASE q # p
    <3>1. proc'[q] = proc[q]
      BY <2>2, Left DEF Succeed
    <3>2. proc[q].at \in {"idle", "lock"}
      BY <1>1, <1>7, <2>2, <3>1, Exclusive DEF At
    <3>3. QED
      BY <3>1, <3>2 DEF Early
  <2>3. QED
    BY <2>1, <2>2
<1>8. QED
  BY <1>3, <1>6, <1>7 DEF Rests, Early

\* Every apply that was told rests in every step.
LEMMA RestsNext ==
  ASSUME IInv, [Next]_vars, NEW a \in told'
  PROVE  Rests(a)'
<1>1. CASE a \in told
  BY <1>1, RestsKept
<1>2. CASE a \notin told
  <2>1. PICK p \in Process : Succeed(p) /\ proc[p].apply = a
    BY <1>2, Tells DEF IInv, Retells, Preparing
  <2>2. a \in Apply
    BY <2>1, Applies DEF IInv, Succeed, At
  <2>3. QED
    BY <2>1, <2>2, RestsOnSuccess
<1>3. QED
  BY <1>1, <1>2
-----------------------------------------------------------------------------
\* IInv holds of every behaviour.
THEOREM Invariant == Spec => []IInv
<1>1. Init => IInv
  BY InitType, InitRests DEF IInv
<1>2. IInv /\ [Next]_vars => IInv'
  <2> SUFFICES ASSUME IInv, [Next]_vars PROVE IInv'
    OBVIOUS
  <2>1. TypeOK' /\ LocksHeld' /\ StagesKnow'
    BY TypeNext, LocksNext, StagesNext DEF IInv
  <2>2. \A a \in Apply : ReportRests(a)' /\ BackupRests(a)' /\ RecordsFit(a)'
    BY ReportNext, BackupNext, RecordsNext
  <2>3. \A a \in told' : Rests(a)'
    BY RestsNext
  <2>4. QED
    BY <2>1, <2>2, <2>3 DEF IInv, AppliesRest
<1>3. QED
  BY <1>1, <1>2, PTL DEF Spec

\* The type invariant, for every value of the constants.
THEOREM TypeCorrect == Spec => []TypeOK
<1>1. IInv => TypeOK
  BY DEF IInv
<1>2. QED
  BY <1>1, Invariant, PTL

\* The applies of a behaviour are applies.
LEMMA OfferedApplies == TypeOK => offered \subseteq Apply
BY ApplyConstants DEF TypeOK

\* A success report is never on disk before its registry is there for good:
\* completion writes the audit last, after the registry was synced.
THEOREM AuditFollows == Spec => []AuditFollowsTarget
<1>1. IInv => AuditFollowsTarget
  BY OfferedApplies DEF IInv, AppliesRest, ReportRests, AuditFollowsTarget, There
<1>2. QED
  BY <1>1, Invariant, PTL

\* An apply in place has its backup on disk for good before the new registry.
THEOREM OriginalKept == Spec => []OriginalSurvives
<1>1. IInv => OriginalSurvives
  BY OfferedApplies DEF IInv, AppliesRest, BackupRests, OriginalSurvives, There
<1>2. QED
  BY <1>1, Invariant, PTL

\* A pending record is one that an exact retry completes, after any failures.
THEOREM PendingCompletable == Spec => []PendingIsCompletable
<1>1. IInv => PendingIsCompletable
  <2> SUFFICES ASSUME IInv, NEW a \in offered, Pending(a) # None, Pending(a).apply = a,
                      Undisturbed(a, Files(a))
               PROVE  /\ Completable(a)
                      /\ a.backup # None => disk[a.backup] \in {Pending(a).backup, a.from}
                      /\ ~a.overwrite => \A f \in Outputs(a) \ {a.source} :
                                           disk[f] \in {None, Wanted(a, f)}
    BY DEF PendingIsCompletable
  <2>1. a \in Apply
    BY OfferedApplies DEF IInv
  <2>2. Fits(a, Pending(a))
    BY <2>1 DEF IInv, AppliesRest, RecordsFit, Pending
  <2>3. disk[a.audit] = Report(a) => disk[a.target] = a.to
    <3>1. Undisturbed(a, {a.target, a.audit})
      BY <2>1, Fields DEF Undisturbed, Files
    <3>2. QED
      BY <2>1, <3>1 DEF IInv, AppliesRest, ReportRests, There
  <2>4. Completable(a)
    BY <2>2, <2>3 DEF Fits, Completable, There
  <2>5. QED
    BY <2>2, <2>4 DEF Fits
<1>2. QED
  BY <1>1, Invariant, PTL

\* After success is reported the outputs stay through every power loss, and the
\* record does not come back.
THEOREM ReportsDurable == Spec => []ReportedIsDurable
<1>1. IInv => ReportedIsDurable
  BY DEF IInv, AppliesRest, Rests, ReportedIsDurable, There
<1>2. QED
  BY <1>1, Invariant, PTL
-----------------------------------------------------------------------------
\* Files that are ranked above, or below, a file.
Above(f) == {g \in File : Rank[g] > Rank[f]}
Below(f) == {g \in File : Rank[g] < Rank[f]}

\* Of finitely many sets of files one contains no other.
LEMMA Smallest ==
  ASSUME NEW T, T \subseteq SUBSET File, T # {}
  PROVE  \E X \in T : \A Y \in T : Y \subseteq X => Y = X
<1>1. FiniteSubsetsOf(File) = SUBSET File
  BY ApplyConstants, FS_FiniteSubsetsOfFinite
<1>2. PICK X \in T : \A Y \in T : <<Y, X>> \notin StrictSubsetOrdering(File)
  BY <1>1, FS_StrictSubsetOrderingWellFounded, WFMin
<1>3. QED
  BY <1>2 DEF StrictSubsetOrdering

\* Among some files one has the highest rank, and one the lowest.
LEMMA Extremes ==
  ASSUME NEW F \in SUBSET File, F # {}
  PROVE  /\ \E f \in F : \A g \in F : Rank[g] <= Rank[f]
         /\ \E f \in F : \A g \in F : Rank[f] <= Rank[g]
<1>1. \A f \in File : Rank[f] \in Nat
  BY ApplyConstants
<1>2. \E f \in F : \A g \in F : Rank[g] <= Rank[f]
  <2>1. PICK f \in F : \A g \in F : Above(g) \subseteq Above(f) => Above(g) = Above(f)
    <3> DEFINE T == {Above(f) : f \in F}
    <3>1. T \subseteq SUBSET File /\ T # {}
      BY DEF Above
    <3>2. (\A X \in T : \E f \in F : X = Above(f)) /\ \A g \in F : Above(g) \in T
      OBVIOUS
    <3> HIDE DEF T
    <3>3. PICK X \in T : \A Y \in T : Y \subseteq X => Y = X
      BY <3>1, Smallest
    <3>4. QED
      BY <3>2, <3>3
  <2>2. ASSUME NEW g \in F, Rank[g] > Rank[f] PROVE FALSE
    <3>1. Above(g) \subseteq Above(f) /\ g \in Above(f) /\ g \notin Above(g)
      BY <1>1, <2>2 DEF Above
    <3>2. QED
      BY <2>1, <3>1
  <2>3. QED
    BY <1>1, <2>2
<1>3. \E f \in F : \A g \in F : Rank[f] <= Rank[g]
  <2>1. PICK f \in F : \A g \in F : Below(g) \subseteq Below(f) => Below(g) = Below(f)
    <3> DEFINE T == {Below(f) : f \in F}
    <3>1. T \subseteq SUBSET File /\ T # {}
      BY DEF Below
    <3>2. (\A X \in T : \E f \in F : X = Below(f)) /\ \A g \in F : Below(g) \in T
      OBVIOUS
    <3> HIDE DEF T
    <3>3. PICK X \in T : \A Y \in T : Y \subseteq X => Y = X
      BY <3>1, Smallest
    <3>4. QED
      BY <3>2, <3>3
  <2>2. ASSUME NEW g \in F, Rank[g] < Rank[f] PROVE FALSE
    <3>1. Below(g) \subseteq Below(f) /\ g \in Below(f) /\ g \notin Below(g)
      BY <1>1, <2>2 DEF Below
    <3>2. QED
      BY <2>1, <3>1
  <2>3. QED
    BY <1>1, <2>2
<1>4. QED
  BY <1>2, <1>3

\* A lock is held by a process that is under way and that has taken it before
\* any it still lacks; a process at its locks lacks one.
LocksOrdered ==
  /\ \A f \in File, p \in Process : lock[f] = p =>
       /\ ~At(p, "idle") /\ f \in Outputs(proc[p].apply)
       /\ At(p, "lock") =>
            \A g \in Outputs(proc[p].apply) : lock[g] # p => Rank[f] < Rank[g]
  /\ \A p \in Process : At(p, "lock") => \E g \in Outputs(proc[p].apply) : lock[g] # p

\* No process holds a lock at first.
LEMMA InitOrdered == Init => LocksOrdered
BY ApplyConstants DEF Init, LocksOrdered, At, Idle

\* The order is kept by every step.
LEMMA OrderedNext ==
  ASSUME TypeOK, LocksHeld, LocksOrdered, [Next]_vars
  PROVE  LocksOrdered'
<1>1. CASE UNCHANGED <<proc, lock>>
  BY <1>1 DEF LocksOrdered, At
<1>2. CASE PowerLoss
  BY <1>2, ApplyConstants DEF PowerLoss, LocksOrdered, At, Idle
<1>3. ASSUME NEW p \in Process, NEW a \in Apply, Begin(p, a) PROVE LocksOrdered'
  <2>1. /\ proc'[p].at = "lock" /\ proc'[p].apply = a /\ lock' = lock /\ At(p, "idle")
        /\ \A q \in Process \ {p} : proc'[q] = proc[q]
    BY <1>3 DEF Begin, TypeOK
  <2>2. \A f \in File : lock[f] # p
    BY <2>1 DEF LocksOrdered
  <2>3. \E g \in Outputs(proc'[p].apply) : lock'[g] # p
    BY <2>1, <2>2, Fields
  <2>4. QED
    BY <2>1, <2>2, <2>3 DEF LocksOrdered, At
<1>4. ASSUME NEW p \in Process, NEW f \in File, TakeLock(p, f) PROVE LocksOrdered'
  <2>1. /\ At(p, "lock") /\ f \in Outputs(proc[p].apply) /\ NextLock(p, f) /\ proc[p].apply \in Apply
        /\ lock[f] = None /\ lock' = [lock EXCEPT ![f] = p]
    BY <1>4, Applies DEF TakeLock, At
  <2>2. /\ proc'[p].at \in {"lock", "recover"} /\ proc'[p].apply = proc[p].apply
        /\ proc'[p].at = "lock" => \E g \in Outputs(proc[p].apply) : lock'[g] # p
        /\ \A q \in Process \ {p} : proc'[q] = proc[q]
    BY <1>4, Gone DEF TakeLock, At, Stages
  <2>3. p # None /\ Outputs(proc[p].apply) \subseteq File
    BY <2>1, ApplyConstants, Fields
  <2>4. ASSUME NEW h \in File, lock'[h] = p, NEW g \in Outputs(proc[p].apply), lock'[g] # p
        PROVE  Rank[h] < Rank[g]
    <3>1. lock[g] # p /\ g # f /\ g \in File
      BY <2>1, <2>3, <2>4 DEF TypeOK
    <3>2. CASE h = f
      <4>1. Rank[f] <= Rank[g] /\ Rank[f] # Rank[g]
        BY <2>1, <3>1, ApplyConstants DEF NextLock
      <4>2. QED
        BY <3>1, <3>2, <4>1, ApplyConstants
    <3>3. CASE h # f
      BY <2>1, <2>4, <3>1, <3>3 DEF LocksOrdered, TypeOK
    <3>4. QED
      BY <3>2, <3>3
  <2>5. \A h \in File : lock'[h] = p => h \in Outputs(proc[p].apply)
    BY <2>1 DEF LocksOrdered, TypeOK
  <2>6. ASSUME NEW h \in File, NEW q \in Process, lock'[h] = q
        PROVE  /\ ~At(q, "idle")' /\ h \in Outputs(proc'[q].apply)
               /\ At(q, "lock")' =>
                    \A g \in Outputs(proc'[q].apply) : lock'[g] # q => Rank[h] < Rank[g]
    <3>1. CASE q = p
      BY <2>2, <2>4, <2>5, <2>6, <3>1 DEF At
    <3>2. CASE q # p
      <4>1. lock[h] = q /\ proc'[q] = proc[q]
        BY <2>1, <2>2, <2>6, <3>2 DEF TypeOK
      <4>2. \A g \in File : lock'[g] # q => lock[g] # q
        BY <2>1, <2>3, ApplyConstants DEF TypeOK
      <4>3. ~At(q, "idle") /\ h \in Outputs(proc[q].apply)
        BY <4>1 DEF LocksOrdered
      <4>4. Outputs(proc[q].apply) \subseteq File
        BY <4>3, Applies, Fields
      <4>5. QED
        BY <4>1, <4>2, <4>3, <4>4 DEF LocksOrdered, At
    <3>3. QED
      BY <3>1, <3>2
  <2>7. ASSUME NEW q \in Process, At(q, "lock")'
        PROVE  \E g \in Outputs(proc'[q].apply) : lock'[g] # q
    <3>1. CASE q = p
      BY <2>2, <2>7, <3>1 DEF At
    <3>2. CASE q # p
      <4>1. proc'[q] = proc[q] /\ At(q, "lock")
        BY <2>2, <2>7, <3>2 DEF At
      <4>2. PICK g \in Outputs(proc[q].apply) : lock[g] # q
        BY <4>1 DEF LocksOrdered
      <4>3. lock'[g] # q
        BY <2>1, <3>2, <4>2 DEF TypeOK
      <4>4. QED
        BY <4>1, <4>2, <4>3
    <3>3. QED
      BY <3>1, <3>2
  <2>8. QED
    BY <2>6, <2>7 DEF LocksOrdered
<1>5. ASSUME NEW p \in Process, Succeed(p) \/ Forfeit(p) \/ Abort(p) PROVE LocksOrdered'
  <2>1. /\ proc'[p].at = "idle" /\ \A q \in Process \ {p} : proc'[q] = proc[q]
        /\ lock' = [f \in File |-> IF lock[f] = p THEN None ELSE lock[f]]
    BY <1>5, Left DEF Succeed, Forfeit, Abort, Idle, Leave
  <2>2. ASSUME NEW h \in File, NEW q \in Process, lock'[h] = q
        PROVE  /\ ~At(q, "idle")' /\ h \in Outputs(proc'[q].apply)
               /\ At(q, "lock")' =>
                    \A g \in Outputs(proc'[q].apply) : lock'[g] # q => Rank[h] < Rank[g]
    <3>1. q # p /\ lock[h] = q /\ proc'[q] = proc[q]
      BY <2>1, <2>2, ApplyConstants
    <3>2. ~At(q, "idle") /\ h \in Outputs(proc[q].apply)
      BY <3>1 DEF LocksOrdered
    <3>3. Outputs(proc[q].apply) \subseteq File
      BY <3>2, Applies, Fields
    <3>4. \A g \in File : lock'[g] # q => lock[g] # q
      BY <2>1, <3>1
    <3>5. QED
      BY <3>1, <3>2, <3>3, <3>4 DEF LocksOrdered, At
  <2>3. ASSUME NEW q \in Process, At(q, "lock")'
        PROVE  \E g \in Outputs(proc'[q].apply) : lock'[g] # q
    <3>1. q # p /\ proc'[q] = proc[q] /\ At(q, "lock")
      BY <2>1, <2>3 DEF At
    <3>2. PICK g \in Outputs(proc[q].apply) : lock[g] # q
      BY <3>1 DEF LocksOrdered
    <3>3. g \in File
      BY <3>1, Applies, Fields DEF At
    <3>4. lock'[g] # q
      BY <2>1, <3>2, <3>3, ApplyConstants
    <3>5. QED
      BY <3>1, <3>2, <3>4
  <2>4. QED
    BY <2>2, <2>3 DEF LocksOrdered
<1>6. ASSUME NEW p \in Process, Proceeds(p) PROVE LocksOrdered'
  BY <1>6 DEF Proceeds, LocksOrdered, At
<1>7. QED
  BY <1>1, <1>2, <1>3, <1>4, <1>5, <1>6, NextParts DEF Turns

\* Taken in one order, the locks always have somebody who can go on: the
\* process that waits for the highest file waits for one past its locks.
LEMMA OrderResolves ==
  ASSUME TypeOK, LocksHeld, LocksOrdered
  PROVE  LocksResolve
<1> SUFFICES ASSUME NEW p0 \in Process, ~At(p0, "idle"),
                    \A p \in Process : ~At(p, "idle") =>
                      /\ At(p, "lock")
                      /\ \A f \in Outputs(proc[p].apply) : NextLock(p, f) => lock[f] # None
             PROVE  FALSE
  BY DEF LocksResolve
<1> DEFINE Waits(p, f) == f \in Outputs(proc[p].apply) /\ lock[f] # p /\ NextLock(p, f)
           Wanting == {f \in File : \E p \in Process : ~At(p, "idle") /\ Waits(p, f)}
<1>1. ASSUME NEW p \in Process, ~At(p, "idle") PROVE \E f \in Wanting : Waits(p, f)
  <2>1. At(p, "lock") /\ Outputs(proc[p].apply) \subseteq File
    BY <1>1, Applies, Fields
  <2> DEFINE Lacks == {g \in Outputs(proc[p].apply) : lock[g] # p}
  <2>2. Lacks \in SUBSET File /\ Lacks # {}
    BY <2>1 DEF LocksOrdered
  <2>3. PICK f \in Lacks : \A g \in Lacks : Rank[f] <= Rank[g]
    BY <2>2, Extremes
  <2>4. Waits(p, f) /\ f \in File
    BY <2>2, <2>3 DEF NextLock
  <2>5. QED
    BY <1>1, <2>4
<1>2. Wanting \in SUBSET File /\ Wanting # {}
  BY <1>1
<1>3. PICK f \in Wanting : \A g \in Wanting : Rank[g] <= Rank[f]
  BY <1>2, Extremes
<1>4. PICK p \in Process : ~At(p, "idle") /\ Waits(p, f)
  BY <1>3
<1>5. lock[f] \in Process /\ f \in File
  BY <1>4 DEF TypeOK
<1>6. ~At(lock[f], "idle") /\ At(lock[f], "lock")
  BY <1>5 DEF LocksOrdered
<1>7. PICK g \in Wanting : Waits(lock[f], g)
  BY <1>1, <1>5, <1>6
<1>8. Rank[f] < Rank[g] /\ g \in File
  BY <1>5, <1>6, <1>7 DEF LocksOrdered
<1>9. QED
  BY <1>3, <1>5, <1>7, <1>8, ApplyConstants

\* Applies that share files in any roles never wait for one another in a
\* circle, whatever their number and the order of the files.
THEOREM LocksAlwaysResolve == Spec => []LocksResolve
<1>1. Init => TypeOK /\ LocksHeld /\ LocksOrdered
  BY InitType, InitRests, InitOrdered
<1>2. TypeOK /\ LocksHeld /\ LocksOrdered /\ [Next]_vars => (TypeOK /\ LocksHeld /\ LocksOrdered)'
  BY TypeNext, LocksNext, OrderedNext
<1>3. TypeOK /\ LocksHeld /\ LocksOrdered => LocksResolve
  BY OrderResolves
<1>4. QED
  BY <1>1, <1>2, <1>3, PTL DEF Spec
=============================================================================
