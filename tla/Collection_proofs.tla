-------------------------- MODULE Collection_proofs --------------------------
(***************************************************************************)
(* Safety of collections, requests and changes of folder, for any folders, *)
(* processes and workloads.                                                *)
(***************************************************************************)
EXTENDS Collection, TLAPS

\* What is published agrees with the table of runs, and the rows are as they
\* are written.
Sound(d) ==
  /\ \A i \in DOMAIN d.runs :
       /\ d.runs[i].outcome = "success" => i <= d.active
       /\ d.runs[i].error = "interrupted" => d.runs[i].outcome = "error"
       /\ d.runs[i].outcome = "running" => d.runs[i].error = None
  /\ d.active > 0 =>
       /\ d.active \in DOMAIN d.runs
       /\ d.runs[d.active].error \notin {"denied", "failed"}

\* What a handler has at each of its steps, and which locks.
Handles ==
  /\ data[directory] # None
  /\ handler.pc = "idle" => handler = NoHandler
  /\ handler.pc # "idle" => up
  /\ handler.pc = "mutex" => handler.op \in {"move", "restore"}
  /\ handler.pc \in {"files", "database"} => handler.op \in {"move", "backup"}
  /\ handler.pc \in {"rename", "point", "switch"} =>
       handler.op \in {"move", "restore"} /\ handler.target # None
  /\ handler.pc # "idle" /\ handler.op = "move" => handler.target # None
  /\ handler.pc \in {"database", "rename", "point", "switch", "write"} =>
       handler.copy # None
  /\ handler.pc \in {"point", "switch"} => data[handler.target] # None
  /\ mutex = "handler" <=>
       /\ handler.op \in {"move", "restore"}
       /\ handler.pc \in {"files", "database", "rename", "point", "switch"}

\* A change of folder carries over what was acknowledged.
Acknowledges ==
  /\ AcknowledgedIsKept
  /\ handler.op = "move" /\ handler.pc \in {"rename", "point"} =>
       handler.copy.noted = acked
  /\ handler.pc = "point" => data[handler.target].noted = handler.copy.noted
  /\ handler.pc = "switch" => pointer = handler.target

\* Folders, and the copies that may become folders, are sound.
AllSound ==
  /\ \A f \in Folder : data[f] # None => Sound(data[f])
  /\ archive # None => Sound(archive)
  /\ preview # None => Sound(preview)
  /\ handler.pc = "database" => handler.copy.active = data[directory].active
  /\ handler.pc = "rename" => Sound(handler.copy)

\* What a collector has at each of its steps.
Works(p) ==
  /\ proc[p].pc \in {"lock", "begin", "collect", "finish", "print", "report"} =>
       proc[p].dir # None /\ Now(p) # None
  /\ proc[p].pc \in {"main", "history", "record"} => p \in Scheduled
  /\ proc[p].pc \in {"report", "release"} => p = Worker
  /\ p \in Scheduled /\ proc[p].pc # "idle" =>
       proc[p].home # None /\ data[proc[p].home] # None
  /\ proc[p].pc \in {"collect", "finish", "print", "report"} => proc[p].row \in DOMAIN Now(p).runs
  /\ proc[p].pc \in {"collect", "finish", "print"} => proc[p].row = Len(Now(p).runs)
  /\ proc[p].pc \in {"collect", "report"} => Now(p).active # proc[p].row
  /\ proc[p].pc = "finish" =>
       /\ proc[p].result \in {"ok", "denied", "failed"}
       /\ proc[p].result = "ok" <=> Now(p).active = proc[p].row
  /\ proc[p].pc = "print" => p # Worker /\ Now(p).active = proc[p].row
  /\ proc[p].pc = "report" =>
       /\ proc[p].result \in {"denied", "failed"}
       /\ \/ Now(p).runs[proc[p].row].outcome = "running"
          \/ Now(p).runs[proc[p].row].error = "interrupted"
  /\ proc[p].pc \in {"collect", "finish", "print"} /\ At(Worker, "report")
       /\ proc[p].dir = proc[Worker].dir => proc[p].row # proc[Worker].row

AllWork == \A p \in Collector : Works(p)

\* The inductive invariant.
IInv ==
  /\ TypeOK
  /\ Handles
  /\ Acknowledges
  /\ AllSound
  /\ AllWork
  /\ LocksHaveOwners

-----------------------------------------------------------------------------
(* Types.                                                                  *)

\* What begin_run leaves in the table.
Begun(runs) ==
  Append([i \in DOMAIN runs |-> Interrupted(runs[i])], [outcome |-> "running", error |-> None])

\* begin_run keeps every row in place, marks those left running, and adds one.
LEMMA BegunRows ==
  ASSUME NEW runs \in Seq(Row)
  PROVE  /\ Begun(runs) \in Seq(Row)
         /\ Len(Begun(runs)) = Len(runs) + 1
         /\ DOMAIN Begun(runs) = 1..(Len(runs) + 1)
         /\ \A i \in DOMAIN runs : Begun(runs)[i] = Interrupted(runs[i])
         /\ Begun(runs)[Len(runs) + 1] = [outcome |-> "running", error |-> None]
<1> DEFINE marked == [i \in DOMAIN runs |-> Interrupted(runs[i])]
<1>1. ASSUME NEW i \in DOMAIN runs PROVE Interrupted(runs[i]) \in Row
  <2>1. runs[i] \in Row
    OBVIOUS
  <2>2. [outcome |-> "error", error |-> "interrupted"] \in Row
    BY DEF Row
  <2>3. QED
    BY <2>1, <2>2 DEF Interrupted
<1>2. DOMAIN runs = 1..Len(runs) /\ Len(runs) \in Nat
  OBVIOUS
<1>3. marked \in Seq(Row) /\ Len(marked) = Len(runs)
  BY <1>1, <1>2
<1>4. [outcome |-> "running", error |-> None] \in Row
  BY DEF Row
<1>5. QED
  BY <1>2, <1>3, <1>4 DEF Begun

\* The server starts well typed.
LEMMA InitTyped == Init => TypeOK
<1> SUFFICES ASSUME Init PROVE TypeOK
  OBVIOUS
<1>1. Fresh \in Data
  BY DEF Fresh, Data
<1>2. NoHandler \in HandlerState /\ NoProc \in ProcState
  BY DEF NoHandler, HandlerState, NoProc, ProcState
<1>3. QED
  BY <1>1, <1>2, CollectionConstants, NoneIsNothing DEF Init, TypeOK

-----------------------------------------------------------------------------
(* What the steps write into folders.                                      *)

\* One folder that is there is written.
LEMMA Wrote ==
  ASSUME TypeOK, NEW f \in Folder, data[f] # None, NEW d \in Data,
         data' = [data EXCEPT ![f] = d]
  PROVE  /\ data' \in [Folder -> Data \cup {None}]
         /\ data'[f] = d
         /\ \A g \in Folder : g # f => data'[g] = data[g]
         /\ \A g \in Folder : data[g] # None <=> data'[g] # None
BY NoneIsNothing DEF TypeOK

\* What a collector writes in place of the data of its folder.
Places(p, d) ==
  /\ proc[p].dir \in Folder /\ Now(p) \in Data
  /\ d \in Data
  /\ data' = [data EXCEPT ![proc[p].dir] = d]

\* A collector between its lock and its report is in a folder that is there.
LEMMA Present ==
  ASSUME TypeOK, AllWork, NEW p \in Collector,
         proc[p].pc \in {"lock", "begin", "collect", "finish", "print", "report"}
  PROVE  /\ proc[p].dir \in Folder /\ Now(p) \in Data
         /\ Now(p).runs \in Seq(Row) /\ Now(p).active \in Nat
         /\ proc[p].row \in Nat
BY NoneIsNothing DEF AllWork, Works, Now, TypeOK, ProcState, Data

\* begin_run writes the table of the collector's folder, and nothing else.
LEMMA BeginWrites ==
  ASSUME TypeOK, AllWork, NEW p \in Collector, BeginRun(p)
  PROVE  Places(p, [Now(p) EXCEPT !.runs = Begun(Now(p).runs)])
<1>1. proc[p].dir \in Folder /\ Now(p) \in Data /\ Now(p).runs \in Seq(Row)
  BY Present DEF BeginRun, At
<1>2. [Now(p) EXCEPT !.runs = Begun(Now(p).runs)] \in Data
  BY <1>1, BegunRows DEF Data
<1>3. data' = [data EXCEPT ![proc[p].dir] = [Now(p) EXCEPT !.runs = Begun(Now(p).runs)]]
  BY <1>1 DEF BeginRun, Begun, Now, TypeOK
<1>4. QED
  BY <1>1, <1>2, <1>3 DEF Places

\* The publication of a run writes active.json of its folder, and nothing else.
LEMMA PublishWrites ==
  ASSUME TypeOK, AllWork, NEW p \in Collector, Publish(p)
  PROVE  Places(p, [Now(p) EXCEPT !.active = proc[p].row])
<1>1. proc[p].dir \in Folder /\ Now(p) \in Data /\ proc[p].row \in Nat
  BY Present DEF Publish, At
<1>2. [Now(p) EXCEPT !.active = proc[p].row] \in Data
  BY <1>1 DEF Data
<1>3. data' = [data EXCEPT ![proc[p].dir] = [Now(p) EXCEPT !.active = proc[p].row]]
  BY <1>1 DEF Publish, Now, TypeOK
<1>4. QED
  BY <1>1, <1>2, <1>3 DEF Places

\* A row that is written is a row, wherever it is.
LEMMA OutcomeRow ==
  ASSUME TypeOK, AllWork, NEW p \in Collector, proc[p].pc \in {"finish", "print", "report"},
         NEW result \in {"ok", "denied", "failed", "output"}
  PROVE  [Now(p) EXCEPT !.runs[proc[p].row] = Outcome(result)] \in Data
<1>1. Outcome(result) \in Row
  BY DEF Outcome, Row
<1>2. Now(p) \in Data /\ Now(p).runs \in Seq(Row) /\ proc[p].row \in DOMAIN Now(p).runs
  BY Present DEF AllWork, Works
<1>3. [Now(p).runs EXCEPT ![proc[p].row] = Outcome(result)] \in Seq(Row)
  BY <1>1, <1>2
<1>4. QED
  BY <1>2, <1>3 DEF Data

\* A collector's calls of finish_run under its lock, and what each records.
Finishes(p) == FinishRun(p) \/ PrintFails(p)
Final(p) == IF At(p, "print") THEN "output" ELSE proc[p].result

\* What a run may be recorded with, after how its collection ended.
LEMMA Finals ==
  ASSUME TypeOK, AllWork, NEW p \in Collector, Finishes(p)
  PROVE  /\ proc[p].pc \in {"finish", "print"}
         /\ Final(p) \in {"ok", "denied", "failed", "output"}
         /\ Final(p) \in {"ok", "output"} => Now(p).active = proc[p].row
         /\ Final(p) \in {"denied", "failed"} => Now(p).active # proc[p].row
BY DEF AllWork, Works, At, Final, Finishes, FinishRun, PrintFails

\* finish_run writes one outcome into the table of the collector's folder.
LEMMA FinishWrites ==
  ASSUME TypeOK, AllWork, NEW p \in Collector, Finishes(p)
  PROVE  Places(p, [Now(p) EXCEPT !.runs[proc[p].row] = Outcome(Final(p))])
<1>1. proc[p].pc \in {"finish", "print"} /\ proc[p].dir \in Folder /\ Now(p) \in Data
  BY Finals, Present
<1>2. data' = [data EXCEPT ![proc[p].dir].runs[proc[p].row] = Outcome(Final(p))]
  BY DEF Finishes, FinishRun, PrintFails, Final, At
<1>3. [Now(p) EXCEPT !.runs[proc[p].row] = Outcome(Final(p))] \in Data
  BY <1>1, Finals, OutcomeRow
<1>4. data' = [data EXCEPT ![proc[p].dir] =
                 [Now(p) EXCEPT !.runs[proc[p].row] = Outcome(Final(p))]]
  BY <1>1, <1>2 DEF Now, TypeOK
<1>5. QED
  BY <1>1, <1>3, <1>4 DEF Places

\* A process goes on to print, under its lock; otherwise the lock is given up.
LEMMA FinishMoves ==
  ASSUME TypeOK, AllWork, NEW p \in Collector, Finishes(p)
  PROVE  \/ /\ proc[p].pc = "finish" /\ p # Worker
            /\ proc[p].result = "ok" /\ flock' = flock
            /\ proc' = [proc EXCEPT ![p] = [proc[p] EXCEPT !.pc = "print"]]
         \/ /\ flock' = [flock EXCEPT ![proc[p].dir] = None]
            /\ \E result \in {"ok", "denied", "failed", "output"} :
                 proc' = [proc EXCEPT ![p] = Returned(p, result)]
<1>1. proc[p].pc = "finish" => proc[p].result \in {"ok", "denied", "failed"}
  BY DEF AllWork, Works
<1>2. CASE FinishRun(p)
  BY <1>1, <1>2 DEF FinishRun, Prints, Go, At, TypeOK
<1>3. CASE PrintFails(p)
  BY <1>3 DEF PrintFails
<1>4. QED
  BY <1>2, <1>3 DEF Finishes

\* The worker's late finish_run writes one outcome as well.
LEMMA ReportWrites ==
  ASSUME TypeOK, AllWork, ReportFailure
  PROVE  Places(Worker, [Now(Worker) EXCEPT !.runs[proc[Worker].row] =
                           Outcome(proc[Worker].result)])
<1>1. Worker \in Collector
  BY DEF Collector
<1>2. proc[Worker].dir \in Folder /\ Now(Worker) \in Data
  BY <1>1, Present DEF ReportFailure, At
<1>3. [Now(Worker) EXCEPT !.runs[proc[Worker].row] = Outcome(proc[Worker].result)] \in Data
  BY <1>1, OutcomeRow DEF ReportFailure, At, AllWork, Works
<1>4. data' = [data EXCEPT ![proc[Worker].dir] =
        [Now(Worker) EXCEPT !.runs[proc[Worker].row] = Outcome(proc[Worker].result)]]
  BY <1>2 DEF ReportFailure, Now, TypeOK
<1>5. QED
  BY <1>2, <1>3, <1>4 DEF Places

\* The other steps of collectors and requests change settings, or nothing.
Settings ==
  /\ data' \in [Folder -> Data \cup {None}]
  /\ \A f \in Folder : data[f] # None <=> data'[f] # None
  /\ \A f \in Folder : data[f] # None =>
       /\ data'[f].runs = data[f].runs
       /\ data'[f].active = data[f].active
       /\ data'[f].noted = data[f].noted

\* A step that sets switches of one folder changes settings only.
LEMMA SettingsOf ==
  ASSUME TypeOK, NEW f \in Folder, data[f] # None,
         NEW s \in BOOLEAN, NEW e \in BOOLEAN, NEW w \in BOOLEAN,
         data' = [data EXCEPT ![f] = [@ EXCEPT !.source = s, !.enabled = e, !.failed = w]]
  PROVE  Settings
BY NoneIsNothing DEF Settings, TypeOK, Data

\* A step that writes in no folder changes no more than settings.
LEMMA StayingPut == TypeOK /\ data' = data => Settings
BY DEF Settings, TypeOK

\* Where a process is that reads or writes in the folder it found first.
LEMMA AtHome ==
  ASSUME TypeOK, AllWork, NEW p \in Collector,
         proc[p].pc \in {"main", "history", "record"}
  PROVE  p \in Scheduled /\ proc[p].home \in Folder /\ data[proc[p].home] \in Data
BY NoneIsNothing DEF AllWork, Works, TypeOK, ProcState

\* What a scheduled run does after a denial changes settings only.
LEMMA HistorySettles ==
  ASSUME TypeOK, AllWork, NEW p \in Collector, ReadHistory(p)
  PROVE  Settings
<1>1. proc[p].home \in Folder /\ data[proc[p].home] \in Data
  BY AtHome DEF ReadHistory, At
<1>2. CASE ~Forbidden(LastError(proc[p].home))
  BY <1>2, StayingPut DEF ReadHistory
<1>3. CASE Forbidden(LastError(proc[p].home))
  <2>1. data' = [data EXCEPT ![proc[p].home] =
                   [@ EXCEPT !.source = FALSE, !.enabled = FALSE,
                             !.failed = data[proc[p].home].failed]]
    BY <1>1, <1>3 DEF ReadHistory, TypeOK, Data
  <2>2. data[proc[p].home].failed \in BOOLEAN
    BY <1>1 DEF Data
  <2>3. QED
    BY <1>1, <2>1, <2>2, SettingsOf, NoneIsNothing
<1>4. QED
  BY <1>2, <1>3

\* So does a step that sets one of the switches.
LEMMA FailedSettles ==
  ASSUME TypeOK, NEW f \in Folder, data[f] # None, NEW b \in BOOLEAN,
         \/ data' = [data EXCEPT ![f].failed = b]
         \/ data' = [data EXCEPT ![f].source = b]
         \/ data' = [data EXCEPT ![f].enabled = b]
  PROVE  Settings
<1>1. data[f] \in Data
  BY DEF TypeOK
<1>2. CASE data' = [data EXCEPT ![f].failed = b]
  BY <1>1, <1>2, NoneIsNothing DEF Settings, TypeOK, Data
<1>3. CASE data' = [data EXCEPT ![f].source = b]
  BY <1>1, <1>3, NoneIsNothing DEF Settings, TypeOK, Data
<1>4. CASE data' = [data EXCEPT ![f].enabled = b]
  BY <1>1, <1>4, NoneIsNothing DEF Settings, TypeOK, Data
<1>5. QED
  BY <1>2, <1>3, <1>4

\* What the server records, and what a change of folder leaves there.
LEMMA NoteWrites ==
  ASSUME TypeOK, Handles, PostNote
  PROVE  /\ data' \in [Folder -> Data \cup {None}]
         /\ \A f \in Folder : data[f] # None <=> data'[f] # None
         /\ \A f \in Folder : f # directory => data'[f] = data[f]
         /\ data'[directory].noted = acked + 1
         /\ data'[directory].runs = data[directory].runs
         /\ data'[directory].active = data[directory].active
<1>1. data[directory] \in Data /\ directory \in Folder /\ acked + 1 \in Nat
  BY DEF TypeOK, Handles
<1>2. data' = [data EXCEPT ![directory] = [@ EXCEPT !.noted = acked + 1]]
  BY DEF PostNote
<1>3. [data[directory] EXCEPT !.noted = acked + 1] \in Data
  BY <1>1 DEF Data
<1>4. QED
  BY <1>1, <1>2, <1>3, NoneIsNothing DEF TypeOK, Data

\* A copy is completed by the database as it is then.
LEMMA DatabaseCopied ==
  ASSUME TypeOK, Handles, CopyDatabase
  PROVE  /\ WithDatabase \in Data
         /\ WithDatabase.runs = data[directory].runs
         /\ WithDatabase.noted = data[directory].noted
         /\ WithDatabase.active = handler.copy.active
<1>1. handler.copy \in Data
  BY NoneIsNothing DEF CopyDatabase, Handles, TypeOK, HandlerState
<1>2. data[directory] \in Data
  BY DEF Handles, TypeOK
<1>3. QED
  BY <1>1, <1>2 DEF WithDatabase, Data

\* A staged copy appears in a folder that was vacant.
LEMMA RenameWrites ==
  ASSUME TypeOK, Handles, RenameStaged
  PROVE  /\ handler.target \in Folder /\ handler.copy \in Data
         /\ data[handler.target] = None
         /\ data' \in [Folder -> Data \cup {None}]
         /\ data'[handler.target] = handler.copy
         /\ \A f \in Folder : f # handler.target => data'[f] = data[f]
         /\ \A f \in Folder : data[f] # None => data'[f] # None
BY NoneIsNothing DEF TypeOK, Handles, HandlerState, RenameStaged

-----------------------------------------------------------------------------
(* Every step is of one of these kinds.                                    *)

\* A collector's steps that write in no folder, or only settings.
Plain(p) ==
  \/ TakeLock(p) \/ LockBusy(p) \/ (\E e \in {"denied", "failed"} : CollectFails(p, e))
  \/ Dies(p) \/ CallMain(p) \/ ReadHistory(p) \/ RecordRun(p)
  \/ StartManual(p) \/ StartScheduled(p) \/ SkipScheduled(p)
  \/ PrintTotals(p) \/ (p = Worker /\ (StartWorker \/ ReleaseMutex \/ WorkerUnwinds))

\* The steps that write in the table of runs or active.json.
Writes(p) ==
  BeginRun(p) \/ Publish(p) \/ Finishes(p) \/ (p = Worker /\ ReportFailure)

\* The server's steps.
Handling ==
  \/ PostNote \/ (\E b \in BOOLEAN : PostSource(b)) \/ PostSchedule \/ WriteSchedule
  \/ PostPreview \/ GetBackup
  \/ (\E op \in {"move", "restore"}, target \in Folder \cup {None} : PostFolder(op, target))
  \/ ChangeFolder \/ HandlerRaises \/ ServerDies \/ StartServer

\* Every step is the server's, or a collector's that writes or that does not.
LEMMA StepKinds ==
  ASSUME TypeOK, Next
  PROVE  Handling \/ \E p \in Collector : Plain(p) \/ Writes(p)
<1>1. /\ offered.errors \ {"output"} \subseteq {"denied", "failed"}
      /\ offered.edits \subseteq BOOLEAN
      /\ offered.requests \ {"schedule"} \subseteq {"move", "restore"}
      /\ offered.folders \subseteq Folder
  BY CollectionConstants DEF TypeOK
<1>2. ASSUME NEW p \in Collector, Collect(p) PROVE Plain(p) \/ Writes(p)
  <2>1. CASE \E error \in offered.errors \ {"output"} : CollectFails(p, error)
    <3>1. PICK error \in offered.errors \ {"output"} : CollectFails(p, error)
      BY <2>1
    <3>2. error \in {"denied", "failed"}
      BY <1>1, <3>1
    <3>3. QED
      BY <3>1, <3>2 DEF Plain
  <2>2. CASE \/ TakeLock(p) \/ LockBusy(p) \/ BeginRun(p) \/ Publish(p) \/ FinishRun(p)
             \/ PrintTotals(p) \/ PrintFails(p)
    BY <2>2 DEF Plain, Writes, Finishes
  <2>3. QED
    BY <1>2, <2>1, <2>2 DEF Collect
<1>3. Worker \in Collector /\ Scheduled \cup Manual \subseteq Collector
  BY DEF Collector
<1>4. CASE Work
  BY <1>2, <1>3, <1>4 DEF Work, Plain, Writes
<1>5. CASE ChangeFolder \/ WriteSchedule
  BY <1>5 DEF Handling
<1>6. CASE Serve
  <2>1. Targets \cup {None} \subseteq Folder \cup {None}
    BY <1>1 DEF Targets, Vacant
  <2>2. QED
    BY <1>1, <1>3, <1>6, <2>1 DEF Serve, Handling, Plain
<1>7. CASE Fault
  BY <1>3, <1>7 DEF Fault, Handling, Plain
<1>8. ASSUME NEW p \in Scheduled \cup Manual, Process(p) \/ Start(p) PROVE Plain(p) \/ Writes(p)
  BY <1>2, <1>3, <1>8 DEF Process, Start, Plain
<1>9. QED
  BY <1>3, <1>4, <1>5, <1>6, <1>7, <1>8 DEF Next

-----------------------------------------------------------------------------
(* Types.                                                                  *)

\* A plain step changes settings only.
LEMMA PlainSettles ==
  ASSUME TypeOK, AllWork, NEW p \in Collector, Plain(p)
  PROVE  Settings
<1>1. CASE UNCHANGED data
  BY <1>1, StayingPut
<1>2. CASE ReadHistory(p)
  BY <1>2, HistorySettles
<1>3. CASE RecordRun(p)
  <2>1. proc[p].home \in Folder /\ data[proc[p].home] \in Data
    BY <1>3, AtHome DEF RecordRun, At
  <2>2. data' = [data EXCEPT ![proc[p].home].failed = proc[p].result # "ok"]
    BY <1>3 DEF RecordRun
  <2>3. QED
    BY <2>1, <2>2, FailedSettles, NoneIsNothing
<1>4. CASE SkipScheduled(p)
  BY <1>4, FailedSettles DEF SkipScheduled, TypeOK
<1>5. QED
  BY <1>1, <1>2, <1>3, <1>4
     DEF Plain, TakeLock, LockBusy, CollectFails, Dies, CallMain, StartManual,
         StartScheduled, StartWorker, ReleaseMutex, WorkerUnwinds, PrintTotals

\* The locals a collector goes on with.
LEMMA LocalsTyped ==
  ASSUME TypeOK, NEW p \in Collector
  PROVE  /\ NoProc \in ProcState /\ proc[p] \in ProcState
         /\ \A label \in {"main", "lock", "begin", "collect", "finish", "print", "record",
                          "report", "release"} :
              [proc[p] EXCEPT !.pc = label] \in ProcState
         /\ \A result \in {"ok", "busy", "denied", "failed", "output"} :
              Returned(p, result) \in ProcState
<1>1. NoProc \in ProcState /\ proc[p] \in ProcState
  BY DEF TypeOK, NoProc, ProcState
<1>2. \A label \in {"main", "lock", "begin", "collect", "finish", "print", "record", "report",
                  "release"} :
        [proc[p] EXCEPT !.pc = label] \in ProcState
  BY <1>1 DEF ProcState
<1>3. ASSUME NEW result \in {"ok", "busy", "denied", "failed", "output"}
      PROVE  Returned(p, result) \in ProcState
  <2>1. After(p, result) \in {"release", "record", "history", "idle"}
    BY DEF After
  <2>2. [proc[p] EXCEPT !.pc = After(p, result), !.result = result] \in ProcState
    BY <1>1, <2>1 DEF ProcState
  <2>3. QED
    BY <1>1, <2>2 DEF Returned
<1>4. QED
  BY <1>1, <1>2, <1>3

\* A plain step keeps every variable's type.
LEMMA PlainTyped ==
  ASSUME TypeOK, AllWork, Handles, offered' = offered, NEW p \in Collector, Plain(p)
  PROVE  TypeOK'
<1>1. data' \in [Folder -> Data \cup {None}] /\ data'[pointer] # None
  BY PlainSettles DEF Settings, TypeOK
<1>2. UNCHANGED <<pointer, up, directory, handler, preview, archive, acked>>
  BY DEF Plain, TakeLock, LockBusy, CollectFails, Dies, CallMain, ReadHistory, RecordRun,
         StartManual, StartScheduled, SkipScheduled, StartWorker, ReleaseMutex,
         WorkerUnwinds, PrintTotals, server
<1>3. mutex' \in {Worker, "handler", None}
  BY DEF TypeOK, Plain, TakeLock, LockBusy, CollectFails, Dies, CallMain, ReadHistory,
         RecordRun, StartManual, StartScheduled, SkipScheduled, StartWorker,
         ReleaseMutex, WorkerUnwinds, PrintTotals, server
<1>4. flock' \in [Folder -> Collector \cup {"handler", None}]
  BY DEF TypeOK, Plain, TakeLock, LockBusy, CollectFails, Dies, CallMain, ReadHistory,
         RecordRun, StartManual, StartScheduled, SkipScheduled, StartWorker,
         ReleaseMutex, WorkerUnwinds, PrintTotals, server
<1>5. ASSUME NEW q \in Collector, NEW new \in ProcState, proc' = [proc EXCEPT ![q] = new]
      PROVE  proc' \in [Collector -> ProcState]
  BY <1>5 DEF TypeOK
<1>6. proc' \in [Collector -> ProcState]
  <2>0. proc[p] \in ProcState
    BY LocalsTyped
  <2>1. CASE LockBusy(p) \/ PrintTotals(p)
    BY <1>5, <2>1, LocalsTyped DEF LockBusy, PrintTotals
  <2>2. ASSUME NEW e \in {"denied", "failed"}, CollectFails(p, e)
        PROVE  proc' \in [Collector -> ProcState]
    <3>1. [proc[p] EXCEPT !.pc = IF p = Worker THEN "report" ELSE "finish", !.result = e]
            \in ProcState
      BY <2>0 DEF ProcState
    <3>2. QED
      BY <1>5, <2>2, <3>1 DEF CollectFails, TypeOK
  <2>3. CASE TakeLock(p) \/ ReadHistory(p) \/ (p = Worker /\ WorkerUnwinds)
    BY <1>5, <2>3, LocalsTyped DEF TakeLock, ReadHistory, WorkerUnwinds, Go, TypeOK
  <2>4. CASE Dies(p) \/ RecordRun(p) \/ (p = Worker /\ ReleaseMutex)
    BY <1>5, <2>4, LocalsTyped DEF Dies, RecordRun, ReleaseMutex
  <2>5. CASE CallMain(p) \/ StartManual(p) \/ StartScheduled(p) \/ (p = Worker /\ StartWorker)
    <3>1. ASSUME NEW f \in Folder
          PROVE  /\ [proc[p] EXCEPT !.pc = "lock", !.dir = f] \in ProcState
                 /\ [proc[p] EXCEPT !.pc = "main", !.home = f] \in ProcState
      BY <2>0 DEF ProcState
    <3>2. CASE CallMain(p) \/ StartManual(p)
      <4>1. proc' = [proc EXCEPT ![p] = [proc[p] EXCEPT !.pc = "lock", !.dir = pointer]]
        BY <3>2 DEF CallMain, StartManual, TypeOK
      <4>2. QED
        BY <1>5, <3>1, <4>1 DEF TypeOK
    <3>3. CASE StartScheduled(p)
      <4>1. proc' = [proc EXCEPT ![p] = [proc[p] EXCEPT !.pc = "main", !.home = pointer]]
        BY <3>3 DEF StartScheduled, TypeOK
      <4>2. QED
        BY <1>5, <3>1, <4>1 DEF TypeOK
    <3>4. CASE p = Worker /\ StartWorker
      <4>1. proc' = [proc EXCEPT ![p] = [proc[p] EXCEPT !.pc = "lock", !.dir = directory]]
        BY <3>4 DEF StartWorker, TypeOK
      <4>2. QED
        BY <1>5, <3>1, <4>1 DEF TypeOK
    <3>5. QED
      BY <2>5, <3>2, <3>3, <3>4
  <2>6. CASE SkipScheduled(p)
    BY <2>6 DEF SkipScheduled, TypeOK, server
  <2>7. QED
    BY <2>1, <2>2, <2>3, <2>4, <2>5, <2>6 DEF Plain
<1>7. QED
  BY <1>1, <1>2, <1>3, <1>4, <1>6 DEF TypeOK

\* A step that writes in a folder keeps every variable's type.
LEMMA WritesTyped ==
  ASSUME TypeOK, AllWork, offered' = offered, NEW p \in Collector, Writes(p)
  PROVE  TypeOK'
<1>1. \E d \in Data : Places(p, d)
  BY BeginWrites, PublishWrites, FinishWrites, ReportWrites DEF Writes, Places
<1>2. data' \in [Folder -> Data \cup {None}] /\ data'[pointer] # None
  BY <1>1, Wrote, NoneIsNothing DEF Places, Now, TypeOK
<1>3. UNCHANGED <<pointer, server, archive, acked>>
  BY DEF Writes, BeginRun, Publish, Finishes, FinishRun, PrintFails, ReportFailure
<1>4. flock' \in [Folder -> Collector \cup {"handler", None}]
  BY FinishMoves DEF TypeOK, Writes, BeginRun, Publish, ReportFailure
<1>5. proc' \in [Collector -> ProcState]
  <2>0. proc[p] \in ProcState
    BY LocalsTyped
  <2>1. CASE BeginRun(p)
    <3>1. Len(Now(p).runs) + 1 \in Nat
      BY <2>1, Present DEF BeginRun, At
    <3>2. [proc[p] EXCEPT !.pc = "collect", !.row = Len(Now(p).runs) + 1] \in ProcState
      BY <2>0, <3>1 DEF ProcState
    <3>3. proc' = [proc EXCEPT ![p] =
                     [proc[p] EXCEPT !.pc = "collect", !.row = Len(Now(p).runs) + 1]]
      BY <2>1 DEF BeginRun, TypeOK
    <3>4. QED
      BY <3>2, <3>3 DEF TypeOK
  <2>2. CASE Publish(p)
    <3>1. [proc[p] EXCEPT !.pc = "finish", !.result = "ok"] \in ProcState
      BY <2>0 DEF ProcState
    <3>2. proc' = [proc EXCEPT ![p] = [proc[p] EXCEPT !.pc = "finish", !.result = "ok"]]
      BY <2>2 DEF Publish, TypeOK
    <3>3. QED
      BY <3>1, <3>2 DEF TypeOK
  <2>3. CASE Finishes(p)
    <3>1. CASE proc' = [proc EXCEPT ![p] = [proc[p] EXCEPT !.pc = "print"]]
      BY <3>1, LocalsTyped DEF TypeOK
    <3>2. ASSUME NEW result \in {"ok", "denied", "failed", "output"},
                 proc' = [proc EXCEPT ![p] = Returned(p, result)]
          PROVE  proc' \in [Collector -> ProcState]
      BY <3>2, LocalsTyped DEF TypeOK
    <3>3. QED
      BY <2>3, <3>1, <3>2, FinishMoves
  <2>4. CASE p = Worker /\ ReportFailure
    <3>1. proc' = [proc EXCEPT ![p] = [proc[p] EXCEPT !.pc = "release"]]
      BY <2>4 DEF ReportFailure, Go, TypeOK
    <3>2. QED
      BY <3>1, LocalsTyped DEF TypeOK
  <2>5. QED
    BY <2>1, <2>2, <2>3, <2>4 DEF Writes
<1>6. QED
  BY <1>2, <1>3, <1>4, <1>5 DEF TypeOK, server

\* The server's steps: what they do to folders, and to the types.
LEMMA HandlingTyped ==
  ASSUME TypeOK, Handles, offered' = offered, Handling
  PROVE  TypeOK'
<1>1. /\ NoHandler \in HandlerState /\ handler \in HandlerState
      /\ handler.copy \in Data \cup {None} /\ handler.target \in Folder \cup {None}
  BY DEF NoHandler, HandlerState, TypeOK
<1>2. directory \in Folder /\ data[directory] \in Data
  BY DEF TypeOK, Handles
<1>3. ASSUME Done PROVE /\ handler' \in HandlerState
                        /\ mutex' \in {Worker, "handler", None}
                        /\ flock' \in [Folder -> Collector \cup {"handler", None}]
  BY <1>1, <1>3 DEF Done, TypeOK
<1>4. CASE PostNote
  BY <1>4, NoteWrites DEF PostNote, TypeOK, server
<1>5. ASSUME NEW b \in BOOLEAN, PostSource(b) PROVE TypeOK'
  <2>1. Settings
    BY <1>2, <1>5, FailedSettles, NoneIsNothing DEF PostSource
  <2>2. QED
    BY <1>5, <2>1 DEF PostSource, Settings, TypeOK, server
<1>6. CASE PostSchedule
  <2>1. ASSUME NEW e \in BOOLEAN
        PROVE  [NoHandler EXCEPT !.op = "schedule", !.pc = "write",
                  !.copy = [data[directory] EXCEPT !.enabled = e]] \in HandlerState
    <3>1. [data[directory] EXCEPT !.enabled = e] \in Data
      BY <1>2 DEF Data
    <3>2. QED
      BY <1>1, <3>1 DEF HandlerState, Handler
  <2>2. {data[directory].enabled} \cup offered.edits \subseteq BOOLEAN
    BY <1>2, CollectionConstants DEF Data, TypeOK
  <2>3. handler' \in HandlerState
    BY <1>6, <2>1, <2>2 DEF PostSchedule
  <2>4. QED
    BY <1>6, <2>3 DEF PostSchedule, TypeOK
<1>7. CASE WriteSchedule
  <2>1. handler.copy \in Data
    BY <1>1, <1>7, NoneIsNothing DEF WriteSchedule, Handles
  <2>2. Settings
    BY <1>2, <1>7, <2>1, FailedSettles, NoneIsNothing DEF WriteSchedule, Data
  <2>3. QED
    BY <1>3, <1>7, <2>2 DEF WriteSchedule, Settings, TypeOK
<1>8. CASE PostPreview
  BY <1>8, NoneIsNothing DEF PostPreview, TypeOK
<1>9. CASE GetBackup
  <2>1. [NoHandler EXCEPT !.op = "backup", !.pc = "files"] \in HandlerState
    BY <1>1 DEF HandlerState, Handler
  <2>2. QED
    BY <1>2, <1>9, <2>1 DEF GetBackup, TypeOK
<1>10. ASSUME NEW op \in {"move", "restore"}, NEW target \in Folder \cup {None},
              PostFolder(op, target)
       PROVE  TypeOK'
  <2>1. [NoHandler EXCEPT !.op = op, !.pc = "mutex", !.target = target] \in HandlerState
    BY <1>1 DEF HandlerState, Handler
  <2>2. QED
    BY <1>10, <2>1 DEF PostFolder, TypeOK
<1>11. CASE RefuseFolder
  BY <1>1, <1>11 DEF RefuseFolder, TypeOK
<1>12. CASE AcceptFolder
  <2>1. handler' \in HandlerState
    <3>1. CASE handler.op = "move"
      <4>1. [handler EXCEPT !.pc = "files"] \in HandlerState
        BY <1>1 DEF HandlerState
      <4>2. QED
        BY <1>12, <3>1, <4>1 DEF AcceptFolder, Step
    <3>2. CASE handler.op # "move"
      <4>1. ASSUME NEW f \in Folder
            PROVE  [handler EXCEPT !.pc = "rename", !.target = f, !.copy = preview]
                     \in HandlerState
        BY <1>1 DEF HandlerState, TypeOK
      <4>2. Vacant \subseteq Folder
        BY CollectionConstants DEF Vacant, TypeOK
      <4>3. QED
        BY <1>12, <3>2, <4>1, <4>2 DEF AcceptFolder
    <3>3. QED
      BY <3>1, <3>2
  <2>2. QED
    BY <1>12, <2>1 DEF AcceptFolder, TypeOK
<1>13. CASE CopyFiles
  <2>1. [handler EXCEPT !.pc = "database", !.copy = data[directory]] \in HandlerState
    BY <1>1, <1>2 DEF HandlerState
  <2>2. QED
    BY <1>13, <2>1 DEF CopyFiles, TypeOK
<1>14. CASE CopyDatabase
  <2>1. WithDatabase \in Data
    BY <1>14, DatabaseCopied
  <2>2. [handler EXCEPT !.pc = "rename", !.copy = WithDatabase] \in HandlerState
    BY <1>1, <2>1 DEF HandlerState
  <2>3. QED
    BY <1>3, <1>14, <2>1, <2>2 DEF CopyDatabase, TypeOK
<1>15. CASE RenameStaged
  <2>1. [handler EXCEPT !.pc = "point"] \in HandlerState
    BY <1>1 DEF HandlerState
  <2>2. data' \in [Folder -> Data \cup {None}] /\ data'[pointer] # None
    BY <1>15, RenameWrites DEF TypeOK
  <2>3. QED
    BY <1>15, <2>1, <2>2 DEF RenameStaged, Step, TypeOK
<1>16. CASE PointStartup
  <2>1. [handler EXCEPT !.pc = "switch"] \in HandlerState
    BY <1>1 DEF HandlerState
  <2>2. handler.target \in Folder /\ data[handler.target] # None
    BY <1>1, <1>16 DEF PointStartup, Handles
  <2>3. handler.copy \in Data /\ handler.copy.noted \in Nat
    BY <1>1, <1>16, NoneIsNothing DEF PointStartup, Handles, Data
  <2>4. QED
    BY <1>16, <2>1, <2>2, <2>3 DEF PointStartup, Step, TypeOK
<1>17. CASE SwitchDirectory
  <2>1. handler.target \in Folder
    BY <1>1, <1>17 DEF SwitchDirectory, Handles
  <2>2. QED
    BY <1>3, <1>17, <2>1 DEF SwitchDirectory, TypeOK
<1>18. CASE HandlerRaises
  BY <1>3, <1>18 DEF HandlerRaises, TypeOK
<1>19. CASE ServerDies
  <2>1. NoProc \in ProcState
    BY DEF NoProc, ProcState
  <2>2. QED
    BY <1>1, <1>19, <2>1 DEF ServerDies, TypeOK
<1>20. CASE StartServer
  BY <1>20 DEF StartServer, TypeOK
<1>21. QED
  BY <1>4, <1>5, <1>6, <1>7, <1>8, <1>9, <1>10, <1>11, <1>12, <1>13, <1>14, <1>15, <1>16,
     <1>17, <1>18, <1>19, <1>20 DEF Handling, ChangeFolder

\* Every step keeps every variable's type.
LEMMA Typed ==
  ASSUME TypeOK, AllWork, Handles, [Next]_vars
  PROVE  TypeOK'
<1>1. CASE UNCHANGED vars
  BY <1>1 DEF vars, server, TypeOK
<1>2. CASE Next
  <2>1. offered' = offered
    BY <1>2 DEF Next
  <2>2. QED
    BY <1>2, <2>1, StepKinds, HandlingTyped, PlainTyped, WritesTyped
<1>3. QED
  BY <1>1, <1>2

-----------------------------------------------------------------------------
(* Handlers, and what they carry over.                                     *)

\* Collectors leave every folder in place, with what was recorded there.
LEMMA CollectorsKeep ==
  ASSUME TypeOK, AllWork, NEW p \in Collector, Plain(p) \/ Writes(p)
  PROVE  /\ UNCHANGED <<pointer, up, directory, handler, preview, archive, acked>>
         /\ \A f \in Folder : data[f] # None <=> data'[f] # None
         /\ \A f \in Folder : data[f] # None => data'[f].noted = data[f].noted
<1>1. UNCHANGED <<pointer, up, directory, handler, preview, archive, acked>>
  BY DEF Plain, TakeLock, LockBusy, CollectFails, Dies, CallMain, ReadHistory, RecordRun,
         StartManual, StartScheduled, SkipScheduled, StartWorker, ReleaseMutex,
         WorkerUnwinds, PrintTotals, server, Writes, BeginRun, Publish, Finishes,
         FinishRun, PrintFails, ReportFailure
<1>2. CASE Plain(p)
  BY <1>1, <1>2, PlainSettles DEF Settings
<1>3. ASSUME NEW d \in Data, Places(p, d), d.noted = Now(p).noted
      PROVE  /\ \A f \in Folder : data[f] # None <=> data'[f] # None
             /\ \A f \in Folder : data[f] # None => data'[f].noted = data[f].noted
  <2>1. proc[p].dir \in Folder /\ data[proc[p].dir] # None
    BY <1>3, NoneIsNothing DEF Places, Now
  <2>2. /\ data'[proc[p].dir] = d
        /\ \A g \in Folder : g # proc[p].dir => data'[g] = data[g]
        /\ \A g \in Folder : data[g] # None <=> data'[g] # None
    BY <1>3, <2>1, Wrote DEF Places
  <2>3. QED
    BY <1>3, <2>1, <2>2 DEF Now
<1>4. ASSUME NEW d \in Data, Places(p, d),
             \/ \E runs : d = [Now(p) EXCEPT !.runs = runs]
             \/ \E n : d = [Now(p) EXCEPT !.active = n]
      PROVE  d.noted = Now(p).noted
  BY <1>4 DEF Places, Data
<1>5. CASE Writes(p)
  <2>1. PICK d \in Data : /\ Places(p, d)
                          /\ \/ \E runs : d = [Now(p) EXCEPT !.runs = runs]
                             \/ \E n : d = [Now(p) EXCEPT !.active = n]
    <3>1. CASE BeginRun(p)
      BY <3>1, BeginWrites DEF Places
    <3>2. CASE Publish(p)
      BY <3>2, PublishWrites DEF Places
    <3>3. CASE Finishes(p)
      BY <3>3, FinishWrites DEF Places
    <3>4. CASE p = Worker /\ ReportFailure
      BY <3>4, ReportWrites DEF Places
    <3>5. QED
      BY <1>5, <3>1, <3>2, <3>3, <3>4 DEF Writes
  <2>2. QED
    BY <1>1, <1>3, <1>4, <2>1
<1>6. QED
  BY <1>2, <1>5

\* A collector takes or gives up the mutex only as the worker.
LEMMA CollectorsMutex ==
  ASSUME TypeOK, LocksHaveOwners, NEW p \in Collector, Plain(p) \/ Writes(p)
  PROVE  mutex' = "handler" <=> mutex = "handler"
<1>1. Worker # "handler" /\ None # "handler"
  BY NoneIsNothing DEF Collector
<1>2. CASE StartWorker
  BY <1>1, <1>2 DEF StartWorker
<1>3. CASE ReleaseMutex
  BY <1>1, <1>3 DEF ReleaseMutex, LocksHaveOwners, At
<1>4. QED
  BY <1>2, <1>3
     DEF Plain, TakeLock, LockBusy, CollectFails, Dies, CallMain, ReadHistory, RecordRun,
         StartManual, StartScheduled, SkipScheduled, WorkerUnwinds, server, Writes,
         BeginRun, Publish, Finishes, FinishRun, PrintFails, PrintTotals, ReportFailure

\* The requests for source and schedule change settings only.
LEMMA SchedulesSettle ==
  ASSUME TypeOK, Handles,
         (\E b \in BOOLEAN : PostSource(b)) \/ PostSchedule \/ WriteSchedule
  PROVE  Settings
<1>1. ASSUME NEW b \in BOOLEAN, PostSource(b) PROVE Settings
  BY <1>1, FailedSettles DEF PostSource, Handles, TypeOK
<1>2. CASE PostSchedule
  BY <1>2, StayingPut DEF PostSchedule
<1>3. CASE WriteSchedule
  <2>1. handler.copy.enabled \in BOOLEAN
    BY <1>3, NoneIsNothing DEF WriteSchedule, Handles, TypeOK, HandlerState, Data
  <2>2. QED
    BY <1>3, <2>1, FailedSettles DEF WriteSchedule, Handles, TypeOK, Settings
<1>4. QED
  BY <1>1, <1>2, <1>3

\* Folders stay in place.
LEMMA FoldersStay ==
  ASSUME TypeOK, Handles, Handling
  PROVE  \A f \in Folder : data[f] # None => data'[f] # None
<1>1. CASE UNCHANGED data
  BY <1>1
<1>2. CASE (\E b \in BOOLEAN : PostSource(b)) \/ WriteSchedule
  BY <1>2, SchedulesSettle DEF Settings
<1>4. CASE PostNote
  BY <1>4, NoteWrites
<1>5. CASE RenameStaged
  BY <1>5, RenameWrites
<1>6. QED
  BY <1>1, <1>2, <1>4, <1>5
     DEF Handling, ChangeFolder, PostSchedule, PostPreview, GetBackup, PostFolder,
         RefuseFolder, AcceptFolder, CopyFiles, CopyDatabase, PointStartup,
         SwitchDirectory, HandlerRaises, ServerDies, StartServer

\* Every step leaves the handler with what its next step needs.
LEMMA HandlesKept ==
  ASSUME IInv, Next
  PROVE  Handles'
<1> USE DEF IInv
<1>1. ASSUME NEW p \in Collector, Plain(p) \/ Writes(p) PROVE Handles'
  <2>1. directory \in Folder /\ handler.target \in Folder \cup {None}
    BY DEF TypeOK, HandlerState
  <2>2. QED
    BY <1>1, <2>1, CollectorsKeep, CollectorsMutex DEF Handles
<1>2. CASE Handling
  <2> DEFINE stay == \A f \in Folder : data[f] # None => data'[f] # None
  <2>1. stay /\ directory \in Folder /\ handler.target \in Folder \cup {None}
        /\ handler \in HandlerState
    BY <1>2, FoldersStay DEF TypeOK, HandlerState
  <2>2. Worker # "handler" /\ None # "handler"
    BY NoneIsNothing DEF Collector
  <2>3. NoHandler.pc = "idle" /\ NoHandler.op = None
    BY DEF NoHandler
  <2>4. CASE PostNote \/ (\E b \in BOOLEAN : PostSource(b)) \/ PostPreview
    BY <2>1, <2>4 DEF Handles, PostNote, PostSource, PostPreview, server
  <2>5. CASE PostSchedule
    <3>1. PICK e \in {data[directory].enabled} \cup offered.edits :
            handler' = [NoHandler EXCEPT !.op = "schedule", !.pc = "write",
                                 !.copy = [data[directory] EXCEPT !.enabled = e]]
      BY <2>5 DEF PostSchedule
    <3>3. /\ handler'.pc = "write" /\ handler'.op = "schedule"
          /\ handler'.copy = [data[directory] EXCEPT !.enabled = e]
      BY <3>1 DEF NoHandler
    <3>4. data[directory] \in Data
      BY <2>1 DEF Handles, TypeOK
    <3>5. handler'.copy # None
      <4>1. e \in BOOLEAN
        BY <3>1, <3>4, CollectionConstants DEF Data, TypeOK
      <4>2. [data[directory] EXCEPT !.enabled = e] \in Data
        BY <3>4, <4>1 DEF Data
      <4>3. QED
        BY <3>3, <4>2, NoneIsNothing
    <3>6. QED
      BY <2>1, <2>2, <2>3, <2>5, <3>3, <3>5 DEF Handles, PostSchedule, Idle
  <2>6. CASE GetBackup
    BY <2>1, <2>2, <2>3, <2>6 DEF Handles, GetBackup, Idle, NoHandler
  <2>7. ASSUME NEW op \in {"move", "restore"}, NEW target \in Folder \cup {None},
               PostFolder(op, target)
        PROVE  Handles'
    BY <2>1, <2>2, <2>3, <2>7 DEF Handles, PostFolder, Idle, NoHandler
  <2>8. CASE RefuseFolder
    BY <2>1, <2>2, <2>3, <2>8 DEF Handles, RefuseFolder
  <2>9. CASE AcceptFolder
    <3>1. CASE handler.op = "move"
      BY <2>1, <2>2, <2>9, <3>1 DEF Handles, AcceptFolder, Step, HandlerState
    <3>2. CASE handler.op = "restore"
      <4>1. PICK new \in Vacant : handler' = [handler EXCEPT !.pc = "rename", !.target = new,
                                                           !.copy = preview]
        BY <2>9, <3>2 DEF AcceptFolder
      <4>2. new # None /\ preview # None
        BY <2>9, <3>2, CollectionConstants, NoneIsNothing
           DEF AcceptFolder, Refused, Vacant, TypeOK
      <4>3. /\ handler'.pc = "rename" /\ handler'.op = "restore"
            /\ handler'.target = new /\ handler'.copy = preview
        BY <2>1, <3>2, <4>1 DEF HandlerState
      <4>4. QED
        BY <2>1, <2>2, <2>9, <3>2, <4>2, <4>3 DEF Handles, AcceptFolder
    <3>3. QED
      BY <2>9, <3>1, <3>2 DEF Handles, AcceptFolder
  <2>10. CASE CopyFiles
    BY <2>1, <2>2, <2>3, <2>10 DEF Handles, CopyFiles, HandlerState
  <2>11. CASE CopyDatabase
    <3>1. WithDatabase # None
      BY <2>11, DatabaseCopied, NoneIsNothing
    <3>2. CASE handler.op = "backup"
      BY <2>1, <2>2, <2>3, <2>11, <3>2 DEF Handles, CopyDatabase, Done
    <3>3. CASE handler.op # "backup"
      BY <2>1, <2>2, <2>11, <3>1, <3>3 DEF Handles, CopyDatabase, HandlerState
    <3>4. QED
      BY <3>2, <3>3
  <2>12. CASE RenameStaged
    <3>1. data'[handler.target] # None
      BY <2>12, RenameWrites, NoneIsNothing
    <3>2. QED
      BY <2>1, <2>2, <2>3, <2>12, <3>1 DEF Handles, RenameStaged, HandlerState, Step
  <2>13. CASE PointStartup
    BY <2>1, <2>2, <2>3, <2>13 DEF Handles, PointStartup, HandlerState, Step
  <2>14. CASE SwitchDirectory
    BY <2>1, <2>2, <2>3, <2>14 DEF Handles, SwitchDirectory, Done
  <2>15. CASE WriteSchedule \/ HandlerRaises
    BY <2>1, <2>2, <2>3, <2>15 DEF Handles, WriteSchedule, HandlerRaises, Done
  <2>16. CASE ServerDies
    BY <2>1, <2>2, <2>3, <2>16 DEF Handles, ServerDies
  <2>17. CASE StartServer
    BY <2>1, <2>2, <2>3, <2>17 DEF Handles, StartServer, TypeOK
  <2>18. QED
    BY <1>2, <2>4, <2>5, <2>6, <2>7, <2>8, <2>9, <2>10, <2>11, <2>12, <2>13, <2>14, <2>15,
       <2>16, <2>17 DEF Handling, ChangeFolder
<1>3. QED
  BY <1>1, <1>2, StepKinds

\* Every step keeps what was acknowledged within reach of the startup folder.
LEMMA AcknowledgesKept ==
  ASSUME IInv, Next
  PROVE  Acknowledges'
<1> USE DEF IInv
<1>0. /\ pointer \in Folder /\ data[pointer] # None /\ directory \in Folder
      /\ handler \in HandlerState /\ handler.target \in Folder \cup {None}
  BY DEF TypeOK, HandlerState
<1>1. ASSUME NEW p \in Collector, Plain(p) \/ Writes(p) PROVE Acknowledges'
  <2>1. data'[pointer] # None /\ data'[pointer].noted = data[pointer].noted
    BY <1>0, <1>1, CollectorsKeep
  <2>2. handler.pc = "point" =>
          data'[handler.target].noted = data[handler.target].noted
    BY <1>0, <1>1, CollectorsKeep DEF Handles
  <2>3. QED
    BY <1>0, <1>1, <2>1, <2>2, CollectorsKeep DEF Acknowledges, AcknowledgedIsKept
<1>2. CASE PostNote
  BY <1>0, <1>2, NoteWrites DEF Acknowledges, AcknowledgedIsKept, PostNote, Idle, NoHandler, server
<1>3. ASSUME \/ \E b \in BOOLEAN : PostSource(b)
             \/ PostSchedule \/ WriteSchedule
      PROVE  Acknowledges'
  <2>1. Settings
    BY <1>3, SchedulesSettle
  <2>2. data'[pointer] # None /\ data'[pointer].noted = data[pointer].noted
    BY <1>0, <2>1 DEF Settings
  <2>3. UNCHANGED <<pointer, up, directory, acked>> /\ handler.pc \in {"idle", "write"}
    <3>1. UNCHANGED <<pointer, up, directory, acked>>
      BY <1>3 DEF PostSource, PostSchedule, WriteSchedule, server
    <3>2. CASE WriteSchedule
      BY <3>1, <3>2 DEF WriteSchedule
    <3>3. CASE (\E b \in BOOLEAN : PostSource(b)) \/ PostSchedule
      <4>1. handler = NoHandler
        BY <3>3 DEF PostSource, PostSchedule, Idle
      <4>2. QED
        BY <3>1, <4>1 DEF NoHandler
    <3>4. QED
      BY <1>3, <3>1, <3>2, <3>3
  <2>4. handler'.pc \in {"idle", "write"}
    <3>1. CASE PostSchedule
      <4>1. PICK e : handler' = [NoHandler EXCEPT !.op = "schedule", !.pc = "write",
                                   !.copy = [data[directory] EXCEPT !.enabled = e]]
        BY <3>1 DEF PostSchedule
      <4>2. QED
        BY <4>1 DEF NoHandler
    <3>2. CASE (\E b \in BOOLEAN : PostSource(b)) \/ WriteSchedule
      BY <3>2 DEF PostSource, WriteSchedule, server, Done, Idle, NoHandler
    <3>3. QED
      BY <1>3, <3>1, <3>2
  <2>5. QED
    BY <2>2, <2>3, <2>4 DEF Acknowledges, AcknowledgedIsKept
<1>4. CASE PostPreview \/ GetBackup
  <2>1. UNCHANGED <<data, pointer, up, directory, acked>> /\ handler.pc = "idle"
    BY <1>4 DEF PostPreview, GetBackup, Idle, NoHandler
  <2>2. handler'.pc \in {"idle", "files"} /\ handler'.op \in {None, "backup"}
    <3>1. CASE PostPreview
      BY <3>1 DEF PostPreview, Idle, NoHandler
    <3>2. CASE GetBackup
      <4>1. handler' = [op |-> "backup", pc |-> "files", target |-> None, copy |-> None]
        BY <3>2 DEF GetBackup, NoHandler
      <4>2. QED
        BY <4>1
    <3>3. QED
      BY <1>4, <3>1, <3>2
  <2>3. QED
    BY <2>1, <2>2, NoneIsNothing DEF Acknowledges, AcknowledgedIsKept
<1>5. ASSUME NEW op \in {"move", "restore"}, NEW target \in Folder \cup {None},
             PostFolder(op, target)
      PROVE  Acknowledges'
  BY <1>5 DEF Acknowledges, AcknowledgedIsKept, PostFolder, Idle, NoHandler
<1>6. CASE RefuseFolder \/ HandlerRaises
  BY <1>0, <1>6 DEF Acknowledges, AcknowledgedIsKept, RefuseFolder, HandlerRaises, Done, NoHandler
<1>7. CASE AcceptFolder
  BY <1>0, <1>7 DEF Acknowledges, AcknowledgedIsKept, AcceptFolder, Step, HandlerState
<1>8. CASE CopyFiles
  BY <1>0, <1>8 DEF Acknowledges, AcknowledgedIsKept, CopyFiles, HandlerState
<1>9. CASE CopyDatabase
  <2>1. UNCHANGED <<data, pointer, up, directory, acked>> /\ handler.pc = "database"
    BY <1>9 DEF CopyDatabase
  <2>2. data[directory].noted = acked
    BY <2>1 DEF Acknowledges, AcknowledgedIsKept, Handles
  <2>3. CASE handler.op = "backup"
    BY <1>9, <2>1, <2>3 DEF Acknowledges, AcknowledgedIsKept, CopyDatabase, Done, NoHandler
  <2>4. CASE handler.op # "backup"
    <3>1. handler'.pc = "rename" /\ handler'.copy.noted = acked
      BY <1>0, <1>9, <2>2, <2>4, DatabaseCopied DEF CopyDatabase, HandlerState
    <3>2. QED
      BY <2>1, <3>1 DEF Acknowledges, AcknowledgedIsKept
  <2>5. QED
    BY <2>3, <2>4
<1>10. CASE RenameStaged
  BY <1>0, <1>10, RenameWrites
     DEF Acknowledges, AcknowledgedIsKept, RenameStaged, HandlerState, Step
<1>11. CASE PointStartup
  BY <1>0, <1>11 DEF Acknowledges, AcknowledgedIsKept, PointStartup, HandlerState, Step, Handles
<1>12. CASE SwitchDirectory
  BY <1>0, <1>12 DEF Acknowledges, AcknowledgedIsKept, SwitchDirectory, Done, NoHandler
<1>13. CASE ServerDies \/ StartServer
  BY <1>0, <1>13 DEF Acknowledges, AcknowledgedIsKept, ServerDies, StartServer, NoHandler
<1>14. QED
  BY <1>1, <1>2, <1>3, <1>4, <1>5, <1>6, <1>7, <1>8, <1>9, <1>10, <1>11, <1>12, <1>13,
     StepKinds DEF Handling, ChangeFolder

-----------------------------------------------------------------------------
(* Soundness of what is published.                                         *)

\* Settings, and what is recorded, have no part in it.
LEMMA SoundByRuns ==
  ASSUME NEW d, NEW e, d.runs = e.runs, d.active = e.active, Sound(d)
  PROVE  Sound(e)
BY DEF Sound

\* begin_run leaves what is published in accord with the table.
LEMMA BegunSound ==
  ASSUME NEW d \in Data, Sound(d)
  PROVE  Sound([d EXCEPT !.runs = Begun(d.runs)])
<1> DEFINE e == [d EXCEPT !.runs = Begun(d.runs)]
<1>1. d.runs \in Seq(Row) /\ d.active \in Nat /\ e.runs = Begun(d.runs) /\ e.active = d.active
  BY DEF Data
<1>2. DOMAIN d.runs = 1..Len(d.runs) /\ Len(d.runs) \in Nat
  BY <1>1
<1>3. ASSUME NEW i \in DOMAIN e.runs
      PROVE  /\ e.runs[i].outcome = "success" => i <= e.active
             /\ e.runs[i].error = "interrupted" => e.runs[i].outcome = "error"
             /\ e.runs[i].outcome = "running" => e.runs[i].error = None
  <2>1. CASE i = Len(d.runs) + 1
    <3>1. e.runs[i] = [outcome |-> "running", error |-> None]
      BY <1>1, <2>1, BegunRows
    <3>2. QED
      BY <3>1, NoneIsNothing
  <2>2. CASE i \in DOMAIN d.runs
    <3>1. e.runs[i] = Interrupted(d.runs[i])
      BY <1>1, <2>2, BegunRows
    <3>2. CASE d.runs[i].outcome = "running"
      BY <3>1, <3>2 DEF Interrupted
    <3>3. CASE d.runs[i].outcome # "running"
      BY <1>1, <2>2, <3>1, <3>3 DEF Interrupted, Sound
    <3>4. QED
      BY <3>2, <3>3
  <2>3. QED
    BY <1>1, <1>2, <2>1, <2>2, BegunRows
<1>4. ASSUME e.active > 0
      PROVE  e.active \in DOMAIN e.runs /\ e.runs[e.active].error \notin {"denied", "failed"}
  <2>1. d.active \in DOMAIN d.runs /\ d.runs[d.active].error \notin {"denied", "failed"}
    BY <1>1, <1>4 DEF Sound
  <2>2. e.active \in DOMAIN e.runs /\ e.runs[e.active] = Interrupted(d.runs[d.active])
    BY <1>1, <1>2, <2>1, BegunRows
  <2>3. QED
    BY <2>1, <2>2 DEF Interrupted
<1>5. QED
  BY <1>3, <1>4 DEF Sound

\* A run that is under way publishes.
LEMMA PublishedSound ==
  ASSUME NEW d \in Data, Sound(d), d.runs # <<>>, d.runs[Len(d.runs)].outcome = "running"
  PROVE  Sound([d EXCEPT !.active = Len(d.runs)])
<1> DEFINE e == [d EXCEPT !.active = Len(d.runs)]
<1>1. d.runs \in Seq(Row) /\ d.active \in Nat /\ Len(d.runs) \in Nat \ {0}
  BY DEF Data
<1>2. e.runs = d.runs /\ e.active = Len(d.runs) /\ DOMAIN d.runs = 1..Len(d.runs)
  BY <1>1 DEF Data
<1>3. Len(d.runs) \in DOMAIN d.runs /\ d.runs[Len(d.runs)].error = None
  BY <1>1, <1>2 DEF Sound
<1>4. QED
  BY <1>1, <1>2, <1>3, NoneIsNothing DEF Sound

\* A run under way ends, and what is published is or is not its own.
LEMMA OutcomeSound ==
  ASSUME NEW d \in Data, Sound(d), NEW row \in DOMAIN d.runs,
         NEW result \in {"ok", "denied", "failed", "output"},
         result \in {"ok", "output"} => d.active = row,
         result \in {"denied", "failed"} => d.active # row
  PROVE  Sound([d EXCEPT !.runs[row] = Outcome(result)])
<1> DEFINE e == [d EXCEPT !.runs[row] = Outcome(result)]
<1>1. d.runs \in Seq(Row) /\ d.active \in Nat /\ DOMAIN d.runs = 1..Len(d.runs)
  BY DEF Data
<1>2. /\ e.active = d.active /\ DOMAIN e.runs = DOMAIN d.runs
      /\ e.runs[row] = Outcome(result)
      /\ \A i \in DOMAIN d.runs : i # row => e.runs[i] = d.runs[i]
  BY <1>1 DEF Data
<1>3. /\ Outcome(result).outcome \in {"success", "error"}
      /\ Outcome(result).outcome = "success" => result = "ok"
      /\ Outcome(result).error # "interrupted"
      /\ result \in {"ok", "output"} => Outcome(result).error \notin {"denied", "failed"}
  BY NoneIsNothing DEF Outcome
<1>4. ASSUME NEW i \in DOMAIN d.runs
      PROVE  /\ e.runs[i].outcome = "success" => i <= e.active
             /\ e.runs[i].error = "interrupted" => e.runs[i].outcome = "error"
             /\ e.runs[i].outcome = "running" => e.runs[i].error = None
  <2>1. CASE i = row
    BY <1>1, <1>2, <1>3, <2>1
  <2>2. CASE i # row
    BY <1>2, <2>2 DEF Sound
  <2>3. QED
    BY <2>1, <2>2
<1>5. ASSUME d.active > 0
      PROVE  e.active \in DOMAIN e.runs /\ e.runs[e.active].error \notin {"denied", "failed"}
  <2>1. d.active \in DOMAIN d.runs /\ d.runs[d.active].error \notin {"denied", "failed"}
    BY <1>5 DEF Sound
  <2>2. QED
    BY <1>2, <1>3, <2>1
<1>6. QED
  BY <1>2, <1>4, <1>5 DEF Sound

\* One folder's data is replaced by sound ones.
LEMMA PlacesSound ==
  ASSUME TypeOK, AllSound, NEW p \in Collector, NEW d, Places(p, d), Sound(d)
  PROVE  /\ \A f \in Folder : data'[f] # None => Sound(data'[f])
         /\ \A f \in Folder : f # proc[p].dir => data'[f] = data[f]
         /\ data'[proc[p].dir] = d
<1>1. proc[p].dir \in Folder /\ data[proc[p].dir] # None /\ d \in Data
  BY NoneIsNothing DEF Places, Now
<1>2. /\ data'[proc[p].dir] = d
      /\ \A g \in Folder : g # proc[p].dir => data'[g] = data[g]
  BY <1>1, Wrote DEF Places
<1>3. QED
  BY <1>2 DEF AllSound

\* Where a collector writes, and that it leaves published and recorded runs in accord.
LEMMA WritesSound ==
  ASSUME IInv, NEW p \in Collector, Writes(p)
  PROVE  /\ \A f \in Folder : data'[f] # None => Sound(data'[f])
         /\ \A f \in Folder : f # proc[p].dir => data'[f] = data[f]
         /\ ReportFailure => data'[proc[p].dir].active = Now(p).active
<1> USE DEF IInv
<1>1. ASSUME proc[p].pc \in {"lock", "begin", "collect", "finish", "print", "report"}
      PROVE  Sound(Now(p)) /\ Now(p) \in Data
  BY <1>1, Present, NoneIsNothing DEF AllSound, Now
<1>2. CASE BeginRun(p)
  <2>1. Sound(Now(p)) /\ Now(p) \in Data /\ At(p, "begin")
    BY <1>1, <1>2 DEF BeginRun, At
  <2>2. ~ReportFailure \/ p # Worker
    BY <2>1 DEF ReportFailure, At
  <2>3. Sound([Now(p) EXCEPT !.runs = Begun(Now(p).runs)])
    BY <2>1, BegunSound
  <2>4. data'[proc[p].dir] = [Now(p) EXCEPT !.runs = Begun(Now(p).runs)]
    BY <1>2, <2>3, BeginWrites, PlacesSound
  <2>5. data'[proc[p].dir].active = Now(p).active
    BY <2>1, <2>4 DEF Data
  <2>6. QED
    BY <1>2, <2>3, <2>5, BeginWrites, PlacesSound
<1>3. CASE Publish(p)
  <2>1. Sound(Now(p)) /\ Now(p) \in Data /\ At(p, "collect")
    BY <1>1, <1>3 DEF Publish, At
  <2>2. /\ proc[p].row \in DOMAIN Now(p).runs /\ proc[p].row = Len(Now(p).runs)
        /\ Now(p).runs[proc[p].row].outcome = "running"
    BY <2>1 DEF AllWork, Works, At, LocksHaveOwners, LiveRunsAreRunning
  <2>3. Now(p).runs # <<>>
    BY <2>2
  <2>4. Sound([Now(p) EXCEPT !.active = proc[p].row])
    BY <2>1, <2>2, <2>3, PublishedSound
  <2>5. ~ReportFailure
    <3>1. CASE ReportFailure
      <4>1. proc[Worker].pc = "report" /\ Worker \in Collector
        BY <3>1 DEF ReportFailure, At, Collector
      <4>2. proc' = [proc EXCEPT ![p].pc = "finish", ![p].result = "ok"]
        BY <1>3 DEF Publish
      <4>3. proc' = [proc EXCEPT ![Worker].pc = "release"]
        BY <3>1 DEF ReportFailure, Go
      <4>4. p # Worker
        BY <2>1, <4>1 DEF At
      <4>5. proc'[p].pc = "finish" /\ proc'[p].pc = "collect"
        BY <2>1, <4>1, <4>2, <4>3, <4>4 DEF At, TypeOK, ProcState
      <4>6. QED
        BY <4>5
    <3>2. QED
      BY <3>1
  <2>6. QED
    BY <1>3, <2>4, <2>5, PublishWrites, PlacesSound
<1>4. CASE Finishes(p)
  <2> DEFINE d == [Now(p) EXCEPT !.runs[proc[p].row] = Outcome(Final(p))]
  <2>1. Sound(Now(p)) /\ Now(p) \in Data /\ proc[p].pc \in {"finish", "print"}
    BY <1>1, <1>4, Finals
  <2>2. Places(p, d)
    BY <1>4, FinishWrites
  <2>3. proc[p].row \in DOMAIN Now(p).runs
    BY <2>1 DEF AllWork, Works
  <2>4. Sound(d)
    BY <1>4, <2>1, <2>3, Finals, OutcomeSound
  <2>5. data'[proc[p].dir] = d
    BY <2>2, <2>4, PlacesSound
  <2>6. data'[proc[p].dir].active = Now(p).active
    BY <2>1, <2>5 DEF Data
  <2>7. QED
    BY <2>2, <2>4, <2>6, PlacesSound
<1>5. CASE p = Worker /\ ReportFailure
  <2> DEFINE d == [Now(p) EXCEPT !.runs[proc[p].row] = Outcome(proc[p].result)]
  <2>1. Sound(Now(p)) /\ Now(p) \in Data /\ At(p, "report")
    BY <1>1, <1>5 DEF ReportFailure, At
  <2>2. /\ proc[p].row \in DOMAIN Now(p).runs
        /\ proc[p].result \in {"denied", "failed"}
        /\ Now(p).active # proc[p].row
    BY <2>1 DEF AllWork, Works, At
  <2>3. Sound(d)
    BY <2>1, <2>2, OutcomeSound
  <2>4. Places(p, d)
    BY <1>5, ReportWrites
  <2>5. data'[proc[p].dir] = d
    BY <2>3, <2>4, PlacesSound
  <2>6. data'[proc[p].dir].active = Now(p).active
    BY <2>1, <2>5 DEF Data
  <2>7. QED
    BY <2>3, <2>4, <2>6, PlacesSound
<1>6. QED
  BY <1>2, <1>3, <1>4, <1>5 DEF Writes

\* So does a change of settings.
LEMMA SettingsSound ==
  ASSUME AllSound, Settings
  PROVE  \A f \in Folder : data'[f] # None => Sound(data'[f])
BY SoundByRuns DEF AllSound, Settings

\* Every step leaves every folder and every copy in accord with its table.
LEMMA AllSoundKept ==
  ASSUME IInv, Next
  PROVE  AllSound'
<1> USE DEF IInv
<1> DEFINE folders == \A f \in Folder : data'[f] # None => Sound(data'[f])
<1>0. /\ directory \in Folder /\ handler \in HandlerState
      /\ data[directory] \in Data /\ Sound(data[directory])
  BY DEF TypeOK, Handles, AllSound
<1>1. ASSUME NEW p \in Collector, Plain(p) PROVE AllSound'
  <2>1. folders
    BY <1>1, PlainSettles, SettingsSound
  <2>2. data'[directory].active = data[directory].active
    BY <1>0, <1>1, PlainSettles DEF Settings, Handles
  <2>3. UNCHANGED <<directory, handler, preview, archive>>
    BY <1>1, CollectorsKeep
  <2>4. QED
    BY <2>1, <2>2, <2>3 DEF AllSound
<1>2. ASSUME NEW p \in Collector, Writes(p) PROVE AllSound'
  <2>1. folders
    BY <1>2, WritesSound
  <2>2. UNCHANGED <<directory, handler, preview, archive>>
    BY <1>2, CollectorsKeep
  <2>3. ASSUME handler.pc = "database" PROVE data'[directory].active = data[directory].active
    <3>1. flock[directory] = "handler"
      BY <1>0, <2>3 DEF LocksHaveOwners
    <3>2. flock[directory] # p
      BY <3>1, NoneIsNothing
    <3>3. CASE proc[p].dir # directory
      BY <1>0, <1>2, <3>3, WritesSound
    <3>4. CASE proc[p].dir = directory
      <4>1. proc[p].pc \notin {"begin", "collect", "finish", "print"}
        BY <1>0, <3>2, <3>4 DEF LocksHaveOwners
      <4>2. p = Worker /\ ReportFailure
        BY <1>2, <4>1, Finals DEF Writes, BeginRun, Publish, At
      <4>3. QED
        BY <1>2, <3>4, <4>2, WritesSound DEF Now
    <3>5. QED
      BY <3>3, <3>4
  <2>4. QED
    BY <2>1, <2>2, <2>3 DEF AllSound
<1>3. CASE PostNote
  <2>1. folders
    <3>1. ASSUME NEW f \in Folder, data'[f] # None PROVE Sound(data'[f])
      <4>1. data[f] # None /\ Sound(data[f])
        BY <1>3, <3>1, NoteWrites DEF AllSound
      <4>2. data'[f].runs = data[f].runs /\ data'[f].active = data[f].active
        BY <1>3, <3>1, NoteWrites
      <4>3. QED
        BY <4>1, <4>2, SoundByRuns
    <3>2. QED
      BY <3>1
  <2>2. UNCHANGED <<handler, preview, archive>> /\ handler = NoHandler
    BY <1>3 DEF PostNote, Idle, server
  <2>3. handler.pc = "idle"
    BY <2>2 DEF NoHandler
  <2>4. QED
    BY <2>1, <2>2, <2>3 DEF AllSound
<1>4. CASE (\E b \in BOOLEAN : PostSource(b)) \/ PostSchedule \/ WriteSchedule
  <2>1. folders
    BY <1>4, SchedulesSettle, SettingsSound
  <2>2. UNCHANGED <<preview, archive>>
    BY <1>4 DEF PostSource, PostSchedule, WriteSchedule, server
  <2>3. handler'.pc \in {"idle", "write"}
    <3>1. CASE \E b \in BOOLEAN : PostSource(b)
      BY <3>1 DEF PostSource, Idle, server, NoHandler
    <3>2. CASE PostSchedule
      <4>1. PICK e : handler' = [NoHandler EXCEPT !.op = "schedule", !.pc = "write",
                                   !.copy = [data[directory] EXCEPT !.enabled = e]]
        BY <3>2 DEF PostSchedule
      <4>2. QED
        BY <4>1 DEF NoHandler
    <3>3. CASE WriteSchedule
      BY <3>3 DEF WriteSchedule, Done, NoHandler
    <3>4. QED
      BY <1>4, <3>1, <3>2, <3>3
  <2>4. QED
    BY <2>1, <2>2, <2>3 DEF AllSound
<1>5. CASE PostPreview
  <2>1. UNCHANGED <<data, handler, archive>> /\ preview' = archive /\ handler = NoHandler
    BY <1>5 DEF PostPreview, Idle
  <2>2. handler.pc = "idle"
    BY <2>1 DEF NoHandler
  <2>3. QED
    BY <2>1, <2>2 DEF AllSound
<1>6. CASE GetBackup
  <2>1. UNCHANGED <<data, preview, archive>> /\ handler'.pc = "files"
    BY <1>6 DEF GetBackup, NoHandler
  <2>2. QED
    BY <2>1 DEF AllSound
<1>7. ASSUME NEW op \in {"move", "restore"}, NEW target \in Folder \cup {None},
             PostFolder(op, target)
      PROVE  AllSound'
  <2>1. UNCHANGED <<data, preview, archive>> /\ handler'.pc = "mutex"
    BY <1>7 DEF PostFolder, NoHandler
  <2>2. QED
    BY <2>1 DEF AllSound
<1>8. CASE RefuseFolder \/ HandlerRaises \/ SwitchDirectory
  <2>1. UNCHANGED <<data, preview, archive>> /\ handler'.pc = "idle"
    BY <1>8 DEF RefuseFolder, HandlerRaises, SwitchDirectory, Done, NoHandler
  <2>2. QED
    BY <2>1 DEF AllSound
<1>9. CASE AcceptFolder
  <2>1. CASE handler.op = "move"
    <3>1. UNCHANGED <<data, preview, archive>> /\ handler'.pc = "files"
      BY <1>0, <1>9, <2>1 DEF AcceptFolder, Step, HandlerState
    <3>2. QED
      BY <3>1 DEF AllSound
  <2>2. CASE handler.op # "move"
    <3>1. handler.op = "restore" /\ preview # None
      BY <1>9, <2>2 DEF AcceptFolder, Refused, Handles
    <3>2. PICK new \in Vacant : handler' = [handler EXCEPT !.pc = "rename", !.target = new,
                                                         !.copy = preview]
      BY <1>9, <2>2 DEF AcceptFolder
    <3>3. handler'.pc = "rename" /\ handler'.copy = preview
      BY <1>0, <3>2 DEF HandlerState
    <3>4. UNCHANGED <<data, archive>> /\ preview' = None
      BY <1>9, <2>2 DEF AcceptFolder
    <3>5. QED
      BY <3>1, <3>3, <3>4 DEF AllSound
  <2>3. QED
    BY <2>1, <2>2
<1>10. CASE CopyFiles
  <2>1. /\ UNCHANGED <<data, directory, preview, archive>>
        /\ handler'.pc = "database" /\ handler'.copy = data[directory]
    BY <1>0, <1>10 DEF CopyFiles, HandlerState
  <2>2. QED
    BY <2>1 DEF AllSound
<1>11. CASE CopyDatabase
  <2>1. UNCHANGED <<data, preview>> /\ handler.pc = "database"
    BY <1>11 DEF CopyDatabase
  <2>2. Sound(WithDatabase)
    BY <1>0, <1>11, <2>1, DatabaseCopied, SoundByRuns DEF AllSound
  <2>3. CASE handler.op = "backup"
    <3>1. archive' = WithDatabase /\ handler'.pc = "idle"
      BY <1>11, <2>3 DEF CopyDatabase, Done, NoHandler
    <3>2. QED
      BY <2>1, <2>2, <3>1 DEF AllSound
  <2>4. CASE handler.op # "backup"
    <3>1. UNCHANGED archive /\ handler'.pc = "rename" /\ handler'.copy = WithDatabase
      BY <1>0, <1>11, <2>4 DEF CopyDatabase, HandlerState
    <3>2. QED
      BY <2>1, <2>2, <3>1 DEF AllSound
  <2>5. QED
    BY <2>3, <2>4
<1>12. CASE RenameStaged
  <2>1. UNCHANGED <<preview, archive>> /\ handler'.pc = "point" /\ handler.pc = "rename"
    BY <1>0, <1>12 DEF RenameStaged, Step, HandlerState
  <2>2. folders
    BY <1>12, <2>1, RenameWrites DEF AllSound
  <2>3. QED
    BY <2>1, <2>2 DEF AllSound
<1>13. CASE PointStartup
  <2>1. UNCHANGED <<data, preview, archive>> /\ handler'.pc = "switch"
    BY <1>0, <1>13 DEF PointStartup, Step, HandlerState
  <2>2. QED
    BY <2>1 DEF AllSound
<1>14. CASE ServerDies
  <2>1. UNCHANGED <<data, archive>> /\ preview' = None /\ handler'.pc = "idle"
    BY <1>14 DEF ServerDies, NoHandler
  <2>2. QED
    BY <2>1 DEF AllSound
<1>15. CASE StartServer
  <2>1. UNCHANGED <<data, preview, archive, handler>> /\ handler.pc = "idle"
    BY <1>0, <1>15 DEF StartServer, Handles, HandlerState
  <2>2. QED
    BY <2>1 DEF AllSound
<1>16. QED
  BY <1>1, <1>2, <1>3, <1>4, <1>5, <1>6, <1>7, <1>8, <1>9, <1>10, <1>11, <1>12, <1>13, <1>14,
     <1>15, StepKinds DEF Handling, ChangeFolder

-----------------------------------------------------------------------------
(* What collectors have.                                                   *)

\* A collection under way is shown as running, or as a success while it prints.
Live(p) ==
  proc[p].pc \in {"collect", "finish", "print"} =>
    /\ Now(p) # None /\ proc[p].row \in DOMAIN Now(p).runs
    /\ Now(p).runs[proc[p].row].outcome = IF At(p, "print") THEN "success" ELSE "running"

\* A step that leaves a collector, its folder's runs and the worker's report alone.
LEMMA WorkFramed ==
  ASSUME TypeOK, NEW q \in Collector, Works(q), Live(q), proc'[q] = proc[q],
         \A f \in Folder : data[f] # None => data'[f] # None,
         proc[q].dir # None /\ data[proc[q].dir] # None =>
           /\ data'[proc[q].dir].runs = data[proc[q].dir].runs
           /\ data'[proc[q].dir].active = data[proc[q].dir].active,
         proc'[Worker].pc = "report" =>
           \/ proc'[Worker] = proc[Worker]
           \/ proc[q].pc \notin {"collect", "finish", "print"}
           \/ proc'[Worker].dir # proc[q].dir
  PROVE  Works(q)' /\ Live(q)'
<1>1. proc[q].dir \in Folder \cup {None} /\ proc[q].home \in Folder \cup {None}
  BY DEF TypeOK, ProcState
<1>2. /\ proc[q].pc \in {"lock", "begin", "collect", "finish", "print", "report"} =>
           /\ proc[q].dir # None /\ Now(q) # None /\ Now(q)' # None
           /\ Now(q)'.runs = Now(q).runs /\ Now(q)'.active = Now(q).active
      /\ q \in Scheduled /\ proc[q].pc # "idle" =>
           proc[q].home # None /\ data'[proc[q].home] # None
  BY <1>1 DEF Works, Now
<1>3. Live(q)'
  BY <1>2 DEF Live, At
<1>4. /\ proc[q].pc \in {"main", "history", "record"} => q \in Scheduled
      /\ proc[q].pc \in {"report", "release"} => q = Worker
      /\ proc[q].pc \in {"collect", "finish", "print", "report"} =>
           proc[q].row \in DOMAIN Now(q)'.runs
      /\ proc[q].pc \in {"collect", "finish", "print"} => proc[q].row = Len(Now(q)'.runs)
      /\ proc[q].pc \in {"collect", "report"} => Now(q)'.active # proc[q].row
      /\ proc[q].pc = "finish" =>
           /\ proc[q].result \in {"ok", "denied", "failed"}
           /\ proc[q].result = "ok" <=> Now(q)'.active = proc[q].row
      /\ proc[q].pc = "print" => q # Worker /\ Now(q)'.active = proc[q].row
      /\ proc[q].pc = "report" =>
           /\ proc[q].result \in {"denied", "failed"}
           /\ \/ Now(q)'.runs[proc[q].row].outcome = "running"
              \/ Now(q)'.runs[proc[q].row].error = "interrupted"
  BY <1>2 DEF Works
<1>5. proc[q].pc \in {"collect", "finish", "print"} /\ At(Worker, "report")'
        /\ proc[q].dir = proc'[Worker].dir => proc[q].row # proc'[Worker].row
  BY DEF Works, At
<1>6. QED
  BY <1>2, <1>3, <1>4, <1>5 DEF Works

\* How a plain step moves its collector.
LEMMA PlainMoves ==
  ASSUME TypeOK, NEW p \in Collector, Plain(p)
  PROVE  \E s : /\ proc' = [proc EXCEPT ![p] = s]
                /\ s.pc = "report" =>
                     p = Worker /\ proc[p].pc = "collect" /\ s.dir = proc[p].dir
<1>1. proc \in [Collector -> ProcState] /\ proc[p] \in ProcState /\ Worker \in Collector
  BY DEF TypeOK, Collector
<1>2. NoProc.pc = "idle"
  BY DEF NoProc
<1>3. CASE TakeLock(p)
  <2>1. proc' = [proc EXCEPT ![p] = [proc[p] EXCEPT !.pc = "begin"]]
    BY <1>1, <1>3 DEF TakeLock, Go
  <2>2. [proc[p] EXCEPT !.pc = "begin"].pc = "begin"
    BY <1>1 DEF ProcState
  <2>3. QED
    BY <2>1, <2>2
<1>4. CASE LockBusy(p) \/ PrintTotals(p)
  <2>1. PICK result : proc' = [proc EXCEPT ![p] = Returned(p, result)]
    BY <1>4 DEF LockBusy, PrintTotals
  <2>2. Returned(p, result).pc # "report"
    BY <1>1, <1>2 DEF Returned, After, ProcState
  <2>3. QED
    BY <2>1, <2>2
<1>5. ASSUME NEW e \in {"denied", "failed"}, CollectFails(p, e)
      PROVE  \E s : /\ proc' = [proc EXCEPT ![p] = s]
                    /\ s.pc = "report" =>
                         p = Worker /\ proc[p].pc = "collect" /\ s.dir = proc[p].dir
  <2> DEFINE s == [proc[p] EXCEPT !.pc = IF p = Worker THEN "report" ELSE "finish",
                                  !.result = e]
  <2>1. proc' = [proc EXCEPT ![p] = s]
    BY <1>1, <1>5 DEF CollectFails
  <2>2. s.dir = proc[p].dir /\ (s.pc = "report" => p = Worker) /\ proc[p].pc = "collect"
    BY <1>1, <1>5 DEF CollectFails, At, ProcState
  <2>3. QED
    BY <2>1, <2>2
<1>6. CASE Dies(p)
  BY <1>2, <1>6 DEF Dies
<1>7. CASE CallMain(p) \/ StartManual(p)
  <2>1. proc' = [proc EXCEPT ![p] = [proc[p] EXCEPT !.pc = "lock", !.dir = pointer]]
    BY <1>1, <1>7 DEF CallMain, StartManual
  <2>2. [proc[p] EXCEPT !.pc = "lock", !.dir = pointer].pc = "lock"
    BY <1>1 DEF ProcState
  <2>3. QED
    BY <2>1, <2>2
<1>8. CASE ReadHistory(p)
  <2>1. proc' = [proc EXCEPT ![p] = [proc[p] EXCEPT !.pc = "record"]]
    BY <1>1, <1>8 DEF ReadHistory, Go
  <2>2. [proc[p] EXCEPT !.pc = "record"].pc = "record"
    BY <1>1 DEF ProcState
  <2>3. QED
    BY <2>1, <2>2
<1>9. CASE RecordRun(p)
  BY <1>2, <1>9 DEF RecordRun
<1>10. CASE StartScheduled(p)
  <2>1. proc' = [proc EXCEPT ![p] = [proc[p] EXCEPT !.pc = "main", !.home = pointer]]
    BY <1>1, <1>10 DEF StartScheduled
  <2>2. [proc[p] EXCEPT !.pc = "main", !.home = pointer].pc = "main"
    BY <1>1 DEF ProcState
  <2>3. QED
    BY <2>1, <2>2
<1>11. CASE SkipScheduled(p)
  <2>1. proc' = [proc EXCEPT ![p] = proc[p]] /\ proc[p].pc = "idle"
    BY <1>1, <1>11 DEF SkipScheduled, At
  <2>2. QED
    BY <2>1
<1>12. CASE p = Worker /\ StartWorker
  <2>1. proc' = [proc EXCEPT ![p] = [proc[p] EXCEPT !.pc = "lock", !.dir = directory]]
    BY <1>1, <1>12 DEF StartWorker
  <2>2. [proc[p] EXCEPT !.pc = "lock", !.dir = directory].pc = "lock"
    BY <1>1 DEF ProcState
  <2>3. QED
    BY <2>1, <2>2
<1>13. CASE p = Worker /\ ReleaseMutex
  BY <1>2, <1>13 DEF ReleaseMutex
<1>14. CASE p = Worker /\ WorkerUnwinds
  <2>1. proc' = [proc EXCEPT ![p] = [proc[p] EXCEPT !.pc = "release"]]
    BY <1>1, <1>14 DEF WorkerUnwinds, Go
  <2>2. [proc[p] EXCEPT !.pc = "release"].pc = "release"
    BY <1>1 DEF ProcState
  <2>3. QED
    BY <2>1, <2>2
<1>15. QED
  BY <1>3, <1>4, <1>5, <1>6, <1>7, <1>8, <1>9, <1>10, <1>11, <1>12, <1>13, <1>14 DEF Plain

\* A collector that is not, or no longer, at work in a table.
LEMMA WorkAway ==
  ASSUME TypeOK', NEW p \in Collector,
         \A f \in Folder : data[f] # None => data'[f] # None,
         proc'[p].pc \in {"idle", "main", "history", "record", "release", "lock", "begin"},
         proc'[p].pc \in {"main", "history", "record"} => p \in Scheduled,
         proc'[p].pc = "release" => p = Worker,
         proc'[p].pc \in {"lock", "begin"} =>
           proc'[p].dir # None /\ data[proc'[p].dir] # None,
         p \in Scheduled /\ proc'[p].pc # "idle" =>
           proc'[p].home # None /\ data[proc'[p].home] # None
  PROVE  Works(p)' /\ Live(p)'
<1>1. proc'[p].dir \in Folder \cup {None} /\ proc'[p].home \in Folder \cup {None}
  BY DEF TypeOK, ProcState
<1>2. /\ proc'[p].pc \in {"lock", "begin"} => proc'[p].dir # None /\ Now(p)' # None
      /\ p \in Scheduled /\ proc'[p].pc # "idle" =>
           proc'[p].home # None /\ data'[proc'[p].home] # None
  BY <1>1 DEF Now
<1>3. QED
  BY <1>2 DEF Works, Live

\* A plain step leaves its collector with what that needs next.
LEMMA PlainOwn ==
  ASSUME IInv, TypeOK', NEW p \in Collector, Plain(p)
  PROVE  Works(p)' /\ Live(p)'
<1> USE DEF IInv
<1>1. /\ proc \in [Collector -> ProcState] /\ proc[p] \in ProcState
      /\ Works(p) /\ Live(p) /\ Worker \notin Scheduled \cup Manual
      /\ pointer \in Folder /\ data[pointer] # None
      /\ directory \in Folder /\ data[directory] # None
  BY CollectionConstants
     DEF TypeOK, AllWork, LocksHaveOwners, LiveRunsAreRunning, Live, Handles
<1>2. /\ Settings
      /\ \A f \in Folder : data[f] # None => data'[f] # None
  BY PlainSettles DEF Settings
<1>3. NoProc.pc = "idle" /\ pointer # None /\ directory # None
  BY <1>1, NoneIsNothing DEF NoProc
<1>4. CASE TakeLock(p)
  <2>1. proc' = [proc EXCEPT ![p] = [proc[p] EXCEPT !.pc = "begin"]] /\ proc[p].pc = "lock"
    BY <1>1, <1>4 DEF TakeLock, Go, At
  <2>2. proc'[p].pc = "begin" /\ proc'[p].dir = proc[p].dir /\ proc'[p].home = proc[p].home
    BY <1>1, <2>1 DEF ProcState
  <2>3. QED
    BY <1>1, <1>2, <2>1, <2>2, WorkAway DEF Works, Now
<1>5. CASE LockBusy(p) \/ PrintTotals(p)
  <2>1. PICK result : /\ proc' = [proc EXCEPT ![p] = Returned(p, result)]
                      /\ proc[p].pc \in {"lock", "print"}
    BY <1>5 DEF LockBusy, PrintTotals, At
  <2>2. /\ proc'[p].pc \in {"idle", "history", "record", "release"}
        /\ proc'[p].pc \in {"history", "record"} => p \in Scheduled
        /\ proc'[p].pc = "release" => p = Worker
        /\ proc'[p].pc # "idle" => proc'[p].home = proc[p].home
    BY <1>1, <1>3, <2>1 DEF Returned, After, ProcState
  <2>3. QED
    BY <1>1, <1>2, <2>1, <2>2, WorkAway DEF Works
<1>6. ASSUME NEW e \in {"denied", "failed"}, CollectFails(p, e)
      PROVE  Works(p)' /\ Live(p)'
  <2> DEFINE s == [proc[p] EXCEPT !.pc = IF p = Worker THEN "report" ELSE "finish",
                                  !.result = e]
  <2>1. proc' = [proc EXCEPT ![p] = s] /\ proc[p].pc = "collect" /\ data' = data
    BY <1>1, <1>6 DEF CollectFails, At
  <2>2. /\ proc'[p].pc = IF p = Worker THEN "report" ELSE "finish"
        /\ proc'[p].result = e /\ proc'[p].dir = proc[p].dir
        /\ proc'[p].home = proc[p].home /\ proc'[p].row = proc[p].row
    BY <1>1, <2>1 DEF ProcState
  <2>3. Now(p)' = Now(p)
    BY <2>1, <2>2 DEF Now
  <2>4. Live(p)'
    BY <1>1, <2>1, <2>2, <2>3 DEF Live, At
  <2>5. CASE p = Worker
    BY <1>1, <2>1, <2>2, <2>3, <2>4, <2>5 DEF Works, Live, At
  <2>6. CASE p # Worker
    <3>1. proc'[Worker] = proc[Worker]
      BY <2>1, <2>6
    <3>2. At(Worker, "report")' <=> At(Worker, "report")
      BY <3>1 DEF At
    <3>3. QED
      BY <1>1, <2>1, <2>2, <2>3, <2>4, <2>6, <3>1, <3>2 DEF Works
  <2>7. QED
    BY <2>4, <2>5, <2>6
<1>7. CASE Dies(p) \/ RecordRun(p) \/ (p = Worker /\ ReleaseMutex)
  <2>1. proc'[p].pc = "idle"
    BY <1>1, <1>3, <1>7 DEF Dies, RecordRun, ReleaseMutex
  <2>2. QED
    BY <1>2, <2>1, WorkAway
<1>8. CASE CallMain(p) \/ StartManual(p)
  <2>1. proc' = [proc EXCEPT ![p] = [proc[p] EXCEPT !.pc = "lock", !.dir = pointer]]
    BY <1>1, <1>8 DEF CallMain, StartManual
  <2>2. proc[p].pc = "main" \/ p \in Manual
    BY <1>8 DEF CallMain, StartManual, At
  <2>3. proc'[p].pc = "lock" /\ proc'[p].dir = pointer /\ proc'[p].home = proc[p].home
    BY <1>1, <2>1 DEF ProcState
  <2>4. p \in Scheduled => proc[p].home # None /\ data[proc[p].home] # None
    BY <1>1, <2>2, CollectionConstants DEF Works
  <2>5. QED
    BY <1>1, <1>2, <1>3, <2>3, <2>4, WorkAway
<1>9. CASE ReadHistory(p)
  <2>1. proc' = [proc EXCEPT ![p] = [proc[p] EXCEPT !.pc = "record"]] /\ proc[p].pc = "history"
    BY <1>1, <1>9 DEF ReadHistory, Go, At
  <2>2. proc'[p].pc = "record" /\ proc'[p].home = proc[p].home
    BY <1>1, <2>1 DEF ProcState
  <2>3. QED
    BY <1>1, <1>2, <2>1, <2>2, WorkAway DEF Works
<1>10. CASE StartScheduled(p)
  <2>1. proc' = [proc EXCEPT ![p] = [proc[p] EXCEPT !.pc = "main", !.home = pointer]]
        /\ p \in Scheduled
    BY <1>1, <1>10 DEF StartScheduled
  <2>2. proc'[p].pc = "main" /\ proc'[p].home = pointer
    BY <1>1, <2>1 DEF ProcState
  <2>3. QED
    BY <1>1, <1>2, <1>3, <2>1, <2>2, WorkAway
<1>11. CASE SkipScheduled(p)
  <2>1. proc' = proc /\ p \in Scheduled /\ proc[p].pc = "idle"
    BY <1>11 DEF SkipScheduled, At
  <2>2. proc'[p].pc = "idle"
    BY <2>1
  <2>3. QED
    BY <1>2, <2>2, WorkAway
<1>12. CASE p = Worker /\ StartWorker
  <2>1. proc' = [proc EXCEPT ![p] = [proc[p] EXCEPT !.pc = "lock", !.dir = directory]]
    BY <1>1, <1>12 DEF StartWorker
  <2>2. proc'[p].pc = "lock" /\ proc'[p].dir = directory
    BY <1>1, <2>1 DEF ProcState
  <2>3. p \notin Scheduled
    BY <1>1, <1>12
  <2>4. QED
    BY <1>1, <1>2, <1>3, <2>2, <2>3, WorkAway
<1>13. CASE p = Worker /\ WorkerUnwinds
  <2>1. proc' = [proc EXCEPT ![p] = [proc[p] EXCEPT !.pc = "release"]]
    BY <1>1, <1>13 DEF WorkerUnwinds, Go
  <2>2. proc'[p].pc = "release" /\ p \notin Scheduled
    BY <1>1, <1>13, <2>1 DEF ProcState
  <2>3. QED
    BY <1>2, <1>13, <2>2, WorkAway
<1>14. QED
  BY <1>4, <1>5, <1>6, <1>7, <1>8, <1>9, <1>10, <1>11, <1>12, <1>13 DEF Plain

\* What a write leaves in its folder, and where it is.
LEMMA PlacesAt ==
  ASSUME TypeOK, NEW p \in Collector, NEW d, Places(p, d)
  PROVE  /\ proc[p].dir \in Folder /\ data[proc[p].dir] # None /\ d # None
         /\ data'[proc[p].dir] = d
         /\ \A f \in Folder : f # proc[p].dir => data'[f] = data[f]
         /\ \A f \in Folder : data[f] # None => data'[f] # None
<1>1. proc[p].dir \in Folder /\ data[proc[p].dir] # None /\ d \in Data
  BY NoneIsNothing DEF Places, Now
<1>2. /\ data'[proc[p].dir] = d
      /\ \A g \in Folder : g # proc[p].dir => data'[g] = data[g]
      /\ \A g \in Folder : data[g] # None <=> data'[g] # None
  BY <1>1, Wrote DEF Places
<1>3. QED
  BY <1>1, <1>2, NoneIsNothing

\* A step that writes leaves its collector with what that needs next.
LEMMA WritesOwn ==
  ASSUME IInv, TypeOK', NEW p \in Collector, Writes(p)
  PROVE  Works(p)' /\ Live(p)'
<1> USE DEF IInv
<1>1. /\ proc \in [Collector -> ProcState] /\ proc[p] \in ProcState
      /\ Works(p) /\ Live(p) /\ Works(Worker) /\ Worker \in Collector
      /\ Worker \notin Scheduled \cup Manual
  BY CollectionConstants
     DEF TypeOK, AllWork, LocksHaveOwners, LiveRunsAreRunning, Live, Collector
<1>2. NoProc.pc = "idle"
  BY DEF NoProc
<1>3. CASE BeginRun(p)
  <2> DEFINE d == [Now(p) EXCEPT !.runs = Begun(Now(p).runs)]
  <2>1. proc[p].pc = "begin" /\ Places(p, d)
    BY <1>3, BeginWrites DEF BeginRun, At
  <2>2. /\ Now(p) \in Data /\ Now(p).runs \in Seq(Row) /\ Now(p).active \in Nat
        /\ Len(Now(p).runs) \in Nat /\ DOMAIN Now(p).runs = 1..Len(Now(p).runs)
        /\ Sound(Now(p))
    BY <2>1, Present, NoneIsNothing DEF AllSound, Now
  <2>3. d.runs = Begun(Now(p).runs) /\ d.active = Now(p).active
    BY <2>2 DEF Data
  <2>4. proc' = [proc EXCEPT ![p] = [proc[p] EXCEPT !.pc = "collect",
                                                   !.row = Len(Now(p).runs) + 1]]
    BY <1>1, <1>3 DEF BeginRun
  <2>5. /\ proc'[p].pc = "collect" /\ proc'[p].row = Len(Now(p).runs) + 1
        /\ proc'[p].dir = proc[p].dir /\ proc'[p].home = proc[p].home
    BY <1>1, <2>4 DEF ProcState
  <2>6. Now(p)' = d /\ d # None /\ proc[p].dir # None
    BY <2>1, <2>5, PlacesAt, NoneIsNothing DEF Now
  <2>7. /\ Len(d.runs) = Len(Now(p).runs) + 1
        /\ DOMAIN d.runs = 1..(Len(Now(p).runs) + 1)
        /\ d.runs[Len(Now(p).runs) + 1] = [outcome |-> "running", error |-> None]
    BY <2>2, <2>3, BegunRows
  <2>8. Live(p)'
    BY <2>2, <2>5, <2>6, <2>7 DEF Live, At
  <2>9. d.active # Len(Now(p).runs) + 1
    BY <2>2, <2>3 DEF Sound
  <2>10. p \in Scheduled => proc[p].home # None /\ data'[proc[p].home] # None
    BY <1>1, <2>1, PlacesAt DEF Works, ProcState
  <2>11. At(Worker, "report")' /\ proc'[p].dir = proc'[Worker].dir
           => proc'[p].row # proc'[Worker].row
    <3>1. SUFFICES ASSUME At(Worker, "report")', proc'[p].dir = proc'[Worker].dir
                   PROVE  proc'[p].row # proc'[Worker].row
      OBVIOUS
    <3>2. p # Worker
      BY <2>5, <3>1 DEF At
    <3>3. proc'[Worker] = proc[Worker]
      BY <2>4, <3>2
    <3>4. proc[Worker].row \in DOMAIN Now(Worker).runs /\ Now(Worker) = Now(p)
      BY <1>1, <2>5, <3>1, <3>3 DEF Works, At, Now
    <3>5. QED
      BY <2>2, <2>5, <3>3, <3>4
  <2>12. QED
    BY <2>2, <2>5, <2>6, <2>7, <2>8, <2>9, <2>10, <2>11, <2>3 DEF Works
<1>4. CASE Publish(p)
  <2> DEFINE d == [Now(p) EXCEPT !.active = proc[p].row]
  <2>1. proc[p].pc = "collect" /\ Places(p, d)
    BY <1>4, PublishWrites DEF Publish, At
  <2>2. Now(p) \in Data
    BY <2>1, Present
  <2>3. d.runs = Now(p).runs /\ d.active = proc[p].row
    BY <2>2 DEF Data
  <2>4. proc' = [proc EXCEPT ![p] = [proc[p] EXCEPT !.pc = "finish", !.result = "ok"]]
    BY <1>1, <1>4 DEF Publish
  <2>5. /\ proc'[p].pc = "finish" /\ proc'[p].row = proc[p].row /\ proc'[p].result = "ok"
        /\ proc'[p].dir = proc[p].dir /\ proc'[p].home = proc[p].home
    BY <1>1, <2>4 DEF ProcState
  <2>6. Now(p)' = d /\ d # None /\ proc[p].dir # None
    BY <2>1, <2>5, PlacesAt, NoneIsNothing DEF Now
  <2>7. Live(p)'
    BY <1>1, <2>1, <2>3, <2>5, <2>6 DEF Live, At
  <2>8. p \in Scheduled => proc[p].home # None /\ data'[proc[p].home] # None
    BY <1>1, <2>1, PlacesAt DEF Works, ProcState
  <2>9. At(Worker, "report")' /\ proc'[p].dir = proc'[Worker].dir
          => proc'[p].row # proc'[Worker].row
    <3>1. SUFFICES ASSUME At(Worker, "report")', proc'[p].dir = proc'[Worker].dir
                   PROVE  proc'[p].row # proc'[Worker].row
      OBVIOUS
    <3>2. p # Worker
      BY <2>5, <3>1 DEF At
    <3>3. proc'[Worker] = proc[Worker]
      BY <2>4, <3>2
    <3>4. QED
      BY <1>1, <2>1, <2>5, <3>1, <3>3 DEF Works, At
  <2>10. proc[p].row \in DOMAIN d.runs /\ proc[p].row = Len(d.runs)
    BY <1>1, <2>1, <2>3 DEF Works
  <2>11. QED
    BY <2>3, <2>5, <2>6, <2>7, <2>8, <2>9, <2>10 DEF Works
<1>5. CASE Finishes(p)
  <2> DEFINE d == [Now(p) EXCEPT !.runs[proc[p].row] = Outcome(Final(p))]
  <2>1. Places(p, d) /\ proc[p].pc \in {"finish", "print"}
    BY <1>5, FinishWrites, Finals
  <2>2. \A f \in Folder : data[f] # None => data'[f] # None
    BY <2>1, PlacesAt
  <2>3. ASSUME NEW result, proc' = [proc EXCEPT ![p] = Returned(p, result)]
        PROVE  Works(p)' /\ Live(p)'
    <3>1. /\ proc'[p].pc \in {"idle", "history", "record", "release"}
          /\ proc'[p].pc \in {"history", "record"} => p \in Scheduled
          /\ proc'[p].pc = "release" => p = Worker
          /\ proc'[p].pc # "idle" => proc'[p].home = proc[p].home
      BY <1>1, <1>2, <2>3 DEF Returned, After, ProcState
    <3>2. QED
      BY <1>1, <2>1, <2>2, <3>1, WorkAway DEF Works
  <2>4. CASE /\ proc[p].pc = "finish" /\ p # Worker /\ proc[p].result = "ok"
             /\ proc' = [proc EXCEPT ![p] = [proc[p] EXCEPT !.pc = "print"]]
    <3>1. /\ proc'[p].pc = "print" /\ proc'[p].row = proc[p].row
          /\ proc'[p].dir = proc[p].dir /\ proc'[p].home = proc[p].home
          /\ proc'[Worker] = proc[Worker]
      BY <1>1, <2>4 DEF ProcState
    <3>2. Now(p) \in Data /\ Now(p).runs \in Seq(Row) /\ proc[p].dir \in Folder
      BY <2>1, Present
    <3>3. /\ d.runs = [Now(p).runs EXCEPT ![proc[p].row] = Outcome("ok")]
          /\ d.active = Now(p).active
      BY <2>4, <3>2 DEF Data, Final, At
    <3>4. /\ proc[p].row \in DOMAIN Now(p).runs /\ proc[p].row = Len(Now(p).runs)
          /\ Now(p).active = proc[p].row
          /\ At(Worker, "report") /\ proc[p].dir = proc[Worker].dir
               => proc[p].row # proc[Worker].row
      BY <1>1, <2>4 DEF Works
    <3>5. /\ proc[p].row \in DOMAIN d.runs /\ proc[p].row = Len(d.runs)
          /\ d.runs[proc[p].row].outcome = "success"
      BY <3>2, <3>3, <3>4 DEF Outcome
    <3>6. Now(p)' = d /\ d # None /\ proc[p].dir # None
      BY <2>1, <3>1, <3>2, PlacesAt, NoneIsNothing DEF Now
    <3>7. p \in Scheduled => proc[p].home # None /\ data'[proc[p].home] # None
      BY <1>1, <2>2, <2>4 DEF Works, ProcState
    <3>8. Live(p)'
      BY <3>1, <3>5, <3>6 DEF Live, At
    <3>9. QED
      BY <2>4, <3>1, <3>3, <3>4, <3>5, <3>6, <3>7, <3>8 DEF Works, At
  <2>5. QED
    BY <1>5, <2>3, <2>4, FinishMoves DEF IInv
<1>6. CASE p = Worker /\ ReportFailure
  <2>1. proc' = [proc EXCEPT ![p] = [proc[p] EXCEPT !.pc = "release"]]
    BY <1>1, <1>6 DEF ReportFailure, Go
  <2>2. proc'[p].pc = "release" /\ p \notin Scheduled
    BY <1>1, <1>6, <2>1 DEF ProcState
  <2>3. \A f \in Folder : data[f] # None => data'[f] # None
    BY <1>6, ReportWrites, PlacesAt
  <2>4. QED
    BY <1>6, <2>2, <2>3, WorkAway
<1>7. QED
  BY <1>3, <1>4, <1>5, <1>6 DEF Writes

\* How a step that writes moves its collector; it never leads to a late report.
LEMMA WritesMove ==
  ASSUME TypeOK, AllWork, NEW p \in Collector, Writes(p)
  PROVE  \E s : proc' = [proc EXCEPT ![p] = s] /\ s.pc # "report"
<1>1. proc \in [Collector -> ProcState] /\ proc[p] \in ProcState
  BY DEF TypeOK
<1>2. CASE BeginRun(p)
  <2> DEFINE s == [proc[p] EXCEPT !.pc = "collect", !.row = Len(Now(p).runs) + 1]
  <2>1. proc' = [proc EXCEPT ![p] = s] /\ s.pc = "collect"
    BY <1>1, <1>2 DEF BeginRun, ProcState
  <2>2. QED
    BY <2>1
<1>3. CASE Publish(p)
  <2> DEFINE s == [proc[p] EXCEPT !.pc = "finish", !.result = "ok"]
  <2>1. proc' = [proc EXCEPT ![p] = s] /\ s.pc = "finish"
    BY <1>1, <1>3 DEF Publish, ProcState
  <2>2. QED
    BY <2>1
<1>4. CASE Finishes(p)
  <2>1. \A result : Returned(p, result).pc # "report"
    BY <1>1 DEF Returned, After, NoProc, ProcState
  <2>2. [proc[p] EXCEPT !.pc = "print"].pc # "report"
    BY <1>1 DEF ProcState
  <2>3. QED
    BY <1>4, <2>1, <2>2, FinishMoves
<1>5. CASE p = Worker /\ ReportFailure
  <2> DEFINE s == [proc[p] EXCEPT !.pc = "release"]
  <2>1. proc' = [proc EXCEPT ![p] = s] /\ s.pc = "release"
    BY <1>1, <1>5 DEF ReportFailure, Go, ProcState
  <2>2. QED
    BY <2>1
<1>6. QED
  BY <1>2, <1>3, <1>4, <1>5 DEF Writes

\* A row that is marked, or that another run's outcome leaves as it is, still
\* is one the worker may report on.
LEMMA ReportableKept ==
  ASSUME NEW row, row.outcome = "running" \/ row.error = "interrupted"
  PROVE  Interrupted(row).outcome = "running" \/ Interrupted(row).error = "interrupted"
BY DEF Interrupted

\* The worker that is about to report, while another collection is under way.
LEMMA ReportKept ==
  ASSUME IInv, NEW p \in Collector, p # Worker, Writes(p),
         proc[Worker].pc = "report", proc[Worker].dir = proc[p].dir
  PROVE  Works(Worker)' /\ Live(Worker)'
<1> USE DEF IInv
<1> DEFINE r == proc[Worker].row
<1>1. /\ proc'[Worker] = proc[Worker] /\ Worker \in Collector
      /\ Works(Worker) /\ Works(p) /\ Worker \notin Scheduled \cup Manual
  <2>1. Worker \in Collector
    BY DEF Collector
  <2>2. PICK s : proc' = [proc EXCEPT ![p] = s]
    BY WritesMove
  <2>3. QED
    BY <2>1, <2>2, CollectionConstants DEF TypeOK, AllWork
<1>2. /\ Now(Worker) = Now(p) /\ Now(p) \in Data /\ Now(p).runs \in Seq(Row)
      /\ proc[p].dir \in Folder /\ proc[p].dir # None
  BY <1>1, Present, NoneIsNothing DEF Now
<1>3. /\ r \in DOMAIN Now(p).runs /\ Now(p).active # r
      /\ Now(p).runs[r].outcome = "running" \/ Now(p).runs[r].error = "interrupted"
      /\ proc[Worker].result \in {"denied", "failed"}
  BY <1>1, <1>2 DEF Works
<1>4. ASSUME NEW d, Places(p, d), r \in DOMAIN d.runs, d.active # r,
             d.runs[r].outcome = "running" \/ d.runs[r].error = "interrupted"
      PROVE  Works(Worker)' /\ Live(Worker)'
  <2>1. Now(Worker)' = d /\ d # None
    BY <1>1, <1>2, <1>4, PlacesAt DEF Now
  <2>2. QED
    BY <1>1, <1>2, <1>3, <1>4, <2>1 DEF Works, Live
<1>5. CASE BeginRun(p)
  <2> DEFINE d == [Now(p) EXCEPT !.runs = Begun(Now(p).runs)]
  <2>1. d.runs = Begun(Now(p).runs) /\ d.active = Now(p).active
    BY <1>2 DEF Data
  <2>2. d.runs[r] = Interrupted(Now(p).runs[r]) /\ r \in DOMAIN d.runs
    BY <1>2, <1>3, <2>1, BegunRows
  <2>3. QED
    BY <1>3, <1>4, <1>5, <2>1, <2>2, BeginWrites, ReportableKept
<1>6. CASE Publish(p)
  <2> DEFINE d == [Now(p) EXCEPT !.active = proc[p].row]
  <2>1. d.runs = Now(p).runs /\ d.active = proc[p].row
    BY <1>2 DEF Data
  <2>2. proc[p].row # r
    BY <1>1, <1>6 DEF Publish, At, Works
  <2>3. QED
    BY <1>3, <1>4, <1>6, <2>1, <2>2, PublishWrites
<1>7. CASE Finishes(p)
  <2> DEFINE d == [Now(p) EXCEPT !.runs[proc[p].row] = Outcome(Final(p))]
  <2>1. Places(p, d)
    BY <1>7, FinishWrites
  <2>2. d.runs = [Now(p).runs EXCEPT ![proc[p].row] = Outcome(Final(p))]
        /\ d.active = Now(p).active
    BY <1>2 DEF Data
  <2>3. proc[p].row # r
    BY <1>1, <1>7, Finals DEF At, Works
  <2>4. d.runs[r] = Now(p).runs[r] /\ r \in DOMAIN d.runs
    BY <1>2, <1>3, <2>2, <2>3
  <2>5. QED
    BY <1>3, <1>4, <2>1, <2>2, <2>4
<1>8. QED
  BY <1>5, <1>6, <1>7 DEF Writes

\* A collection under way, while the worker reports on an earlier one.
LEMMA UnderwayKept ==
  ASSUME IInv, NEW q \in Collector, q # Worker, ReportFailure,
         proc[q].pc \in {"collect", "finish", "print"}, proc[q].dir = proc[Worker].dir
  PROVE  Works(q)' /\ Live(q)'
<1> USE DEF IInv
<1> DEFINE d == [Now(Worker) EXCEPT !.runs[proc[Worker].row] = Outcome(proc[Worker].result)]
           r == proc[q].row
<1>1. /\ Worker \in Collector /\ Works(q) /\ Live(q) /\ Places(Worker, d)
      /\ proc' = [proc EXCEPT ![Worker] = [proc[Worker] EXCEPT !.pc = "release"]]
      /\ proc[Worker] \in ProcState /\ proc[q] \in ProcState
      /\ proc[Worker].pc = "report"
  BY ReportWrites
     DEF Collector, AllWork, LocksHaveOwners, LiveRunsAreRunning, Live, ReportFailure, Go,
         At, TypeOK
<1>2. /\ proc'[q] = proc[q] /\ ~At(Worker, "report")'
  BY <1>1 DEF At, TypeOK, ProcState
<1>3. /\ Now(Worker) = Now(q) /\ Now(q) \in Data /\ Now(q).runs \in Seq(Row)
  BY <1>1, Present DEF Now
<1>4. d.runs = [Now(q).runs EXCEPT ![proc[Worker].row] = Outcome(proc[Worker].result)]
      /\ d.active = Now(q).active
  BY <1>3 DEF Data
<1>5. r # proc[Worker].row
  BY <1>1 DEF Works, At
<1>6. /\ DOMAIN d.runs = DOMAIN Now(q).runs /\ Len(d.runs) = Len(Now(q).runs)
      /\ r \in DOMAIN Now(q).runs => d.runs[r] = Now(q).runs[r]
  BY <1>3, <1>4, <1>5
<1>7. /\ Now(q)' = d /\ d # None
      /\ \A f \in Folder : data[f] # None => data'[f] # None
  BY <1>1, <1>2, PlacesAt DEF Now
<1>8. Live(q)'
  BY <1>1, <1>2, <1>6, <1>7 DEF Live, At
<1>9. q \in Scheduled => proc[q].home # None /\ data'[proc[q].home] # None
  BY <1>1, <1>7 DEF Works, ProcState
<1>10. QED
  BY <1>1, <1>2, <1>4, <1>6, <1>7, <1>8, <1>9 DEF Works

\* A step that writes takes nothing from the other collectors.
LEMMA WritesOther ==
  ASSUME IInv, TypeOK', NEW p \in Collector, NEW q \in Collector, q # p, Writes(p)
  PROVE  Works(q)' /\ Live(q)'
<1> USE DEF IInv
<1>1. PICK s : proc' = [proc EXCEPT ![p] = s] /\ s.pc # "report"
  BY WritesMove
<1>2. /\ Works(q) /\ Live(q) /\ proc'[q] = proc[q] /\ Worker \in Collector
      /\ proc[q].dir \in Folder \cup {None} /\ proc[p].dir \in Folder
      /\ proc'[Worker].pc = "report" => proc'[Worker] = proc[Worker]
  <2>1. proc[p].pc \in {"begin", "collect", "finish", "print", "report"}
    BY Finals DEF Writes, BeginRun, Publish, ReportFailure, At
  <2>2. proc[p].dir \in Folder
    BY <2>1, Present
  <2>3. proc[q] \in ProcState
    BY DEF TypeOK
  <2>4. QED
    BY <1>1, <2>2, <2>3
       DEF AllWork, LocksHaveOwners, LiveRunsAreRunning, Live, TypeOK, Collector, ProcState
<1>3. PICK d : Places(p, d)
  BY BeginWrites, PublishWrites, FinishWrites, ReportWrites DEF Writes
<1>4. /\ \A f \in Folder : f # proc[p].dir => data'[f] = data[f]
      /\ \A f \in Folder : data[f] # None => data'[f] # None
  BY <1>3, PlacesAt
<1>5. CASE proc[q].dir # proc[p].dir
  BY <1>2, <1>4, <1>5, WorkFramed
<1>6. CASE proc[q].dir = proc[p].dir
  <2>1. CASE proc[q].pc = "report"
    <3>1. q = Worker
      BY <1>2, <2>1 DEF Works
    <3>2. QED
      BY <1>6, <2>1, <3>1, ReportKept
  <2>2. CASE proc[q].pc \in {"collect", "finish", "print"}
    <3>1. flock[proc[p].dir] = q /\ flock[proc[p].dir] # p
      BY <1>2, <1>6, <2>2 DEF LocksHaveOwners
    <3>2. proc[p].pc \notin {"begin", "collect", "finish", "print"}
      BY <1>2, <3>1 DEF LocksHaveOwners
    <3>3. p = Worker /\ ReportFailure
      BY <3>2, Finals DEF Writes, BeginRun, Publish, At
    <3>4. QED
      BY <1>6, <2>2, <3>3, UnderwayKept
  <2>3. CASE proc[q].pc \notin {"collect", "finish", "print", "report"}
    <3>1. proc[q].pc \in {"idle", "main", "history", "record", "release", "lock", "begin"}
      BY <2>3 DEF TypeOK, ProcState
    <3>2. QED
      BY <1>2, <1>4, <3>1, WorkAway DEF Works, Now
  <2>4. QED
    BY <2>1, <2>2, <2>3
<1>7. QED
  BY <1>5, <1>6

\* A plain step takes nothing from the other collectors.
LEMMA PlainOther ==
  ASSUME IInv, NEW p \in Collector, NEW q \in Collector, q # p, Plain(p)
  PROVE  Works(q)' /\ Live(q)'
<1> USE DEF IInv
<1>1. PICK s : /\ proc' = [proc EXCEPT ![p] = s]
               /\ s.pc = "report" =>
                    p = Worker /\ proc[p].pc = "collect" /\ s.dir = proc[p].dir
  BY PlainMoves
<1>2. /\ Works(q) /\ Live(q) /\ proc'[q] = proc[q] /\ Worker \in Collector
      /\ proc[q] \in ProcState /\ proc[p] \in ProcState
  BY <1>1 DEF AllWork, LocksHaveOwners, LiveRunsAreRunning, Live, TypeOK, Collector
<1>3. /\ \A f \in Folder : data[f] # None => data'[f] # None
      /\ proc[q].dir # None /\ data[proc[q].dir] # None =>
           /\ data'[proc[q].dir].runs = data[proc[q].dir].runs
           /\ data'[proc[q].dir].active = data[proc[q].dir].active
  BY <1>2, PlainSettles DEF Settings, ProcState
<1>4. ASSUME proc'[Worker].pc = "report", proc'[Worker] # proc[Worker],
             proc[q].pc \in {"collect", "finish", "print"}
      PROVE  proc'[Worker].dir # proc[q].dir
  <2>1. p = Worker /\ proc'[Worker] = s
    BY <1>1, <1>2, <1>4 DEF TypeOK
  <2>2. proc[Worker].pc = "collect" /\ proc'[Worker].dir = proc[Worker].dir
    BY <1>1, <1>4, <2>1
  <2>3. proc[q].dir \in Folder
    BY <1>2, <1>4 DEF Works, ProcState
  <2>4. flock[proc[q].dir] = q
    BY <1>4, <2>3 DEF LocksHaveOwners
  <2>5. proc[Worker].dir # proc[q].dir
    BY <1>2, <2>1, <2>2, <2>3, <2>4 DEF LocksHaveOwners
  <2>6. QED
    BY <2>2, <2>5
<1>5. QED
  BY <1>2, <1>3, <1>4, WorkFramed

\* Requests and changes of folder keep every table that is there.
LEMMA RunsStay ==
  ASSUME IInv, Handling
  PROVE  \A f \in Folder : data[f] # None =>
           /\ data'[f] # None
           /\ data'[f].runs = data[f].runs
           /\ data'[f].active = data[f].active
<1> USE DEF IInv
<1>1. CASE UNCHANGED data
  BY <1>1
<1>2. CASE (\E b \in BOOLEAN : PostSource(b)) \/ WriteSchedule
  BY <1>2, SchedulesSettle DEF Settings
<1>3. CASE PostNote
  BY <1>3, NoteWrites
<1>4. CASE RenameStaged
  BY <1>4, RenameWrites
<1>5. QED
  BY <1>1, <1>2, <1>3, <1>4
     DEF Handling, ChangeFolder, PostSchedule, PostPreview, GetBackup, PostFolder,
         RefuseFolder, AcceptFolder, CopyFiles, CopyDatabase, PointStartup,
         SwitchDirectory, HandlerRaises, ServerDies, StartServer

\* The server's steps leave collectors alone, except that its worker dies with it.
LEMMA HandlingMoves ==
  ASSUME Handling
  PROVE  proc' = proc \/ (ServerDies /\ proc' = [proc EXCEPT ![Worker] = NoProc])
BY DEF Handling, ChangeFolder, PostNote, PostSource, PostSchedule, WriteSchedule,
       PostPreview, GetBackup, PostFolder, RefuseFolder, AcceptFolder, CopyFiles,
       CopyDatabase, RenameStaged, PointStartup, SwitchDirectory, HandlerRaises,
       ServerDies, StartServer

\* The server's steps take nothing from collectors.
LEMMA HandlingWork ==
  ASSUME IInv, TypeOK', NEW q \in Collector, Handling
  PROVE  Works(q)' /\ Live(q)'
<1> USE DEF IInv
<1>1. /\ Works(q) /\ Live(q) /\ Worker \in Collector /\ proc[q] \in ProcState
      /\ \A f \in Folder : data[f] # None => data'[f] # None
  BY RunsStay DEF AllWork, LocksHaveOwners, LiveRunsAreRunning, Live, TypeOK, Collector
<1>2. proc[q].dir # None /\ data[proc[q].dir] # None =>
        /\ data'[proc[q].dir].runs = data[proc[q].dir].runs
        /\ data'[proc[q].dir].active = data[proc[q].dir].active
  BY <1>1, RunsStay DEF ProcState
<1>3. CASE proc'[q] = proc[q]
  <2>1. proc'[Worker].pc = "report" => proc'[Worker] = proc[Worker]
    BY <1>1, HandlingMoves DEF NoProc, TypeOK
  <2>2. QED
    BY <1>1, <1>2, <1>3, <2>1, WorkFramed
<1>4. CASE proc'[q] # proc[q]
  <2>1. proc'[q].pc = "idle"
    BY <1>1, <1>4, HandlingMoves DEF NoProc, TypeOK
  <2>2. QED
    BY <1>1, <2>1, WorkAway
<1>5. QED
  BY <1>3, <1>4

\* Every step leaves every collector with what it needs, shown as running.
LEMMA AllWorkKept ==
  ASSUME IInv, TypeOK', Next
  PROVE  AllWork' /\ LiveRunsAreRunning'
<1>1. ASSUME NEW q \in Collector PROVE Works(q)' /\ Live(q)'
  <2>1. CASE Handling
    BY <2>1, HandlingWork
  <2>2. ASSUME NEW p \in Collector, Plain(p) \/ Writes(p) PROVE Works(q)' /\ Live(q)'
    BY <2>2, PlainOwn, PlainOther, WritesOwn, WritesOther
  <2>3. QED
    BY <2>1, <2>2, StepKinds DEF IInv
<1>2. QED
  BY <1>1 DEF AllWork, LiveRunsAreRunning, Live

-----------------------------------------------------------------------------
(* Locks.                                                                  *)

Busy == {"begin", "collect", "finish", "print"}
Held == {"files", "database", "rename", "point", "switch"}

\* Locks and their owners, without what is shown as running.
Locked ==
  /\ WorkerServesDirectory
  /\ \A f \in Folder, p \in Collector :
       flock[f] = p <=> proc[p].pc \in Busy /\ proc[p].dir = f
  /\ \A f \in Folder : flock[f] = "handler" <=> handler.pc \in Held /\ f = directory
  /\ mutex = Worker <=> ~At(Worker, "idle")

\* The owners of locks, apart from what is shown as running.
LEMMA LocksSplit ==
  ASSUME Handles
  PROVE  LocksHaveOwners <=> LiveRunsAreRunning /\ Locked
BY DEF LocksHaveOwners, Locked, Busy, Held, Handles

\* A collector's step takes and gives up locks only for that collector.
LEMMA CollectorLocks ==
  ASSUME TypeOK, AllWork, Locked, NEW p \in Collector, Plain(p) \/ Writes(p)
  PROVE  /\ \A f \in Folder : flock'[f] = p <=> proc'[p].pc \in Busy /\ proc'[p].dir = f
         /\ \A f \in Folder, x \in Collector \cup {"handler"} :
              x # p => (flock'[f] = x <=> flock[f] = x)
<1> DEFINE own == \A f \in Folder : flock'[f] = p <=> proc'[p].pc \in Busy /\ proc'[p].dir = f
           others == \A f \in Folder, x \in Collector \cup {"handler"} :
                       x # p => (flock'[f] = x <=> flock[f] = x)
<1>1. /\ proc \in [Collector -> ProcState] /\ proc[p] \in ProcState
      /\ flock \in [Folder -> Collector \cup {"handler", None}]
      /\ \A x \in Collector \cup {"handler"} : x # None
      /\ \A f \in Folder : flock[f] = p <=> proc[p].pc \in Busy /\ proc[p].dir = f
      /\ None \notin Folder
  BY NoneIsNothing DEF TypeOK, Locked
<1>2. NoProc.pc = "idle"
  BY DEF NoProc
<1>3. CASE TakeLock(p)
  <2>1. /\ proc' = [proc EXCEPT ![p] = [proc[p] EXCEPT !.pc = "begin"]]
        /\ flock' = [flock EXCEPT ![proc[p].dir] = p]
        /\ proc[p].pc = "lock" /\ flock[proc[p].dir] = None
    BY <1>1, <1>3 DEF TakeLock, Go, At
  <2>2. proc'[p].pc = "begin" /\ proc'[p].dir = proc[p].dir
    BY <1>1, <2>1 DEF ProcState
  <2>3. own
    BY <1>1, <2>1, <2>2 DEF Busy
  <2>4. others
    BY <1>1, <2>1
  <2>5. QED
    BY <2>3, <2>4
<1>4. CASE LockBusy(p)
  <2>1. /\ proc' = [proc EXCEPT ![p] = Returned(p, "busy")]
        /\ flock' = flock /\ proc[p].pc = "lock"
    BY <1>4 DEF LockBusy, At
  <2>2. proc'[p].pc \notin Busy
    BY <1>1, <1>2, <2>1 DEF Returned, After, ProcState, Busy
  <2>3. QED
    BY <1>1, <2>1, <2>2 DEF Busy
<1>5. ASSUME NEW e \in {"denied", "failed"}, CollectFails(p, e) PROVE own /\ others
  <2>1. /\ proc' = [proc EXCEPT ![p] = [proc[p] EXCEPT
                       !.pc = IF p = Worker THEN "report" ELSE "finish", !.result = e]]
        /\ flock' = IF p = Worker THEN [flock EXCEPT ![proc[p].dir] = None] ELSE flock
        /\ proc[p].pc = "collect"
    BY <1>1, <1>5 DEF CollectFails, At
  <2>2. /\ proc'[p].pc = IF p = Worker THEN "report" ELSE "finish"
        /\ proc'[p].dir = proc[p].dir
    BY <1>1, <2>1 DEF ProcState
  <2>3. CASE p = Worker
    <3>1. own
      BY <1>1, <2>1, <2>2, <2>3 DEF Busy
    <3>2. others
      BY <1>1, <2>1, <2>3 DEF Busy
    <3>3. QED
      BY <3>1, <3>2
  <2>4. CASE p # Worker
    BY <1>1, <2>1, <2>2, <2>4 DEF Busy
  <2>5. QED
    BY <2>3, <2>4
<1>6. CASE Dies(p)
  <2>1. /\ proc'[p].pc = "idle"
        /\ flock' = [f \in Folder |-> IF flock[f] = p THEN None ELSE flock[f]]
    BY <1>1, <1>2, <1>6 DEF Dies
  <2>2. own
    BY <1>1, <2>1 DEF Busy
  <2>3. others
    BY <1>1, <2>1
  <2>4. QED
    BY <2>2, <2>3
<1>7. CASE \/ CallMain(p) \/ StartManual(p) \/ ReadHistory(p) \/ RecordRun(p)
           \/ StartScheduled(p) \/ SkipScheduled(p)
           \/ (p = Worker /\ (StartWorker \/ ReleaseMutex \/ ReportFailure))
  <2>1. flock' = flock
    BY <1>7 DEF CallMain, StartManual, ReadHistory, RecordRun, StartScheduled, SkipScheduled,
                StartWorker, ReleaseMutex, ReportFailure
  <2>2. proc[p].pc \notin Busy
    <3>1. CASE p = Worker /\ StartWorker
      <4>1. mutex = None /\ Worker # None
        BY <1>1, <3>1 DEF StartWorker
      <4>2. QED
        BY <3>1, <4>1 DEF Locked, At, Busy
    <3>2. QED
      BY <1>7, <3>1
         DEF CallMain, StartManual, ReadHistory, RecordRun, StartScheduled, SkipScheduled,
             ReleaseMutex, ReportFailure, At, Busy
  <2>3. proc'[p].pc \notin Busy
    <3>1. CASE CallMain(p) \/ StartManual(p)
      BY <1>1, <3>1 DEF CallMain, StartManual, ProcState, Busy
    <3>2. CASE ReadHistory(p) \/ RecordRun(p)
      BY <1>1, <1>2, <3>2 DEF ReadHistory, RecordRun, Go, ProcState, Busy
    <3>3. CASE StartScheduled(p) \/ SkipScheduled(p)
      BY <1>1, <2>2, <3>3 DEF StartScheduled, SkipScheduled, ProcState, Busy
    <3>4. CASE p = Worker /\ (StartWorker \/ ReleaseMutex \/ ReportFailure)
      BY <1>1, <1>2, <3>4 DEF StartWorker, ReleaseMutex, ReportFailure, Go, ProcState, Busy
    <3>5. QED
      BY <1>7, <3>1, <3>2, <3>3, <3>4
  <2>4. QED
    BY <1>1, <2>1, <2>2, <2>3
<1>8. CASE p = Worker /\ WorkerUnwinds
  <2>1. /\ proc' = [proc EXCEPT ![p] = [proc[p] EXCEPT !.pc = "release"]]
        /\ flock' = [f \in Folder |-> IF flock[f] = p THEN None ELSE flock[f]]
    BY <1>1, <1>8 DEF WorkerUnwinds, Go
  <2>2. proc'[p].pc = "release"
    BY <1>1, <2>1 DEF ProcState
  <2>3. own
    BY <1>1, <2>1, <2>2 DEF Busy
  <2>4. others
    BY <1>1, <2>1
  <2>5. QED
    BY <2>3, <2>4
<1>9. CASE BeginRun(p)
  <2>1. flock' = flock /\ proc[p].pc = "begin"
    BY <1>9 DEF BeginRun, At
  <2>2. proc'[p].pc = "collect" /\ proc'[p].dir = proc[p].dir
    BY <1>1, <1>9 DEF BeginRun, ProcState
  <2>3. QED
    BY <1>1, <2>1, <2>2 DEF Busy
<1>10. CASE Publish(p)
  <2>1. flock' = flock /\ proc[p].pc = "collect"
    BY <1>10 DEF Publish, At
  <2>2. proc'[p].pc = "finish" /\ proc'[p].dir = proc[p].dir
    BY <1>1, <1>10 DEF Publish, ProcState
  <2>3. QED
    BY <1>1, <2>1, <2>2 DEF Busy
<1>11. CASE Finishes(p) \/ PrintTotals(p)
  <2>1. proc[p].pc \in Busy
    BY <1>11, Finals DEF PrintTotals, At, Busy
  <2>2. CASE /\ flock' = flock
             /\ proc' = [proc EXCEPT ![p] = [proc[p] EXCEPT !.pc = "print"]]
    <3>1. proc'[p].pc = "print" /\ proc'[p].dir = proc[p].dir
      BY <1>1, <2>2 DEF ProcState
    <3>2. QED
      BY <1>1, <2>1, <2>2, <3>1 DEF Busy
  <2>3. ASSUME flock' = [flock EXCEPT ![proc[p].dir] = None],
               NEW result, proc' = [proc EXCEPT ![p] = Returned(p, result)]
        PROVE  own /\ others
    <3>1. proc'[p].pc \notin Busy
      BY <1>1, <1>2, <2>3 DEF Returned, After, ProcState, Busy
    <3>2. own
      BY <1>1, <2>1, <2>3, <3>1
    <3>3. others
      BY <1>1, <2>1, <2>3
    <3>4. QED
      BY <3>2, <3>3
  <2>4. CASE PrintTotals(p)
    BY <2>3, <2>4 DEF PrintTotals
  <2>5. QED
    BY <1>11, <2>2, <2>3, <2>4, FinishMoves
<1>12. QED
  BY <1>3, <1>4, <1>5, <1>6, <1>7, <1>8, <1>9, <1>10, <1>11 DEF Plain, Writes

\* The mutex follows the worker.
LEMMA WorkerMoves ==
  ASSUME TypeOK, AllWork, Plain(Worker) \/ Writes(Worker)
  PROVE  \/ StartWorker \/ ReleaseMutex
         \/ /\ mutex' = mutex /\ ~At(Worker, "idle") /\ ~At(Worker, "idle")'
            /\ proc'[Worker].dir = proc[Worker].dir
<1> DEFINE stays == /\ mutex' = mutex /\ ~At(Worker, "idle") /\ ~At(Worker, "idle")'
                    /\ proc'[Worker].dir = proc[Worker].dir
<1>1. /\ proc \in [Collector -> ProcState] /\ Worker \in Collector
      /\ proc[Worker] \in ProcState /\ Worker \notin Scheduled \cup Manual
      /\ Works(Worker)
  BY CollectionConstants DEF TypeOK, Collector, AllWork
<1>2. CASE TakeLock(Worker) \/ BeginRun(Worker) \/ Publish(Worker)
  BY <1>1, <1>2 DEF TakeLock, BeginRun, Publish, Go, At, server, ProcState
<1>3. CASE LockBusy(Worker) \/ Finishes(Worker) \/ PrintTotals(Worker)
  <2>1. PICK result : proc' = [proc EXCEPT ![Worker] = Returned(Worker, result)]
    BY <1>1, <1>3, FinishMoves DEF LockBusy, PrintTotals
  <2>2. proc'[Worker].pc = "release" /\ proc'[Worker].dir = proc[Worker].dir
    BY <1>1, <2>1 DEF Returned, After, ProcState
  <2>3. QED
    BY <1>3, <2>2 DEF LockBusy, Finishes, FinishRun, PrintFails, PrintTotals, At, server
<1>4. ASSUME NEW e \in {"denied", "failed"}, CollectFails(Worker, e) PROVE stays
  <2>1. proc' = [proc EXCEPT ![Worker] = [proc[Worker] EXCEPT !.pc = "report", !.result = e]]
    BY <1>1, <1>4 DEF CollectFails
  <2>2. proc'[Worker].pc = "report" /\ proc'[Worker].dir = proc[Worker].dir
    BY <1>1, <2>1 DEF ProcState
  <2>3. QED
    BY <1>4, <2>2 DEF CollectFails, At, server
<1>5. CASE ReportFailure \/ WorkerUnwinds
  <2>1. proc'[Worker].pc = "release" /\ proc'[Worker].dir = proc[Worker].dir
    BY <1>1, <1>5 DEF ReportFailure, WorkerUnwinds, Go, ProcState
  <2>2. mutex' = mutex /\ proc[Worker].pc # "idle"
    BY <1>5 DEF ReportFailure, WorkerUnwinds, At, server
  <2>3. QED
    BY <2>1, <2>2 DEF At
<1>6. ~CallMain(Worker) /\ ~ReadHistory(Worker) /\ ~RecordRun(Worker)
  BY <1>1 DEF CallMain, ReadHistory, RecordRun, At, Works
<1>7. ~Dies(Worker) /\ ~StartManual(Worker) /\ ~StartScheduled(Worker) /\ ~SkipScheduled(Worker)
  BY <1>1 DEF Dies, StartManual, StartScheduled, SkipScheduled
<1>8. QED
  BY <1>2, <1>3, <1>4, <1>5, <1>6, <1>7 DEF Plain, Writes

\* A collector's step leaves every lock with its owner.
LEMMA CollectorLocked ==
  ASSUME IInv, NEW p \in Collector, Plain(p) \/ Writes(p)
  PROVE  Locked'
<1> USE DEF IInv
<1>1. /\ Locked /\ proc \in [Collector -> ProcState] /\ proc[Worker] \in ProcState
      /\ Worker \in Collector /\ Worker # None /\ "handler" \notin Collector
      /\ Worker # "handler"
  BY LocksSplit, NoneIsNothing DEF TypeOK, Collector
<1>2. UNCHANGED <<up, directory, handler>>
  BY CollectorsKeep
<1>3. PICK s : proc' = [proc EXCEPT ![p] = s]
  BY PlainMoves, WritesMove
<1>4. \A f \in Folder, q \in Collector :
        flock'[f] = q <=> proc'[q].pc \in Busy /\ proc'[q].dir = f
  <2>1. ASSUME NEW f \in Folder, NEW q \in Collector
        PROVE  flock'[f] = q <=> proc'[q].pc \in Busy /\ proc'[q].dir = f
    <3>1. CASE q = p
      BY <1>1, <3>1, CollectorLocks
    <3>2. CASE q # p
      BY <1>1, <1>3, <3>2, CollectorLocks DEF Locked
    <3>3. QED
      BY <3>1, <3>2
  <2>2. QED
    BY <2>1
<1>5. \A f \in Folder : flock'[f] = "handler" <=> handler.pc \in Held /\ f = directory
  BY <1>1, CollectorLocks DEF Locked
<1>6. WorkerServesDirectory' /\ (mutex' = Worker <=> ~At(Worker, "idle")')
  <2>1. CASE p # Worker
    <3>1. proc'[Worker] = proc[Worker]
      BY <1>1, <1>3, <2>1
    <3>2. mutex' = mutex
      BY <2>1 DEF Plain, TakeLock, LockBusy, CollectFails, Dies, CallMain, ReadHistory,
           RecordRun, StartManual, StartScheduled, SkipScheduled, server, Writes, BeginRun,
           Publish, Finishes, FinishRun, PrintFails, PrintTotals
    <3>3. QED
      BY <1>1, <1>2, <3>1, <3>2 DEF Locked, WorkerServesDirectory, At
  <2>2. CASE p = Worker
    <3>1. CASE StartWorker
      <4>1. /\ mutex' = Worker /\ up /\ proc'[Worker].dir = directory
            /\ proc'[Worker].pc = "lock"
        BY <1>1, <3>1 DEF StartWorker, ProcState
      <4>2. QED
        BY <1>2, <4>1 DEF WorkerServesDirectory, At
    <3>2. CASE ReleaseMutex
      <4>1. mutex' = None /\ proc'[Worker].pc = "idle"
        BY <1>1, <3>2 DEF ReleaseMutex, NoProc
      <4>2. QED
        BY <1>1, <4>1 DEF WorkerServesDirectory, At
    <3>3. CASE /\ mutex' = mutex /\ ~At(Worker, "idle") /\ ~At(Worker, "idle")'
               /\ proc'[Worker].dir = proc[Worker].dir
      BY <1>1, <1>2, <3>3 DEF Locked, WorkerServesDirectory
    <3>4. QED
      BY <2>2, <3>1, <3>2, <3>3, WorkerMoves
  <2>3. QED
    BY <2>1, <2>2
<1>7. QED
  BY <1>2, <1>4, <1>5, <1>6 DEF Locked

\* A step of the server that touches no lock.
LEMMA LockedFramed ==
  ASSUME Locked, UNCHANGED <<flock, mutex, up, directory, proc>>,
         handler'.pc \in Held <=> handler.pc \in Held
  PROVE  Locked'
BY DEF Locked, WorkerServesDirectory, At

\* A handler that ends gives up its locks.
LEMMA LockedDone ==
  ASSUME IInv, Done, UNCHANGED <<up, proc>>, directory' = directory \/ At(Worker, "idle")
  PROVE  Locked'
<1> USE DEF IInv
<1>1. /\ Locked /\ Worker \in Collector /\ Worker # None /\ "handler" \notin Collector
      /\ \A x \in Collector \cup {"handler"} : x # None
      /\ Worker # "handler"
      /\ flock \in [Folder -> Collector \cup {"handler", None}]
  BY LocksSplit, NoneIsNothing DEF TypeOK, Collector
<1>2. /\ handler'.pc = "idle"
      /\ \A f \in Folder : flock'[f] = IF flock[f] = "handler" THEN None ELSE flock[f]
      /\ mutex' = IF mutex = "handler" THEN None ELSE mutex
  BY DEF Done, NoHandler
<1>3. \A f \in Folder, q \in Collector : flock'[f] = q <=> flock[f] = q
  BY <1>1, <1>2
<1>4. \A f \in Folder : flock'[f] # "handler"
  BY <1>1, <1>2
<1>5. mutex' = Worker <=> mutex = Worker
  BY <1>1, <1>2
<1>6. QED
  BY <1>1, <1>2, <1>3, <1>4, <1>5 DEF Locked, WorkerServesDirectory, At, Held

\* The server's step leaves every lock with its owner.
LEMMA HandlingLocked ==
  ASSUME IInv, Handling
  PROVE  Locked'
<1> USE DEF IInv
<1>1. /\ Locked /\ Worker \in Collector /\ "handler" \notin Collector
      /\ \A x \in Collector \cup {"handler"} : x # None
      /\ Worker # "handler" /\ Worker # None
      /\ flock \in [Folder -> Collector \cup {"handler", None}]
      /\ proc \in [Collector -> ProcState]
      /\ handler \in HandlerState /\ directory \in Folder
  BY LocksSplit, NoneIsNothing DEF TypeOK, Collector
<1>2. NoHandler.pc = "idle" /\ NoProc.pc = "idle"
  BY DEF NoHandler, NoProc
<1>3. CASE PostNote \/ (\E b \in BOOLEAN : PostSource(b)) \/ PostPreview
  BY <1>1, <1>3, LockedFramed DEF PostNote, PostSource, PostPreview, server
<1>4. CASE PostSchedule
  <2>1. handler.pc = "idle" /\ UNCHANGED <<flock, mutex, up, directory, proc>>
    BY <1>2, <1>4 DEF PostSchedule, Idle
  <2>2. PICK e : handler' = [NoHandler EXCEPT !.op = "schedule", !.pc = "write",
                               !.copy = [data[directory] EXCEPT !.enabled = e]]
    BY <1>4 DEF PostSchedule
  <2>3. handler'.pc = "write"
    BY <2>2 DEF NoHandler
  <2>4. QED
    BY <1>1, <2>1, <2>3, LockedFramed DEF Held
<1>5. ASSUME NEW op \in {"move", "restore"}, NEW target \in Folder \cup {None},
             PostFolder(op, target)
      PROVE  Locked'
  <2>1. /\ handler.pc = "idle" /\ handler'.pc = "mutex"
        /\ UNCHANGED <<flock, mutex, up, directory, proc>>
    BY <1>2, <1>5 DEF PostFolder, Idle, NoHandler
  <2>2. QED
    BY <1>1, <2>1, LockedFramed DEF Held
<1>6. CASE RefuseFolder
  <2>1. /\ handler.pc = "mutex" /\ handler'.pc = "idle"
        /\ UNCHANGED <<flock, mutex, up, directory, proc>>
    BY <1>2, <1>6 DEF RefuseFolder
  <2>2. QED
    BY <1>1, <2>1, LockedFramed DEF Held
<1>7. CASE CopyFiles \/ RenameStaged \/ PointStartup
  <2>1. handler.pc \in Held /\ UNCHANGED <<flock, mutex, up, directory, proc>>
    BY <1>7 DEF CopyFiles, RenameStaged, PointStartup, Held
  <2>2. handler'.pc \in Held
    BY <1>1, <1>7 DEF CopyFiles, RenameStaged, PointStartup, Step, HandlerState, Held
  <2>3. QED
    BY <1>1, <2>1, <2>2, LockedFramed
<1>8. CASE CopyDatabase
  <2>1. CASE handler.op = "backup"
    BY <1>8, <2>1, LockedDone DEF CopyDatabase
  <2>2. CASE handler.op # "backup"
    <3>1. /\ handler.pc \in Held /\ UNCHANGED <<flock, mutex, up, directory, proc>>
          /\ handler' = [handler EXCEPT !.pc = "rename", !.copy = WithDatabase]
      BY <1>8, <2>2 DEF CopyDatabase, Held
    <3>2. handler'.pc \in Held
      BY <1>1, <3>1 DEF HandlerState, Held
    <3>3. QED
      BY <1>1, <3>1, <3>2, LockedFramed
  <2>3. QED
    BY <2>1, <2>2
<1>9. CASE WriteSchedule \/ HandlerRaises
  BY <1>9, LockedDone DEF WriteSchedule, HandlerRaises
<1>10. CASE SwitchDirectory
  <2>1. mutex = "handler"
    BY <1>10 DEF SwitchDirectory, Handles
  <2>2. At(Worker, "idle")
    BY <1>1, <2>1 DEF Locked
  <2>3. QED
    BY <1>10, <2>2, LockedDone DEF SwitchDirectory
<1>11. ASSUME flock[directory] = None, flock' = [flock EXCEPT ![directory] = "handler"],
              UNCHANGED <<up, directory, proc>>, handler'.pc \in Held, handler.pc \notin Held,
              mutex' = mutex \/ (mutex = None /\ mutex' = "handler")
       PROVE  Locked'
  <2>1. /\ flock'[directory] = "handler"
        /\ \A f \in Folder : f # directory => flock'[f] = flock[f]
    BY <1>1, <1>11
  <2>2. \A f \in Folder, q \in Collector : flock'[f] = q <=> flock[f] = q
    BY <1>1, <1>11, <2>1
  <2>3. \A f \in Folder : flock'[f] = "handler" <=> f = directory
    BY <1>1, <1>11, <2>1 DEF Locked
  <2>4. mutex' = Worker <=> mutex = Worker
    BY <1>1, <1>11
  <2>5. QED
    BY <1>1, <1>11, <2>2, <2>3, <2>4 DEF Locked, WorkerServesDirectory, At
<1>12. CASE GetBackup
  <2>1. handler'.pc = "files" /\ handler.pc = "idle"
    BY <1>2, <1>12 DEF GetBackup, Idle, NoHandler
  <2>2. QED
    BY <1>11, <1>12, <2>1 DEF GetBackup, Held
<1>13. CASE AcceptFolder
  <2>1. handler.pc = "mutex" /\ flock[directory] = None /\ mutex = None
    BY <1>13 DEF AcceptFolder, Refused
  <2>2. handler'.pc \in {"files", "rename"}
    <3>1. CASE handler.op = "move"
      BY <1>1, <1>13, <3>1 DEF AcceptFolder, Step, HandlerState
    <3>2. CASE handler.op # "move"
      BY <1>1, <1>13, <3>2 DEF AcceptFolder, HandlerState
    <3>3. QED
      BY <3>1, <3>2
  <2>3. QED
    BY <1>11, <1>13, <2>1, <2>2 DEF AcceptFolder, Held
<1>14. CASE ServerDies
  <2>1. /\ handler'.pc = "idle" /\ mutex' = None /\ proc'[Worker].pc = "idle"
        /\ \A q \in Collector : q # Worker => proc'[q] = proc[q]
        /\ \A f \in Folder : flock'[f] =
              IF flock[f] \in {"handler", Worker} THEN None ELSE flock[f]
    BY <1>1, <1>2, <1>14 DEF ServerDies
  <2>2. \A f \in Folder : flock'[f] # "handler" /\ flock'[f] # Worker
    BY <1>1, <2>1
  <2>3. \A f \in Folder, q \in Collector : q # Worker => (flock'[f] = q <=> flock[f] = q)
    BY <1>1, <2>1
  <2>4. \A f \in Folder, q \in Collector :
          flock'[f] = q <=> proc'[q].pc \in Busy /\ proc'[q].dir = f
    BY <1>1, <2>1, <2>2, <2>3 DEF Locked, Busy
  <2>5. QED
    BY <1>1, <2>1, <2>2, <2>4 DEF Locked, WorkerServesDirectory, At, Held
<1>15. CASE StartServer
  <2>1. /\ UNCHANGED <<flock, mutex, handler, proc>> /\ handler.pc = "idle"
        /\ At(Worker, "idle")
    BY <1>1, <1>15 DEF StartServer, Handles, HandlerState, Locked, WorkerServesDirectory
  <2>2. QED
    BY <1>1, <2>1 DEF Locked, WorkerServesDirectory, At, Held
<1>16. QED
  BY <1>3, <1>4, <1>5, <1>6, <1>7, <1>8, <1>9, <1>10, <1>12, <1>13, <1>14, <1>15
     DEF Handling, ChangeFolder

-----------------------------------------------------------------------------
(* The invariant, and what follows from it.                                *)

\* The invariant holds when the server starts.
LEMMA InitIInv == Init => IInv
<1> SUFFICES ASSUME Init PROVE IInv
  OBVIOUS
<1>1. TypeOK
  BY InitTyped
<1>2. /\ data = [f \in Folder |-> IF f = Startup THEN Fresh ELSE None]
      /\ pointer = Startup /\ directory = Startup /\ up = TRUE
      /\ flock = [f \in Folder |-> None] /\ mutex = None
      /\ handler = NoHandler /\ preview = None /\ archive = None /\ acked = 0
      /\ proc = [p \in Collector |-> NoProc]
  BY DEF Init
<1>3. /\ Startup \in Folder /\ Fresh \in Data /\ Fresh # None
      /\ Fresh.runs = <<>> /\ Fresh.active = 0 /\ Fresh.noted = 0
  <2>1. Fresh \in Data
    BY DEF Fresh, Data
  <2>2. Fresh.runs = <<>> /\ Fresh.active = 0 /\ Fresh.noted = 0
    BY DEF Fresh
  <2>3. \E w \in Workloads : TRUE
    BY DEF Init
  <2>4. Startup \in Folder
    BY <2>3, CollectionConstants
  <2>5. QED
    BY <2>1, <2>2, <2>4, NoneIsNothing
<1>4. /\ NoHandler.pc = "idle" /\ NoHandler.op = None /\ NoProc.pc = "idle"
      /\ None # "handler" /\ Worker \in Collector
      /\ \A x \in Collector : x # None /\ x # "handler"
  BY NoneIsNothing DEF NoHandler, NoProc, Collector
<1>5. Handles
  BY <1>2, <1>3, <1>4 DEF Handles
<1>6. Acknowledges
  BY <1>2, <1>3, <1>4 DEF Acknowledges, AcknowledgedIsKept
<1>7. AllSound
  <2>1. Sound(Fresh)
    BY <1>3 DEF Sound
  <2>2. QED
    BY <1>2, <1>4, <2>1 DEF AllSound
<1>8. AllWork
  BY <1>2, <1>4 DEF AllWork, Works
<1>9. LocksHaveOwners
  BY <1>2, <1>4
     DEF LocksHaveOwners, LiveRunsAreRunning, WorkerServesDirectory, At
<1>10. QED
  BY <1>1, <1>5, <1>6, <1>7, <1>8, <1>9 DEF IInv

\* Every step of server, worker and processes keeps the invariant.
LEMMA Inductive == IInv /\ [Next]_vars => IInv'
<1> SUFFICES ASSUME IInv, [Next]_vars PROVE IInv'
  OBVIOUS
<1>1. CASE UNCHANGED vars
  BY <1>1 DEF vars, server, IInv, TypeOK, Handles, Acknowledges, AcknowledgedIsKept, AllSound,
              AllWork, Works, LocksHaveOwners, LiveRunsAreRunning, WorkerServesDirectory,
              Now, At
<1>2. CASE Next
  <2>1. TypeOK'
    BY Typed DEF IInv
  <2>2. Handles' /\ Acknowledges' /\ AllSound'
    BY <1>2, HandlesKept, AcknowledgesKept, AllSoundKept
  <2>3. AllWork' /\ LiveRunsAreRunning'
    BY <1>2, <2>1, AllWorkKept
  <2>4. Locked'
    BY <1>2, StepKinds, HandlingLocked, CollectorLocked DEF IInv
  <2>5. LocksHaveOwners'
    BY <2>2, <2>3, <2>4
       DEF LocksHaveOwners, Locked, Busy, Held, Handles
  <2>6. QED
    BY <2>1, <2>2, <2>3, <2>5 DEF IInv
<1>3. QED
  BY <1>1, <1>2

\* The invariant holds throughout every behaviour.
THEOREM Invariant == Spec => []IInv
BY InitIInv, Inductive, PTL DEF Spec

\* Every variable keeps its type: folders, locks, handlers and collectors are
\* what live_command_center.py and collection_schedule.py make them.
THEOREM TypeCorrect == Spec => []TypeOK
<1>1. IInv => TypeOK
  BY DEF IInv
<1>2. QED
  BY <1>1, Invariant, PTL

\* No capture.lock and no capture_mutex outlives its owner, no collector works
\* in a folder it has not locked, and its row is shown as running throughout.
THEOREM LocksOwned == Spec => []LocksHaveOwners
<1>1. IInv => LocksHaveOwners
  BY DEF IInv
<1>2. QED
  BY <1>1, Invariant, PTL

\* In every folder active.json is from the newest successful run, or from a
\* later one that was cut off after it had collected everything.
THEOREM PublishedNewest == Spec => []PublishedIsNewest
<1>1. IInv => PublishedIsNewest
  BY DEF IInv, AllSound, Sound, PublishedIsNewest
<1>2. QED
  BY <1>1, Invariant, PTL

\* The startup folder always leads to everything that was acknowledged.
THEOREM AcknowledgedKept == Spec => []AcknowledgedIsKept
<1>1. IInv => AcknowledgedIsKept
  BY DEF IInv, Acknowledges
<1>2. QED
  BY <1>1, Invariant, PTL

\* What becomes of the rows of a table.
BecomesOf(f, i, row, new) ==
  /\ row.outcome = "error" => IF row.error = "interrupted"
                              THEN new.outcome = "error" ELSE new = row
  /\ row.outcome = "success" /\ new # row =>
       /\ new = Outcome("output")
       /\ \E p \in Scheduled \cup Manual : Collected(p, f, i) /\ flock'[f] = None

Finally(f) ==
  /\ data'[f] # None
  /\ \A i \in DOMAIN data[f].runs : BecomesOf(f, i, data[f].runs[i], data'[f].runs[i])

\* No step changes a row that reported an outcome, but as it may.
LEMMA RowsFinal ==
  ASSUME IInv, [Next]_vars, NEW f \in Folder, data[f] # None
  PROVE  Finally(f)
<1> USE DEF IInv
<1>1. /\ data[f] \in Data /\ Sound(data[f]) /\ data[f].runs \in Seq(Row)
  BY DEF TypeOK, AllSound, Data
<1>2. CASE data'[f] # None /\ data'[f].runs = data[f].runs
  BY <1>2 DEF BecomesOf, Finally
<1>3. ASSUME data'[f] # None, NEW row \in DOMAIN data[f].runs, NEW new,
             data'[f].runs = [data[f].runs EXCEPT ![row] = new],
             BecomesOf(f, row, data[f].runs[row], new)
      PROVE  Finally(f)
  <2>1. ASSUME NEW i \in DOMAIN data[f].runs
        PROVE  BecomesOf(f, i, data[f].runs[i], data'[f].runs[i])
    <3>1. CASE i = row
      <4>1. data'[f].runs[i] = new
        BY <1>1, <1>3, <3>1
      <4>2. QED
        BY <1>3, <3>1, <4>1
    <3>2. CASE i # row
      <4>1. data'[f].runs[i] = data[f].runs[i]
        BY <1>1, <1>3, <3>2
      <4>2. QED
        BY <4>1 DEF BecomesOf
    <3>3. QED
      BY <3>1, <3>2
  <2>2. QED
    BY <1>3, <2>1 DEF Finally
<1>4. ASSUME NEW p \in Collector, Writes(p) PROVE Finally(f)
  <2>1. PICK d : Places(p, d)
    BY <1>4, BeginWrites, PublishWrites, FinishWrites, ReportWrites DEF Writes
  <2>2. data'[f] # None /\ (f # proc[p].dir => data'[f] = data[f])
    BY <2>1, PlacesAt
  <2>3. CASE f # proc[p].dir
    BY <1>2, <2>2, <2>3
  <2>4. CASE f = proc[p].dir
    <3>1. Now(p) = data[f] /\ Works(p) /\ Worker \in Collector
      BY <2>4 DEF Now, AllWork, Collector
    <3>2. CASE BeginRun(p)
      <4>1. data'[f] = [data[f] EXCEPT !.runs = Begun(data[f].runs)]
        BY <2>4, <3>1, <3>2, BeginWrites, PlacesAt
      <4>2. data'[f].runs = Begun(data[f].runs)
        BY <1>1, <4>1 DEF Data
      <4>3. ASSUME NEW i \in DOMAIN data[f].runs
            PROVE  data'[f].runs[i] = Interrupted(data[f].runs[i])
        BY <1>1, <4>2, BegunRows
      <4>4. ASSUME NEW i \in DOMAIN data[f].runs
            PROVE  data[f].runs[i].outcome # "running" =>
                     data'[f].runs[i] = data[f].runs[i]
        BY <4>3 DEF Interrupted
      <4>5. ASSUME NEW i \in DOMAIN data[f].runs
            PROVE  BecomesOf(f, i, data[f].runs[i], data'[f].runs[i])
        BY <4>4 DEF BecomesOf
      <4>6. QED
        BY <2>2, <4>5 DEF Finally
    <3>3. CASE Publish(p)
      <4>1. data'[f] = [data[f] EXCEPT !.active = proc[p].row]
        BY <2>4, <3>1, <3>3, PublishWrites, PlacesAt
      <4>2. data'[f].runs = data[f].runs
        BY <1>1, <4>1 DEF Data
      <4>3. QED
        BY <1>2, <2>2, <4>2
    <3>4. CASE Finishes(p)
      <4>1. Places(p, [Now(p) EXCEPT !.runs[proc[p].row] = Outcome(Final(p))])
        BY <3>4, FinishWrites
      <4>2. data'[f] = [data[f] EXCEPT !.runs[proc[p].row] = Outcome(Final(p))]
        BY <2>4, <3>1, <4>1, PlacesAt
      <4>3. data'[f].runs = [data[f].runs EXCEPT ![proc[p].row] = Outcome(Final(p))]
        BY <1>1, <4>2 DEF Data
      <4>4. /\ proc[p].pc \in {"finish", "print"}
            /\ proc[p].row \in DOMAIN data[f].runs
            /\ data[f].runs[proc[p].row].outcome =
                 IF At(p, "print") THEN "success" ELSE "running"
        BY <3>1, <3>4, Finals DEF LocksHaveOwners, LiveRunsAreRunning
      <4>5. BecomesOf(f, proc[p].row, data[f].runs[proc[p].row], Outcome(Final(p)))
        <5>1. CASE ~At(p, "print")
          BY <4>4, <5>1 DEF BecomesOf
        <5>2. CASE At(p, "print")
          <6>1. PrintFails(p) /\ Final(p) = "output"
            BY <3>4, <5>2 DEF Finishes, FinishRun, At, Final
          <6>2. p \in Scheduled \cup Manual /\ flock[f] = p
            BY <2>4, <3>1, <5>2 DEF Works, At, Collector, LocksHaveOwners
          <6>3. flock'[f] = None
            BY <2>4, <6>1 DEF PrintFails, TypeOK
          <6>4. QED
            BY <4>4, <5>2, <6>1, <6>2, <6>3 DEF BecomesOf, Collected
        <5>3. QED
          BY <5>1, <5>2
      <4>6. QED
        BY <1>3, <2>2, <4>3, <4>4, <4>5
    <3>5. CASE p = Worker /\ ReportFailure
      <4>1. data'[f] = [data[f] EXCEPT !.runs[proc[p].row] = Outcome(proc[p].result)]
        BY <2>4, <3>1, <3>5, ReportWrites, PlacesAt
      <4>2. data'[f].runs = [data[f].runs EXCEPT ![proc[p].row] = Outcome(proc[p].result)]
        BY <1>1, <4>1 DEF Data
      <4>3. /\ proc[p].row \in DOMAIN data[f].runs
            /\ proc[p].result \in {"denied", "failed"}
            /\ \/ data[f].runs[proc[p].row].outcome = "running"
               \/ data[f].runs[proc[p].row].error = "interrupted"
        BY <3>1, <3>5 DEF ReportFailure, At, Works
      <4>4. Outcome(proc[p].result).outcome = "error"
        BY <4>3 DEF Outcome
      <4>5. data[f].runs[proc[p].row].error = "interrupted" =>
              data[f].runs[proc[p].row].outcome = "error"
        BY <1>1, <4>3 DEF Sound
      <4>6. BecomesOf(f, proc[p].row, data[f].runs[proc[p].row], Outcome(proc[p].result))
        BY <4>3, <4>4, <4>5 DEF BecomesOf
      <4>7. QED
        BY <1>3, <2>2, <4>2, <4>3, <4>6
    <3>6. QED
      BY <1>4, <3>2, <3>3, <3>4, <3>5 DEF Writes
  <2>5. QED
    BY <2>3, <2>4
<1>5. ASSUME NEW p \in Collector, Plain(p) PROVE Finally(f)
  BY <1>2, <1>5, PlainSettles DEF Settings
<1>6. CASE Handling
  BY <1>2, <1>6, RunsStay
<1>7. CASE UNCHANGED vars
  BY <1>2, <1>7 DEF vars
<1>8. QED
  BY <1>4, <1>5, <1>6, <1>7, StepKinds

\* finish_run and begin_run of lead_workflow.py leave an error that was reported
\* as it is.  A success becomes an error only by the process that reported it,
\* while it still holds the lock (its output is closed); an interruption is
\* replaced only by the worker's own error.
THEOREM OutcomesFinal == Spec => OutcomesAreFinal
<1>1. IInv /\ [Next]_vars =>
        [\A f \in Folder : data[f] # None =>
           /\ data'[f] # None
           /\ \A i \in DOMAIN data[f].runs :
                LET row == data[f].runs[i]
                    new == data'[f].runs[i] IN
                /\ row.outcome = "error" => IF row.error = "interrupted"
                                            THEN new.outcome = "error" ELSE new = row
                /\ row.outcome = "success" /\ new # row =>
                     /\ new = Outcome("output")
                     /\ \E p \in Scheduled \cup Manual :
                          Collected(p, f, i) /\ flock'[f] = None]_vars
  BY RowsFinal DEF Finally, BecomesOf
<1>2. QED
  BY <1>1, Invariant, PTL DEF Spec, OutcomesAreFinal

=============================================================================
