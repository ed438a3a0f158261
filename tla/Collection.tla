----------------------------- MODULE Collection -----------------------------
(***************************************************************************)
(* Collection of the SMARTS roster into the Command Center's data folder   *)
(* (live_command_center.py, collection_schedule.py, data_folder.py and the *)
(* runs table of lead_workflow.py).                                        *)
(*                                                                         *)
(* One server owns the folder in its variable directory; its handlers that *)
(* hold the lock maintenance run one at a time, and its worker thread      *)
(* collects while it holds capture_mutex.  Daily scheduled runs and manual *)
(* runs are processes of their own that find the folder through the        *)
(* location record of the startup folder.  Every collection, backup and    *)
(* change of folder takes the folder's capture.lock (flock, nonblocking);  *)
(* other handlers write without it.                                        *)
(***************************************************************************)
EXTENDS Naturals, Sequences, FiniteSets

CONSTANTS
  Folder,     \* directories of the machine
  Startup,    \* the one given as --data-dir
  Scheduled,  \* processes of the systemd unit (collection_schedule.run)
  Manual,     \* processes of run-command-center.sh (main)
  Worker,     \* the server's capture thread
  Workloads,  \* what a behaviour may be offered: folders, processes, kinds of
              \* requests (move, restore, schedule), what the operator sets the
              \* switches source and enabled to (edits), how runs fail (errors):
              \* denied (HTTP 403), failed, or output (the run's standard output
              \* is closed when it prints what it collected); and bounds on the
              \* rows of a folder's table (runs) and on what is recorded (notes)
  None

ASSUME CollectionConstants ==
  /\ Startup \in Folder
  /\ Worker \notin Scheduled \cup Manual
  /\ Scheduled \cap Manual = {}
  /\ \A w \in Workloads :
       /\ w.folders \subseteq Folder /\ Startup \in w.folders
       /\ w.processes \subseteq Scheduled \cup Manual
       /\ w.requests \subseteq {"move", "restore", "schedule"}
       /\ w.edits \subseteq BOOLEAN
       /\ w.errors \subseteq {"denied", "failed", "output"}
       /\ w.runs \in Nat /\ w.notes \in Nat

Collector == Scheduled \cup Manual \cup {Worker}

\* A row of table runs; its id is its position.
Row == [outcome: {"running", "success", "error"},
        error: {None, "interrupted", "denied", "failed", "output"}]

\* What the properties tell apart in a folder: table runs, the run that wrote
\* active.json, how much the operator recorded, the setting source_enabled,
\* enabled of schedule.json and a failure in schedule-run.json.
Data == [runs: Seq(Row), active: Nat, noted: Nat,
         source: BOOLEAN, enabled: BOOLEAN, failed: BOOLEAN]

\* None is none of the things it may stand in for, and no process is the handler.
ASSUME NoneIsNothing ==
  /\ None \notin Folder \cup Collector
  /\ None \notin Data
  /\ None \notin {"handler", "interrupted", "denied", "failed"}
  /\ "handler" \notin Collector

Handler == {"move", "restore", "backup", "schedule"}

VARIABLES
  offered,    \* the workload of this behaviour
  data,       \* contents of each folder (None: absent or empty)
  pointer,    \* the folder resolve_folder finds from the startup folder
  flock,      \* who holds each folder's capture.lock
  up,         \* whether the server runs
  directory,  \* the server's folder
  mutex,      \* who holds capture_mutex
  handler,    \* the handler that holds maintenance
  preview,    \* the staged restore preview
  archive,    \* the operator's last downloaded backup
  acked,      \* what the operator recorded, as the server acknowledged it
  proc        \* per collector: its program counter and locals

server == <<up, directory, mutex, handler, preview>>
vars == <<offered, data, pointer, flock, server, archive, acked, proc>>

\* A handler's program counter and locals, and a collector's.
HandlerState ==
  [op: Handler \cup {None},
   pc: {"idle", "mutex", "files", "database", "rename", "point", "switch", "write"},
   target: Folder \cup {None}, copy: Data \cup {None}]

ProcState ==
  [pc: {"idle", "main", "lock", "begin", "collect", "finish", "print", "history",
        "record", "report", "release"},
   home: Folder \cup {None}, dir: Folder \cup {None}, row: Nat,
   result: {None, "ok", "busy", "denied", "failed", "output"}]

NoHandler == [op |-> None, pc |-> "idle", target |-> None, copy |-> None]
NoProc == [pc |-> "idle", home |-> None, dir |-> None, row |-> 0, result |-> None]

TypeOK ==
  /\ offered \in Workloads
  /\ data \in [Folder -> Data \cup {None}]
  /\ pointer \in Folder /\ data[pointer] # None
  /\ flock \in [Folder -> Collector \cup {"handler", None}]
  /\ up \in BOOLEAN
  /\ directory \in Folder
  /\ mutex \in {Worker, "handler", None}
  /\ handler \in HandlerState
  /\ preview \in Data \cup {None}
  /\ archive \in Data \cup {None}
  /\ acked \in Nat
  /\ proc \in [Collector -> ProcState]

Fresh == [runs |-> <<>>, active |-> 0, noted |-> 0, source |-> TRUE,
          enabled |-> TRUE, failed |-> FALSE]

Init ==
  /\ offered \in Workloads
  /\ data = [f \in Folder |-> IF f = Startup THEN Fresh ELSE None]
  /\ pointer = Startup
  /\ flock = [f \in Folder |-> None]
  /\ up = TRUE /\ directory = Startup /\ mutex = None
  /\ handler = NoHandler /\ preview = None
  /\ archive = None
  /\ acked = 0
  /\ proc = [p \in Collector |-> NoProc]

-----------------------------------------------------------------------------
(* One collection, by the worker or by a process.                          *)

At(p, label) == proc[p].pc = label
Now(p) == data[proc[p].dir]
Go(p, label) == proc' = [proc EXCEPT ![p].pc = label]

\* The bound: collections start while every table has room for all under way.
Room ==
  \A f \in Folder : data[f] # None =>
    Len(data[f].runs) + Cardinality({p \in Collector : ~At(p, "idle")}) < offered.runs

\* Where a collector goes once it has released capture.lock.
After(p, result) ==
  CASE p = Worker -> "release"
    [] p \in Scheduled -> IF result = "ok" THEN "record" ELSE "history"
    [] OTHER -> "idle"

\* A process that ends forgets its locals; the others keep them.
Returned(p, result) ==
  IF After(p, result) = "idle" THEN NoProc
  ELSE [proc[p] EXCEPT !.pc = After(p, result), !.result = result]

TakeLock(p) ==
  /\ At(p, "lock") /\ flock[proc[p].dir] = None
  /\ flock' = [flock EXCEPT ![proc[p].dir] = p]
  /\ Go(p, "begin")
  /\ UNCHANGED <<data, pointer, server, archive, acked>>

LockBusy(p) ==
  /\ At(p, "lock") /\ flock[proc[p].dir] # None
  /\ proc' = [proc EXCEPT ![p] = Returned(p, "busy")]
  /\ UNCHANGED <<data, pointer, flock, server, archive, acked>>

\* Slip: the update of begin_run without its WHERE clause.
InterruptedAll(row) == [outcome |-> "error", error |-> "interrupted"]

Interrupted(row) ==
  IF row.outcome = "running" THEN [outcome |-> "error", error |-> "interrupted"]
  ELSE row

\* Rows an earlier collection left running are marked interrupted.
BeginRun(p) ==
  /\ At(p, "begin")
  /\ data' = [data EXCEPT ![proc[p].dir].runs =
       Append([i \in DOMAIN @ |-> Interrupted(@[i])],
              [outcome |-> "running", error |-> None])]
  /\ proc' = [proc EXCEPT ![p].pc = "collect", ![p].row = Len(Now(p).runs) + 1]
  /\ UNCHANGED <<pointer, flock, server, archive, acked>>

\* active.json is replaced only after both counties were traversed.
Publish(p) ==
  /\ At(p, "collect")
  /\ data' = [data EXCEPT ![proc[p].dir].active = proc[p].row]
  /\ proc' = [proc EXCEPT ![p].pc = "finish", ![p].result = "ok"]
  /\ UNCHANGED <<pointer, flock, server, archive, acked>>

\* A process records the error under capture.lock; the worker's exception
\* leaves the lock's scope first.
CollectFails(p, error) ==
  /\ At(p, "collect")
  /\ proc' = [proc EXCEPT ![p].pc = IF p = Worker THEN "report" ELSE "finish",
                          ![p].result = error]
  /\ flock' = IF p = Worker THEN [flock EXCEPT ![proc[p].dir] = None] ELSE flock
  /\ UNCHANGED <<data, pointer, server, archive, acked>>

Outcome(result) ==
  IF result = "ok" THEN [outcome |-> "success", error |-> None]
  ELSE [outcome |-> "error", error |-> result]

Prints(p) == p # Worker /\ proc[p].result = "ok"

\* finish_run.  A process then prints what it collected while it still holds
\* capture.lock; otherwise the lock is released (no step of another process
\* falls between: it would only find the lock still taken).
FinishRun(p) ==
  /\ At(p, "finish")
  /\ data' = [data EXCEPT ![proc[p].dir].runs[proc[p].row] = Outcome(proc[p].result)]
  /\ IF Prints(p) THEN Go(p, "print") /\ UNCHANGED flock
     ELSE /\ proc' = [proc EXCEPT ![p] = Returned(p, proc[p].result)]
          /\ flock' = [flock EXCEPT ![proc[p].dir] = None]
  /\ UNCHANGED <<pointer, server, archive, acked>>

PrintTotals(p) ==
  /\ At(p, "print")
  /\ proc' = [proc EXCEPT ![p] = Returned(p, "ok")]
  /\ flock' = [flock EXCEPT ![proc[p].dir] = None]
  /\ UNCHANGED <<data, pointer, server, archive, acked>>

\* The standard output is closed: finish_run is called a second time, with
\* that error, over the success it recorded.
PrintFails(p) ==
  /\ At(p, "print") /\ "output" \in offered.errors
  /\ data' = [data EXCEPT ![proc[p].dir].runs[proc[p].row] = Outcome("output")]
  /\ proc' = [proc EXCEPT ![p] = Returned(p, "output")]
  /\ flock' = [flock EXCEPT ![proc[p].dir] = None]
  /\ UNCHANGED <<pointer, server, archive, acked>>

\* A process is killed, or an sqlite error leaves every handler.
Dies(p) ==
  /\ p # Worker /\ ~At(p, "idle")
  /\ flock' = [f \in Folder |-> IF flock[f] = p THEN None ELSE flock[f]]
  /\ proc' = [proc EXCEPT ![p] = NoProc]
  /\ UNCHANGED <<data, pointer, server, archive, acked>>

-----------------------------------------------------------------------------
(* The worker thread of the server.                                        *)

\* POST /api/capture.
StartWorker ==
  /\ up /\ handler = NoHandler
  /\ data[directory].source
  /\ mutex = None /\ Room
  /\ mutex' = Worker
  /\ proc' = [proc EXCEPT ![Worker].pc = "lock", ![Worker].dir = directory]
  /\ UNCHANGED <<data, pointer, flock, up, directory, handler, preview, archive, acked>>

\* finish_run of a failed collection, after capture.lock was released.
ReportFailure ==
  /\ At(Worker, "report")
  /\ data' = [data EXCEPT ![proc[Worker].dir].runs[proc[Worker].row] =
                Outcome(proc[Worker].result)]
  /\ Go(Worker, "release")
  /\ UNCHANGED <<pointer, flock, server, archive, acked>>

\* The finally clause: the status is idle again and the mutex is free.
ReleaseMutex ==
  /\ At(Worker, "release")
  /\ mutex' = None
  /\ proc' = [proc EXCEPT ![Worker] = NoProc]
  /\ UNCHANGED <<data, pointer, flock, up, directory, handler, preview, archive, acked>>

\* Slip: a thread that unwinds keeps the folder locked.
UnwindsLocked ==
  /\ proc[Worker].pc \in {"begin", "collect", "finish", "report"}
  /\ Go(Worker, "release")
  /\ UNCHANGED <<data, pointer, flock, server, archive, acked>>

\* Slip: the mutex is released by the handlers of known errors only.
UnwindsWithoutFinally ==
  /\ proc[Worker].pc \in {"begin", "collect", "finish", "report"}
  /\ flock' = [f \in Folder |-> IF flock[f] = Worker THEN None ELSE flock[f]]
  /\ proc' = [proc EXCEPT ![Worker] = NoProc]
  /\ UNCHANGED <<data, pointer, server, archive, acked>>

\* An sqlite error is none of those the worker catches: the thread unwinds.
WorkerUnwinds ==
  /\ proc[Worker].pc \in {"begin", "collect", "finish", "report"}
  /\ flock' = [f \in Folder |-> IF flock[f] = Worker THEN None ELSE flock[f]]
  /\ Go(Worker, "release")
  /\ UNCHANGED <<data, pointer, server, archive, acked>>

-----------------------------------------------------------------------------
(* Processes.                                                              *)

\* run-command-center.sh: main resolves the folder before it locks it.
StartManual(p) ==
  /\ p \in Manual \cap offered.processes /\ At(p, "idle") /\ Room
  /\ proc' = [proc EXCEPT ![p].pc = "lock", ![p].dir = pointer]
  /\ UNCHANGED <<data, pointer, flock, server, archive, acked>>

\* collection_schedule.run: resolves the folder and reads the configuration.
StartScheduled(p) ==
  /\ p \in Scheduled \cap offered.processes /\ At(p, "idle") /\ Room
  /\ data[pointer].enabled /\ data[pointer].source
  /\ proc' = [proc EXCEPT ![p].pc = "main", ![p].home = pointer]
  /\ UNCHANGED <<data, pointer, flock, server, archive, acked>>

SkipScheduled(p) ==
  /\ p \in Scheduled \cap offered.processes /\ At(p, "idle")
  /\ ~(data[pointer].enabled /\ data[pointer].source)
  /\ data' = [data EXCEPT ![pointer].failed = FALSE]
  /\ UNCHANGED <<pointer, flock, server, archive, acked, proc>>

\* The collection the run calls resolves the folder a second time.
CallMain(p) ==
  /\ At(p, "main")
  /\ proc' = [proc EXCEPT ![p].pc = "lock", ![p].dir = pointer]
  /\ UNCHANGED <<data, pointer, flock, server, archive, acked>>

LastError(folder) ==
  LET r == data[folder].runs IN IF r = <<>> THEN None ELSE r[Len(r)].error

\* How the text finish_run keeps of an error reads, as far as run looks at it:
\* fetch_page turns a status that is not 200 into an error of its own class.
Says(error) ==
  CASE error = "denied" -> {"SmartsApiError", "403"}
    [] error = "failed" -> {"SmartsApiError"}
    [] error = "output" -> {"BrokenPipeError"}
    [] OTHER -> {}

Forbidden(error) == {"HTTPStatusError", "403"} \subseteq Says(error)

\* After a failure the newest row, of the folder found first, is to tell
\* whether access was denied; if so, schedule and source are switched off.
ReadHistory(p) ==
  /\ At(p, "history")
  /\ data' = IF Forbidden(LastError(proc[p].home))
             THEN [data EXCEPT ![proc[p].home].enabled = FALSE,
                               ![proc[p].home].source = FALSE]
             ELSE data
  /\ Go(p, "record")
  /\ UNCHANGED <<pointer, flock, server, archive, acked>>

RecordRun(p) ==
  /\ At(p, "record")
  /\ data' = [data EXCEPT ![proc[p].home].failed = proc[p].result # "ok"]
  /\ proc' = [proc EXCEPT ![p] = NoProc]
  /\ UNCHANGED <<pointer, flock, server, archive, acked>>

-----------------------------------------------------------------------------
(* Handlers of the server.                                                 *)

Idle == up /\ handler = NoHandler
Step(label) == handler' = [handler EXCEPT !.pc = label]

\* Leaving the handler's scopes releases maintenance, and the locks it took.
Done ==
  /\ handler' = NoHandler
  /\ mutex' = IF mutex = "handler" THEN None ELSE mutex
  /\ flock' = [f \in Folder |-> IF flock[f] = "handler" THEN None ELSE flock[f]]

\* Feedback, facts, bids and settings: one transaction in the server's folder.
PostNote ==
  /\ Idle /\ acked < offered.notes
  /\ data' = [data EXCEPT ![directory].noted = acked + 1]
  /\ acked' = acked + 1
  /\ UNCHANGED <<pointer, flock, server, archive, proc>>

PostSource(enabled) ==
  /\ Idle
  /\ data' = [data EXCEPT ![directory].source = enabled]
  /\ UNCHANGED <<pointer, flock, server, archive, acked, proc>>

\* schedule, schedule-install and schedule-disable read schedule.json and write
\* it later; the first keeps the value of enabled it read.
PostSchedule ==
  /\ Idle /\ "schedule" \in offered.requests
  /\ \E enabled \in {data[directory].enabled} \cup offered.edits :
       handler' = [NoHandler EXCEPT !.op = "schedule", !.pc = "write",
                     !.copy = [data[directory] EXCEPT !.enabled = enabled]]
  /\ UNCHANGED <<data, pointer, flock, up, directory, mutex, preview, archive, acked,
                 proc>>

WriteSchedule ==
  /\ handler.pc = "write"
  /\ data' = [data EXCEPT ![directory].enabled = handler.copy.enabled]
  /\ Done
  /\ UNCHANGED <<pointer, up, directory, preview, archive, acked, proc>>

\* POST /api/restore-preview stages a backup and drops the previous preview.
PostPreview ==
  /\ Idle /\ archive # None
  /\ preview' = archive
  /\ UNCHANGED <<data, pointer, flock, up, directory, mutex, handler, archive, acked,
                 proc>>

\* GET /api/backup.zip; bounded to one backup, taken to be restored.
GetBackup ==
  /\ Idle /\ flock[directory] = None
  /\ archive = None /\ "restore" \in offered.requests
  /\ flock' = [flock EXCEPT ![directory] = "handler"]
  /\ handler' = [NoHandler EXCEPT !.op = "backup", !.pc = "files"]
  /\ UNCHANGED <<data, pointer, up, directory, mutex, preview, archive, acked, proc>>

\* POST /api/data-folder and /api/restore-apply wait for capture_mutex while
\* they hold maintenance.  A restore makes a folder of its own (as long as the
\* bound Folder has one left).
\* What a restore may make.
Vacant == {f \in offered.folders : data[f] = None}

\* Where a move may lead; of the vacant folders, which are alike, to one.
Targets == (offered.folders \ Vacant)
           \cup (IF Vacant = {} THEN {} ELSE {CHOOSE f \in Vacant : TRUE})

PostFolder(op, target) ==
  /\ Idle
  /\ (op = "restore") <=> (target = None)
  /\ op = "restore" => Vacant # {}
  /\ handler' = [NoHandler EXCEPT !.op = op, !.pc = "mutex", !.target = target]
  /\ UNCHANGED <<data, pointer, flock, up, directory, mutex, preview, archive, acked,
                 proc>>

Running == ~At(Worker, "idle") /\ ~At(Worker, "release")

\* Slip: the folder is changed without regard to capture.lock.
RefusedUnlocked ==
  \/ Running
  \/ handler.op = "move" /\ data[handler.target] # None
  \/ handler.op = "restore" /\ preview = None

\* What is refused once the mutex is taken: a running collection (never so
\* while the mutex is free), a locked folder, an occupied destination, an
\* unknown preview.
Refused ==
  \/ Running
  \/ flock[directory] # None
  \/ handler.op = "move" /\ data[handler.target] # None
  \/ handler.op = "restore" /\ preview = None

RefuseFolder ==
  /\ handler.pc = "mutex" /\ mutex = None /\ Refused
  /\ handler' = NoHandler
  /\ UNCHANGED <<data, pointer, flock, up, directory, mutex, preview, archive, acked,
                 proc>>

\* Slip: the change of folder does not take capture_mutex.
AcceptWithoutMutex ==
  /\ handler.pc = "mutex" /\ ~Refused
  /\ flock' = [flock EXCEPT ![directory] = "handler"]
  /\ IF handler.op = "move" THEN Step("files") /\ UNCHANGED preview
     ELSE /\ \E new \in Vacant :
               handler' = [handler EXCEPT !.pc = "rename", !.target = new,
                                          !.copy = preview]
          /\ preview' = None
  /\ UNCHANGED <<data, pointer, up, directory, mutex, archive, acked, proc>>

\* A restore takes the preview, which is used up even if the rest fails; its
\* target has a new name.
AcceptFolder ==
  /\ handler.pc = "mutex" /\ mutex = None /\ ~Refused
  /\ mutex' = "handler"
  /\ flock' = [flock EXCEPT ![directory] = "handler"]
  /\ IF handler.op = "move" THEN Step("files") /\ UNCHANGED preview
     ELSE /\ \E new \in Vacant :
               handler' = [handler EXCEPT !.pc = "rename", !.target = new,
                                          !.copy = preview]
          /\ preview' = None
  /\ UNCHANGED <<data, pointer, up, directory, archive, acked, proc>>

\* snapshot_files copies in the order of the names: active.json and
\* schedule*.json, then workflow.sqlite3.
CopyFiles ==
  /\ handler.pc = "files"
  /\ handler' = [handler EXCEPT !.pc = "database", !.copy = data[directory]]
  /\ UNCHANGED <<data, pointer, flock, up, directory, mutex, preview, archive, acked,
                 proc>>

WithDatabase ==
  LET d == data[directory] IN
  [handler.copy EXCEPT !.runs = d.runs, !.noted = d.noted, !.source = d.source]

CopyDatabase ==
  /\ handler.pc = "database"
  /\ IF handler.op = "backup"
     THEN archive' = WithDatabase /\ Done
     ELSE /\ handler' = [handler EXCEPT !.pc = "rename", !.copy = WithDatabase]
          /\ UNCHANGED <<archive, flock, mutex>>
  /\ UNCHANGED <<data, pointer, up, directory, preview, acked, proc>>

RenameStaged ==
  /\ handler.pc = "rename" /\ data[handler.target] = None
  /\ data' = [data EXCEPT ![handler.target] = handler.copy]
  /\ Step("point")
  /\ UNCHANGED <<pointer, flock, up, directory, mutex, preview, archive, acked, proc>>

\* The location record is replaced: from here the target is what a restart
\* and every process find.  A restore means what the backup held.
PointStartup ==
  /\ handler.pc = "point"
  /\ pointer' = handler.target
  /\ acked' = IF handler.op = "restore" THEN handler.copy.noted ELSE acked
  /\ Step("switch")
  /\ UNCHANGED <<data, flock, up, directory, mutex, preview, archive, proc>>

\* Slip: the server keeps serving the folder it was started with.
KeepDirectory ==
  /\ handler.pc = "switch"
  /\ Done
  /\ UNCHANGED <<data, pointer, up, directory, preview, archive, acked, proc>>

SwitchDirectory ==
  /\ handler.pc = "switch"
  /\ directory' = handler.target
  /\ Done
  /\ UNCHANGED <<data, pointer, up, preview, archive, acked, proc>>

\* An OSError while files are copied, renamed or pointed to.
HandlerRaises ==
  /\ handler.pc \in {"files", "database", "rename", "point"}
  /\ Done
  /\ UNCHANGED <<data, pointer, up, directory, preview, archive, acked, proc>>

\* The server's threads, locks and previews end with its process.
ServerDies ==
  /\ up
  /\ up' = FALSE
  /\ handler' = NoHandler /\ mutex' = None /\ preview' = None
  /\ flock' = [f \in Folder |->
                 IF flock[f] \in {"handler", Worker} THEN None ELSE flock[f]]
  /\ proc' = [proc EXCEPT ![Worker] = NoProc]
  /\ UNCHANGED <<data, pointer, directory, archive, acked>>

\* make_server: resolves the startup folder and initializes what it finds.
StartServer ==
  /\ ~up
  /\ up' = TRUE
  /\ directory' = pointer
  /\ UNCHANGED <<data, pointer, flock, mutex, handler, preview, archive, acked, proc>>

-----------------------------------------------------------------------------
Collect(p) ==
  \/ TakeLock(p) \/ LockBusy(p) \/ BeginRun(p) \/ Publish(p)
  \/ \E error \in offered.errors \ {"output"} : CollectFails(p, error)
  \/ FinishRun(p) \/ PrintTotals(p) \/ PrintFails(p)

Work == Collect(Worker) \/ ReportFailure \/ ReleaseMutex

Process(p) ==
  \/ CallMain(p) \/ Collect(p)
  \/ ReadHistory(p) \/ RecordRun(p)

Start(p) == StartManual(p) \/ StartScheduled(p) \/ SkipScheduled(p)

ChangeFolder ==
  \/ RefuseFolder \/ AcceptFolder \/ CopyFiles \/ CopyDatabase
  \/ RenameStaged \/ PointStartup \/ SwitchDirectory

Serve ==
  \/ PostNote \/ (\E enabled \in offered.edits : PostSource(enabled))
  \/ PostSchedule \/ PostPreview \/ GetBackup \/ StartWorker
  \/ \E op \in offered.requests \ {"schedule"}, target \in Targets \cup {None} :
       PostFolder(op, target)

Fault ==
  \/ HandlerRaises \/ WorkerUnwinds \/ ServerDies \/ StartServer
  \/ \E p \in Collector : Dies(p)

Next ==
  /\ \/ Work \/ ChangeFolder \/ WriteSchedule \/ Serve \/ Fault
     \/ \E p \in Scheduled \cup Manual : Process(p) \/ Start(p)
  /\ UNCHANGED offered

Spec == Init /\ [][Next]_vars

\* Sockets and sqlite have timeouts, so each thread that can step steps.
FairSpec ==
  Spec /\ WF_vars(Work /\ UNCHANGED offered)
       /\ WF_vars(ChangeFolder /\ UNCHANGED offered)
       /\ WF_vars(WriteSchedule /\ UNCHANGED offered)

-----------------------------------------------------------------------------
(* Properties.                                                             *)

\* In every folder, copied and restored ones too, active.json comes from the
\* newest successful run or from a later one that had collected all there is
\* and was cut off before it could say so; never from a collection that failed.
PublishedIsNewest ==
  \A f \in Folder : data[f] # None =>
    LET d == data[f] IN
    /\ \A i \in DOMAIN d.runs : d.runs[i].outcome = "success" => i <= d.active
    /\ d.active > 0 =>
         /\ d.active \in DOMAIN d.runs
         /\ d.runs[d.active].error \notin {"denied", "failed"}

\* Whatever happens to folders, server and collections, the startup folder
\* leads to everything the operator was told is recorded, and the running
\* server is there too unless it is just changing over.
AcknowledgedIsKept ==
  /\ data[pointer] # None /\ data[pointer].noted = acked
  /\ up /\ handler.pc # "switch" => directory = pointer

\* While the server's worker collects, the server serves the very folder it
\* collects into.
WorkerServesDirectory ==
  ~At(Worker, "idle") => /\ proc[Worker].dir = directory
                         /\ up /\ mutex = Worker

\* Who collected into row i of folder f and has not let go of its lock.
Collected(p, f, i) == At(p, "print") /\ flock[f] = p /\ proc[p].row = i

\* The table of runs is honest about what is over: an error that was reported
\* stays; a success stays too, unless the very process that reported it, before
\* it gives up capture.lock, finds its output closed; and what the worker
\* reports after it released the lock can only replace "interrupted", which a
\* collection that came in between may have recorded, by the error it met.
OutcomesAreFinal ==
  [][\A f \in Folder : data[f] # None =>
       /\ data'[f] # None
       /\ \A i \in DOMAIN data[f].runs :
            LET row == data[f].runs[i]
                new == data'[f].runs[i] IN
            /\ row.outcome = "error" => IF row.error = "interrupted"
                                        THEN new.outcome = "error" ELSE new = row
            /\ row.outcome = "success" /\ new # row =>
                 /\ new = Outcome("output")
                 /\ \E p \in Scheduled \cup Manual :
                      Collected(p, f, i) /\ flock'[f] = None]_vars

\* A collection that is under way is shown as running, and one that prints its
\* totals as a success: no other collector, and no change of folder, marks its
\* row or moves the table away under it.
LiveRunsAreRunning ==
  \A p \in Collector : proc[p].pc \in {"collect", "finish", "print"} =>
    /\ Now(p) # None /\ proc[p].row \in DOMAIN Now(p).runs
    /\ Now(p).runs[proc[p].row].outcome = IF At(p, "print") THEN "success" ELSE "running"

\* No lock outlives its owner: whoever dies, unwinds or is refused leaves no
\* folder locked and no mutex taken, no one works in a folder unlocked, what is
\* locked is shown as running, and the worker's folder is the server's.
LocksHaveOwners ==
  /\ LiveRunsAreRunning
  /\ WorkerServesDirectory
  /\ \A f \in Folder, p \in Collector :
       flock[f] = p <=>
         /\ proc[p].pc \in {"begin", "collect", "finish", "print"}
         /\ proc[p].dir = f
  /\ \A f \in Folder :
       flock[f] = "handler" <=>
         /\ handler.pc \in {"files", "database", "rename", "point", "switch"}
         /\ f = directory
  /\ mutex = Worker <=> ~At(Worker, "idle")
  /\ mutex = "handler" => handler.op \in {"move", "restore"}

\* Every handler that holds maintenance ends, so the next request is served:
\* the one that waits for the worker's collection does not wait forever.
HandlersEnd == (handler # NoHandler) ~> (handler = NoHandler)

\* A scheduled run that was denied access (HTTP 403) ends with its source
\* switched off ("403 access denied; no automatic retry").
DenialStopsSchedule ==
  [][\A p \in Scheduled :
       RecordRun(p) /\ proc[p].result = "denied" => ~data'[proc[p].home].source]_vars
=============================================================================
