---------------------------- MODULE DomainStore -----------------------------
(***************************************************************************)
(* Retained normalized source records, the history of their changes, and   *)
(* the operator's watches on them (storage/domain_store.py,                *)
(* storage/watch_change_store.py, operator_watchlist.py,                   *)
(* ceqanet_persistence_execute.py, operator_web._mutate_watchlist).        *)
(*                                                                         *)
(* All are tables of one SQLite file, written through SQLAlchemy sessions. *)
(* pysqlite begins a transaction with the first statement that writes:     *)
(* what a session read before that, it read outside of any transaction.    *)
(* An UPDATE names the columns that differ from what the session loaded.   *)
(***************************************************************************)
EXTENDS Naturals, Sequences, FiniteSets

CONSTANTS
  Importer,   \* processes that apply a write plan
  Request,    \* the web server's threads, one per request
  Key,        \* source records
  Column, Value,
  Plans,      \* write plans: what a source publishes of some records
  Workloads,  \* which processes and plans take part in a behaviour
  MaxEvents,  \* bound on the history
  MaxClock,   \* bound on the clock
  None

Content == [Column -> Value]
Operation == [key: Key, content: Content]

ASSUME StoreConstants ==
  /\ Importer \cap Request = {}
  /\ Plans \subseteq Seq(Operation) \ {<<>>}
  /\ \A plan \in Plans : \A i, j \in DOMAIN plan : plan[i].key = plan[j].key => i = j
  /\ Workloads \subseteq [processes: SUBSET (Importer \cup Request), plans: SUBSET Plans]
  /\ None \notin Content
  /\ MaxEvents \in Nat /\ MaxClock \in Nat

VARIABLES
  offered,\* the workload of this behaviour
  db,     \* the committed tables
  draft,  \* the tables as the import that holds the write lock has made them
  clock,
  proc    \* per importer and request: program counter and locals

vars == <<offered, db, draft, clock, proc>>

\* A watch is looked up by status; payload is the document it was taken from.
Status == {"active", "triggered", "archived"}
Watch == [status: Status, payload: [status: Status, updated: 0..MaxClock]]
Event == [key: Key, previous: Content \cup {None}, current: Content, at: 0..MaxClock]

\* An alert names the watch, by its key, and the event that triggered it.
Tables == [record: [Key -> Content \cup {None}], history: Seq(Event),
           watch: [Key -> Watch \cup {None}], alerts: SUBSET (Key \X Nat)]

\* An importer's or a request's program counter and locals.
ProcState ==
  [pc: {"idle", "load", "stamp", "append", "commit", "look", "save"},
   plan: Seq(Operation), op: {None, "add", "archive"}, key: Key \cup {None},
   loaded: Content \cup Watch \cup {None}, at: 0..MaxClock]

\* None is no row, record, plan's record or set of tables.
ASSUME NoneIsNoRow ==
  None \notin Key /\ None \notin Content /\ None \notin Watch /\ None \notin Tables

NoProc == [pc |-> "idle", plan |-> <<>>, op |-> None, key |-> None, loaded |-> None,
           at |-> 0]

TypeOK ==
  /\ offered \in Workloads
  /\ db \in Tables
  /\ draft \in [Importer -> Tables \cup {None}]
  /\ \A i, j \in Importer : draft[i] # None /\ draft[j] # None => i = j
  /\ clock \in 0..MaxClock
  /\ proc \in [Importer \cup Request -> ProcState]

Init ==
  /\ offered \in Workloads
  /\ db = [record |-> [k \in Key |-> None], history |-> <<>>,
           watch |-> [k \in Key |-> None], alerts |-> {}]
  /\ draft = [i \in Importer |-> None]
  /\ clock = 0
  /\ proc = [p \in Importer \cup Request |-> NoProc]

At(p, label) == proc[p].pc = label
Ends(p) == proc' = [proc EXCEPT ![p] = NoProc]

\* What a flush leaves in a row that was loaded earlier.
Flushed(row, loaded, new) ==
  [c \in DOMAIN row |-> IF new[c] # loaded[c] THEN new[c] ELSE row[c]]

Agrees(watch) == watch # None => watch.status = watch.payload.status

Tick ==
  /\ clock < MaxClock
  /\ clock' = clock + 1
  /\ UNCHANGED <<db, draft, proc>>

-----------------------------------------------------------------------------
(* execute_ceqanet_write_plan: all operations of a plan in one transaction. *)

Locked == \E i \in Importer : draft[i] # None
Seen(i) == IF draft[i] = None THEN db ELSE draft[i]
Current(i) == Head(proc[i].plan)

StartImport(i, plan) ==
  /\ At(i, "idle")
  /\ proc' = [proc EXCEPT ![i] = [NoProc EXCEPT !.pc = "load", !.plan = plan]]
  /\ UNCHANGED <<db, draft, clock>>

\* On to the next operation, or to the commit.
Onward(i) ==
  LET rest == Tail(proc[i].plan) IN
  [NoProc EXCEPT !.pc = IF rest = <<>> THEN "commit" ELSE "load", !.plan = rest]

\* upsert loads the record; equal content writes nothing.
Load(i) ==
  /\ At(i, "load")
  /\ LET loaded == Seen(i).record[Current(i).key] IN
     proc' = [proc EXCEPT ![i] =
       IF loaded = Current(i).content THEN Onward(i)
       ELSE [@ EXCEPT !.pc = "stamp", !.loaded = loaded]]
  /\ UNCHANGED <<db, draft, clock>>

\* _append_domain_history takes the time of the event.
Stamp(i) ==
  /\ At(i, "stamp")
  /\ proc' = [proc EXCEPT ![i].pc = "append", ![i].at = clock]
  /\ UNCHANGED <<db, draft, clock>>

NewEvent(i) ==
  [key |-> Current(i).key, previous |-> proc[i].loaded,
   current |-> Current(i).content, at |-> proc[i].at]

\* trigger_watches_for_source_change looks at active watches that are older
\* than the event, and refuses one whose document says otherwise.
Matching(tables, event) ==
  event.previous # None /\ tables.watch[event.key] # None
  /\ tables.watch[event.key].status = "active"

Triggers(tables, event) ==
  Matching(tables, event) /\ event.at > tables.watch[event.key].payload.updated

\* An import fails over a watch at odds with itself, or a record that another
\* import has made meanwhile.
Refused(tables, event) ==
  \/ Matching(tables, event) /\ ~Agrees(tables.watch[event.key])
  \/ event.previous = None /\ tables.record[event.key] # None

\* Slip: the column that the watch is looked up by is left alone.
TriggeredInPayload ==
  [status |-> "active", payload |-> [status |-> "triggered", updated |-> clock]]

Triggered == [status |-> "triggered", payload |-> [status |-> "triggered", updated |-> clock]]

\* What an import makes of a watch, and of the alerts, of the record it changes.
Watched(tables, event) ==
  [tables.watch EXCEPT ![event.key] = IF Triggers(tables, event) THEN Triggered ELSE @]

Alerted(tables, event) ==
  tables.alerts \cup
    (IF Triggers(tables, event) THEN {<<event.key, Len(tables.history) + 1>>} ELSE {})

\* Slip: the row is written as a whole.
AppendedWhole(tables, event) ==
  [record |-> [tables.record EXCEPT ![event.key] = event.current],
   history |-> Append(tables.history, event),
   watch |-> Watched(tables, event),
   alerts |-> Alerted(tables, event)]

\* The rest of upsert: event, watch and alert, record.  Its first INSERT takes
\* the write lock and keeps it until the end of the import.
Appended(tables, event) ==
  [record |-> [tables.record EXCEPT ![event.key] =
     IF @ = None THEN event.current ELSE Flushed(@, event.previous, event.current)],
   history |-> Append(tables.history, event),
   watch |-> Watched(tables, event),
   alerts |-> Alerted(tables, event)]

AppendHistory(i) ==
  /\ At(i, "append")
  /\ draft[i] # None \/ ~Locked
  /\ Len(db.history) + Len(proc[i].plan) <= MaxEvents
  /\ IF Refused(Seen(i), NewEvent(i))
     THEN draft' = [draft EXCEPT ![i] = None] /\ Ends(i)
     ELSE /\ draft' = [draft EXCEPT ![i] = Appended(Seen(i), NewEvent(i))]
          /\ proc' = [proc EXCEPT ![i] = Onward(i)]
  /\ UNCHANGED <<db, clock>>

Commit(i) ==
  /\ At(i, "commit")
  /\ db' = Seen(i)
  /\ draft' = [draft EXCEPT ![i] = None]
  /\ Ends(i)
  /\ UNCHANGED clock

\* An error (waiting for the lock too long is one), or the end of the process.
RollsBack(i) ==
  /\ ~At(i, "idle")
  /\ draft' = [draft EXCEPT ![i] = None]
  /\ Ends(i)
  /\ UNCHANGED <<db, clock>>

-----------------------------------------------------------------------------
(* POST and DELETE /api/watchlist: add_source_watch, archive_source_watch.  *)

\* The record and the watch are loaded; a watch at odds with itself is refused.
Ask(r, op, k) ==
  /\ At(r, "idle")
  /\ Agrees(db.watch[k])
  /\ IF op = "add" THEN db.record[k] # None ELSE db.watch[k] # None
  /\ proc' = [proc EXCEPT ![r] =
       [NoProc EXCEPT !.pc = "look", !.op = op, !.key = k, !.loaded = db.watch[k]]]
  /\ UNCHANGED <<db, draft, clock>>

\* The time is taken; upsert_watchlist_item looks for the row again, which
\* only matters if there was none: a session loads a row once.
Look(r) ==
  /\ At(r, "look")
  /\ proc' = [proc EXCEPT ![r].pc = "save", ![r].at = clock,
       ![r].loaded = IF @ = None THEN db.watch[proc[r].key] ELSE @]
  /\ UNCHANGED <<db, draft, clock>>

Asked(r) ==
  LET status == IF proc[r].op = "add" THEN "active" ELSE "archived" IN
  [status |-> status, payload |-> [status |-> status, updated |-> proc[r].at]]

\* INSERT or UPDATE, then the whole list is built, which refuses any other
\* watch at odds with itself; all is rolled back if either fails.
Save(r) ==
  /\ At(r, "save") /\ ~Locked
  /\ LET k == proc[r].key
         row == db.watch[k]
         inserted == proc[r].loaded = None
     IN db' = IF /\ inserted => row = None
                 /\ \A other \in Key \ {k} : Agrees(db.watch[other])
              THEN [db EXCEPT !.watch[k] =
                     IF inserted THEN Asked(r)
                     ELSE Flushed(row, proc[r].loaded, Asked(r))]
              ELSE db
  /\ Ends(r)
  /\ UNCHANGED <<draft, clock>>

\* An error before the commit, or the end of the server.
Abandons(r) ==
  /\ ~At(r, "idle")
  /\ Ends(r)
  /\ UNCHANGED <<db, draft, clock>>

-----------------------------------------------------------------------------
Import(i) ==
  \/ \E plan \in offered.plans : StartImport(i, plan)
  \/ Load(i) \/ Stamp(i) \/ AppendHistory(i) \/ Commit(i) \/ RollsBack(i)

Serve(r) ==
  \/ \E op \in {"add", "archive"}, k \in Key : Ask(r, op, k)
  \/ Look(r) \/ Save(r) \/ Abandons(r)

Next ==
  /\ \/ Tick
     \/ \E i \in Importer \cap offered.processes : Import(i)
     \/ \E r \in Request \cap offered.processes : Serve(r)
  /\ UNCHANGED offered

Spec == Init /\ [][Next]_vars

-----------------------------------------------------------------------------
(* Properties.                                                             *)

\* The events of a record that set a column: the first, and those that differ
\* in it from what their import had loaded.
Sets(event, k, c) ==
  event.key = k /\ (event.previous = None \/ event.previous[c] # event.current[c])

\* However imports overtake one another, fail and roll back, each column of a
\* retained record is what the newest recorded change of that column says, and
\* a record without history does not exist.
HistoryExplainsRecord ==
  \A k \in Key :
    IF \A i \in DOMAIN db.history : db.history[i].key # k THEN db.record[k] = None
    ELSE \A c \in Column :
      \E i \in DOMAIN db.history :
        /\ Sets(db.history[i], k, c)
        /\ \A j \in DOMAIN db.history : Sets(db.history[j], k, c) => j <= i
        /\ db.record[k][c] = db.history[i].current[c]

\* A watch comes to be at odds with itself (which every later request, and any
\* import that changes its record while it counts as active, refuses) in one way
\* only: a request wrote it after somebody else had, since the request loaded it.
OnlyOvertakenDisagree ==
  [][\A k \in Key :
       Agrees(db.watch[k]) /\ ~Agrees(db'.watch[k]) =>
         \E r \in Request : /\ At(r, "save") /\ proc[r].key = k
                            /\ proc[r].loaded # db.watch[k]]_vars
=============================================================================
