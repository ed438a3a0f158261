------------------------- MODULE DomainStore_proofs -------------------------
(***************************************************************************)
(* Records, their history and watches, for any importers, requests, keys,  *)
(* columns and plans.                                                      *)
(***************************************************************************)
EXTENDS DomainStore, TLAPS

\* The newest recorded change of each column of a record is what the record says.
Newest(t, k, c) ==
  \E i \in DOMAIN t.history :
    /\ Sets(t.history[i], k, c)
    /\ \A j \in DOMAIN t.history : Sets(t.history[j], k, c) => j <= i
    /\ t.record[k][c] = t.history[i].current[c]

\* Every record is as its history tells.
Explained(t) ==
  \A k \in Key :
    /\ (\A i \in DOMAIN t.history : t.history[i].key # k) => t.record[k] = None
    /\ (\E i \in DOMAIN t.history : t.history[i].key = k) =>
         \A c \in Column : Newest(t, k, c)

\* What an import has made of the tables: no row is lost, no watch spoiled.
Grown(t, s) ==
  \A k \in Key :
    /\ s.record[k] # None => t.record[k] # None
    /\ s.watch[k] # None => t.watch[k] # None
    /\ Agrees(s.watch[k]) => Agrees(t.watch[k])

\* What an import has drafted is explained too, and loses nothing.
Drafts ==
  \A i \in Importer : draft[i] # None => Explained(draft[i]) /\ Grown(draft[i], db)

\* What an importer has at each of its steps.
Imports(i) ==
  /\ proc[i].pc \in {"idle", "load", "stamp", "append", "commit"}
  /\ proc[i].pc \in {"load", "stamp", "append"} => proc[i].plan # <<>>
  /\ proc[i].pc \in {"stamp", "append"} =>
       /\ proc[i].loaded \in Content \cup {None}
       /\ proc[i].loaded # None => Seen(i).record[Current(i).key] # None

\* What a request has at each of its steps.
Serves(r) ==
  /\ proc[r].pc \in {"idle", "look", "save"}
  /\ proc[r].pc # "idle" =>
       /\ proc[r].key \in Key /\ proc[r].op \in {"add", "archive"}
       /\ proc[r].loaded \in Watch \cup {None}
       /\ proc[r].loaded # None => db.watch[proc[r].key] # None

\* The inductive invariant.
IInv ==
  /\ TypeOK
  /\ Explained(db)
  /\ Drafts
  /\ \A i \in Importer : Imports(i)
  /\ \A r \in Request : Serves(r)

-----------------------------------------------------------------------------
(* Rows.                                                                   *)

\* A flush leaves a row of the same columns.
LEMMA FlushedContent ==
  ASSUME NEW row \in Content, NEW loaded \in Content, NEW new \in Content
  PROVE  /\ Flushed(row, loaded, new) \in Content
         /\ \A c \in Column : Flushed(row, loaded, new)[c] =
              IF new[c] # loaded[c] THEN new[c] ELSE row[c]
BY DEF Flushed, Content

\* A flush leaves a watch.
LEMMA FlushedWatch ==
  ASSUME NEW row \in Watch, NEW loaded \in Watch, NEW new \in Watch
  PROVE  Flushed(row, loaded, new) \in Watch
<1>1. Flushed(row, loaded, new) =
        [status |-> IF new.status # loaded.status THEN new.status ELSE row.status,
         payload |-> IF new.payload # loaded.payload THEN new.payload ELSE row.payload]
  BY DEF Flushed, Watch
<1>2. QED
  BY <1>1 DEF Watch

\* A flush of a row that nobody changed meanwhile leaves what was asked for.
LEMMA FlushedAlone ==
  ASSUME NEW row \in Watch, NEW new \in Watch
  PROVE  Flushed(row, row, new) = new
BY DEF Flushed, Watch

\* What a request or an import makes of a watch agrees with itself.
LEMMA WatchesMade ==
  /\ TypeOK => Triggered \in Watch
  /\ Agrees(Triggered)
  /\ \A r \in Request : Agrees(Asked(r)) /\ (TypeOK => Asked(r) \in Watch)
BY DEF TypeOK, ProcState, Triggered, Asked, Agrees, Watch, Status

-----------------------------------------------------------------------------
(* What an import appends.                                                 *)

\* The tables with an event appended are tables, and the event is the last one.
LEMMA AppendTyped ==
  ASSUME TypeOK, NEW t \in Tables, NEW e \in Event, ~Refused(t, e)
  PROVE  /\ Appended(t, e) \in Tables
         /\ Appended(t, e).history = Append(t.history, e)
         /\ \A k \in Key : k # e.key => Appended(t, e).record[k] = t.record[k]
         /\ t.record[e.key] = None => Appended(t, e).record[e.key] = e.current
         /\ t.record[e.key] # None =>
              Appended(t, e).record[e.key] = Flushed(t.record[e.key], e.previous, e.current)
         /\ \A k \in Key : \/ Appended(t, e).watch[k] = t.watch[k]
                           \/ Appended(t, e).watch[k] = Triggered
<1> DEFINE u == Appended(t, e)
<1>1. /\ t.record \in [Key -> Content \cup {None}] /\ t.history \in Seq(Event)
      /\ t.watch \in [Key -> Watch \cup {None}] /\ t.alerts \subseteq Key \X Nat
      /\ e.key \in Key /\ e.previous \in Content \cup {None} /\ e.current \in Content
  BY DEF Tables, Event
<1>2. /\ u.record = [t.record EXCEPT ![e.key] =
           IF @ = None THEN e.current ELSE Flushed(@, e.previous, e.current)]
      /\ u.history = Append(t.history, e)
      /\ u.watch = [t.watch EXCEPT ![e.key] = IF Triggers(t, e) THEN Triggered ELSE @]
      /\ u.alerts = t.alerts \cup
           (IF Triggers(t, e) THEN {<<e.key, Len(t.history) + 1>>} ELSE {})
      /\ u = [record |-> u.record, history |-> u.history, watch |-> u.watch,
              alerts |-> u.alerts]
  BY DEF Appended, Watched, Alerted
<1>3. t.record[e.key] # None => e.previous \in Content
  BY <1>1 DEF Refused
<1>4. u.record \in [Key -> Content \cup {None}]
  BY <1>1, <1>2, <1>3, FlushedContent
<1>5. u.history \in Seq(Event)
  BY <1>1, <1>2
<1>6. u.watch \in [Key -> Watch \cup {None}]
  BY <1>1, <1>2, WatchesMade
<1>7. u.alerts \subseteq Key \X Nat
  <2>1. Len(t.history) + 1 \in Nat
    BY <1>1
  <2>2. <<e.key, Len(t.history) + 1>> \in Key \X Nat
    BY <1>1, <2>1
  <2>3. QED
    BY <1>1, <1>2, <2>2
<1>8. u \in Tables
  BY <1>2, <1>4, <1>5, <1>6, <1>7 DEF Tables
<1>9. QED
  BY <1>1, <1>2, <1>8

\* The newest changes of columns are the same in a history whose new event is
\* about another record, or does not set the column.
LEMMA NewestStays ==
  ASSUME NEW t \in Tables, NEW u \in Tables, NEW e \in Event, NEW k \in Key, NEW c \in Column,
         u.history = Append(t.history, e), ~Sets(e, k, c), u.record[k][c] = t.record[k][c],
         Newest(t, k, c)
  PROVE  Newest(u, k, c)
<1>1. t.history \in Seq(Event) /\ Len(t.history) \in Nat
  BY DEF Tables
<1>2. /\ DOMAIN t.history = 1..Len(t.history) /\ DOMAIN u.history = 1..(Len(t.history) + 1)
      /\ \A i \in DOMAIN t.history : u.history[i] = t.history[i]
      /\ u.history[Len(t.history) + 1] = e
  BY <1>1
<1>3. PICK i \in DOMAIN t.history :
        /\ Sets(t.history[i], k, c)
        /\ \A j \in DOMAIN t.history : Sets(t.history[j], k, c) => j <= i
        /\ t.record[k][c] = t.history[i].current[c]
  BY DEF Newest
<1>4. i \in DOMAIN u.history /\ u.history[i] = t.history[i]
  BY <1>1, <1>2
<1>5. ASSUME NEW j \in DOMAIN u.history, Sets(u.history[j], k, c) PROVE j <= i
  <2>1. j # Len(t.history) + 1
    BY <1>2, <1>5
  <2>2. j \in DOMAIN t.history /\ u.history[j] = t.history[j]
    BY <1>1, <1>2, <2>1
  <2>3. QED
    BY <1>3, <1>5, <2>2
<1>6. u.record[k][c] = u.history[i].current[c]
  BY <1>3, <1>4
<1>7. QED
  BY <1>3, <1>4, <1>5, <1>6 DEF Newest

\* A new event that sets a column is its newest change.
LEMMA NewestSet ==
  ASSUME NEW t \in Tables, NEW u, NEW e \in Event, NEW k, NEW c,
         u.history = Append(t.history, e), Sets(e, k, c), u.record[k][c] = e.current[c]
  PROVE  Newest(u, k, c)
<1>1. t.history \in Seq(Event) /\ Len(t.history) \in Nat
  BY DEF Tables
<1>2. /\ DOMAIN u.history = 1..(Len(t.history) + 1)
      /\ u.history[Len(t.history) + 1] = e
  BY <1>1
<1>3. \A j \in DOMAIN u.history : j <= Len(t.history) + 1
  BY <1>1, <1>2
<1>4. QED
  BY <1>1, <1>2, <1>3 DEF Newest

\* What upsert appends explains what it makes of the record, whatever others
\* have made of it since the record was loaded.
LEMMA AppendExplains ==
  ASSUME TypeOK, NEW t \in Tables, NEW e \in Event, ~Refused(t, e), Explained(t),
         e.previous # None => t.record[e.key] # None
  PROVE  Explained(Appended(t, e)) /\ Grown(Appended(t, e), t)
<1> DEFINE u == Appended(t, e)
           n == Len(t.history) + 1
<1>1. /\ u \in Tables /\ u.history = Append(t.history, e)
      /\ \A k \in Key : k # e.key => u.record[k] = t.record[k]
      /\ t.record[e.key] = None => u.record[e.key] = e.current
      /\ t.record[e.key] # None =>
           u.record[e.key] = Flushed(t.record[e.key], e.previous, e.current)
      /\ \A k \in Key : u.watch[k] = t.watch[k] \/ u.watch[k] = Triggered
  BY AppendTyped
<1>2. /\ t.history \in Seq(Event) /\ n \in Nat
      /\ e.key \in Key /\ e.previous \in Content \cup {None} /\ e.current \in Content
      /\ t.record \in [Key -> Content \cup {None}] /\ None \notin Content
      /\ e.previous = None <=> t.record[e.key] = None
  BY NoneIsNoRow DEF Tables, Event, Refused
<1>3. /\ DOMAIN t.history = 1..Len(t.history) /\ DOMAIN u.history = 1..n
      /\ \A i \in DOMAIN t.history : u.history[i] = t.history[i] /\ i \in DOMAIN u.history
      /\ u.history[n] = e /\ n \in DOMAIN u.history
  BY <1>1, <1>2
<1>4. u.record[e.key] \in Content
  BY <1>1, <1>2, FlushedContent
<1>5. ASSUME NEW k \in Key, k # e.key
      PROVE  /\ (\A i \in DOMAIN u.history : u.history[i].key # k) => u.record[k] = None
             /\ (\E i \in DOMAIN u.history : u.history[i].key = k) =>
                  \A c \in Column : Newest(u, k, c)
  <2>1. u.record[k] = t.record[k]
    BY <1>1, <1>5
  <2>2. ASSUME \A i \in DOMAIN u.history : u.history[i].key # k PROVE u.record[k] = None
    <3>1. \A i \in DOMAIN t.history : t.history[i].key # k
      BY <1>3, <2>2
    <3>2. QED
      BY <2>1, <3>1 DEF Explained
  <2>3. ASSUME NEW i \in DOMAIN u.history, u.history[i].key = k, NEW c \in Column
        PROVE  Newest(u, k, c)
    <3>1. i \in DOMAIN t.history /\ t.history[i].key = k
      BY <1>2, <1>3, <1>5, <2>3
    <3>2. Newest(t, k, c)
      BY <3>1 DEF Explained
    <3>3. ~Sets(e, k, c)
      BY <1>5 DEF Sets
    <3>4. QED
      BY <1>1, <2>1, <3>2, <3>3, NewestStays
  <2>4. QED
    BY <2>2, <2>3
<1>6. ASSUME NEW c \in Column PROVE Newest(u, e.key, c)
  <2>1. CASE Sets(e, e.key, c)
    <3>1. u.record[e.key][c] = e.current[c]
      <4>1. CASE e.previous = None
        BY <1>1, <1>2, <4>1
      <4>2. CASE e.previous # None
        <5>1. e.previous[c] # e.current[c]
          BY <2>1, <4>2 DEF Sets
        <5>2. QED
          BY <1>1, <1>2, <4>2, <5>1, FlushedContent
      <4>3. QED
        BY <4>1, <4>2
    <3>2. QED
      BY <1>1, <2>1, <3>1, NewestSet
  <2>2. CASE ~Sets(e, e.key, c)
    <3>1. e.previous # None /\ e.previous[c] = e.current[c]
      BY <2>2 DEF Sets
    <3>2. u.record[e.key][c] = t.record[e.key][c]
      BY <1>1, <1>2, <3>1, FlushedContent
    <3>3. \E i \in DOMAIN t.history : t.history[i].key = e.key
      BY <1>2, <3>1 DEF Explained
    <3>4. Newest(t, e.key, c)
      BY <1>2, <3>3 DEF Explained
    <3>5. QED
      BY <1>1, <1>2, <2>2, <3>2, <3>4, NewestStays
  <2>3. QED
    BY <2>1, <2>2
<1>7. Explained(u)
  BY <1>3, <1>5, <1>6 DEF Explained
<1>8. Grown(u, t)
  <2>1. ASSUME NEW k \in Key, t.record[k] # None PROVE u.record[k] # None
    BY <1>1, <1>2, <1>4, <2>1
  <2>2. ASSUME NEW k \in Key, Agrees(t.watch[k]) PROVE Agrees(u.watch[k])
    BY <1>1, <2>2, WatchesMade
  <2>3. ASSUME NEW k \in Key, t.watch[k] # None PROVE u.watch[k] # None
    BY <1>1, <2>3, WatchesMade, NoneIsNoRow
  <2>4. QED
    BY <2>1, <2>2, <2>3 DEF Grown
<1>9. QED
  BY <1>7, <1>8

-----------------------------------------------------------------------------
(* One step.                                                               *)

\* The tables that an import sees are tables, explained by their history.
LEMMA SeenSound ==
  ASSUME IInv, NEW i \in Importer
  PROVE  Seen(i) \in Tables /\ Explained(Seen(i)) /\ Grown(Seen(i), db)
BY DEF IInv, TypeOK, Drafts, Seen, Grown

\* An import's operation, what is left of its plan, and its event.
LEMMA ImportTyped ==
  ASSUME IInv, NEW i \in Importer, proc[i].pc \in {"load", "stamp", "append"}
  PROVE  /\ Current(i).key \in Key /\ Current(i).content \in Content
         /\ Onward(i) \in ProcState
         /\ Onward(i).pc \in {"load", "commit"}
         /\ Onward(i).pc = "load" => Onward(i).plan # <<>>
         /\ proc[i].pc = "append" => NewEvent(i) \in Event
<1>1. proc[i] \in ProcState /\ proc[i].plan \in Seq(Operation) /\ proc[i].plan # <<>>
  BY DEF IInv, TypeOK, Imports, ProcState
<1>2. Current(i) \in Operation
  BY <1>1 DEF Current
<1>3. Tail(proc[i].plan) \in Seq(Operation)
  BY <1>1
<1> DEFINE label == IF Tail(proc[i].plan) = <<>> THEN "commit" ELSE "load"
<1>4. Onward(i) = [pc |-> label, plan |-> Tail(proc[i].plan), op |-> None, key |-> None,
                   loaded |-> None, at |-> 0]
  <2>1. Onward(i) = [NoProc EXCEPT !.pc = label, !.plan = Tail(proc[i].plan)]
    BY DEF Onward
  <2>2. QED
    BY <2>1 DEF NoProc
<1>5. 0 \in 0..MaxClock
  BY StoreConstants
<1>6. Onward(i) \in ProcState
  BY <1>3, <1>4, <1>5 DEF ProcState
<1>7. ASSUME proc[i].pc = "append" PROVE NewEvent(i) \in Event
  BY <1>1, <1>2, <1>7 DEF IInv, Imports, NewEvent, Event, ProcState, Operation
<1>8. QED
  BY <1>2, <1>4, <1>6, <1>7 DEF Operation

\* A process that does nothing.
LEMMA IdleTyped ==
  NoProc \in ProcState /\ NoProc.pc = "idle"
<1>1. 0 \in 0..MaxClock
  BY StoreConstants
<1>2. QED
  BY <1>1 DEF NoProc, ProcState

\* A step of one process that leaves sound tables, in which no other import
\* misses a record, and that process where it may be, keeps the invariant.
LEMMA StepKeeps ==
  ASSUME IInv, NEW p \in Importer \cup Request, NEW new \in ProcState,
         proc' = [proc EXCEPT ![p] = new], UNCHANGED <<offered, clock>>,
         db' \in Tables, draft' \in [Importer -> Tables \cup {None}],
         \A i, j \in Importer : draft'[i] # None /\ draft'[j] # None => i = j,
         Explained(db'), Drafts',
         \A j \in Importer : j # p =>
           \A k \in Key : Seen(j).record[k] # None => Seen(j)'.record[k] # None,
         \A k \in Key : db.watch[k] # None => db'.watch[k] # None,
         p \in Importer => Imports(p)',
         p \in Request => Serves(p)'
  PROVE  IInv'
<1>1. /\ proc \in [Importer \cup Request -> ProcState]
      /\ \A q \in Importer \cup Request : q # p => proc'[q] = proc[q]
  BY DEF IInv, TypeOK
<1>2. TypeOK'
  BY <1>1 DEF IInv, TypeOK
<1>3. ASSUME NEW j \in Importer, j # p PROVE Imports(j)'
  <2>1. proc'[j] = proc[j] /\ Current(j)' = Current(j) /\ Imports(j)
    BY <1>1, <1>3 DEF IInv, Current
  <2>2. proc[j].pc \in {"stamp", "append"} => Current(j).key \in Key
    BY ImportTyped
  <2>3. QED
    BY <1>3, <2>1, <2>2 DEF Imports
<1>4. ASSUME NEW r \in Request, r # p PROVE Serves(r)'
  <2>1. proc'[r] = proc[r] /\ Serves(r)
    BY <1>1, <1>4 DEF IInv
  <2>2. QED
    BY <2>1 DEF Serves
<1>5. QED
  BY <1>2, <1>3, <1>4 DEF IInv

\* A step of one process that leaves the tables and drafts as they are.
LEMMA LocalStepKeeps ==
  ASSUME IInv, NEW p \in Importer \cup Request, NEW new \in ProcState,
         proc' = [proc EXCEPT ![p] = new], UNCHANGED <<offered, clock, db, draft>>,
         p \in Importer => Imports(p)',
         p \in Request => Serves(p)'
  PROVE  IInv'
<1>1. /\ db' \in Tables /\ draft' \in [Importer -> Tables \cup {None}]
      /\ \A i, j \in Importer : draft'[i] # None /\ draft'[j] # None => i = j
      /\ Explained(db')
  BY DEF IInv, TypeOK
<1>2. Drafts'
  BY DEF IInv, Drafts
<1>3. \A j \in Importer : Seen(j)' = Seen(j)
  BY DEF Seen
<1>4. QED
  BY <1>1, <1>2, <1>3, StepKeeps

\* The end of an import, by rollback, refusal or a commit of nothing.
LEMMA EndKeeps ==
  ASSUME IInv, NEW i \in Importer, Ends(i), draft' = [draft EXCEPT ![i] = None],
         UNCHANGED <<offered, clock, db>>
  PROVE  IInv'
<1>1. draft \in [Importer -> Tables \cup {None}] /\ proc \in [Importer \cup Request -> ProcState]
  BY DEF IInv, TypeOK
<1>2. /\ db' \in Tables /\ draft' \in [Importer -> Tables \cup {None}]
      /\ \A j, l \in Importer : draft'[j] # None /\ draft'[l] # None => j = l
      /\ Explained(db')
  BY <1>1 DEF IInv, TypeOK
<1>3. Drafts'
  BY <1>1 DEF IInv, Drafts
<1>4. \A j \in Importer : j # i =>
        \A k \in Key : Seen(j).record[k] # None => Seen(j)'.record[k] # None
  BY <1>1 DEF Seen
<1>5. proc' = [proc EXCEPT ![i] = NoProc] /\ proc'[i] = NoProc
  BY <1>1 DEF Ends
<1>6. i \in Importer => Imports(i)'
  BY <1>5, IdleTyped DEF Imports
<1>7. i \in Request => Serves(i)'
  BY StoreConstants
<1>8. UNCHANGED <<offered, clock>> /\ i \in Importer \cup Request
  OBVIOUS
<1>9. QED
  BY <1>2, <1>3, <1>4, <1>5, <1>6, <1>7, <1>8, IdleTyped, StepKeeps

-----------------------------------------------------------------------------
(* The steps of an import.                                                 *)

\* An import starts with one of the plans offered.
LEMMA StartImportKeeps ==
  ASSUME IInv, NEW i \in Importer, NEW plan \in offered.plans, StartImport(i, plan),
         UNCHANGED offered
  PROVE  IInv'
<1>0. PICK new : new = [NoProc EXCEPT !.pc = "load", !.plan = plan]
  OBVIOUS
<1>1. plan \in Seq(Operation) /\ plan # <<>>
  BY StoreConstants DEF IInv, TypeOK
<1>2. /\ new \in ProcState /\ new.pc = "load" /\ new.plan = plan
  <2>1. new = [pc |-> "load", plan |-> plan, op |-> None, key |-> None, loaded |-> None,
               at |-> 0]
    BY <1>0 DEF NoProc
  <2>2. 0 \in 0..MaxClock
    BY StoreConstants
  <2>3. QED
    BY <1>1, <2>1, <2>2 DEF ProcState
<1>3. proc' = [proc EXCEPT ![i] = new] /\ UNCHANGED <<offered, clock, db, draft>>
  BY <1>0 DEF StartImport
<1>4. proc'[i] = new
  BY <1>3 DEF IInv, TypeOK
<1>5. i \in Importer => Imports(i)'
  BY <1>1, <1>2, <1>4 DEF Imports
<1>6. i \in Request => Serves(i)'
  BY StoreConstants
<1>7. i \in Importer \cup Request
  OBVIOUS
<1>8. QED
  BY <1>2, <1>3, <1>5, <1>6, <1>7, LocalStepKeeps

\* An import loads the record, which it may have made itself.
LEMMA LoadKeeps ==
  ASSUME IInv, NEW i \in Importer, Load(i), UNCHANGED offered
  PROVE  IInv'
<1> DEFINE row == Seen(i).record[Current(i).key]
           new == IF row = Current(i).content THEN Onward(i)
                  ELSE [proc[i] EXCEPT !.pc = "stamp", !.loaded = row]
<1>1. /\ proc[i].pc = "load" /\ proc[i] \in ProcState /\ proc[i].plan # <<>>
      /\ proc \in [Importer \cup Request -> ProcState]
  BY DEF Load, At, IInv, TypeOK, Imports
<1>2. row \in Content \cup {None}
  BY <1>1, ImportTyped, SeenSound DEF Tables
<1>3. proc' = [proc EXCEPT ![i] = new] /\ UNCHANGED <<offered, clock, db, draft>>
  BY DEF Load
<1>4. new \in ProcState /\ proc'[i] = new
  BY <1>1, <1>2, <1>3, ImportTyped DEF ProcState
<1>5. i \in Importer => Imports(i)'
  <2>1. CASE row = Current(i).content
    BY <1>1, <1>4, <2>1, ImportTyped DEF Imports
  <2>2. CASE row # Current(i).content
    <3>1. /\ proc'[i].pc = "stamp" /\ proc'[i].loaded = row /\ proc'[i].plan = proc[i].plan
      BY <1>1, <1>4, <2>2 DEF ProcState
    <3>2. Seen(i)' = Seen(i) /\ Current(i)' = Current(i)
      BY <1>3, <3>1 DEF Seen, Current
    <3>3. QED
      BY <1>1, <1>2, <3>1, <3>2 DEF Imports
  <2>3. QED
    BY <2>1, <2>2
<1>6. i \in Request => Serves(i)'
  BY StoreConstants
<1>7. i \in Importer \cup Request
  OBVIOUS
<1> HIDE DEF new
<1>8. QED
  BY <1>3, <1>4, <1>5, <1>6, <1>7, LocalStepKeeps

\* An import takes the time of its event.
LEMMA StampKeeps ==
  ASSUME IInv, NEW i \in Importer, Stamp(i), UNCHANGED offered
  PROVE  IInv'
<1> DEFINE new == [proc[i] EXCEPT !.pc = "append", !.at = clock]
<1>1. /\ proc[i].pc = "stamp" /\ proc[i] \in ProcState /\ clock \in 0..MaxClock
      /\ proc \in [Importer \cup Request -> ProcState] /\ Imports(i)
  BY DEF Stamp, At, IInv, TypeOK
<1>2. proc' = [proc EXCEPT ![i] = new] /\ UNCHANGED <<offered, clock, db, draft>>
  BY <1>1 DEF Stamp
<1>3. /\ new \in ProcState /\ proc'[i] = new
      /\ new.pc = "append" /\ new.plan = proc[i].plan /\ new.loaded = proc[i].loaded
  BY <1>1, <1>2 DEF ProcState
<1>4. Seen(i)' = Seen(i) /\ Current(i)' = Current(i)
  BY <1>2, <1>3 DEF Seen, Current
<1>5. i \in Importer => Imports(i)'
  BY <1>1, <1>3, <1>4 DEF Imports
<1>6. i \in Request => Serves(i)'
  BY StoreConstants
<1>7. i \in Importer \cup Request
  OBVIOUS
<1> HIDE DEF new
<1>8. QED
  BY <1>2, <1>3, <1>5, <1>6, <1>7, LocalStepKeeps

\* An import appends an event with the write lock, or is refused.
LEMMA AppendHistoryKeeps ==
  ASSUME IInv, NEW i \in Importer, AppendHistory(i), UNCHANGED offered
  PROVE  IInv'
<1> DEFINE t == Seen(i)
           e == NewEvent(i)
           u == Appended(t, e)
<1>1. /\ proc[i].pc = "append" /\ Imports(i) /\ TypeOK
      /\ proc \in [Importer \cup Request -> ProcState]
      /\ draft \in [Importer -> Tables \cup {None}]
  BY DEF AppendHistory, At, IInv, TypeOK
<1>2. e \in Event /\ t \in Tables /\ Explained(t) /\ Grown(t, db)
  BY <1>1, ImportTyped, SeenSound
<1>3. CASE Refused(t, e)
  <2>1. Ends(i) /\ draft' = [draft EXCEPT ![i] = None] /\ UNCHANGED <<offered, clock, db>>
    BY <1>3 DEF AppendHistory
  <2>2. QED
    BY <2>1, EndKeeps
<1>4. CASE ~Refused(t, e)
  <2>1. /\ draft' = [draft EXCEPT ![i] = u] /\ proc' = [proc EXCEPT ![i] = Onward(i)]
        /\ UNCHANGED <<offered, clock, db>>
    BY <1>4 DEF AppendHistory
  <2>2. e.previous # None => t.record[e.key] # None
    BY <1>1 DEF Imports, NewEvent
  <2>3. u \in Tables /\ Explained(u) /\ Grown(u, t)
    BY <1>1, <1>2, <1>4, <2>2, AppendTyped, AppendExplains
  <2>4. Grown(u, db)
    BY <1>2, <2>3 DEF Grown
  <2>5. \A j \in Importer : j # i => draft[j] = None /\ draft'[j] = None
    BY <1>1, <2>1 DEF AppendHistory, Locked, TypeOK
  <2>6. /\ db' \in Tables /\ draft' \in [Importer -> Tables \cup {None}]
        /\ \A j, l \in Importer : draft'[j] # None /\ draft'[l] # None => j = l
        /\ Explained(db') /\ draft'[i] = u
    <3>1. draft'[i] = u
      BY <1>1, <2>1
    <3>2. draft' \in [Importer -> Tables \cup {None}]
      BY <1>1, <2>1, <2>3
    <3>3. db' \in Tables /\ Explained(db')
      BY <2>1 DEF IInv, TypeOK
    <3>4. QED
      BY <2>5, <3>1, <3>2, <3>3
  <2>7. Drafts'
    BY <2>1, <2>3, <2>4, <2>5, <2>6 DEF Drafts
  <2>8. /\ \A j \in Importer : j # i =>
             \A k \in Key : Seen(j).record[k] # None => Seen(j)'.record[k] # None
        /\ \A k \in Key : db.watch[k] # None => db'.watch[k] # None
    BY <2>1, <2>5 DEF Seen
  <2>9. proc'[i] = Onward(i)
    BY <1>1, <2>1
  <2>10. i \in Importer => Imports(i)'
    BY <1>1, <2>9, ImportTyped DEF Imports
  <2>11. i \in Request => Serves(i)'
    BY StoreConstants
  <2>12. Onward(i) \in ProcState /\ i \in Importer \cup Request
    BY <1>1, ImportTyped
  <2>13. QED
    BY <2>1, <2>6, <2>7, <2>8, <2>10, <2>11, <2>12, StepKeeps
<1>5. QED
  BY <1>3, <1>4

\* An import commits what it has drafted, which nobody can have overtaken.
LEMMA CommitKeeps ==
  ASSUME IInv, NEW i \in Importer, Commit(i), UNCHANGED offered
  PROVE  IInv'
<1>1. /\ db' = Seen(i) /\ draft' = [draft EXCEPT ![i] = None] /\ Ends(i)
      /\ UNCHANGED <<offered, clock>>
  BY DEF Commit
<1>2. CASE draft[i] = None
  <2>1. UNCHANGED <<offered, clock, db>>
    BY <1>1, <1>2 DEF Seen
  <2>2. QED
    BY <1>1, <2>1, EndKeeps
<1>3. CASE draft[i] # None
  <2>1. /\ proc \in [Importer \cup Request -> ProcState]
        /\ draft \in [Importer -> Tables \cup {None}]
        /\ \A j \in Importer : j # i => draft[j] = None
    BY <1>3 DEF IInv, TypeOK
  <2>2. \A j \in Importer : draft'[j] = None
    BY <1>1, <2>1
  <2>3. db' \in Tables /\ Explained(db') /\ Grown(db', db)
    BY <1>1, SeenSound
  <2>4. /\ draft' \in [Importer -> Tables \cup {None}]
        /\ \A j, l \in Importer : draft'[j] # None /\ draft'[l] # None => j = l
    BY <1>1, <2>1, <2>2
  <2>5. Drafts'
    BY <2>2 DEF Drafts
  <2>6. /\ \A j \in Importer : j # i =>
             \A k \in Key : Seen(j).record[k] # None => Seen(j)'.record[k] # None
        /\ \A k \in Key : db.watch[k] # None => db'.watch[k] # None
    BY <2>1, <2>2, <2>3 DEF Seen, Grown
  <2>7. proc' = [proc EXCEPT ![i] = NoProc] /\ proc'[i] = NoProc
    BY <1>1, <2>1 DEF Ends
  <2>8. i \in Importer => Imports(i)'
    BY <2>7, IdleTyped DEF Imports
  <2>9. i \in Request => Serves(i)'
    BY StoreConstants
  <2>10. NoProc \in ProcState /\ i \in Importer \cup Request
    BY IdleTyped
  <2>11. QED
    BY <1>1, <2>3, <2>4, <2>5, <2>6, <2>7, <2>8, <2>9, <2>10, StepKeeps
<1>4. QED
  BY <1>2, <1>3

\* An import rolls back.
LEMMA RollsBackKeeps ==
  ASSUME IInv, NEW i \in Importer, RollsBack(i), UNCHANGED offered
  PROVE  IInv'
<1>1. Ends(i) /\ draft' = [draft EXCEPT ![i] = None] /\ UNCHANGED <<offered, clock, db>>
  BY DEF RollsBack
<1>2. QED
  BY <1>1, EndKeeps

-----------------------------------------------------------------------------
(* The steps of a request.                                                 *)

\* A request loads the watch that it is about.
LEMMA AskKeeps ==
  ASSUME IInv, NEW r \in Request, NEW op \in {"add", "archive"}, NEW k \in Key,
         Ask(r, op, k), UNCHANGED offered
  PROVE  IInv'
<1>0. PICK new : new = [NoProc EXCEPT !.pc = "look", !.op = op, !.key = k,
                                      !.loaded = db.watch[k]]
  OBVIOUS
<1>1. db.watch[k] \in Watch \cup {None}
  BY DEF IInv, TypeOK, Tables
<1>2. new = [pc |-> "look", plan |-> <<>>, op |-> op, key |-> k,
             loaded |-> db.watch[k], at |-> 0]
  BY <1>0 DEF NoProc
<1>3. new \in ProcState
  BY <1>1, <1>2, StoreConstants DEF ProcState
<1>4. proc' = [proc EXCEPT ![r] = new] /\ UNCHANGED <<offered, clock, db, draft>>
  BY <1>0 DEF Ask
<1>5. proc'[r] = new
  BY <1>4 DEF IInv, TypeOK
<1>6. r \in Request => Serves(r)'
  BY <1>1, <1>2, <1>4, <1>5 DEF Serves
<1>7. r \in Importer => Imports(r)'
  BY StoreConstants
<1>8. r \in Importer \cup Request
  OBVIOUS
<1>9. QED
  BY <1>3, <1>4, <1>6, <1>7, <1>8, LocalStepKeeps

\* A request takes its time, and looks for a watch that it did not find.
LEMMA LookKeeps ==
  ASSUME IInv, NEW r \in Request, Look(r), UNCHANGED offered
  PROVE  IInv'
<1> DEFINE row == IF proc[r].loaded = None THEN db.watch[proc[r].key] ELSE proc[r].loaded
           new == [proc[r] EXCEPT !.pc = "save", !.at = clock, !.loaded = row]
<1>1. /\ proc[r].pc = "look" /\ proc[r] \in ProcState /\ clock \in 0..MaxClock
      /\ proc \in [Importer \cup Request -> ProcState] /\ Serves(r)
      /\ db.watch \in [Key -> Watch \cup {None}]
  BY DEF Look, At, IInv, TypeOK, Tables
<1>2. row \in Watch \cup {None} /\ (row # None => db.watch[proc[r].key] # None)
  BY <1>1 DEF Serves
<1>3. proc' = [proc EXCEPT ![r] = new] /\ UNCHANGED <<offered, clock, db, draft>>
  BY <1>1 DEF Look, ProcState
<1>4. /\ new \in ProcState /\ proc'[r] = new
      /\ new.pc = "save" /\ new.key = proc[r].key /\ new.op = proc[r].op
      /\ new.loaded = row
  BY <1>1, <1>2, <1>3 DEF ProcState
<1>5. r \in Request => Serves(r)'
  BY <1>1, <1>2, <1>3, <1>4 DEF Serves
<1>6. r \in Importer => Imports(r)'
  BY StoreConstants
<1>7. r \in Importer \cup Request
  OBVIOUS
<1> HIDE DEF new, row
<1>8. QED
  BY <1>3, <1>4, <1>5, <1>6, <1>7, LocalStepKeeps

\* What a request writes: nothing, or its watch.
Written(r) ==
  IF proc[r].loaded = None THEN Asked(r)
  ELSE Flushed(db.watch[proc[r].key], proc[r].loaded, Asked(r))

\* It is a watch, and nothing else in the tables changes.
LEMMA SaveWrites ==
  ASSUME IInv, NEW r \in Request, Save(r)
  PROVE  /\ proc[r].key \in Key /\ Written(r) \in Watch
         /\ db'.record = db.record /\ db'.history = db.history /\ db' \in Tables
         /\ \/ db' = db
            \/ db'.watch = [db.watch EXCEPT ![proc[r].key] = Written(r)]
         /\ \A i \in Importer : draft[i] = None
<1>1. /\ proc[r].pc = "save" /\ Serves(r) /\ TypeOK
      /\ db \in Tables /\ db.watch \in [Key -> Watch \cup {None}]
  BY DEF Save, At, IInv, TypeOK, Tables
<1>2. /\ proc[r].key \in Key /\ proc[r].loaded \in Watch \cup {None}
      /\ proc[r].loaded # None => db.watch[proc[r].key] \in Watch
  BY <1>1 DEF Serves
<1>3. Asked(r) \in Watch
  BY <1>1, WatchesMade
<1>4. Written(r) \in Watch
  BY <1>2, <1>3, FlushedWatch DEF Written
<1>5. db' = db \/ db' = [db EXCEPT !.watch[proc[r].key] = Written(r)]
  BY DEF Save, Written
<1>6. CASE db' = db
  BY <1>1, <1>2, <1>4, <1>6 DEF Save, Locked
<1>7. CASE db' = [db EXCEPT !.watch[proc[r].key] = Written(r)]
  <2>1. db' = [record |-> db.record, history |-> db.history, alerts |-> db.alerts,
               watch |-> [db.watch EXCEPT ![proc[r].key] = Written(r)]]
    BY <1>1, <1>7 DEF Tables
  <2>2. [db.watch EXCEPT ![proc[r].key] = Written(r)] \in [Key -> Watch \cup {None}]
    BY <1>1, <1>4
  <2>3. db' \in Tables
    BY <1>1, <2>1, <2>2 DEF Tables
  <2>4. QED
    BY <1>2, <1>4, <2>1, <2>3 DEF Save, Locked
<1>8. QED
  BY <1>5, <1>6, <1>7

\* A request saves its watch.
LEMMA SaveKeeps ==
  ASSUME IInv, NEW r \in Request, Save(r), UNCHANGED offered
  PROVE  IInv'
<1>1. /\ proc[r].key \in Key /\ Written(r) \in Watch
      /\ db'.record = db.record /\ db'.history = db.history /\ db' \in Tables
      /\ \/ db' = db
         \/ db'.watch = [db.watch EXCEPT ![proc[r].key] = Written(r)]
      /\ \A i \in Importer : draft[i] = None
  BY SaveWrites
<1>2. /\ proc' = [proc EXCEPT ![r] = NoProc] /\ UNCHANGED <<offered, clock, draft>>
  BY DEF Save, Ends
<1>3. /\ draft' \in [Importer -> Tables \cup {None}]
      /\ \A i, j \in Importer : draft'[i] # None /\ draft'[j] # None => i = j
      /\ Drafts'
  BY <1>1, <1>2 DEF IInv, TypeOK, Drafts
<1>4. Explained(db')
  <2>1. Explained(db)
    BY DEF IInv
  <2>2. QED
    BY <1>1, <2>1 DEF Explained, Newest
<1>5. \A j \in Importer : j # r =>
        \A k \in Key : Seen(j).record[k] # None => Seen(j)'.record[k] # None
  BY <1>1, <1>2 DEF Seen
<1>6. \A k \in Key : db.watch[k] # None => db'.watch[k] # None
  <2>1. db.watch \in [Key -> Watch \cup {None}]
    BY DEF IInv, TypeOK, Tables
  <2>2. QED
    BY <1>1, <2>1, NoneIsNoRow
<1>7. proc'[r] = NoProc
  BY <1>2 DEF IInv, TypeOK
<1>8. r \in Request => Serves(r)'
  BY <1>7, IdleTyped DEF Serves
<1>9. r \in Importer => Imports(r)'
  BY StoreConstants
<1>10. NoProc \in ProcState /\ r \in Importer \cup Request
  BY IdleTyped
<1>11. QED
  BY <1>1, <1>2, <1>3, <1>4, <1>5, <1>6, <1>8, <1>9, <1>10, StepKeeps

\* A request ends without saving.
LEMMA AbandonsKeeps ==
  ASSUME IInv, NEW r \in Request, Abandons(r), UNCHANGED offered
  PROVE  IInv'
<1>1. proc' = [proc EXCEPT ![r] = NoProc] /\ UNCHANGED <<offered, clock, db, draft>>
  BY DEF Abandons, Ends
<1>2. proc'[r] = NoProc
  BY <1>1 DEF IInv, TypeOK
<1>3. r \in Request => Serves(r)'
  BY <1>2, IdleTyped DEF Serves
<1>4. r \in Importer => Imports(r)'
  BY StoreConstants
<1>5. NoProc \in ProcState /\ r \in Importer \cup Request
  BY IdleTyped
<1>6. QED
  BY <1>1, <1>3, <1>4, <1>5, LocalStepKeeps

\* The clock goes on.
LEMMA TickKeeps ==
  ASSUME IInv, Tick, UNCHANGED offered
  PROVE  IInv'
<1>1. clock' \in 0..MaxClock /\ UNCHANGED <<offered, db, draft, proc>>
  BY StoreConstants DEF Tick, IInv, TypeOK
<1>2. TypeOK'
  BY <1>1 DEF IInv, TypeOK
<1>3. QED
  BY <1>1, <1>2 DEF IInv, Drafts, Imports, Serves, Seen, Current

-----------------------------------------------------------------------------
(* The theorems.                                                           *)

\* Initially there are no rows and nothing runs.
LEMMA InitIInv == Init => IInv
<1> SUFFICES ASSUME Init PROVE IInv
  OBVIOUS
<1>1. /\ db = [record |-> [k \in Key |-> None], history |-> <<>>,
               watch |-> [k \in Key |-> None], alerts |-> {}]
      /\ \A i \in Importer : draft[i] = None
      /\ \A p \in Importer \cup Request : proc[p] = NoProc
  BY DEF Init
<1>2. db \in Tables
  <2>1. <<>> \in Seq(Event) /\ {} \subseteq Key \X Nat
    OBVIOUS
  <2>2. QED
    BY <1>1, <2>1 DEF Tables
<1>3. TypeOK
  BY <1>1, <1>2, IdleTyped, StoreConstants DEF Init, TypeOK
<1>4. Explained(db)
  BY <1>1 DEF Explained
<1>5. Drafts
  BY <1>1 DEF Drafts
<1>6. \A i \in Importer : Imports(i)
  BY <1>1, IdleTyped DEF Imports
<1>7. \A r \in Request : Serves(r)
  BY <1>1, IdleTyped DEF Serves
<1>8. QED
  BY <1>3, <1>4, <1>5, <1>6, <1>7 DEF IInv

\* Every step of an import, a request or the clock keeps the invariant.
THEOREM Inductive == IInv /\ [Next]_vars => IInv'
<1> SUFFICES ASSUME IInv, [Next]_vars PROVE IInv'
  OBVIOUS
<1>1. CASE UNCHANGED vars
  BY <1>1 DEF vars, IInv, TypeOK, Drafts, Imports, Serves, Seen, Current
<1>2. CASE Next
  <2>1. CASE Tick
    BY <1>2, <2>1, TickKeeps DEF Next
  <2>2. ASSUME NEW i \in Importer, Import(i) PROVE IInv'
    BY <1>2, <2>2, StartImportKeeps, LoadKeeps, StampKeeps, AppendHistoryKeeps,
       CommitKeeps, RollsBackKeeps DEF Next, Import
  <2>3. ASSUME NEW r \in Request, Serve(r) PROVE IInv'
    BY <1>2, <2>3, AskKeeps, LookKeeps, SaveKeeps, AbandonsKeeps DEF Next, Serve
  <2>4. QED
    BY <1>2, <2>1, <2>2, <2>3 DEF Next
<1>3. QED
  BY <1>1, <1>2

\* The invariant holds throughout every behaviour.
THEOREM Invariant == Spec => []IInv
BY InitIInv, Inductive, PTL DEF Spec

\* Every variable keeps its type: a flush of a row that others have changed
\* meanwhile still leaves a record or a watch, and one import at most has the
\* write lock.
THEOREM TypeCorrect == Spec => []TypeOK
<1>1. IInv => TypeOK
  BY DEF IInv
<1>2. QED
  BY <1>1, Invariant, PTL

\* However imports overtake one another, fail and roll back, the history of a
\* record tells what it is.
THEOREM HistoryExplained == Spec => []HistoryExplainsRecord
<1>1. IInv => HistoryExplainsRecord
  <2> SUFFICES ASSUME IInv, NEW k \in Key
      PROVE  IF \A i \in DOMAIN db.history : db.history[i].key # k
             THEN db.record[k] = None
             ELSE \A c \in Column : Newest(db, k, c)
    BY DEF HistoryExplainsRecord, Newest
  <2>1. QED
    BY DEF IInv, Explained
<1>2. QED
  BY <1>1, Invariant, PTL

\* A watch that agrees with itself goes on to, unless a request writes it that
\* loaded it before somebody else wrote it.
LEMMA OnlyOvertaken ==
  ASSUME IInv, [Next]_vars, NEW k \in Key, Agrees(db.watch[k]), ~Agrees(db'.watch[k])
  PROVE  \E r \in Request : /\ At(r, "save") /\ proc[r].key = k
                            /\ proc[r].loaded # db.watch[k]
<1>1. db' # db
  OBVIOUS
<1>2. ~\E i \in Importer : Import(i)
  <2> SUFFICES ASSUME NEW i \in Importer, Import(i) PROVE FALSE
    OBVIOUS
  <2>1. Commit(i)
    BY <1>1 DEF Import, StartImport, Load, Stamp, AppendHistory, RollsBack
  <2>2. QED
    BY <2>1, SeenSound DEF Commit, Grown
<1>3. PICK r \in Request : Save(r)
  BY <1>1, <1>2 DEF Next, vars, Tick, Serve, Ask, Look, Abandons
<1>4. /\ proc[r].key \in Key
      /\ db'.watch = [db.watch EXCEPT ![proc[r].key] = Written(r)]
      /\ db.watch \in [Key -> Watch \cup {None}]
  BY <1>1, <1>3, SaveWrites DEF IInv, TypeOK, Tables
<1>5. proc[r].key = k /\ ~Agrees(Written(r))
  BY <1>4
<1>6. proc[r].loaded # db.watch[k]
  <2> SUFFICES ASSUME proc[r].loaded = db.watch[k] PROVE Agrees(Written(r))
    BY <1>5
  <2>1. /\ Agrees(Asked(r)) /\ Asked(r) \in Watch
        /\ db.watch[k] \in Watch \cup {None}
    BY <1>4, WatchesMade DEF IInv
  <2>2. QED
    BY <1>5, <2>1, FlushedAlone DEF Written
<1>7. QED
  BY <1>3, <1>5, <1>6 DEF Save

\* add_source_watch and archive_source_watch are the only ones to leave a watch
\* at odds with itself, and only where another wrote it since they loaded it.
THEOREM OvertakenOnly == Spec => OnlyOvertakenDisagree
<1>1. IInv /\ [Next]_vars =>
        [\A k \in Key :
           Agrees(db.watch[k]) /\ ~Agrees(db'.watch[k]) =>
             \E r \in Request : /\ At(r, "save") /\ proc[r].key = k
                                /\ proc[r].loaded # db.watch[k]]_vars
  BY OnlyOvertaken
<1>2. QED
  BY <1>1, Invariant, PTL DEF Spec, OnlyOvertakenDisagree
=============================================================================
