------------------------ MODULE ResultAuthority_proofs ------------------------
(***************************************************************************)
(* Safety of result authority, for any operators, outcomes, reasons and     *)
(* length of the chain, and its refinement of RevisionLog.  The argument:   *)
(* rows are only appended, so whatever an operator read is a prefix of the  *)
(* chain; it is the whole chain when the savepoint succeeds, because the    *)
(* revision it numbers must be the next one.                                *)
(***************************************************************************)
EXTENDS ResultAuthority, FiniteSetTheorems, SequenceTheorems, TLAPS

\* The stages of a call that holds its allowance's claim.
Owning == {"claimed", "loading", "applying", "committing"}

\* What the tables say: the chain, its head, and its events.
Chained ==
  /\ Linear(rows)
  /\ head # None => head = TipId(rows) /\ rows # <<>>

\* Every governed revision has its event, and the older ones have none.
Recorded ==
  /\ \A e \in events : Bound(e)
  /\ \A e, f \in events : e.current = f.current => e = f
  /\ head # None <=> events # {}
  /\ IsFiniteSet(events)
  /\ Cardinality(events) \in 0..Len(rows)
  /\ \A n \in 1..Len(rows) :
       n > Len(rows) - Cardinality(events) => \E e \in events : e.current = rows[n]

\* What an operator read is the beginning of the chain, and all of it while
\* there is no head.
Reads(o) ==
  /\ Len(seen[o]) <= Len(rows)
  /\ \A n \in 1..Len(seen[o]) : seen[o][n] = rows[n]
  /\ head = None => pc[o] = "idle" \/ seen[o] = rows

\* What an operator's place in the call means for its claim.
Claims(o) ==
  /\ pc[o] \notin {"idle", "reviewing"} =>
       plan[o] \in Operation /\ Key(o).tip < MaxRevision
  /\ pc[o] = "applying" =>
       /\ Len(seen[o]) = Key(o).tip
       /\ seen[o] # <<>> => Tip(seen[o]).outcome # Key(o).outcome
  /\ pc[o] \in Owning => claim[Key(o)] = plan[o] /\ outcome[Key(o)] = "open"
  /\ pc[o] = "claimed" => runs[Key(o)] = 0
  /\ pc[o] \in {"loading", "applying", "committing"} => runs[Key(o)] = 1
  /\ pc[o] = "committing" => Made(plan[o], Key(o).tip + 1)

\* Two operators never hold one claim.
OneOwner ==
  \A o, p \in Operator :
    pc[o] \in Owning /\ pc[p] \in Owning /\ Key(o) = Key(p) => o = p

\* What the boundary says of an allowance is so in the chain.
Settled(a) ==
  /\ claim[a] # None => claim[a].allowance = a
  /\ claim[a] = None => runs[a] = 0 /\ outcome[a] = "open"
  /\ outcome[a] = "published" =>
       claim[a] # None /\ result[a] = a.tip + 1 /\ Made(claim[a], result[a])

\* A revision was made by the operation that held its allowance, and is in the chain
\* with the event that tells the operation's reason.
Genuine(m) ==
  LET a == m.op.allowance IN
  /\ m.revision \in 1..Len(rows) /\ m.revision = a.tip + 1
  /\ rows[m.revision].outcome = a.outcome
  /\ \E e \in events : e.current = rows[m.revision] /\ e.reason = m.op.reason
  /\ claim[a] = m.op /\ runs[a] = 1

\* All that were made are genuine, and none was made twice.
MadeOnce ==
  /\ \A m \in made : Genuine(m)
  /\ \A l, m \in made : l.revision = m.revision => l = m

\* Every answer names the revision its operation made.
AnswersDone == \A x \in answers : Made(x.op, x.result)

\* The auditor holds events that are still stored, and has not failed.
Audited == audited \subseteq events /\ audit # "failed"

\* The inductive invariant.
IInv ==
  /\ TypeOK
  /\ Chained
  /\ Recorded
  /\ \A o \in Operator : Reads(o)
  /\ \A o \in Operator : Claims(o)
  /\ OneOwner
  /\ \A a \in Allowance : Settled(a)
  /\ MadeOnce
  /\ AnswersDone
  /\ Audited

-----------------------------------------------------------------------------
\* The initial states satisfy the invariant.
LEMMA InitIInv == Init => IInv
<1> SUFFICES ASSUME Init PROVE IInv
  OBVIOUS
<1>1. PICK n \in 0..MaxLegacy : rows \in [1..n -> Ledger]
  BY AuthorityConstants DEF Init, Legacy
<1>2. rows \in Seq(Ledger) /\ Len(rows) = n
  BY <1>1, AuthorityConstants
<1>3. TypeOK
  BY <1>2 DEF Init, TypeOK, B!Init, PC
<1>4. Chained
  BY DEF Init, Chained, Legacy
<1>5. Recorded
  <2>1. IsFiniteSet(events) /\ Cardinality(events) = 0
    BY FS_EmptySet DEF Init
  <2>2. QED
    BY <1>1, <1>2, <2>1, AuthorityConstants DEF Init, Recorded
<1>6. ASSUME NEW o \in Operator PROVE Reads(o) /\ Claims(o)
  BY <1>1, <1>2, AuthorityConstants DEF Init, Reads, Claims, Owning
<1>7. OneOwner
  BY DEF Init, OneOwner, Owning
<1>8. ASSUME NEW a \in Allowance PROVE Settled(a)
  BY DEF Init, B!Init, Settled
<1>9. MadeOnce /\ AnswersDone /\ Audited
  BY DEF Init, B!Init, MadeOnce, AnswersDone, Audited
<1>10. QED
  BY <1>3, <1>4, <1>5, <1>6, <1>7, <1>8, <1>9 DEF IInv

-----------------------------------------------------------------------------
\* The one step that changes the tables.
Writes(o) ==
  /\ pc[o] = "applying" /\ Applicable(o) /\ Write(o)
  /\ Goto(o, "committing")
  /\ UNCHANGED <<plan, seen, headed, auditor, boundary>>

\* Every step writes a revision or leaves the tables alone.
LEMMA DatabaseCases ==
  ASSUME [Next]_vars
  PROVE  (\E o \in Operator : Writes(o)) \/ UNCHANGED database
BY DEF Next, Review, Authorize, Reserve, BeginEffect, LoadHead, Apply, CallFails, Raise,
   Publish, Crash, AuditEvents, AuditHistory, Writes, vars

\* What a write adds to the tables.
Adds(o) ==
  LET r == NewRevision(o) IN
  /\ seen[o] = rows /\ Len(rows) \in Nat /\ Key(o).tip = Len(rows)
  /\ Key(o) \in Allowance
  /\ r \in Ledger /\ r.outcome = Key(o).outcome
  /\ r.id.revision = Len(rows) + 1 /\ r.supersedes = TipId(rows)
  /\ rows' \in Seq(Ledger) /\ Len(rows') = Len(rows) + 1
  /\ \A n \in 1..Len(rows) : rows'[n] = rows[n]
  /\ rows'[Len(rows) + 1] = r
  /\ head' = r.id
  /\ events' = events \cup
       {[previous |-> IF rows = <<>> THEN None ELSE rows[Len(rows)],
         current |-> r, reason |-> plan[o].reason]}
  /\ made' = made \cup {[op |-> plan[o], revision |-> Len(rows) + 1]}

\* A write extends the chain as it is.
LEMMA WriteAdds ==
  ASSUME IInv, NEW o \in Operator, Writes(o)
  PROVE  Adds(o)
<1>1. /\ rows \in Seq(Ledger) /\ seen[o] \in Seq(Ledger) /\ Linear(rows)
      /\ Reads(o) /\ Claims(o)
  BY DEF IInv, TypeOK, Chained
<1>2. plan[o] \in Operation /\ Key(o).tip < MaxRevision /\ Len(seen[o]) = Key(o).tip
  BY <1>1 DEF Claims, Writes
<1>3. /\ Key(o) \in Allowance /\ Key(o).outcome \in Outcome /\ Key(o).tip \in Nat
      /\ plan[o].reason \in Reason /\ Key(o).outcome.status \in Status
  BY <1>2, AuthorityConstants DEF Operation, Allowance, Outcome, Key
<1>4. Append(rows, NewRevision(o))[Len(rows) + 1] = NewRevision(o)
      /\ Len(Append(rows, NewRevision(o))) = Len(rows) + 1
  BY <1>1
<1>5. NewRevision(o).id.revision = Len(rows) + 1
  BY <1>1, <1>4 DEF Writes, Applicable, Linear
<1>6. NewRevision(o).id.revision = Len(seen[o]) + 1 /\ NewRevision(o).outcome = Key(o).outcome
  BY DEF NewRevision, Revision
<1>7. Len(rows) = Len(seen[o]) /\ Len(rows) \in Nat
  BY <1>1, <1>5, <1>6
<1>8. seen[o] = rows
  BY <1>1, <1>7, SeqEqual DEF Reads
<1>9. TipId(rows) \in LedgerId \cup {None}
  <2>1. CASE rows = <<>>
    BY <2>1 DEF TipId
  <2>2. CASE rows # <<>>
    <3>1. Len(rows) \in 1..Len(rows)
      BY <1>1, <1>7, <2>2
    <3>2. rows[Len(rows)] \in Ledger
      BY <1>1, <3>1
    <3>3. QED
      BY <2>2, <3>2 DEF TipId, Tip, Ledger
  <2>3. QED
    BY <2>1, <2>2
<1>10. NewRevision(o) \in Ledger /\ NewRevision(o).supersedes = TipId(rows)
  <2>1. Len(rows) + 1 \in 1..MaxRevision
    BY <1>2, <1>3, <1>7, AuthorityConstants
  <2>2. QED
    BY <1>3, <1>8, <1>9, <2>1 DEF NewRevision, Revision, Ledger, LedgerId
<1>11. rows' = Append(rows, NewRevision(o))
  BY DEF Writes, Write
<1>12. QED
  BY <1>1, <1>2, <1>3, <1>6, <1>7, <1>8, <1>10, <1>11 DEF Writes, Write, Adds, Tip
-----------------------------------------------------------------------------
\* Where a key comes from.
LEMMA KeyTypes ==
  ASSUME TypeOK, NEW o \in Operator, Claims(o), pc[o] \notin {"idle", "reviewing"}
  PROVE  /\ plan[o] \in Operation /\ plan[o] # None
         /\ Key(o) \in Allowance /\ plan[o].allowance = Key(o)
         /\ Key(o).tip + 1 \in 1..MaxRevision
<1>1. plan[o] \in Operation /\ Key(o).tip < MaxRevision
  BY DEF Claims
<1>2. Key(o) \in Allowance /\ Key(o).tip \in Nat
  BY <1>1, AuthorityConstants DEF Operation, Allowance, Key
<1>3. QED
  BY <1>1, <1>2, NoneIsNothing, AuthorityConstants DEF Key

\* The types, by what a step touches together: the tables and the auditor,
TablesTyped ==
  /\ rows \in Seq(Ledger) /\ head \in LedgerId \cup {None} /\ events \subseteq Event
  /\ made \subseteq [op: Operation, revision: 1..MaxRevision]
  /\ audit \in {"idle", "reading", "failed"} /\ audited \subseteq Event

\* ... an operator's frame,
FrameTyped ==
  /\ pc \in [Operator -> PC] /\ plan \in [Operator -> Operation \cup {None}]
  /\ seen \in [Operator -> Seq(Ledger)] /\ headed \in [Operator -> BOOLEAN]

\* ... and the boundary.
BoundaryTyped ==
  /\ claim \in [Allowance -> Operation \cup {None}] /\ runs \in [Allowance -> 0..1]
  /\ outcome \in [Allowance -> {"open", "closed", "published"}]
  /\ result \in [Allowance -> 1..MaxRevision \cup {None}]
  /\ answers \subseteq [op: Operation, result: 1..MaxRevision]

\* The tables keep their types.
LEMMA StepTablesTyped ==
  ASSUME IInv, [Next]_vars PROVE TablesTyped'
<1>1. TablesTyped /\ TypeOK /\ \A o \in Operator : Claims(o)
  BY DEF IInv, TypeOK, TablesTyped
<1>2. ASSUME NEW o \in Operator, Writes(o) PROVE TablesTyped'
  <2>1. Adds(o) /\ plan[o].reason \in Reason
    BY <1>1, <1>2, WriteAdds, KeyTypes DEF Writes, Operation
  <2>2. (IF rows = <<>> THEN None ELSE rows[Len(rows)]) \in Ledger \cup {None}
    <3>1. CASE rows # <<>>
      <4>1. Len(rows) \in 1..Len(rows)
        BY <1>1, <3>1, EmptySeq DEF TablesTyped
      <4>2. QED
        BY <1>1, <4>1 DEF TablesTyped
    <3>2. QED
      BY <3>1
  <2>3. events' \subseteq Event
    <3>1. PICK previous \in Ledger \cup {None} :
            events' = events \cup {[previous |-> previous, current |-> NewRevision(o),
                                    reason |-> plan[o].reason]}
      BY <2>1, <2>2 DEF Adds
    <3>2. NewRevision(o) \in Ledger
      BY <2>1 DEF Adds
    <3>3. QED
      BY <1>1, <2>1, <3>1, <3>2 DEF Event, TablesTyped
  <2>4. head' \in LedgerId
    BY <2>1 DEF Adds, Ledger
  <2>6. made' \subseteq [op: Operation, revision: 1..MaxRevision]
    <3>1. plan[o] \in Operation /\ Len(rows) + 1 \in 1..MaxRevision
      BY <1>1, <1>2, <2>1, KeyTypes DEF Writes, Adds
    <3>2. QED
      BY <1>1, <2>1, <3>1 DEF Adds, TablesTyped
  <2>5. QED
    BY <1>1, <1>2, <2>1, <2>3, <2>4, <2>6 DEF Writes, Adds, TablesTyped, auditor
<1>3. CASE UNCHANGED database
  <2>1. UNCHANGED auditor \/ AuditEvents \/ AuditHistory
    BY DEF Next, vars, Review, Authorize, Reserve, BeginEffect, LoadHead, Apply, CallFails,
       Raise, Publish, Crash, Writes
  <2>2. CASE UNCHANGED auditor
    BY <1>1, <1>3, <2>2 DEF TablesTyped, database, auditor
  <2>3. CASE AuditEvents
    BY <1>1, <2>3 DEF TablesTyped, database, AuditEvents
  <2>4. CASE AuditHistory
    BY <1>1, <2>4 DEF TablesTyped, database, AuditHistory
  <2>5. QED
    BY <2>1, <2>2, <2>3, <2>4
<1>4. QED
  BY <1>2, <1>3, DatabaseCases

\* The operators' frames keep their types.
LEMMA StepFrameTyped ==
  ASSUME IInv, [Next]_vars PROVE FrameTyped'
<1> USE DEF FrameTyped, Goto, frame
<1>1. FrameTyped /\ rows \in Seq(Ledger) /\ TypeOK
  BY DEF IInv, TypeOK
<1>2. ASSUME NEW o \in Operator, Leave(o) PROVE FrameTyped'
  BY <1>1, <1>2 DEF Leave, PC
<1>3. ASSUME NEW o \in Operator, NEW stage \in PC, pc' = [pc EXCEPT ![o] = stage],
             plan' = plan, \/ seen' = seen
                           \/ seen' = [seen EXCEPT ![o] = rows],
             headed' \in [Operator -> BOOLEAN]
      PROVE  FrameTyped'
  BY <1>1, <1>3
<1>4. ASSUME NEW o \in Operator, Review(o) \/ BeginEffect(o) PROVE FrameTyped'
  BY <1>1, <1>3, <1>4 DEF Review, BeginEffect, ReadRows, PC
<1>5. ASSUME NEW o \in Operator, Authorize(o) PROVE FrameTyped'
  <2>1. ASSUME NEW ask \in Asks, SnapshotHolds(o), Len(seen[o]) < MaxRevision
        PROVE  [allowance |-> [actor |-> ask.actor, tip |-> Len(seen[o]),
                               outcome |-> ask.outcome],
                reason |-> ask.reason] \in Operation
    <3>1. Len(seen[o]) \in 0..MaxRevision
      BY <1>1, <2>1, AuthorityConstants
    <3>2. QED
      BY <3>1, AsksAreTyped DEF Operation, Allowance
  <2>2. plan' \in [Operator -> Operation \cup {None}] \/ Leave(o)
    <3>1. SUFFICES ASSUME ~Leave(o) PROVE plan' \in [Operator -> Operation \cup {None}]
      OBVIOUS
    <3>2. PICK op \in Operation : plan' = [plan EXCEPT ![o] = op]
      BY <1>5, <2>1, <3>1 DEF Authorize
    <3>3. QED
      BY <1>1, <3>2
  <2>3. QED
    BY <1>1, <1>2, <1>5, <2>2 DEF Authorize, PC
<1>6. ASSUME NEW o \in Operator, Reserve(o) PROVE FrameTyped'
  BY <1>1, <1>2, <1>3, <1>6 DEF Reserve, PC
<1>7. ASSUME NEW o \in Operator, LoadHead(o) PROVE FrameTyped'
  <2>1. CASE Raise(o)
    BY <1>2, <2>1 DEF Raise
  <2>2. CASE ~Raise(o)
    BY <1>1, <1>3, <1>7, <2>2 DEF LoadHead, PC
  <2>3. QED
    BY <2>1, <2>2
<1>8. ASSUME NEW o \in Operator, Apply(o) \/ CallFails(o) PROVE FrameTyped'
  BY <1>1, <1>2, <1>3, <1>8 DEF Apply, CallFails, Raise, PC
<1>9. ASSUME NEW o \in Operator, Publish(o) \/ Crash(o) PROVE FrameTyped'
  BY <1>2, <1>9 DEF Publish, Crash
<1>10. CASE AuditEvents \/ AuditHistory \/ UNCHANGED vars
  BY <1>1, <1>10 DEF AuditEvents, AuditHistory, vars
<1>11. QED
  BY <1>4, <1>5, <1>6, <1>7, <1>8, <1>9, <1>10 DEF Next
\* The boundary's variables keep their types.
LEMMA StepBoundaryTyped ==
  ASSUME IInv, [Next]_vars PROVE BoundaryTyped'
<1> USE DEF BoundaryTyped, boundary
<1>1. BoundaryTyped /\ TypeOK /\ \A o \in Operator : Claims(o)
  BY DEF IInv, TypeOK
<1>2. ASSUME NEW o \in Operator, Reserve(o) PROVE BoundaryTyped'
  <2>1. Key(o) \in Allowance /\ plan[o] \in Operation
    BY <1>1, <1>2, KeyTypes DEF Reserve
  <2>2. CASE B!Claim(Key(o), plan[o])
    BY <1>1, <2>1, <2>2 DEF B!Claim
  <2>3. CASE claim[Key(o)] = plan[o] /\ B!Answer(Key(o))
    <3>1. result[Key(o)] = Key(o).tip + 1
      BY <2>1, <2>3 DEF IInv, Settled, B!Answer
    <3>2. result[Key(o)] \in 1..MaxRevision
      BY <1>1, <1>2, <3>1, KeyTypes DEF Reserve
    <3>3. QED
      BY <1>1, <2>1, <2>3, <3>2 DEF B!Answer
  <2>4. CASE UNCHANGED boundary
    BY <1>1, <2>4
  <2>5. QED
    BY <1>2, <2>2, <2>3, <2>4 DEF Reserve
<1>3. ASSUME NEW o \in Operator, B!Invoke(Key(o)) \/ B!Close(Key(o)) PROVE BoundaryTyped'
  BY <1>1, <1>3 DEF B!Invoke, B!Close
<1>4. ASSUME NEW o \in Operator, Publish(o) PROVE BoundaryTyped'
  <2>1. /\ Key(o) \in Allowance /\ Key(o).tip + 1 \in 1..MaxRevision
        /\ claim[Key(o)] \in Operation
    BY <1>1, <1>4, KeyTypes DEF Publish, Claims, Owning
  <2>2. QED
    BY <1>1, <1>4, <2>1 DEF Publish, B!Publish
<1>5. ASSUME UNCHANGED boundary PROVE BoundaryTyped'
  BY <1>1, <1>5
<1>6. QED
  BY <1>2, <1>3, <1>4, <1>5 DEF Next, vars, Review, Authorize, BeginEffect, LoadHead, Apply,
     CallFails, Raise, Crash, AuditEvents, AuditHistory

\* Every step keeps the types.
LEMMA StepTypeOK ==
  ASSUME IInv, [Next]_vars PROVE TypeOK'
BY StepTablesTyped, StepFrameTyped, StepBoundaryTyped
DEF TypeOK, TablesTyped, FrameTyped, BoundaryTyped

-----------------------------------------------------------------------------
\* The chain stays linear and the head names its tip.
LEMMA StepChained ==
  ASSUME IInv, [Next]_vars PROVE Chained'
<1>1. Chained /\ TypeOK
  BY DEF IInv
<1>2. ASSUME NEW o \in Operator, Writes(o) PROVE Chained'
  <2>1. Adds(o)
    BY <1>2, WriteAdds
  <2>2. Linear(rows')
    <3>1. SUFFICES ASSUME NEW n \in 1..(Len(rows) + 1)
                   PROVE  /\ rows'[n].id.revision = n
                          /\ rows'[n].supersedes = IF n = 1 THEN None ELSE rows'[n - 1].id
      BY <2>1 DEF Adds, Linear
    <3>2. Len(rows) \in Nat /\ (rows = <<>> <=> Len(rows) = 0)
      BY <1>1, EmptySeq DEF TypeOK
    <3>3. CASE n = Len(rows) + 1
      <4>1. rows'[n].id.revision = n /\ rows'[n].supersedes = TipId(rows)
        BY <2>1, <3>3 DEF Adds
      <4>2. CASE n = 1
        BY <3>2, <3>3, <4>1, <4>2 DEF TipId
      <4>3. CASE n # 1
        <5>1. rows # <<>> /\ n - 1 = Len(rows) /\ n - 1 \in 1..Len(rows)
          BY <3>2, <3>3, <4>3
        <5>2. rows'[n - 1] = rows[Len(rows)]
          BY <2>1, <5>1 DEF Adds
        <5>3. QED
          BY <4>1, <4>3, <5>1, <5>2 DEF TipId, Tip
      <4>4. QED
        BY <4>2, <4>3
    <3>4. CASE n # Len(rows) + 1
      <4>1. n \in 1..Len(rows) /\ (n # 1 => n - 1 \in 1..Len(rows))
        BY <3>2, <3>4
      <4>2. rows'[n] = rows[n] /\ (n # 1 => rows'[n - 1] = rows[n - 1])
        BY <2>1, <4>1 DEF Adds
      <4>3. QED
        BY <1>1, <4>1, <4>2 DEF Chained, Linear
    <3>5. QED
      BY <3>3, <3>4
  <2>3. rows' # <<>> /\ head' = TipId(rows')
    <3>1. Len(rows') # 0 /\ rows'[Len(rows')].id = head'
      BY <2>1 DEF Adds
    <3>2. QED
      BY <3>1 DEF TipId, Tip
  <2>4. QED
    BY <2>2, <2>3 DEF Chained
<1>3. CASE UNCHANGED database
  BY <1>1, <1>3 DEF Chained, database, Linear, TipId, Tip
<1>4. QED
  BY <1>2, <1>3, DatabaseCases
-----------------------------------------------------------------------------
\* An event goes on being bound to its revision as the chain grows.
LEMMA StaysBound ==
  ASSUME IInv, NEW o \in Operator, Adds(o), NEW e \in events
  PROVE  Bound(e)' /\ e.current.id.revision \in 1..Len(rows)
<1>1. Bound(e) /\ e \in Event /\ Len(rows) \in Nat
  BY DEF IInv, Recorded, TypeOK, Adds
<1>2. e.current.id.revision \in 1..Len(rows)
  <2>1. e.current.id.revision \in 1..MaxRevision
    BY <1>1 DEF Event, Ledger, LedgerId
  <2>2. QED
    BY <1>1, <2>1, AuthorityConstants DEF Bound
<1>3. rows'[e.current.id.revision] = rows[e.current.id.revision]
  BY <1>2 DEF Adds
<1>4. e.current.id.revision # 1 =>
        rows'[e.current.id.revision - 1] = rows[e.current.id.revision - 1]
  BY <1>1, <1>2 DEF Adds
<1>5. QED
  BY <1>1, <1>2, <1>3, <1>4 DEF Bound, Adds

\* Every governed revision has its event.
LEMMA StepRecorded ==
  ASSUME IInv, [Next]_vars PROVE Recorded'
<1>1. Recorded /\ TypeOK /\ Chained
  BY DEF IInv
<1>2. ASSUME NEW o \in Operator, Writes(o) PROVE Recorded'
  <2>1. Adds(o)
    BY <1>2, WriteAdds
  <2>2. PICK r : r = NewRevision(o)
    OBVIOUS
  <2>3. PICK new : new = [previous |-> IF rows = <<>> THEN None ELSE rows[Len(rows)],
                          current |-> r, reason |-> plan[o].reason]
    OBVIOUS
  <2>4. /\ events' = events \cup {new} /\ new.current = r
        /\ new.previous = IF rows = <<>> THEN None ELSE rows[Len(rows)]
        /\ new.reason = plan[o].reason
        /\ r.id.revision = Len(rows) + 1 /\ Len(rows) \in Nat
        /\ Len(rows') = Len(rows) + 1 /\ rows'[Len(rows) + 1] = r
    BY <2>1, <2>2, <2>3 DEF Adds
  <2>5. Bound(new)'
    <3>1. CASE rows = <<>>
      BY <2>1, <2>4, <3>1 DEF Bound
    <3>2. CASE rows # <<>>
      <4>1. Len(rows) \in 1..Len(rows)
        BY <1>1, <3>2, EmptySeq DEF TypeOK
      <4>2. rows'[Len(rows)] = rows[Len(rows)] /\ seen[o] = rows
        BY <2>1, <4>1 DEF Adds
      <4>3. r.reason = plan[o].reason
        BY <2>2, <3>2, <4>2 DEF NewRevision, Revision
      <4>4. QED
        BY <2>4, <3>2, <4>1, <4>2, <4>3 DEF Bound
    <3>3. QED
      BY <3>1, <3>2
  <2>6. \A e \in events' : Bound(e)'
    <3>1. \A e \in events : Bound(e)'
      BY <2>1, StaysBound
    <3>2. QED
      BY <2>4, <2>5, <3>1
  <2>7. ASSUME NEW e \in events PROVE e.current # r
    BY <2>1, <2>4, <2>7, StaysBound
  <2>8. \A e, f \in events' : e.current = f.current => e = f
    BY <1>1, <2>4, <2>7 DEF Recorded
  <2>9. IsFiniteSet(events') /\ Cardinality(events') = Cardinality(events) + 1
    <3>1. new \notin events
      BY <2>4, <2>7
    <3>2. QED
      BY <1>1, <2>4, <3>1, FS_AddElement DEF Recorded
  <2>10. head' # None /\ events' # {}
    BY <2>1, <2>4, NoneIsNothing DEF Adds, Ledger
  <2>11. ASSUME NEW n \in 1..Len(rows'), n > Len(rows') - Cardinality(events')
        PROVE  \E e \in events' : e.current = rows'[n]
    <3>1. CASE n = Len(rows) + 1
      BY <2>4, <3>1
    <3>2. CASE n # Len(rows) + 1
      <4>1. n \in 1..Len(rows) /\ n > Len(rows) - Cardinality(events)
        BY <1>1, <2>4, <2>9, <2>11, <3>2 DEF Recorded
      <4>2. QED
        BY <1>1, <2>1, <2>4, <4>1 DEF Recorded, Adds
    <3>3. QED
      BY <3>1, <3>2
  <2>12. Cardinality(events') \in 0..Len(rows')
    BY <1>1, <2>4, <2>9 DEF Recorded
  <2>13. QED
    BY <2>6, <2>8, <2>9, <2>10, <2>11, <2>12 DEF Recorded
<1>3. CASE UNCHANGED database
  BY <1>1, <1>3 DEF Recorded, database, Bound
<1>4. QED
  BY <1>2, <1>3, DatabaseCases
-----------------------------------------------------------------------------
\* What was made stays made.
LEMMA StaysMade ==
  ASSUME IInv, [Next]_vars PROVE made \subseteq made'
<1>1. ASSUME NEW o \in Operator, Writes(o) PROVE made \subseteq made'
  BY <1>1 DEF Writes, Write
<1>2. QED
  BY <1>1, DatabaseCases DEF database

\* What a step of o leaves to the others.
Touches(o) ==
  /\ \A p \in Operator \ {o} : pc'[p] = pc[p] /\ plan'[p] = plan[p] /\ seen'[p] = seen[p]
  /\ \A a \in Allowance :
       \/ claim'[a] = claim[a] /\ outcome'[a] = outcome[a] /\ runs'[a] = runs[a]
       \/ claim[a] = None
       \/ a = Key(o) /\ pc[o] \in Owning

\* A step of an operator.
Acts(o) ==
  \/ Review(o) \/ Authorize(o) \/ Reserve(o) \/ BeginEffect(o)
  \/ LoadHead(o) \/ Apply(o) \/ CallFails(o) \/ Publish(o) \/ Crash(o)

\* It touches no other operator, and no claim but its own or a free one.
LEMMA ActsTouches ==
  ASSUME IInv, [Next]_vars, NEW o \in Operator, Acts(o)
  PROVE  Touches(o)
<1>1. TypeOK
  BY DEF IInv
<1> USE DEF TypeOK, Goto, Leave, frame, boundary
<1>3. ASSUME Review(o) \/ Authorize(o) \/ Crash(o) PROVE Touches(o)
  BY <1>1, <1>3 DEF Review, ReadRows, Authorize, Crash, Touches
<1>4. ASSUME Reserve(o) PROVE Touches(o)
  BY <1>1, <1>4 DEF Reserve, B!Claim, B!Answer, Touches
<1>5. ASSUME BeginEffect(o) PROVE Touches(o)
  BY <1>1, <1>5 DEF BeginEffect, ReadRows, B!Invoke, Touches, Owning
<1>6. ASSUME Raise(o), pc[o] \in Owning PROVE Touches(o)
  BY <1>1, <1>6 DEF Raise, B!Close, Touches
<1>7. ASSUME LoadHead(o) PROVE Touches(o)
  <2>1. CASE Raise(o)
    BY <1>6, <1>7, <2>1 DEF LoadHead, Owning
  <2>2. CASE ~Raise(o)
    BY <1>1, <1>7, <2>2 DEF LoadHead, Touches
  <2>3. QED
    BY <2>1, <2>2
<1>8. ASSUME CallFails(o) PROVE Touches(o)
  BY <1>6, <1>8 DEF CallFails, Owning
<1>9. ASSUME Apply(o) PROVE Touches(o)
  <2>1. CASE Raise(o)
    BY <1>6, <1>9, <2>1 DEF Apply, Owning
  <2>2. CASE Writes(o)
    BY <1>1, <2>2 DEF Writes, Touches
  <2>3. QED
    BY <1>9, <2>1, <2>2 DEF Apply, Writes
<1>10. ASSUME Publish(o) PROVE Touches(o)
  BY <1>1, <1>10 DEF Publish, B!Publish, Touches, Owning
<1>11. QED
  BY <1>3, <1>4, <1>5, <1>7, <1>8, <1>9, <1>10 DEF Acts

\* Whatever others do, an operator's claim stays what it is.
LEMMA ClaimSurvives ==
  ASSUME IInv, [Next]_vars, NEW o \in Operator, NEW p \in Operator, p # o, Touches(o)
  PROVE  Claims(p)'
<1>1. TypeOK /\ Claims(p) /\ OneOwner
  BY DEF IInv
<1>2. pc'[p] = pc[p] /\ plan'[p] = plan[p] /\ seen'[p] = seen[p] /\ Key(p)' = Key(p)
  BY DEF Touches, Key
<1>3. CASE pc[p] \in {"idle", "reviewing", "authorized"}
  BY <1>1, <1>2, <1>3 DEF Claims, Owning
<1>4. CASE pc[p] \in Owning
  <2>1. /\ Key(p) \in Allowance /\ plan[p] # None /\ claim[Key(p)] = plan[p]
        /\ plan[p] \in Operation
    BY <1>1, <1>4, KeyTypes DEF Claims, Owning
  <2>2. ~(Key(p) = Key(o) /\ pc[o] \in Owning)
    BY <1>1, <1>4 DEF OneOwner
  <2>3. /\ claim'[Key(p)] = claim[Key(p)] /\ outcome'[Key(p)] = outcome[Key(p)]
        /\ runs'[Key(p)] = runs[Key(p)]
    BY <1>2, <2>1, <2>2 DEF Touches
  <2>4. made \subseteq made'
    BY StaysMade
  <2>5. QED
    BY <1>1, <1>2, <1>4, <2>1, <2>3, <2>4 DEF Claims, Owning, Tip, Made
<1>5. QED
  BY <1>1, <1>3, <1>4 DEF TypeOK, PC, Owning
-----------------------------------------------------------------------------
\* What was read stays the beginning of the chain.
LEMMA StepReads ==
  ASSUME IInv, [Next]_vars, NEW o \in Operator PROVE Reads(o)'
<1>1. TypeOK /\ Reads(o)
  BY DEF IInv
<1>2. \/ seen'[o] = <<>> /\ pc'[o] = "idle"
      \/ seen'[o] = rows /\ rows' = rows
      \/ seen'[o] = seen[o] /\ (pc[o] = "idle" => pc'[o] = "idle")
  <2> USE <1>1 DEF TypeOK, Goto, Leave, frame, database, PC
  <2>1. ASSUME NEW p \in Operator,
               Review(p) \/ Authorize(p) \/ Reserve(p) \/ BeginEffect(p) \/ LoadHead(p)
                 \/ Apply(p) \/ CallFails(p) \/ Publish(p) \/ Crash(p)
        PROVE  \/ seen'[o] = <<>> /\ pc'[o] = "idle"
               \/ seen'[o] = rows /\ rows' = rows
               \/ seen'[o] = seen[o] /\ (pc[o] = "idle" => pc'[o] = "idle")
    BY <2>1 DEF Review, Authorize, Reserve, BeginEffect, LoadHead, Apply, CallFails,
       Publish, Crash, Raise, ReadRows
  <2>2. CASE AuditEvents \/ AuditHistory \/ UNCHANGED vars
    BY <2>2 DEF AuditEvents, AuditHistory, vars
  <2>3. QED
    BY <2>1, <2>2 DEF Next
<1>3. /\ Len(rows) \in Nat /\ Len(rows') \in Nat /\ Len(rows) <= Len(rows')
      /\ Len(seen[o]) \in Nat
      /\ \A n \in 1..Len(rows) : rows'[n] = rows[n]
      /\ head' = None => head = None /\ rows' = rows
  <2>1. ASSUME NEW p \in Operator, Writes(p)
        PROVE  /\ Len(rows) <= Len(rows') /\ head' # None
               /\ \A n \in 1..Len(rows) : rows'[n] = rows[n]
    <3>1. Adds(p)
      BY <2>1, WriteAdds
    <3>2. QED
      BY <3>1, NoneIsNothing DEF Adds, Ledger
  <2>2. Len(rows) \in Nat /\ Len(rows') \in Nat /\ Len(seen[o]) \in Nat
    BY <1>1, StepTypeOK DEF TypeOK
  <2>3. QED
    BY <2>1, <2>2, DatabaseCases DEF database
<1>4. QED
  BY <1>1, <1>2, <1>3 DEF Reads

\* An operator's own step keeps what its place says of its claim.
LEMMA StepClaims ==
  ASSUME IInv, [Next]_vars, NEW o \in Operator PROVE Claims(o)'
<1>1. TypeOK /\ Claims(o) /\ Reads(o) /\ Chained /\ (\A a \in Allowance : Settled(a))
  BY DEF IInv
<1> USE DEF Goto, Leave, frame, database, boundary, Key
<1>2. ASSUME pc'[o] = "idle" PROVE Claims(o)'
  BY <1>2 DEF Claims, Owning
<1>3. ASSUME Review(o) PROVE Claims(o)'
  BY <1>1, <1>3 DEF Review, TypeOK, Claims, Owning
<1>4. ASSUME Authorize(o) PROVE Claims(o)'
  <2>1. CASE Leave(o)
    BY <1>1, <1>2, <2>1 DEF TypeOK
  <2>2. CASE ~Leave(o)
    <3>1. PICK ask \in Asks :
            plan' = [plan EXCEPT ![o] =
              [allowance |-> [actor |-> ask.actor, tip |-> Len(seen[o]),
                              outcome |-> ask.outcome],
               reason |-> ask.reason]]
      BY <1>4, <2>2 DEF Authorize
    <3>2. Len(seen[o]) \in 0..MaxRevision /\ Len(seen[o]) < MaxRevision
          /\ pc'[o] = "authorized"
      BY <1>1, <1>4, <2>2, AuthorityConstants DEF Authorize, TypeOK
    <3>3. plan'[o] \in Operation /\ plan'[o].allowance.tip < MaxRevision
      BY <1>1, <3>1, <3>2, AsksAreTyped DEF TypeOK, Operation, Allowance
    <3>4. QED
      BY <3>2, <3>3 DEF Claims, Owning
  <2>3. QED
    BY <2>1, <2>2
<1>5. ASSUME Reserve(o) PROVE Claims(o)'
  <2>1. CASE Leave(o)
    BY <1>1, <1>2, <2>1 DEF TypeOK
  <2>2. CASE ~Leave(o)
    <3>1. B!Claim(Key(o), plan[o]) /\ pc'[o] = "claimed" /\ UNCHANGED <<plan, database>>
      BY <1>1, <1>5, <2>2 DEF Reserve, TypeOK
    <3>2. Key(o) \in Allowance /\ plan[o] \in Operation
      BY <1>1, <1>5, KeyTypes DEF Reserve
    <3>3. /\ claim'[Key(o)] = plan[o] /\ outcome'[Key(o)] = "open" /\ runs'[Key(o)] = 0
      BY <1>1, <3>1, <3>2 DEF B!Claim, Settled, TypeOK
    <3>4. QED
      BY <1>1, <1>5, <3>1, <3>2, <3>3 DEF Reserve, Claims, Owning
  <2>3. QED
    BY <2>1, <2>2
<1>6. ASSUME BeginEffect(o) PROVE Claims(o)'
  <2>1. Key(o) \in Allowance
    BY <1>1, <1>6, KeyTypes DEF BeginEffect
  <2>2. runs'[Key(o)] = 1 /\ pc'[o] = "loading"
    BY <1>1, <1>6, <2>1 DEF BeginEffect, B!Invoke, TypeOK
  <2>3. QED
    BY <1>1, <1>6, <2>1, <2>2 DEF BeginEffect, B!Invoke, Claims, Owning
<1>7. ASSUME LoadHead(o) PROVE Claims(o)'
  <2>1. CASE Raise(o)
    BY <1>1, <1>2, <2>1 DEF Raise, TypeOK
  <2>2. CASE Acceptable(o)
    BY <1>1, <1>7, <2>2 DEF LoadHead, Acceptable, Claims, Owning, TypeOK
  <2>3. QED
    BY <1>7, <2>1, <2>2 DEF LoadHead
<1>8. ASSUME Apply(o) PROVE Claims(o)'
  <2>1. CASE Raise(o)
    BY <1>1, <1>2, <2>1 DEF Raise, TypeOK
  <2>2. CASE Writes(o)
    <3>1. Key(o) \in Allowance /\ Adds(o)
      BY <1>1, <2>2, KeyTypes, WriteAdds DEF Writes
    <3>2. Made(plan[o], Key(o).tip + 1)'
      BY <2>2, <3>1 DEF Writes, Adds, Made
    <3>3. QED
      BY <1>1, <2>2, <3>1, <3>2 DEF Writes, Claims, Owning, TypeOK, Made
  <2>3. QED
    BY <1>8, <2>1, <2>2 DEF Apply, Writes
<1>9. ASSUME CallFails(o) \/ Publish(o) \/ Crash(o) PROVE Claims(o)'
  BY <1>1, <1>2, <1>9 DEF CallFails, Raise, Publish, Crash, TypeOK
<1>10. ASSUME UNCHANGED <<frame, boundary, database>> PROVE Claims(o)'
  BY <1>1, <1>10 DEF Claims, Made, Tip
<1>11. ASSUME NEW p \in Operator, p # o, Acts(p) PROVE Claims(o)'
  BY <1>11, ActsTouches, ClaimSurvives
<1>12. QED
  BY <1>3, <1>4, <1>5, <1>6, <1>7, <1>8, <1>9, <1>10, <1>11
  DEF Next, vars, AuditEvents, AuditHistory, Acts

\* No two operators hold one claim: only a free one is taken.
LEMMA StepOneOwner ==
  ASSUME IInv, [Next]_vars PROVE OneOwner'
<1>1. TypeOK /\ OneOwner /\ \A o \in Operator : Claims(o)
  BY DEF IInv
<1>2. ASSUME NEW o \in Operator, Acts(o) PROVE OneOwner'
  <2>1. Touches(o)
    BY <1>2, ActsTouches
  <2>2. \A p \in Operator \ {o} : pc'[p] = pc[p] /\ Key(p)' = Key(p)
    BY <2>1 DEF Touches, Key
  <2>3. CASE pc'[o] \notin Owning
    BY <1>1, <2>2, <2>3 DEF OneOwner
  <2>4. CASE pc[o] \in Owning /\ plan'[o] = plan[o]
    BY <1>1, <2>2, <2>4 DEF OneOwner, Key
  <2>5. CASE B!Claim(Key(o), plan[o]) /\ plan'[o] = plan[o]
    <3>1. ASSUME NEW p \in Operator \ {o}, pc[p] \in Owning PROVE Key(p) # Key(o)
      <4>1. claim[Key(p)] = plan[p] /\ plan[p] # None
        BY <1>1, <3>1, KeyTypes DEF Claims, Owning
      <4>2. QED
        BY <2>5, <4>1 DEF B!Claim
    <3>2. QED
      BY <1>1, <2>2, <2>5, <3>1 DEF OneOwner, Key
  <2>6. pc'[o] \in Owning =>
          \/ pc[o] \in Owning /\ plan'[o] = plan[o]
          \/ B!Claim(Key(o), plan[o]) /\ plan'[o] = plan[o]
    BY <1>1, <1>2 DEF Acts, Review, Authorize, Reserve, BeginEffect, LoadHead, Apply,
       CallFails, Publish, Crash, Raise, Goto, Leave, Owning, TypeOK
  <2>7. QED
    BY <2>3, <2>4, <2>5, <2>6
<1>3. CASE UNCHANGED frame
  BY <1>1, <1>3 DEF OneOwner, frame, Key
<1>4. QED
  BY <1>2, <1>3 DEF Next, vars, AuditEvents, AuditHistory, Acts

\* What the boundary says of an allowance goes on being so.
LEMMA StepSettled ==
  ASSUME IInv, [Next]_vars, NEW a \in Allowance PROVE Settled(a)'
<1>1. TypeOK /\ Settled(a) /\ \A o \in Operator : Claims(o)
  BY DEF IInv
<1>2. made \subseteq made'
  BY StaysMade
<1>3. CASE UNCHANGED boundary
  BY <1>1, <1>2, <1>3 DEF Settled, boundary, Made
<1>4. ASSUME NEW o \in Operator,
             \/ B!Claim(Key(o), plan[o]) /\ plan[o] # None /\ plan[o].allowance = Key(o)
             \/ B!Invoke(Key(o)) \/ B!Answer(Key(o)) \/ B!Close(Key(o))
             \/ /\ B!Publish(Key(o), Key(o).tip + 1) /\ claim[Key(o)] # None
                /\ Made(claim[Key(o)], Key(o).tip + 1)
      PROVE  Settled(a)'
  <2> USE <1>1, <1>2 DEF TypeOK, Settled, Made
  <2>1. CASE a # Key(o)
    <3>1. CASE B!Claim(Key(o), plan[o])
      BY <2>1, <3>1 DEF B!Claim
    <3>2. CASE B!Invoke(Key(o)) \/ B!Answer(Key(o))
      BY <2>1, <3>2 DEF B!Invoke, B!Answer
    <3>3. CASE B!Close(Key(o))
      BY <2>1, <3>3 DEF B!Close
    <3>4. CASE B!Publish(Key(o), Key(o).tip + 1)
      BY <2>1, <3>4 DEF B!Publish
    <3>5. QED
      BY <1>4, <3>1, <3>2, <3>3, <3>4
  <2>2. CASE a = Key(o)
    <3>1. CASE B!Claim(Key(o), plan[o]) /\ plan[o] # None /\ plan[o].allowance = Key(o)
      BY <2>2, <3>1 DEF B!Claim
    <3>2. CASE B!Invoke(Key(o)) \/ B!Answer(Key(o))
      BY <2>2, <3>2 DEF B!Invoke, B!Answer
    <3>3. CASE B!Close(Key(o))
      BY <2>2, <3>3 DEF B!Close
    <3>4. CASE /\ B!Publish(Key(o), Key(o).tip + 1) /\ claim[Key(o)] # None
               /\ Made(claim[Key(o)], Key(o).tip + 1)
      BY <2>2, <3>4 DEF B!Publish
    <3>5. QED
      BY <1>4, <3>1, <3>2, <3>3, <3>4
  <2>3. QED
    BY <2>1, <2>2
<1>5. ASSUME NEW o \in Operator, Acts(o) PROVE Settled(a)'
  <2>1. CASE Reserve(o)
    BY <1>1, <1>3, <1>4, <2>1, KeyTypes DEF Reserve
  <2>2. CASE BeginEffect(o)
    BY <1>4, <2>2 DEF BeginEffect
  <2>3. CASE Raise(o)
    BY <1>4, <2>3 DEF Raise
  <2>4. CASE Publish(o)
    <3>1. claim[Key(o)] = plan[o] /\ plan[o] # None /\ Made(plan[o], Key(o).tip + 1)
      BY <1>1, <2>4, KeyTypes DEF Publish, Claims, Owning
    <3>2. QED
      BY <1>4, <2>4, <3>1 DEF Publish
  <2>5. QED
    BY <1>3, <1>5, <2>1, <2>2, <2>3, <2>4 DEF Acts, Review, Authorize, LoadHead, Apply,
       CallFails, Crash
<1>6. QED
  BY <1>3, <1>5 DEF Next, vars, AuditEvents, AuditHistory, Acts

\* What a step does to claims that are taken: they stay, and so do their runs.
LEMMA ClaimsStay ==
  ASSUME IInv, [Next]_vars, NEW a \in Allowance, claim[a] # None, runs[a] = 1
  PROVE  claim'[a] = claim[a] /\ runs'[a] = 1
<1>1. TypeOK
  BY DEF IInv
<1>2. \/ UNCHANGED boundary
      \/ \E o \in Operator :
           \/ B!Claim(Key(o), plan[o]) \/ B!Invoke(Key(o)) \/ B!Close(Key(o))
           \/ B!Answer(Key(o)) \/ B!Publish(Key(o), Key(o).tip + 1)
  BY DEF Next, vars, Review, Authorize, Reserve, BeginEffect, LoadHead, Apply, CallFails,
     Raise, Publish, Crash, AuditEvents, AuditHistory
<1>3. CASE UNCHANGED boundary
  BY <1>3 DEF boundary
<1>4. ASSUME NEW o \in Operator, B!Claim(Key(o), plan[o])
      PROVE  claim'[a] = claim[a] /\ runs'[a] = 1
  BY <1>1, <1>4 DEF B!Claim, TypeOK
<1>5. ASSUME NEW o \in Operator, B!Invoke(Key(o))
      PROVE  claim'[a] = claim[a] /\ runs'[a] = 1
  BY <1>1, <1>5 DEF B!Invoke, TypeOK
<1>6. ASSUME NEW o \in Operator,
             B!Close(Key(o)) \/ B!Answer(Key(o)) \/ B!Publish(Key(o), Key(o).tip + 1)
      PROVE  claim'[a] = claim[a] /\ runs'[a] = 1
  BY <1>1, <1>6 DEF B!Close, B!Answer, B!Publish, TypeOK
<1>7. QED
  BY <1>2, <1>3, <1>4, <1>5, <1>6

\* Revisions stay genuine, and a new one is the next of the chain.
LEMMA StepMadeOnce ==
  ASSUME IInv, [Next]_vars PROVE MadeOnce'
<1>1. MadeOnce /\ TypeOK /\ \A o \in Operator : Claims(o)
  BY DEF IInv
<1>2. ASSUME NEW m \in made,
             \A n \in 1..Len(rows) : n \in 1..Len(rows') /\ rows'[n] = rows[n],
             events \subseteq events'
      PROVE  Genuine(m)'
  <2>1. Genuine(m)
    BY <1>1 DEF MadeOnce
  <2>2. m.op.allowance \in Allowance /\ m.op # None
    BY <1>1, NoneIsNothing DEF TypeOK, Operation
  <2>3. claim'[m.op.allowance] = m.op /\ runs'[m.op.allowance] = 1
    BY <2>1, <2>2, ClaimsStay DEF Genuine
  <2>4. QED
    BY <1>2, <2>1, <2>3 DEF Genuine
<1>3. CASE UNCHANGED database
  BY <1>1, <1>2, <1>3 DEF database, MadeOnce
<1>4. ASSUME NEW o \in Operator, Writes(o) PROVE MadeOnce'
  <2>1. Adds(o)
    BY <1>4, WriteAdds
  <2>2. PICK r : r = NewRevision(o)
    OBVIOUS
  <2>3. PICK new : new = [op |-> plan[o], revision |-> Len(rows) + 1]
    OBVIOUS
  <2>4. PICK told : told = [previous |-> IF rows = <<>> THEN None ELSE rows[Len(rows)],
                            current |-> r, reason |-> plan[o].reason]
    OBVIOUS
  <2>5. /\ made' = made \cup {new} /\ events' = events \cup {told}
        /\ new.op = plan[o] /\ new.revision = Len(rows) + 1
        /\ told.current = r /\ told.reason = plan[o].reason
        /\ Len(rows) \in Nat /\ Len(rows') = Len(rows) + 1 /\ rows'[Len(rows) + 1] = r
        /\ r.outcome = Key(o).outcome /\ Key(o).tip = Len(rows)
        /\ \A n \in 1..Len(rows) : rows'[n] = rows[n]
    BY <2>1, <2>2, <2>3, <2>4 DEF Adds
  <2>6. /\ claim'[Key(o)] = plan[o] /\ runs'[Key(o)] = 1 /\ plan[o].allowance = Key(o)
    BY <1>1, <1>4, KeyTypes DEF Writes, Claims, Owning, boundary
  <2>7. Genuine(new)'
    BY <2>5, <2>6 DEF Genuine
  <2>8. \A m \in made : Genuine(m)'
    BY <1>2, <2>5
  <2>9. \A m \in made : m.revision # new.revision
    <3>1. SUFFICES ASSUME NEW m \in made PROVE m.revision # Len(rows) + 1
      BY <2>5
    <3>2. m.revision \in 1..Len(rows)
      BY <1>1 DEF MadeOnce, Genuine
    <3>3. QED
      BY <2>5, <3>2
  <2>10. QED
    BY <1>1, <2>5, <2>7, <2>8, <2>9 DEF MadeOnce
<1>5. QED
  BY <1>3, <1>4, DatabaseCases

\* Answers name revisions that were made, and the auditor finds what it read.
LEMMA StepAnswersAndAudit ==
  ASSUME IInv, [Next]_vars PROVE AnswersDone' /\ Audited'
<1>1. /\ TypeOK /\ AnswersDone /\ Audited /\ Recorded
      /\ (\A a \in Allowance : Settled(a)) /\ (\A o \in Operator : Claims(o))
  BY DEF IInv
<1>2. AnswersDone'
  <2>1. SUFFICES ASSUME NEW x \in answers' PROVE Made(x.op, x.result)
    BY StaysMade DEF AnswersDone, Made
  <2>2. CASE x \in answers
    BY <1>1, <2>2 DEF AnswersDone
  <2>3. ASSUME NEW o \in Operator, Reserve(o), claim[Key(o)] = plan[o], B!Answer(Key(o)),
               x \notin answers
        PROVE  Made(x.op, x.result)
    <3>1. Key(o) \in Allowance
      BY <1>1, <2>3, KeyTypes DEF Reserve
    <3>2. x = [op |-> plan[o], result |-> result[Key(o)]] /\ outcome[Key(o)] = "published"
      BY <2>3 DEF B!Answer
    <3>3. QED
      BY <1>1, <2>3, <3>1, <3>2 DEF Settled
  <2>4. ASSUME NEW o \in Operator, Publish(o), x \notin answers
        PROVE  Made(x.op, x.result)
    <3>1. Made(plan[o], Key(o).tip + 1) /\ claim[Key(o)] = plan[o]
      BY <1>1, <2>4 DEF Publish, Claims, Owning
    <3>2. x = [op |-> plan[o], result |-> Key(o).tip + 1]
      BY <2>4, <3>1 DEF Publish, B!Publish
    <3>3. QED
      BY <3>1, <3>2
  <2>5. \/ answers' = answers
        \/ \E o \in Operator :
             \/ Publish(o)
             \/ Reserve(o) /\ claim[Key(o)] = plan[o] /\ B!Answer(Key(o))
    BY DEF Next, vars, boundary, Review, Authorize, Reserve, BeginEffect, LoadHead, Apply,
       CallFails, Raise, Crash, AuditEvents, AuditHistory, B!Claim, B!Invoke, B!Close
  <2>6. QED
    BY <2>2, <2>3, <2>4, <2>5
<1>3. Audited'
  <2>1. events \subseteq events'
    <3>1. ASSUME NEW o \in Operator, Writes(o) PROVE events \subseteq events'
      BY <3>1 DEF Writes, Write
    <3>2. QED
      BY <3>1, DatabaseCases DEF database
  <2>2. UNCHANGED auditor \/ AuditEvents \/ AuditHistory
    BY DEF Next, vars, Review, Authorize, Reserve, BeginEffect, LoadHead, Apply, CallFails,
       Raise, Publish, Crash, Writes
  <2>3. CASE UNCHANGED auditor
    BY <1>1, <2>1, <2>3 DEF Audited, auditor
  <2>4. CASE AuditEvents
    BY <1>1, <2>4 DEF Audited, AuditEvents, database
  <2>5. CASE AuditHistory
    BY <1>1, <2>5 DEF Audited, AuditHistory, Recorded
  <2>6. QED
    BY <2>2, <2>3, <2>4, <2>5
<1>4. QED
  BY <1>2, <1>3
-----------------------------------------------------------------------------
(* The theorems.                                                           *)

\* The strengthened invariant holds in every reachable state.
THEOREM AuthorityInductive == Spec => []IInv
<1>1. IInv /\ [Next]_vars => IInv'
  <2> SUFFICES ASSUME IInv, [Next]_vars PROVE IInv'
    OBVIOUS
  <2>1. \A o \in Operator : Reads(o)' /\ Claims(o)'
    BY StepReads, StepClaims
  <2>2. \A a \in Allowance : Settled(a)'
    BY StepSettled
  <2> QED
    BY <2>1, <2>2, StepTypeOK, StepChained, StepRecorded, StepOneOwner, StepMadeOnce,
       StepAnswersAndAudit
    DEF IInv
<1> QED
  BY <1>1, InitIInv, PTL DEF Spec

\* Tables and frames keep their types.
THEOREM AuthorityTypeCorrect == Spec => []TypeOK
<1>1. IInv => TypeOK
  BY DEF IInv
<1> QED
  BY <1>1, AuthorityInductive, PTL

\* The chain never forks, its head is its tip, and its events tell its history.
THEOREM ChainStaysLinear == Spec => []ChainIsLinear
<1>1. ASSUME IInv PROVE ChainIsLinear
  <2>1. Chained /\ Recorded /\ Len(rows) \in Nat
    BY <1>1 DEF IInv, TypeOK
  <2>2. ASSUME NEW n \in (Len(rows) - Cardinality(events) + 1)..Len(rows)
        PROVE  \E e \in events : e.current = rows[n]
    <3>1. n \in 1..Len(rows) /\ n > Len(rows) - Cardinality(events)
      BY <2>1, <2>2 DEF Recorded
    <3>2. QED
      BY <2>1, <3>1 DEF Recorded
  <2>3. EventsMatchChain
    BY <2>1, <2>2 DEF Recorded, EventsMatchChain
  <2>4. QED
    BY <2>1, <2>3 DEF Chained, ChainIsLinear
<1> QED
  BY <1>1, AuthorityInductive, PTL

\* However its two reads are interleaved with writes, the audit does not fail.
THEOREM AuditsPass == Spec => []AuditNeverFails
<1>1. IInv => AuditNeverFails
  BY DEF IInv, Audited, AuditNeverFails
<1> QED
  BY <1>1, AuthorityInductive, PTL

\* A report handed out, or published, is the revision its own operation made, and every
\* revision is that of one operation which held the allowance for the tip it reviewed.
THEOREM ReportsHold == Spec => []ReportsAreRevisions
<1>1. ASSUME IInv PROVE ReportsAreRevisions
  <2>1. AnswersDone /\ MadeOnce /\ \A a \in Allowance : Settled(a)
    BY <1>1 DEF IInv
  <2>2. QED
    BY <2>1 DEF AnswersDone, Settled, MadeOnce, Genuine, ReportsAreRevisions
<1> QED
  BY <1>1, AuthorityInductive, PTL

\* The snapshot an effect accepts, put together from two reads, is the chain.
THEOREM SnapshotsHold == Spec => SnapshotsAreWhole
<1> DEFINE Whole == \A o \in Operator :
                      pc[o] = "loading" /\ pc'[o] = "applying" => seen[o] = rows
<1>1. IInv /\ [Next]_vars => Whole
  <2> SUFFICES ASSUME IInv, [Next]_vars, NEW o \in Operator,
                      pc[o] = "loading", pc'[o] = "applying"
               PROVE  seen[o] = rows
    OBVIOUS
  <2>1. TypeOK /\ Chained /\ Reads(o)
    BY DEF IInv
  <2>2. LoadHead(o)
    BY <2>1 DEF TypeOK, Next, vars, frame, Review, Authorize, Reserve, BeginEffect, LoadHead,
       Apply, CallFails, Raise, Publish, Crash, AuditEvents, AuditHistory, Goto, Leave
  <2>3. Acceptable(o)
    BY <2>1, <2>2 DEF LoadHead, Raise, Leave, Goto, TypeOK
  <2>4. CASE head = None
    BY <2>1, <2>4 DEF Reads
  <2>5. CASE head # None
    <3>1. TipId(seen[o]) = TipId(rows) /\ seen[o] # <<>> /\ rows # <<>>
      BY <2>1, <2>3, <2>5 DEF Acceptable, SnapshotHolds, Chained, TipId
    <3>2. Len(seen[o]) \in 1..Len(seen[o]) /\ Len(rows) \in 1..Len(rows)
      BY <2>1, <3>1, EmptySeq DEF TypeOK
    <3>3. Tip(seen[o]).id.revision = Len(seen[o]) /\ Tip(rows).id.revision = Len(rows)
      BY <2>1, <2>3, <3>2 DEF Acceptable, SnapshotHolds, Chained, Linear, Tip
    <3>4. Len(seen[o]) = Len(rows)
      BY <3>1, <3>3 DEF TipId
    <3>5. QED
      BY <2>1, <3>4, SeqEqual DEF TypeOK, Reads
  <2>6. QED
    BY <2>4, <2>5
<1>2. Spec => [][Whole]_vars
  <2> HIDE DEF Whole
  <2> QED
    BY <1>1, AuthorityInductive, PTL DEF Spec
<1>3. QED
  BY <1>2 DEF SnapshotsAreWhole

\* A revision lengthens the list of outcomes by one that changes the last.
LEMMA WriteRevises ==
  ASSUME IInv, NEW o \in Operator, Writes(o)
  PROVE  /\ Key(o).outcome \in Outcome
         /\ rows # <<>> => Key(o).outcome # rows[Len(rows)].outcome
         /\ [n \in 1..Len(rows') |-> rows'[n].outcome] =
              Append([n \in 1..Len(rows) |-> rows[n].outcome], Key(o).outcome)
<1>1. Adds(o) /\ Claims(o)
  BY WriteAdds DEF IInv
<1>2. PICK r : r = NewRevision(o)
  OBVIOUS
<1>3. /\ Len(rows) \in Nat /\ r \in Ledger /\ r.outcome = Key(o).outcome
      /\ Len(rows') = Len(rows) + 1 /\ rows'[Len(rows) + 1] = r
      /\ \A n \in 1..Len(rows) : rows'[n] = rows[n]
  BY <1>1, <1>2 DEF Adds
<1>4. Key(o).outcome \in Outcome
  BY <1>3 DEF Ledger
<1>5. rows # <<>> => Key(o).outcome # rows[Len(rows)].outcome
  BY <1>1 DEF Adds, Claims, Writes, Tip
<1>6. \A n \in 1..Len(rows) : rows[n].outcome \in Outcome
  <2>1. SUFFICES ASSUME NEW n \in 1..Len(rows) PROVE rows[n].outcome \in Outcome
    OBVIOUS
  <2>2. rows[n] \in Ledger
    BY DEF IInv, TypeOK
  <2>3. QED
    BY <2>2 DEF Ledger
<1>7. [n \in 1..Len(rows') |-> rows'[n].outcome] =
        Append([n \in 1..Len(rows) |-> rows[n].outcome], Key(o).outcome)
  <2> DEFINE before == [n \in 1..Len(rows) |-> rows[n].outcome]
             after == [n \in 1..(Len(rows) + 1) |-> rows'[n].outcome]
             added == Append(before, Key(o).outcome)
  <2>1. before \in Seq(Outcome) /\ Len(before) = Len(rows)
    BY <1>3, <1>6
  <2>2. after \in Seq(Outcome) /\ Len(after) = Len(rows) + 1
    BY <1>3, <1>4, <1>6
  <2>3. /\ added \in Seq(Outcome) /\ Len(added) = Len(rows) + 1
        /\ added[Len(rows) + 1] = Key(o).outcome
        /\ \A n \in 1..Len(rows) : added[n] = before[n]
    BY <1>3, <1>4, <2>1
  <2>4. ASSUME NEW n \in 1..(Len(rows) + 1) PROVE after[n] = added[n]
    <3>1. CASE n \in 1..Len(rows)
      <4>1. after[n] = rows[n].outcome /\ before[n] = rows[n].outcome
        BY <1>3, <3>1
      <4>2. QED
        BY <2>3, <3>1, <4>1
    <3>2. CASE n = Len(rows) + 1
      BY <1>3, <2>3, <3>2
    <3>3. QED
      BY <1>3, <3>1, <3>2
  <2>5. after = added
    <3> HIDE DEF after, added, before
    <3> QED
      BY <1>3, <2>2, <2>3, <2>4, SeqEqual
  <2>6. QED
    BY <1>3, <2>5
<1>8. QED
  BY <1>4, <1>5, <1>7

\* The chain implements the append-only list of changing outcomes: it starts
\* as one, and a step revises it or leaves it alone.
THEOREM AuthorityRefinement == Spec => ImplementsRevisionLog
<1>1. Init => Log!Init
  <2> SUFFICES ASSUME Init PROVE Log!Init
    OBVIOUS
  <2> DEFINE told == [n \in 1..Len(rows) |-> rows[n].outcome]
  <2>1. PICK k \in 0..MaxLegacy : rows \in [1..k -> Ledger]
    BY AuthorityConstants DEF Init, Legacy
  <2>2. Len(rows) = k /\ k \in Nat
    BY <2>1, AuthorityConstants
  <2>3. told \in Seq(Outcome) /\ Len(told) = Len(rows)
    BY <2>1, <2>2 DEF Ledger
  <2>4. \A n \in 2..Len(rows) : rows[n].outcome # rows[n - 1].outcome
    BY DEF Init, Legacy
  <2>5. ASSUME NEW n \in 2..Len(rows) PROVE told[n] # told[n - 1]
    <3>1. n \in 1..Len(rows) /\ n - 1 \in 1..Len(rows)
      BY <2>2
    <3>2. QED
      BY <2>4, <3>1
  <2>6. QED
    BY <2>3, <2>5 DEF Log!Init
<1>2. ASSUME IInv, [Next]_vars
      PROVE  Log!Next \/ UNCHANGED [n \in 1..Len(rows) |-> rows[n].outcome]
  <2>1. ASSUME NEW o \in Operator, Writes(o) PROVE Log!Next
    <3> DEFINE told == [n \in 1..Len(rows) |-> rows[n].outcome]
    <3>1. Len(rows) \in Nat /\ Len(told) = Len(rows)
      BY DEF IInv, TypeOK
    <3>2. told # <<>> => rows # <<>> /\ told[Len(told)] = rows[Len(rows)].outcome
      <4>1. CASE Len(rows) = 0
        BY <3>1, <4>1
      <4>2. CASE Len(rows) # 0
        <5>1. Len(rows) \in 1..Len(rows)
          BY <3>1, <4>2
        <5>2. QED
          BY <3>1, <4>2, <5>1
      <4>3. QED
        BY <4>1, <4>2
    <3>3. Log!Revise(Key(o).outcome)
      BY <1>2, <2>1, <3>2, WriteRevises DEF Log!Revise
    <3>4. PICK added \in Outcome : added = Key(o).outcome
      BY <1>2, <2>1, WriteRevises
    <3>5. Log!Revise(added)
      BY <3>3, <3>4 DEF Log!Revise
    <3>6. QED
      BY <3>5, Zenon DEF Log!Next
  <2>2. CASE UNCHANGED database
    BY <2>2 DEF database
  <2>3. QED
    BY <1>2, <2>1, <2>2, DatabaseCases
<1>3. QED
  BY <1>1, <1>2, AuthorityInductive, PTL DEF Spec, ImplementsRevisionLog, Log!Spec
=============================================================================
