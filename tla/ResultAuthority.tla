-------------------------- MODULE ResultAuthority --------------------------
(***************************************************************************)
(* The authoritative result of one lead workflow: an append-only chain of  *)
(* ledger revisions, a head row that names the tip, and one audit event    *)
(* per governed revision (result_authority_service.py and its stores).     *)
(*                                                                         *)
(* Operators apply results through the one-shot boundary, which appears    *)
(* here by what it promises (EffectOnce).  Each SELECT outside the         *)
(* savepoint reads the latest commit, so a snapshot is two reads; the      *)
(* savepoint that writes ledger, head and event is one transaction.        *)
(* Workflows older than the head table may have a chain without a head.    *)
(***************************************************************************)
EXTENDS Naturals, Sequences, FiniteSets

CONSTANTS
  Operator,     \* processes applying results
  Actor,        \* operator ids: --operator-id, the environment's or getuser()
  Status,       \* outcome statuses
  Terms,        \* date, value, rate and reasons of an outcome
  Reason,       \* audit reasons
  Asks,         \* who asks for which outcome, and for which reason
  MaxLegacy,    \* bound on the chain that precedes result authority
  MaxRevision,  \* bound on the chain
  None

ASSUME AuthorityConstants ==
  /\ MaxLegacy \in Nat
  /\ MaxRevision \in Nat

Outcome == [status: Status, terms: Terms]

ASSUME AsksAreTyped == Asks \subseteq [actor: Actor, outcome: Outcome, reason: Reason]

\* The operator's id, the reviewed tip (0: none) and the desired outcome make the
\* allowance; the audit reason is bound by the authority digest.
Allowance == [actor: Actor, tip: 0..MaxRevision, outcome: Outcome]
Operation == [allowance: Allowance, reason: Reason]

\* _ledger_id: the status and the revision (the hash taken as injective).
LedgerId == [status: Status, revision: 1..MaxRevision]
Ledger == [id: LedgerId, supersedes: LedgerId \cup {None},
           outcome: Outcome, reason: Reason \cup {None}]
Event == [previous: Ledger \cup {None}, current: Ledger, reason: Reason]

ASSUME NoneIsNothing ==
  None \notin Operation \cup Ledger \cup LedgerId \cup Reason \cup Nat

VARIABLES
  rows,    \* table result_ledgers of the workflow, in insertion order
  head,    \* its row of result_authority_heads, as the ledger id it names
  events,  \* its rows of result_authority_events
  made,    \* history: which operation wrote which revision
  pc,      \* where each operator is
  plan,    \* per operator: the operation it authorized
  seen,    \* per operator: the rows its first SELECT returned
  headed,  \* per operator: whether its second SELECT returned a head
  audit,   \* the auditor: idle, reading or failed
  audited, \* the events it read
  claim, runs, outcome, result, answers  \* the boundary

database == <<rows, head, events, made>>
frame == <<pc, plan, seen, headed>>
boundary == <<claim, runs, outcome, result, answers>>
auditor == <<audit, audited>>
vars == <<database, frame, auditor, boundary>>

B == INSTANCE EffectOnce WITH Result <- 1..MaxRevision

PC == {"idle", "reviewing", "authorized", "claimed", "loading", "applying",
       "committing"}

TypeOK ==
  /\ rows \in Seq(Ledger)
  /\ head \in LedgerId \cup {None}
  /\ events \subseteq Event
  /\ made \subseteq [op: Operation, revision: 1..MaxRevision]
  /\ pc \in [Operator -> PC]
  /\ plan \in [Operator -> Operation \cup {None}]
  /\ seen \in [Operator -> Seq(Ledger)]
  /\ headed \in [Operator -> BOOLEAN]
  /\ audit \in {"idle", "reading", "failed"}
  /\ audited \subseteq Event
  /\ claim \in [Allowance -> Operation \cup {None}]
  /\ runs \in [Allowance -> 0..1]
  /\ outcome \in [Allowance -> {"open", "closed", "published"}]
  /\ result \in [Allowance -> 1..MaxRevision \cup {None}]
  /\ answers \subseteq [op: Operation, result: 1..MaxRevision]

-----------------------------------------------------------------------------
(* Ledger revisions.                                                       *)

Tip(h) == h[Len(h)]
TipId(h) == IF h = <<>> THEN None ELSE Tip(h).id

\* _build_revision: the root has no correction reason.
Revision(h, o, why) ==
  [id |-> [status |-> o.status, revision |-> Len(h) + 1],
   supersedes |-> TipId(h),
   outcome |-> o,
   reason |-> IF h = <<>> THEN None ELSE why]

\* validate_result_ledger_history: contiguous revisions, distinct ids, and one
\* unbranched supersession chain.
Linear(h) ==
  \A n \in 1..Len(h) :
    /\ h[n].id.revision = n
    /\ h[n].supersedes = IF n = 1 THEN None ELSE h[n - 1].id

\* A chain that predates the head table, and was written one row at a time.
Legacy ==
  {h \in UNION {[1..n -> Ledger] : n \in 0..MaxLegacy} :
     /\ Linear(h)
     /\ \A n \in 1..Len(h) : h[n].id.status = h[n].outcome.status
     /\ \A n \in 1..Len(h) : h[n].reason = None <=> n = 1
     /\ \A n \in 2..Len(h) : h[n].outcome # h[n - 1].outcome}

Init ==
  /\ rows \in Legacy
  /\ head = None
  /\ events = {}
  /\ made = {}
  /\ pc = [o \in Operator |-> "idle"]
  /\ plan = [o \in Operator |-> None]
  /\ seen = [o \in Operator |-> <<>>]
  /\ headed = [o \in Operator |-> FALSE]
  /\ audit = "idle"
  /\ audited = {}
  /\ B!Init

-----------------------------------------------------------------------------
(* An operator's frame.                                                    *)

Goto(o, label) == pc' = [pc EXCEPT ![o] = label]

Leave(o) ==
  /\ Goto(o, "idle")
  /\ plan' = [plan EXCEPT ![o] = None]
  /\ seen' = [seen EXCEPT ![o] = <<>>]
  /\ headed' = [headed EXCEPT ![o] = FALSE]

Key(o) == plan[o].allowance

\* load_result_authority_snapshot, first SELECT.
ReadRows(o) == seen' = [seen EXCEPT ![o] = rows]

\* Slip: the head is not compared with the rows.
SnapshotIsChain(o) == Linear(seen[o])

\* load_result_authority_snapshot, second SELECT: a head must name the tip of
\* the rows already read, and no rows means no head.
SnapshotHolds(o) == Linear(seen[o]) /\ (head # None => head = TipId(seen[o]))

-----------------------------------------------------------------------------
(* apply_authorized_authoritative_result.                                  *)

Review(o) ==
  /\ pc[o] = "idle"
  /\ ReadRows(o)
  /\ Goto(o, "reviewing")
  /\ UNCHANGED <<database, plan, headed, auditor, boundary>>

\* The snapshot is whole, or the call raises.  The operator's expectation is
\* the observed tip, or the call raises as well.
Authorize(o) ==
  /\ pc[o] = "reviewing"
  /\ \/ /\ SnapshotHolds(o)
        /\ Len(seen[o]) < MaxRevision
        /\ \E ask \in Asks :
             plan' = [plan EXCEPT ![o] =
               [allowance |-> [actor |-> ask.actor, tip |-> Len(seen[o]),
                               outcome |-> ask.outcome],
                reason |-> ask.reason]]
        /\ Goto(o, "authorized")
        /\ UNCHANGED <<seen, headed>>
     \/ Leave(o)
  /\ UNCHANGED <<database, auditor, boundary>>

\* reserve(): claim the allowance, or be given its published result, or be
\* refused.
Reserve(o) ==
  /\ pc[o] = "authorized"
  /\ \/ /\ B!Claim(Key(o), plan[o])
        /\ Goto(o, "claimed")
        /\ UNCHANGED <<plan, seen, headed>>
     \/ claim[Key(o)] = plan[o] /\ B!Answer(Key(o)) /\ Leave(o)
     \/ /\ claim[Key(o)] # None
        /\ ~(claim[Key(o)] = plan[o] /\ outcome[Key(o)] = "published")
        /\ Leave(o)
        /\ UNCHANGED boundary
  /\ UNCHANGED <<database, auditor>>

\* The effect starts: apply_authoritative_result loads the snapshot afresh.
BeginEffect(o) ==
  /\ pc[o] = "claimed"
  /\ B!Invoke(Key(o))
  /\ ReadRows(o)
  /\ Goto(o, "loading")
  /\ UNCHANGED <<database, plan, headed, auditor>>

\* The effect raises, and its allowance is closed.
Raise(o) == B!Close(Key(o)) /\ Leave(o) /\ UNCHANGED <<database, auditor>>

\* Slip: a correction may repeat the outcome.
AcceptableTip(o) == SnapshotHolds(o) /\ Len(seen[o]) = Key(o).tip

\* The tip must be the expected one, and a correction must change the outcome.
Acceptable(o) ==
  /\ SnapshotHolds(o)
  /\ Len(seen[o]) = Key(o).tip
  /\ seen[o] # <<>> => Tip(seen[o]).outcome # Key(o).outcome

LoadHead(o) ==
  /\ pc[o] = "loading"
  /\ IF Acceptable(o)
       THEN /\ headed' = [headed EXCEPT ![o] = head # None]
            /\ Goto(o, "applying")
            /\ UNCHANGED <<database, plan, seen, auditor, boundary>>
       ELSE Raise(o)

Made(op, n) == [op |-> op, revision |-> n] \in made

NewRevision(o) == Revision(seen[o], Key(o).outcome, plan[o].reason)

\* Slip: the chain is validated as it was loaded, and the head is not compared.
ApplicableAsLoaded(o) == Linear(Append(seen[o], NewRevision(o)))

\* What the savepoint's unique keys and compare-and-swap demand: the row extends
\* the chain as it is now; a head is created only if there is none, and moved
\* only from the reviewed tip.
Applicable(o) ==
  /\ Linear(Append(rows, NewRevision(o)))
  /\ IF headed[o] THEN head = TipId(seen[o]) ELSE head = None

\* Slip: events do not name their predecessor.
WriteUnlinked(o) ==
  /\ rows' = Append(rows, NewRevision(o))
  /\ head' = NewRevision(o).id
  /\ events' = events \cup
       {[previous |-> None, current |-> NewRevision(o), reason |-> plan[o].reason]}
  /\ made' = made \cup {[op |-> plan[o], revision |-> Len(rows) + 1]}

\* The savepoint: ledger row, head and event together.
Write(o) ==
  /\ rows' = Append(rows, NewRevision(o))
  /\ head' = NewRevision(o).id
  /\ events' = events \cup
       {[previous |-> IF seen[o] = <<>> THEN None ELSE Tip(seen[o]),
         current |-> NewRevision(o), reason |-> plan[o].reason]}
  /\ made' = made \cup {[op |-> plan[o], revision |-> Len(rows) + 1]}

Apply(o) ==
  /\ pc[o] = "applying"
  /\ IF Applicable(o)
       THEN /\ Write(o)
            /\ Goto(o, "committing")
            /\ UNCHANGED <<plan, seen, headed, auditor, boundary>>
       ELSE Raise(o)

\* Slip: the report is the tip at the time of the commit.
PublishTip(o) ==
  /\ pc[o] = "committing"
  /\ B!Publish(Key(o), Len(rows))
  /\ Leave(o)
  /\ UNCHANGED <<database, auditor>>

\* commit_success retains the report.
Publish(o) ==
  /\ pc[o] = "committing"
  /\ B!Publish(Key(o), Key(o).tip + 1)
  /\ Leave(o)
  /\ UNCHANGED <<database, auditor>>

\* mark_effect_started, the effect (SQLite refuses the write lock: the savepoint is
\* rolled back) or the retention of its report raises; commit_failure then closes the
\* allowance, although a revision that was written stays.
CallFails(o) ==
  /\ pc[o] \in {"claimed", "loading", "applying", "committing"}
  /\ Raise(o)

\* The process dies, or commit_failure raises as well: the allowance stays open.
Crash(o) ==
  /\ pc[o] # "idle"
  /\ Leave(o)
  /\ UNCHANGED <<database, auditor, boundary>>

-----------------------------------------------------------------------------
(* list_result_authority_events: the events, and then the history.         *)

AuditEvents ==
  /\ audit = "idle"
  /\ audit' = "reading"
  /\ audited' = events
  /\ UNCHANGED <<database, frame, boundary>>

Bound(e) ==
  LET n == e.current.id.revision IN
  /\ n <= Len(rows) /\ rows[n] = e.current
  /\ e.previous = IF n = 1 THEN None ELSE rows[n - 1]
  /\ n > 1 => e.reason = rows[n].reason

AuditHistory ==
  /\ audit = "reading"
  /\ audit' = IF \A e \in audited : Bound(e) THEN "idle" ELSE "failed"
  /\ audited' = {}
  /\ UNCHANGED <<database, frame, boundary>>

-----------------------------------------------------------------------------
Next ==
  \/ \E o \in Operator :
       \/ Review(o) \/ Authorize(o) \/ Reserve(o) \/ BeginEffect(o)
       \/ LoadHead(o) \/ Apply(o) \/ Publish(o) \/ CallFails(o) \/ Crash(o)
  \/ AuditEvents \/ AuditHistory

Spec == Init /\ [][Next]_vars

-----------------------------------------------------------------------------
(* Properties.                                                             *)

\* Every revision made under result authority has exactly one event, which
\* names its predecessor, itself and its reason; older revisions have none.
EventsMatchChain ==
  /\ \A e \in events : Bound(e)
  /\ \A e, f \in events : e.current = f.current => e = f
  /\ head # None <=> events # {}
  /\ LET first == Len(rows) - Cardinality(events) + 1 IN
       \A n \in first..Len(rows) : \E e \in events : e.current = rows[n]

\* Whoever writes, the stored chain stays linear, the head names its tip and
\* the events tell its history: no fork, no gap, no head or event left behind.
ChainIsLinear ==
  Linear(rows) /\ (head # None => head = TipId(rows)) /\ EventsMatchChain

\* A snapshot the effect accepted is the database's at that moment, although
\* it was put together from two reads.
SnapshotsAreWhole ==
  [][\A o \in Operator :
       pc[o] = "loading" /\ pc'[o] = "applying" => seen[o] = rows]_vars

\* The audit of the events never fails on a healthy database, whatever is
\* written between its reads.
AuditNeverFails == audit # "failed"

\* A report handed to an operator, or published for a later replay, is the revision
\* that this very operation made, whoever else revises the chain meanwhile.  A revision
\* was made by one operation, which held the allowance for the tip it had reviewed, ran
\* once and gave the reason; the allowance may yet be closed or open, when the report
\* could not be retained.
ReportsAreRevisions ==
  /\ \A x \in answers : Made(x.op, x.result)
  /\ \A a \in Allowance : outcome[a] = "published" => Made(claim[a], result[a])
  /\ \A m \in made :
       LET a == m.op.allowance IN
       /\ m.revision \in 1..Len(rows) /\ m.revision = a.tip + 1
       /\ rows[m.revision].outcome = a.outcome
       /\ \E e \in events : e.current = rows[m.revision] /\ e.reason = m.op.reason
       /\ claim[a] = m.op /\ runs[a] = 1
  /\ \A l, m \in made : l.revision = m.revision => l = m

\* The chain implements an append-only list of changing outcomes.
Log == INSTANCE RevisionLog WITH outcomes <- [n \in 1..Len(rows) |-> rows[n].outcome]
ImplementsRevisionLog == Log!Spec
=============================================================================
