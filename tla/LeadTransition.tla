--------------------------- MODULE LeadTransition ---------------------------
(***************************************************************************)
(* Governed transitions of one persisted lead workflow                     *)
(* (operator_services/lead_workflow_transition_service.py): the workflow   *)
(* row in the operator's database, moved by operators through the one-shot *)
(* boundary, whose table is another database.  The two databases commit    *)
(* separately, so a crash can fall between them.                           *)
(*                                                                         *)
(* Reads outside a write transaction see the latest commit, statement by   *)
(* statement (sqlite3's default: SELECT opens no transaction), so what a   *)
(* call read earlier may be stale when it writes.                          *)
(***************************************************************************)
EXTENDS LeadWorkflow, Naturals, Sequences, FiniteSets

CONSTANTS
  Operator,   \* CLI processes
  Actor,      \* operator ids: --operator-id, the environment's or getuser()
  Reason,     \* audit reasons operators give
  Wishes,     \* who asks for which status: a behaviour keeps to one such set
  Package,    \* statuses of the packages workflows are created from
  MaxEvents,  \* bound on the workflow's event log
  MaxFaults,  \* bound on crashes and failing calls of the boundary's store
  None

ASSUME TransitionConstants ==
  /\ UNION Wishes \subseteq [actor: Actor, next: LeadStatus]
  /\ Package \subseteq PackageStatus
  /\ MaxEvents \in Nat \ {0}
  /\ MaxFaults \in Nat

\* The statuses that are asked for.
Targets == {w.next : w \in UNION Wishes}

ASSUME NoneIsNothing ==
  /\ None \notin Nat
  /\ None \notin Actor
  /\ None \notin [allowance: [actor: Actor, payload: 1..MaxEvents, next: Targets],
                 content: Reason, policy: {"deny", "exact"}]

VARIABLES
  wanted,   \* the behaviour's member of Wishes
  log,      \* the workflow's events: the status each moved to, and (history) who
            \* moved it, having reviewed the payload of how many events
  limits,   \* the verdict the workflow was created with (its limitations)
  verdict,  \* TRUE once an unresolved duplicate result of the candidate exists
  loaded,   \* per operator: the event count of the payload its effect loaded
  clock, status, rowOp, rowPhase, rowResult, pc, call, effectAt, held,
  runs, answers, faults

\* A workflow payload is named by its event count: every committed change of
\* the row appends one event.  The reservation key is the reviewed payload with the
\* requested status and the operator's id, which each call is told anew; the reason
\* is bound by the authority digest.
C == INSTANCE EffectConsumption WITH
  Executor <- Operator,
  Allowance <- [actor: Actor, payload: 1..MaxEvents, next: Targets],
  Content <- Reason,
  Result <- 1..(MaxEvents + 1),
  Validity <- 1, DayLength <- 1, MaxClock <- 0

lead == <<wanted, log, limits, verdict, loaded>>
table == <<status, rowOp, rowPhase, rowResult>>
boundary == <<clock, table, pc, call, effectAt, held, runs, answers, faults>>
vars == <<lead, boundary>>

Status(n) == log[n].status
Current == Status(Len(log))

TypeOK ==
  /\ wanted \in Wishes
  /\ log \in Seq([status: LeadStatus, reviewed: 0..MaxEvents, by: Actor \cup {None}])
  /\ limits \in Verdicts
  /\ verdict \in BOOLEAN
  /\ loaded \in [Operator -> 1..(MaxEvents + 1) \cup {None}]
  /\ C!TypeOK

\* persist_product_integration stored the workflow and its verdict together.
Init ==
  /\ wanted \in Wishes
  /\ \E package \in Package, v \in Verdicts :
       /\ log = << [status |-> InitialStatus(package, v), reviewed |-> 0, by |-> None] >>
       /\ limits = v
       /\ verdict = (v \in Unresolved)
  /\ loaded = [e \in Operator |-> None]
  /\ C!Init

\* The bound on the log.
Room == Len(log) <= MaxEvents

\* Slip: the gate covers the statuses of work and forgets readiness.
ClearToWork(next) ==
  next \in Actionable \ {"ready"} => limits = "unique" /\ ~verdict

\* require_persisted_duplicate_review_clear: limitations and stored results.
Clear(next) == next \in Actionable => limits = "unique" /\ ~verdict

Asked(e) == C!Op(e).allowance.next
Reviewed(e) == C!Op(e).allowance.payload
By(e) == C!Op(e).allowance.actor

-----------------------------------------------------------------------------
\* The operator reviews the current payload, passes the early gate and asks
\* the boundary for one move of exactly that payload.
RequestTransition(e) ==
  /\ Room
  /\ \E wish \in wanted, reason \in Reason :
       /\ Clear(wish.next)
       /\ C!Request(e, [allowance |-> [actor |-> wish.actor, payload |-> Len(log),
                                       next |-> wish.next],
                        content |-> reason, policy |-> "exact"], None)
  /\ UNCHANGED lead

\* The effect loads the row afresh: only the status must be the expected one.
\* The gate is read with it.
LoadAndGate(e) ==
  /\ pc[e] = "running" /\ loaded[e] = None
  /\ IF Current = Status(Reviewed(e)) /\ Clear(Asked(e))
       THEN /\ loaded' = [loaded EXCEPT ![e] = Len(log)]
            /\ UNCHANGED <<wanted, log, limits, verdict, boundary>>
       ELSE C!EffectRaises(e) /\ UNCHANGED lead

\* Slip: the move is validated on the payload in memory and stored over the row.
SwapBlindly(e) == Asked(e) \in Moves[Status(loaded[e])]

\* compare_and_swap_lead_workflow_record and session.commit: the row must still
\* be the loaded payload, and the matrix must allow the move.
Swappable(e) ==
  /\ loaded[e] = Len(log)
  /\ Asked(e) \in Moves[Current]

\* Slip: the session is never committed.
MoveUncommitted(e) ==
  loaded' = [loaded EXCEPT ![e] = None] /\ UNCHANGED <<wanted, log, limits, verdict>>

AppendMove(e) ==
  /\ log' = Append(log, [status |-> Asked(e), reviewed |-> Reviewed(e), by |-> By(e)])
  /\ loaded' = [loaded EXCEPT ![e] = None]
  /\ UNCHANGED <<wanted, limits, verdict>>

CommitTransition(e) ==
  /\ pc[e] = "running" /\ loaded[e] # None
  /\ IF Swappable(e)
       THEN Room /\ C!EffectReturns(e, Len(log) + 1) /\ AppendMove(e)
       ELSE /\ C!EffectRaises(e)
            /\ loaded' = [loaded EXCEPT ![e] = None]
            /\ UNCHANGED <<wanted, log, limits, verdict>>

\* The database is locked or lost: the effect raises and nothing was committed.
TransitionFails(e) ==
  /\ C!EffectRaises(e)
  /\ loaded' = [loaded EXCEPT ![e] = None]
  /\ UNCHANGED <<wanted, log, limits, verdict>>

\* A later integration of the same base candidate stores an unresolved result.
StoreVerdict ==
  /\ ~verdict
  /\ verdict' = TRUE
  /\ UNCHANGED <<wanted, log, limits, loaded, boundary>>

\* Everything else an executor does is the boundary's.
Boundary(e) ==
  /\ \/ C!ReadReservationTime(e) \/ C!ReserveNew(e) \/ C!ReplayExact(e)
     \/ C!RefuseDuplicate(e) \/ C!MarkStarted(e) \/ C!ReadEffectTime(e)
     \/ C!BeginEffect(e) \/ C!CommitSuccess(e) \/ C!CommitFailure(e)
     \/ C!StoreRaises(e) \/ C!MarkUnacknowledged(e) \/ C!SuccessUnacknowledged(e)
  /\ UNCHANGED lead

Crash(e) ==
  /\ C!Crash(e)
  /\ loaded' = [loaded EXCEPT ![e] = None]
  /\ UNCHANGED <<wanted, log, limits, verdict>>

Next ==
  \/ \E e \in Operator :
       \/ RequestTransition(e) \/ Boundary(e) \/ LoadAndGate(e)
       \/ CommitTransition(e) \/ TransitionFails(e) \/ Crash(e)
  \/ StoreVerdict

Spec == Init /\ [][Next]_vars

-----------------------------------------------------------------------------
(* Properties.                                                             *)

Events == 2..Len(log)

\* The history is a walk of the matrix from a legal initial status, whichever
\* operators interleave: no skipped status, no move out of a closed one.
HistoryIsLawful ==
  \A n \in Events : Status(n) \in Moves[Status(n - 1)]

\* A workflow created under an unresolved verdict never becomes actionable.
LimitedStaysInert ==
  limits \in Unresolved => \A n \in 1..Len(log) : Status(n) \notin Actionable

\* One reviewed payload yields at most one event per requested status and operator
\* id, whatever processes that id runs and retries.  (Another id has an allowance of
\* its own, and may use it once the status has gone away and come back.)
AllowanceMovesOnce ==
  \A m, n \in Events :
    log[m].by = log[n].by /\ log[m].reviewed = log[n].reviewed /\ Status(m) = Status(n)
      => m = n

\* What the two databases say agrees across crashes: a report handed to an
\* operator is an event of the log, a succeeded row has its event, and a row
\* that failed before its effect has none.
Moved(a) ==
  \E n \in Events :
    log[n].by = a.actor /\ log[n].reviewed = a.payload /\ Status(n) = a.next
DatabasesAgree ==
  /\ \A x \in answers :
       /\ x.result \in Events
       /\ log[x.result] = [status |-> x.op.allowance.next,
                           reviewed |-> x.op.allowance.payload,
                           by |-> x.op.allowance.actor]
  /\ \A a \in DOMAIN status :
       /\ status[a] = "succeeded" => Moved(a)
       /\ status[a] \in {"absent", "reserved"} => ~Moved(a)
       /\ status[a] = "failed" /\ rowPhase[a] = "before_effect" => ~Moved(a)

\* An operator's move is applied to the payload the operator reviewed.
\* (docs/architecture/lead_operator_cli.md, line 81.)
AppliedAsReviewed == \A n \in Events : log[n].reviewed = n - 1
=============================================================================
