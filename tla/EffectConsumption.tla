------------------------- MODULE EffectConsumption -------------------------
(***************************************************************************)
(* The durable one-shot boundary every governed operator service runs its  *)
(* effect through: `_execute_owned_effect` of effect_consumption.py over   *)
(* the SQLite table owned by storage/effect_consumption_store.py.          *)
(*                                                                         *)
(* Executors are CLI processes (or threads) that share nothing but the     *)
(* table.  Every call of the store is one transaction, hence one step;     *)
(* every read of the clock is a step of its own, because the store may     *)
(* wait up to 30 seconds for SQLite's lock between a read and its use.     *)
(* A process may die, and a store call may raise, at any step.             *)
(***************************************************************************)
EXTENDS Naturals, FiniteSets

CONSTANTS
  Executor,     \* processes that may run a governed operation
  Allowance,    \* reservation keys: (actor, action, resource, allowance)
  Content,      \* all else the operation digest binds: scope, state, content...
  Result,       \* what an effect may return
  Validity,     \* lifetime of an authorization decision, in clock units
  DayLength,    \* clock units in a UTC day
  MaxClock,     \* bound: the clock stops here
  MaxFaults,    \* bound: crashes plus store calls that raise
  None          \* SQL NULL, and Python's None

ASSUME ConsumptionConstants ==
  /\ Validity \in Nat
  /\ DayLength \in Nat \ {0}
  /\ MaxClock \in Nat
  /\ MaxFaults \in Nat
  /\ None \notin Result
  /\ None \notin Nat

Operation == [allowance: Allowance, content: Content, policy: {"deny", "exact"}]

\* SQL NULL is no operation: an operation is a record of three columns.
ASSUME NoneIsNoOperation == None \notin Operation

Day(t) == t \div DayLength

\* One call of _execute_owned_effect: the operation, the decision's validity
\* window and the UTC day the caller requires (None: any).
Call == [op: Operation, day: Nat \cup {None}, notBefore: Nat, expiresAt: Nat]

VARIABLES
  clock,      \* the machine's UTC clock
  status,     \* column status, "absent" while the key has no row
  rowOp,      \* columns operation_digest ... replay_policy
  rowPhase,   \* column failure_phase
  rowResult,  \* columns result_json, result_digest
  pc, call,   \* where each executor is, and in which call
  effectAt,   \* the local effect_at
  held,       \* the local result, once the effect returned one
  runs,       \* history: how often the effect of a key was invoked
  answers,    \* history: results handed to callers
  faults      \* history: crashes and raising store calls so far

table == <<status, rowOp, rowPhase, rowResult>>
frame == <<pc, call, effectAt, held>>
history == <<runs, answers>>
vars == <<clock, table, frame, history, faults>>

Status == {"absent", "reserved", "in_progress", "succeeded", "failed"}
Phase == {"before_effect", "after_effect_start"}
PC == {"idle", "authorized", "reserving", "reserved", "marked", "day_changed",
       "effect", "running", "committing", "failing_before", "failing_after"}

TypeOK ==
  /\ clock \in Nat
  /\ status \in [Allowance -> Status]
  /\ rowOp \in [Allowance -> Operation \cup {None}]
  /\ rowPhase \in [Allowance -> Phase \cup {None}]
  /\ rowResult \in [Allowance -> Result \cup {None}]
  /\ pc \in [Executor -> PC]
  /\ call \in [Executor -> Call \cup {None}]
  /\ effectAt \in [Executor -> Nat \cup {None}]
  /\ held \in [Executor -> Result \cup {None}]
  /\ runs \in [Allowance -> Nat]
  /\ answers \subseteq [op: Operation, result: Result]
  /\ faults \in Nat

Init ==
  /\ clock = 0
  /\ status = [a \in Allowance |-> "absent"]
  /\ rowOp = [a \in Allowance |-> None]
  /\ rowPhase = [a \in Allowance |-> None]
  /\ rowResult = [a \in Allowance |-> None]
  /\ pc = [e \in Executor |-> "idle"]
  /\ call = [e \in Executor |-> None]
  /\ effectAt = [e \in Executor |-> None]
  /\ held = [e \in Executor |-> None]
  /\ runs = [a \in Allowance |-> 0]
  /\ answers = {}
  /\ faults = 0

-----------------------------------------------------------------------------
(* The executor's frame.                                                   *)

Op(e) == call[e].op
Key(e) == call[e].op.allowance

Goto(e, label) ==
  /\ pc' = [pc EXCEPT ![e] = label]
  /\ UNCHANGED <<call, effectAt, held>>

\* The call ends: it returns, raises, or its process dies.
Leave(e) ==
  /\ pc' = [pc EXCEPT ![e] = "idle"]
  /\ call' = [call EXCEPT ![e] = None]
  /\ effectAt' = [effectAt EXCEPT ![e] = None]
  /\ held' = [held EXCEPT ![e] = None]

Fault == faults < MaxFaults /\ faults' = faults + 1

\* Slip: the WHERE clause names the operation and forgets the state.
HoldsInAnyState(e, expected) == rowOp[Key(e)] = Op(e)

\* The WHERE clause of _transition: the row is this very operation, in the
\* expected state.  A miss is a lost compare-and-swap, which raises.
Holds(e, expected) == rowOp[Key(e)] = Op(e) /\ status[Key(e)] = expected

-----------------------------------------------------------------------------
(* Steps of a call, in program order.                                      *)

\* A service authorizes operation o (authorize_local_operation) and calls the
\* boundary with it: the decision is valid from now for Validity.
Request(e, o, d) ==
  /\ pc[e] = "idle"
  /\ call' = [call EXCEPT ![e] =
                [op |-> o, day |-> d,
                 notBefore |-> clock, expiresAt |-> clock + Validity]]
  /\ pc' = [pc EXCEPT ![e] = "authorized"]
  /\ UNCHANGED <<clock, table, effectAt, held, history, faults>>

Authorize(e) == \E o \in Operation, d \in {Day(clock), None} : Request(e, o, d)

\* reserved_at is read, and checked against the required day and the window.
InWindow(e) ==
  /\ call[e].day \in {None, Day(clock)}
  /\ call[e].notBefore <= clock /\ clock < call[e].expiresAt

ReadReservationTime(e) ==
  /\ pc[e] = "authorized"
  /\ \/ InWindow(e) /\ Goto(e, "reserving")
     \/ ~InWindow(e) /\ Leave(e)
  /\ UNCHANGED <<clock, table, history, faults>>

\* Slips of reserve(): a failed allowance may be tried again; an unfinished row
\* is taken for one its owner abandoned; the whole call is stored.
ReserveWhen(e, free, stored) ==
  /\ pc[e] = "reserving"
  /\ status[Key(e)] \in free
  /\ status' = [status EXCEPT ![Key(e)] = "reserved"]
  /\ rowOp' = [rowOp EXCEPT ![Key(e)] = stored]
  /\ Goto(e, "reserved")
  /\ UNCHANGED <<clock, rowPhase, rowResult, history, faults>>
ReserveFailedAgain(e) == ReserveWhen(e, {"absent", "failed"}, Op(e))
ReserveAbandoned(e) == ReserveWhen(e, {"absent", "reserved", "in_progress"}, Op(e))

\* reserve(): the insert of a key without a row.
ReserveNew(e) ==
  /\ pc[e] = "reserving"
  /\ status[Key(e)] = "absent"
  /\ status' = [status EXCEPT ![Key(e)] = "reserved"]
  /\ rowOp' = [rowOp EXCEPT ![Key(e)] = Op(e)]
  /\ Goto(e, "reserved")
  /\ UNCHANGED <<clock, rowPhase, rowResult, history, faults>>

\* reserve() on an existing row: only an exact, successful, replayable
\* duplicate is answered, with the retained result.
MayReplay(e) ==
  /\ Holds(e, "succeeded")
  /\ Op(e).policy = "exact"
  /\ rowResult[Key(e)] # None

ReplayExact(e) ==
  /\ pc[e] = "reserving"
  /\ status[Key(e)] # "absent"
  /\ MayReplay(e)
  /\ answers' = answers \cup {[op |-> Op(e), result |-> rowResult[Key(e)]]}
  /\ Leave(e)
  /\ UNCHANGED <<clock, table, runs, faults>>

\* Every other duplicate raises: changed digest, terminal failure, reserved or
\* indeterminate, or consumed under the deny policy.
RefuseDuplicate(e) ==
  /\ pc[e] = "reserving"
  /\ status[Key(e)] # "absent"
  /\ ~MayReplay(e)
  /\ Leave(e)
  /\ UNCHANGED <<clock, table, history, faults>>

\* mark_effect_started: RESERVED -> IN_PROGRESS.
MarkStarted(e) ==
  /\ pc[e] = "reserved"
  /\ IF Holds(e, "reserved")
       THEN /\ status' = [status EXCEPT ![Key(e)] = "in_progress"]
            /\ Goto(e, "marked")
       ELSE /\ Goto(e, "failing_before")
            /\ UNCHANGED status
  /\ UNCHANGED <<clock, rowOp, rowPhase, rowResult, history, faults>>

\* Slip: the day is not checked again.
ReadEffectTimeOnly(e) ==
  /\ pc[e] = "marked"
  /\ pc' = [pc EXCEPT ![e] = "effect"]
  /\ effectAt' = [effectAt EXCEPT ![e] = clock]
  /\ UNCHANGED <<call, held, clock, table, history, faults>>

\* effect_at is read, and the required day checked a second time.
ReadEffectTime(e) ==
  /\ pc[e] = "marked"
  /\ IF call[e].day \in {None, Day(clock)}
       THEN /\ pc' = [pc EXCEPT ![e] = "effect"]
            /\ effectAt' = [effectAt EXCEPT ![e] = clock]
            /\ UNCHANGED <<call, held>>
       ELSE Goto(e, "day_changed")
  /\ UNCHANGED <<clock, table, history, faults>>

\* commit_pre_effect_failure_after_start_marker: IN_PROGRESS -> FAILED, before
\* any effect.  A lost swap raises into the handler, which still believes the
\* effect has not started.
CommitDayChanged(e) ==
  /\ pc[e] = "day_changed"
  /\ IF Holds(e, "in_progress")
       THEN /\ status' = [status EXCEPT ![Key(e)] = "failed"]
            /\ rowPhase' = [rowPhase EXCEPT ![Key(e)] = "before_effect"]
            /\ rowResult' = [rowResult EXCEPT ![Key(e)] = None]
            /\ Leave(e)
       ELSE /\ Goto(e, "failing_before")
            /\ UNCHANGED <<status, rowPhase, rowResult>>
  /\ UNCHANGED <<clock, rowOp, history, faults>>

\* The owned effect is invoked...
BeginEffect(e) ==
  /\ pc[e] = "effect"
  /\ runs' = [runs EXCEPT ![Key(e)] = @ + 1]
  /\ Goto(e, "running")
  /\ UNCHANGED <<clock, table, answers, faults>>

\* ... and returns a result, or raises.
EffectReturns(e, r) ==
  /\ pc[e] = "running"
  /\ held' = [held EXCEPT ![e] = r]
  /\ pc' = [pc EXCEPT ![e] = "committing"]
  /\ UNCHANGED <<clock, table, call, effectAt, history, faults>>

EffectRaises(e) ==
  /\ pc[e] = "running"
  /\ Goto(e, "failing_after")
  /\ UNCHANGED <<clock, table, history, faults>>

\* The result is not canonical JSON, not an object, or over 25 MB.
EncodeRejected(e) ==
  /\ pc[e] = "committing"
  /\ Goto(e, "failing_after")
  /\ UNCHANGED <<clock, table, history, faults>>

\* commit_success: IN_PROGRESS -> SUCCEEDED, then the caller gets the result.
CommitSuccess(e) ==
  /\ pc[e] = "committing"
  /\ IF Holds(e, "in_progress")
       THEN /\ status' = [status EXCEPT ![Key(e)] = "succeeded"]
            /\ rowResult' = [rowResult EXCEPT ![Key(e)] = held[e]]
            /\ rowPhase' = [rowPhase EXCEPT ![Key(e)] = None]
            /\ answers' = answers \cup {[op |-> Op(e), result |-> held[e]]}
            /\ Leave(e)
       ELSE /\ Goto(e, "failing_after")
            /\ UNCHANGED <<status, rowResult, rowPhase, answers>>
  /\ UNCHANGED <<clock, rowOp, runs, faults>>

\* Slips: the failure is not recorded; it is always recorded as preceding the
\* effect.
FailSilently(e, expected, phase) ==
  Leave(e) /\ UNCHANGED <<clock, table, history, faults>>
FailBefore(e, expected, phase) ==
  /\ status' = IF Holds(e, expected)
                 THEN [status EXCEPT ![Key(e)] = "failed"] ELSE status
  /\ rowPhase' = IF Holds(e, expected)
                   THEN [rowPhase EXCEPT ![Key(e)] = "before_effect"] ELSE rowPhase
  /\ Leave(e)
  /\ UNCHANGED <<clock, rowOp, rowResult, history, faults>>

\* commit_failure: the expected state follows the local effect_started flag; a
\* lost swap raises out of the handler and leaves the row as it was.
FailFrom(e, expected, phase) ==
  /\ IF Holds(e, expected)
       THEN /\ status' = [status EXCEPT ![Key(e)] = "failed"]
            /\ rowPhase' = [rowPhase EXCEPT ![Key(e)] = phase]
            /\ rowResult' = [rowResult EXCEPT ![Key(e)] = None]
       ELSE UNCHANGED <<status, rowPhase, rowResult>>
  /\ Leave(e)
  /\ UNCHANGED <<clock, rowOp, history, faults>>

CommitFailure(e) ==
  \/ pc[e] = "failing_before" /\ FailFrom(e, "reserved", "before_effect")
  \/ pc[e] = "failing_after" /\ FailFrom(e, "in_progress", "after_effect_start")

-----------------------------------------------------------------------------
(* Faults.                                                                 *)

\* A store call raises and nothing is written: where the exception lands
\* depends on where the call was made.
StoreRaises(e) ==
  /\ Fault
  /\ \/ pc[e] \in {"reserving", "failing_before", "failing_after"} /\ Leave(e)
     \/ pc[e] \in {"reserved", "day_changed"} /\ Goto(e, "failing_before")
     \/ pc[e] = "committing" /\ Goto(e, "failing_after")
  /\ UNCHANGED <<clock, table, history>>

\* The transaction is durable but the call raises all the same (closing the
\* connection, reading the clock for the next statement).
MarkUnacknowledged(e) ==
  /\ Fault
  /\ pc[e] = "reserved" /\ Holds(e, "reserved")
  /\ status' = [status EXCEPT ![Key(e)] = "in_progress"]
  /\ Goto(e, "failing_before")
  /\ UNCHANGED <<clock, rowOp, rowPhase, rowResult, history>>

SuccessUnacknowledged(e) ==
  /\ Fault
  /\ pc[e] = "committing" /\ Holds(e, "in_progress")
  /\ status' = [status EXCEPT ![Key(e)] = "succeeded"]
  /\ rowResult' = [rowResult EXCEPT ![Key(e)] = held[e]]
  /\ rowPhase' = [rowPhase EXCEPT ![Key(e)] = None]
  /\ Goto(e, "failing_after")
  /\ UNCHANGED <<clock, rowOp, history>>

\* The process dies between any two steps; the table survives.
Crash(e) ==
  /\ Fault
  /\ pc[e] # "idle"
  /\ Leave(e)
  /\ UNCHANGED <<clock, table, history>>

Tick ==
  /\ clock < MaxClock
  /\ clock' = clock + 1
  /\ UNCHANGED <<table, frame, history, faults>>

-----------------------------------------------------------------------------
Advance(e) ==
  \/ ReadReservationTime(e)
  \/ ReserveNew(e) \/ ReplayExact(e) \/ RefuseDuplicate(e)
  \/ MarkStarted(e) \/ ReadEffectTime(e) \/ CommitDayChanged(e)
  \/ BeginEffect(e) \/ (\E r \in Result : EffectReturns(e, r)) \/ EffectRaises(e)
  \/ EncodeRejected(e) \/ CommitSuccess(e) \/ CommitFailure(e)

Disturb(e) ==
  StoreRaises(e) \/ MarkUnacknowledged(e) \/ SuccessUnacknowledged(e) \/ Crash(e)

Next ==
  \/ \E e \in Executor : Authorize(e) \/ Advance(e) \/ Disturb(e)
  \/ Tick

Spec == Init /\ [][Next]_vars

\* A running call goes on: nothing in a call waits for another process.
FairSpec == Spec /\ \A e \in Executor : WF_vars(Advance(e))

-----------------------------------------------------------------------------
(* Properties.                                                             *)

\* The effect of a reservation key is invoked at most once, over all
\* processes, retries, crashes and store failures.
AtMostOnce == \A a \in Allowance : runs[a] <= 1

\* What the row says of the effect is true: no row, a reserved row and a
\* before_effect failure mean it was never invoked; success and an
\* after_effect_start failure mean it was.  (In progress means either: that is
\* why recovery may not assume the effect did not happen.)
RowTellsTruth ==
  \A a \in Allowance :
    /\ status[a] \in {"absent", "reserved"} => runs[a] = 0
    /\ status[a] = "failed" /\ rowPhase[a] = "before_effect" => runs[a] = 0
    /\ status[a] = "failed" /\ rowPhase[a] = "after_effect_start" => runs[a] = 1
    /\ status[a] = "succeeded" => runs[a] = 1

\* A result is given to a caller only once it is the durable terminal outcome
\* of exactly the caller's operation, so all callers get the same one.
AnswersAreDurable ==
  \A x \in answers :
    /\ status[x.op.allowance] = "succeeded"
    /\ rowOp[x.op.allowance] = x.op
    /\ rowResult[x.op.allowance] = x.result

\* An effect bound to a UTC day is handed a time of that day, even when
\* midnight passes between its reservation and its start.
EffectOnRequiredDay ==
  \A e \in Executor :
    pc[e] \in {"effect", "running", "committing"}
      => call[e].day \in {None, Day(effectAt[e])}

\* Two executors never both own the unfinished operation of one key, whatever
\* each believes after an exception.
Owning == {"reserved", "marked", "day_changed", "effect", "running",
           "committing", "failing_before", "failing_after"}
SingleOwner ==
  \A e, f \in Executor :
    pc[e] \in Owning /\ pc[f] \in Owning /\ Key(e) = Key(f) => e = f

\* What an executor believes of the row it owns is what the row says, so no
\* compare-and-swap of a live owner is lost unless an exception hid a commit.
OwnerMatchesRow ==
  \A e \in Executor :
    LET k == Key(e) IN
    /\ pc[e] \in Owning => rowOp[k] = Op(e)
    /\ pc[e] = "reserved" => status[k] = "reserved" /\ runs[k] = 0
    /\ pc[e] \in {"marked", "day_changed", "effect"} =>
         status[k] = "in_progress" /\ runs[k] = 0
    /\ pc[e] \in {"running", "committing"} =>
         status[k] = "in_progress" /\ runs[k] = 1
    /\ pc[e] = "failing_before" =>
         status[k] \in {"reserved", "in_progress"} /\ runs[k] = 0
    /\ pc[e] = "failing_after" =>
         status[k] \in {"in_progress", "succeeded"} /\ runs[k] = 1

\* A row keeps its operation for ever and a terminal row keeps everything; a
\* row never moves back.
Rank(s) == CASE s = "absent" -> 0 [] s = "reserved" -> 1
             [] s = "in_progress" -> 2 [] OTHER -> 3
RowsOnlyAdvance ==
  [][\A a \in Allowance :
       /\ rowOp[a] # None => rowOp'[a] = rowOp[a]
       /\ Rank(status[a]) <= Rank(status'[a])
       /\ status[a] \in {"succeeded", "failed"} =>
            /\ status'[a] = status[a]
            /\ rowResult'[a] = rowResult[a]
            /\ rowPhase'[a] = rowPhase[a]]_vars

\* A reserved key reaches a terminal state unless a process or a store call
\* failed: nothing else leaves it indeterminate.
RowsSettle ==
  \A a \in Allowance :
    status[a] # "absent" ~> status[a] \in {"succeeded", "failed"} \/ faults > 0
-----------------------------------------------------------------------------
(* The table implements the promise of EffectOnce.                         *)

Outcome(a) == CASE status[a] = "succeeded" -> "published"
                [] status[a] = "failed" -> "closed"
                [] OTHER -> "open"

Once == INSTANCE EffectOnce WITH
  claim <- rowOp,
  outcome <- [a \in Allowance |-> Outcome(a)],
  result <- rowResult

\* Executors, crashes and store failures included, the boundary does nothing
\* but claim, invoke once, publish or close, and answer.
ImplementsEffectOnce == Once!Spec
=============================================================================
