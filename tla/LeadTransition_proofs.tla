------------------------ MODULE LeadTransition_proofs ------------------------
(***************************************************************************)
(* Safety of governed transitions, for any operators, reasons, targets and *)
(* number of events.  Every step of LeadTransition is a step of the        *)
(* one-shot boundary, so the boundary's invariant and its lemmas are used  *)
(* as they stand; what is added here ties its table to the log.            *)
(***************************************************************************)
EXTENDS LeadTransition, TLAPS

\* The boundary with its proofs, as the lead uses it.
P == INSTANCE EffectConsumption_proofs WITH
  Executor <- Operator,
  Allowance <- [actor: Actor, payload: 1..MaxEvents, next: Targets],
  Content <- Reason,
  Result <- 1..(MaxEvents + 1),
  Validity <- 1, DayLength <- 1, MaxClock <- 0

\* The allowances: who may move a reviewed payload, and to which status.
Move == [actor: Actor, payload: 1..MaxEvents, next: Targets]

\* What the log holds.
Entry == [status: LeadStatus, reviewed: 0..MaxEvents, by: Actor \cup {None}]

\* The types of the lead's own variables, and the reach of the log.
LogTyped ==
  /\ wanted \in Wishes
  /\ log \in Seq(Entry)
  /\ Len(log) \in 1..(MaxEvents + 1)
  /\ limits \in Verdicts
  /\ verdict \in BOOLEAN
  /\ loaded \in [Operator -> 1..(MaxEvents + 1) \cup {None}]

\* An operation that was requested passed the gate.
RequestsAreClear ==
  \A e \in Operator :
    pc[e] # "idle" /\ Asked(e) \in Actionable => limits = "unique"

\* While an effect runs its move is not yet in the log, and no effect runs again.
RunsPrecedeMoves ==
  \A a \in Move : Moved(a) =>
    /\ runs[a] # 0
    /\ \A e \in Operator : pc[e] = "running" => C!Key(e) # a

\* The event a result names.
Names(r, a) ==
  r \in Events /\ log[r] = [status |-> a.next, reviewed |-> a.payload, by |-> a.actor]

\* A result that is held, or stored as a success, names its event.
ResultsAreEvents ==
  /\ \A e \in Operator : pc[e] = "committing" => Names(held[e], C!Key(e))
  /\ \A a \in Move : status[a] = "succeeded" => Names(rowResult[a], a)

\* The inductive invariant.
IInv ==
  /\ LogTyped
  /\ P!IInv
  /\ HistoryIsLawful
  /\ RequestsAreClear
  /\ LimitedStaysInert
  /\ RunsPrecedeMoves
  /\ AllowanceMovesOnce
  /\ ResultsAreEvents

-----------------------------------------------------------------------------
\* The boundary's assumptions hold of its instance.
LEMMA BoundaryConstants == P!ConsumptionConstants /\ P!NoneIsNoOperation
<1>1. None \notin 1..(MaxEvents + 1)
  BY NoneIsNothing, TransitionConstants
<1>2. 1 \in Nat /\ 1 \in Nat \ {0} /\ 0 \in Nat /\ MaxFaults \in Nat /\ None \notin Nat
  BY NoneIsNothing, TransitionConstants
<1>3. P!ConsumptionConstants
  BY <1>1, <1>2
<1>4. P!NoneIsNoOperation
  BY NoneIsNothing DEF P!Operation
<1>5. QED
  BY <1>3, <1>4
-----------------------------------------------------------------------------
\* Every step is one of the boundary's, or leaves its variables alone.
LEMMA StepIsBoundary ==
  ASSUME LogTyped, P!IInv, [Next]_vars
  PROVE  [P!Next]_P!vars
<1> USE DEF P!vars, P!table, P!frame, P!history, P!Goto, P!Leave, P!Fault, P!Holds,
            P!Op, P!Key, P!Advance, P!Disturb, P!Next,
            C!table, C!history, C!Goto, C!Leave, C!Fault, C!Holds, C!Op, C!Key,
            table, boundary
<1>1. ASSUME NEW e \in Operator, RequestTransition(e) PROVE P!Next
  <2>1. PICK wish \in wanted, reason \in Reason :
          C!Request(e, [allowance |-> [actor |-> wish.actor, payload |-> Len(log),
                                       next |-> wish.next],
                        content |-> reason, policy |-> "exact"], None)
    BY <1>1 DEF RequestTransition
  <2>2. Len(log) \in 1..MaxEvents /\ wish.next \in Targets /\ wish.actor \in Actor
    BY <1>1, TransitionConstants DEF RequestTransition, Room, LogTyped, Targets
  <2>3. [allowance |-> [actor |-> wish.actor, payload |-> Len(log), next |-> wish.next],
         content |-> reason, policy |-> "exact"] \in P!Operation
    BY <2>2 DEF P!Operation
  <2>4. P!Authorize(e)
    BY <2>1, <2>3 DEF C!Request, P!Request, P!Authorize
  <2>5. QED
    BY <2>4
<1>2. ASSUME NEW e \in Operator, C!EffectRaises(e) PROVE P!Next
  BY <1>2 DEF C!EffectRaises, P!EffectRaises
<1>3. ASSUME NEW e \in Operator, Boundary(e) PROVE P!Next
  <2>1. CASE C!ReadReservationTime(e)
    BY <2>1 DEF C!ReadReservationTime, P!ReadReservationTime, C!InWindow, P!InWindow,
       C!Day, P!Day
  <2>2. CASE C!ReserveNew(e)
    BY <2>2 DEF C!ReserveNew, P!ReserveNew
  <2>3. CASE C!ReplayExact(e) \/ C!RefuseDuplicate(e)
    BY <2>3 DEF C!ReplayExact, P!ReplayExact, C!RefuseDuplicate, P!RefuseDuplicate,
       C!MayReplay, P!MayReplay
  <2>4. CASE C!MarkStarted(e) \/ C!MarkUnacknowledged(e)
    BY <2>4 DEF C!MarkStarted, P!MarkStarted, C!MarkUnacknowledged, P!MarkUnacknowledged
  <2>5. CASE C!ReadEffectTime(e) \/ C!BeginEffect(e)
    BY <2>5 DEF C!ReadEffectTime, P!ReadEffectTime, C!BeginEffect, P!BeginEffect,
       C!Day, P!Day
  <2>6. CASE C!CommitSuccess(e) \/ C!SuccessUnacknowledged(e)
    BY <2>6 DEF C!CommitSuccess, P!CommitSuccess, C!SuccessUnacknowledged,
       P!SuccessUnacknowledged
  <2>7. CASE C!CommitFailure(e)
    BY <2>7 DEF C!CommitFailure, P!CommitFailure, C!FailFrom, P!FailFrom
  <2>8. CASE C!StoreRaises(e)
    BY <2>8 DEF C!StoreRaises, P!StoreRaises
  <2>9. QED
    BY <1>3, <2>1, <2>2, <2>3, <2>4, <2>5, <2>6, <2>7, <2>8 DEF Boundary
<1>4. ASSUME NEW e \in Operator, LoadAndGate(e) PROVE P!Next \/ UNCHANGED P!vars
  BY <1>2, <1>4 DEF LoadAndGate
<1>5. ASSUME NEW e \in Operator, CommitTransition(e) PROVE P!Next
  <2>1. CASE C!EffectRaises(e)
    BY <1>2, <2>1
  <2>2. CASE Room /\ C!EffectReturns(e, Len(log) + 1)
    <3>1. Len(log) + 1 \in 1..(MaxEvents + 1)
      BY <2>2, TransitionConstants DEF Room, LogTyped
    <3>2. P!EffectReturns(e, Len(log) + 1)
      BY <2>2 DEF C!EffectReturns, P!EffectReturns
    <3>3. QED
      BY <3>1, <3>2
  <2>3. QED
    BY <1>5, <2>1, <2>2 DEF CommitTransition
<1>6. ASSUME NEW e \in Operator, TransitionFails(e) PROVE P!Next
  BY <1>2, <1>6 DEF TransitionFails
<1>7. ASSUME NEW e \in Operator, Crash(e) PROVE P!Next
  BY <1>7 DEF Crash, C!Crash, P!Crash
<1>8. CASE StoreVerdict \/ UNCHANGED vars
  BY <1>8 DEF StoreVerdict, vars
<1>9. QED
  BY <1>1, <1>3, <1>4, <1>5, <1>6, <1>7, <1>8 DEF Next

\* So every step keeps the boundary's invariant.
LEMMA BoundaryStep ==
  ASSUME LogTyped, P!IInv, [Next]_vars
  PROVE  P!IInv'
<1>1. [P!Next]_P!vars
  BY StepIsBoundary
<1>2. P!TypeOK'
  BY <1>1, BoundaryConstants, P!StepTypeOK
<1>3. QED
  BY <1>1, <1>2, BoundaryConstants, P!StepRowShape, P!StepFrameShape,
     P!StepSingleOwner, P!StepOwnerMatchesRow, P!StepRowTellsTruth,
     P!StepAnswersAreDurable, P!StepEffectOnRequiredDay
  DEF P!IInv
-----------------------------------------------------------------------------
\* The first state satisfies the invariant.
LEMMA InitIInv == Init => IInv
<1> SUFFICES ASSUME Init PROVE IInv
  OBVIOUS
<1>1. PICK package \in Package, v \in Verdicts :
        /\ log = << [status |-> InitialStatus(package, v), reviewed |-> 0, by |-> None] >>
        /\ limits = v
        /\ verdict = (v \in Unresolved)
  BY DEF Init
<1>2. InitialStatus(package, v) \in {"hold", "monitor", "review", "ready"}
  BY DEF InitialStatus
<1>3. v \in Unresolved => InitialStatus(package, v) \in {"hold", "review"}
  BY DEF InitialStatus, Unresolved
<1>4. InitialStatus(package, v) \in LeadStatus
  BY <1>2 DEF LeadStatus, Moves
<1>5. Len(log) = 1 /\ log[1].status = InitialStatus(package, v)
  BY <1>1
<1>6. LogTyped
  <2>1. log \in Seq(Entry)
    BY <1>1, <1>4, TransitionConstants DEF Entry
  <2>2. QED
    BY <1>1, <1>5, <2>1, TransitionConstants DEF Init, LogTyped
<1>7. P!IInv
  <2>1. P!Init
    BY DEF Init, C!Init, P!Init
  <2>2. QED
    BY <2>1, BoundaryConstants, P!InitIInv
<1>8. Events = {}
  BY <1>5 DEF Events
<1>9. HistoryIsLawful /\ AllowanceMovesOnce /\ RunsPrecedeMoves
  BY <1>8 DEF HistoryIsLawful, AllowanceMovesOnce, RunsPrecedeMoves, Moved
<1>10. LimitedStaysInert
  BY <1>1, <1>3, <1>5 DEF LimitedStaysInert, Status, Actionable
<1>11. RequestsAreClear /\ ResultsAreEvents
  BY DEF Init, C!Init, RequestsAreClear, ResultsAreEvents, Move
<1>12. QED
  BY <1>6, <1>7, <1>9, <1>10, <1>11 DEF IInv

-----------------------------------------------------------------------------
\* An operator's move enters the log as its next event.
Recorded(e) ==
  /\ pc[e] = "running" /\ loaded[e] # None
  /\ Swappable(e) /\ Room
  /\ C!EffectReturns(e, Len(log) + 1) /\ AppendMove(e)

\* What all other steps may do to a call,
CallGoesOn(f) ==
  /\ pc'[f] = "committing" =>
       pc[f] = "committing" /\ held'[f] = held[f] /\ call'[f] = call[f]
  /\ pc'[f] = "running" => pc[f] \in {"running", "effect"} /\ call'[f] = call[f]
  /\ pc'[f] # "idle" =>
       \/ pc[f] # "idle" /\ call'[f] = call[f]
       \/ Clear(call'[f].op.allowance.next)

\* ... and to a row.
RowGoesOn(a) ==
  /\ status'[a] = "succeeded" =>
       \/ status[a] = "succeeded" /\ rowResult'[a] = rowResult[a]
       \/ \E e \in Operator :
            pc[e] = "committing" /\ C!Key(e) = a /\ rowResult'[a] = held[e]
  /\ runs[a] # 0 => runs'[a] # 0

\* A step that leaves the log as it is.
Quiet ==
  /\ UNCHANGED <<wanted, log, limits>>
  /\ verdict' \in BOOLEAN
  /\ \A f \in Operator : CallGoesOn(f)
  /\ \A a \in Move : RowGoesOn(a)

\* A step records a move or is quiet.
LEMMA StepCases ==
  ASSUME IInv, [Next]_vars
  PROVE  (\E e \in Operator : Recorded(e)) \/ Quiet
<1> USE DEF C!table, C!history, C!Goto, C!Leave, C!Fault, C!Holds, C!Op, C!Key,
            table, boundary, lead, CallGoesOn, RowGoesOn
<1>1. /\ pc \in [Operator -> P!PC] /\ call \in [Operator -> P!Call \cup {None}]
      /\ held \in [Operator -> 1..(MaxEvents + 1) \cup {None}]
      /\ status \in [Move -> P!Status] /\ runs \in [Move -> Nat]
      /\ rowResult \in [Move -> 1..(MaxEvents + 1) \cup {None}]
      /\ verdict \in BOOLEAN
  BY DEF IInv, LogTyped, P!IInv, P!TypeOK, Move
<1>2. ASSUME NEW e \in Operator, RequestTransition(e) PROVE Quiet
  BY <1>1, <1>2 DEF RequestTransition, C!Request, Quiet
<1>3. ASSUME NEW e \in Operator, C!EffectRaises(e), UNCHANGED <<wanted, log, limits, verdict>>
      PROVE  Quiet
  BY <1>1, <1>3 DEF C!EffectRaises, Quiet
<1>4. ASSUME NEW e \in Operator, Boundary(e) PROVE Quiet
  <2> USE <1>1 DEF Quiet
  <2>1. CASE C!ReadReservationTime(e)
    BY <1>4, <2>1 DEF C!ReadReservationTime, Boundary
  <2>2. CASE C!ReserveNew(e)
    BY <1>4, <2>2 DEF C!ReserveNew, Boundary
  <2>3. CASE C!ReplayExact(e) \/ C!RefuseDuplicate(e)
    BY <1>4, <2>3 DEF C!ReplayExact, C!RefuseDuplicate, Boundary
  <2>4. CASE C!MarkStarted(e) \/ C!MarkUnacknowledged(e)
    BY <1>4, <2>4 DEF C!MarkStarted, C!MarkUnacknowledged, Boundary
  <2>5. CASE C!ReadEffectTime(e) \/ C!BeginEffect(e)
    BY <1>4, <2>5 DEF C!ReadEffectTime, C!BeginEffect, Boundary
  <2>6. CASE C!CommitSuccess(e) \/ C!SuccessUnacknowledged(e)
    BY <1>4, <2>6 DEF C!CommitSuccess, C!SuccessUnacknowledged, Boundary
  <2>7. CASE C!CommitFailure(e)
    BY <1>4, <2>7 DEF C!CommitFailure, C!FailFrom, Boundary
  <2>8. CASE C!StoreRaises(e)
    BY <1>4, <2>8 DEF C!StoreRaises, Boundary
  <2>9. QED
    BY <1>4, <2>1, <2>2, <2>3, <2>4, <2>5, <2>6, <2>7, <2>8 DEF Boundary
<1>5. ASSUME NEW e \in Operator, LoadAndGate(e) PROVE Quiet
  <2>1. CASE UNCHANGED <<wanted, log, limits, verdict, boundary>>
    BY <1>1, <2>1 DEF Quiet
  <2>2. QED
    BY <1>3, <1>5, <2>1 DEF LoadAndGate
<1>6. ASSUME NEW e \in Operator, CommitTransition(e) PROVE Recorded(e) \/ Quiet
  BY <1>3, <1>6 DEF CommitTransition, Recorded
<1>7. ASSUME NEW e \in Operator, TransitionFails(e) PROVE Quiet
  BY <1>3, <1>7 DEF TransitionFails
<1>8. ASSUME NEW e \in Operator, Crash(e) PROVE Quiet
  BY <1>1, <1>8 DEF Crash, C!Crash, Quiet
<1>9. CASE StoreVerdict \/ UNCHANGED vars
  BY <1>1, <1>9 DEF StoreVerdict, vars, Quiet
<1>10. QED
  BY <1>2, <1>4, <1>5, <1>6, <1>7, <1>8, <1>9 DEF Next
-----------------------------------------------------------------------------
\* What a recorded move adds: its operator's own allowance, not yet in the log.
Adds(e) ==
  /\ C!Key(e) \in Move
  /\ Asked(e) = C!Key(e).next /\ Reviewed(e) = C!Key(e).payload /\ By(e) = C!Key(e).actor
  /\ ~Moved(C!Key(e))
  /\ Len(log) \in Nat \ {0} /\ Len(log) <= MaxEvents
  /\ Len(log') = Len(log) + 1
  /\ \A n \in 1..Len(log) : log'[n] = log[n]
  /\ log'[Len(log) + 1] = [status |-> Asked(e), reviewed |-> Reviewed(e), by |-> By(e)]
  /\ UNCHANGED <<wanted, limits, verdict, status, rowResult, runs, call>>
  /\ pc' = [pc EXCEPT ![e] = "committing"]
  /\ held' = [held EXCEPT ![e] = Len(log) + 1]

\* A recorded move adds just that.
LEMMA RecordedAdds ==
  ASSUME IInv, NEW e \in Operator, Recorded(e)
  PROVE  Adds(e)
<1>1. P!TypeOK /\ P!FrameShape /\ LogTyped
  BY DEF IInv, P!IInv
<1>2. C!Key(e) \in Move
  BY <1>1 DEF Recorded, P!FrameShape, P!Call, P!Operation, C!Key, Move
<1>3. ~Moved(C!Key(e))
  BY <1>2 DEF IInv, RunsPrecedeMoves, Recorded
<1>4. Len(log) \in Nat \ {0} /\ Len(log) <= MaxEvents /\ Len(log') = Len(log) + 1
      /\ (\A n \in 1..Len(log) : log'[n] = log[n])
      /\ log'[Len(log) + 1] = [status |-> Asked(e), reviewed |-> Reviewed(e), by |-> By(e)]
  BY <1>1, TransitionConstants DEF Recorded, AppendMove, Room, LogTyped
<1>5. QED
  BY <1>2, <1>3, <1>4
  DEF Adds, Recorded, AppendMove, C!EffectReturns, C!table, C!history, Asked, Reviewed,
      By, C!Op, C!Key

\* The lead's variables keep their types.
LEMMA StepLogTyped ==
  ASSUME IInv, [Next]_vars PROVE LogTyped'
<1>1. LogTyped
  BY DEF IInv
<1>2. loaded' \in [Operator -> 1..(MaxEvents + 1) \cup {None}]
  <2>1. ASSUME NEW e \in Operator,
               loaded' = [loaded EXCEPT ![e] = None] \/ loaded' = loaded
                 \/ loaded' = [loaded EXCEPT ![e] = Len(log)]
        PROVE  loaded' \in [Operator -> 1..(MaxEvents + 1) \cup {None}]
    BY <1>1, <2>1 DEF LogTyped
  <2>2. QED
    BY <1>1, <2>1 DEF Next, vars, lead, RequestTransition, Boundary, LoadAndGate,
       CommitTransition, AppendMove, TransitionFails, Crash, StoreVerdict, LogTyped
<1>3. CASE Quiet
  BY <1>1, <1>2, <1>3 DEF Quiet, LogTyped
<1>4. ASSUME NEW e \in Operator, Recorded(e) PROVE LogTyped'
  <2>0. Adds(e)
    BY <1>4, RecordedAdds
  <2>1. Asked(e) \in LeadStatus /\ Reviewed(e) \in 0..MaxEvents /\ By(e) \in Actor
    BY <1>4, <2>0, TransitionConstants DEF Adds, Move, Targets
  <2>2. log' \in Seq(Entry)
    BY <1>1, <1>4, <2>1 DEF Recorded, AppendMove, LogTyped, Entry
  <2>3. Len(log') \in 1..(MaxEvents + 1)
    BY <1>4, <2>0, TransitionConstants DEF Adds
  <2>4. QED
    BY <1>1, <1>2, <1>4, <2>2, <2>3, <2>0 DEF Adds, LogTyped
<1>5. QED
  BY <1>3, <1>4, StepCases

\* The history stays a walk of the matrix.
LEMMA StepLawful ==
  ASSUME IInv, [Next]_vars PROVE HistoryIsLawful'
<1>1. LogTyped /\ HistoryIsLawful
  BY DEF IInv
<1>2. CASE Quiet
  BY <1>1, <1>2 DEF Quiet, HistoryIsLawful, Events, Status
<1>3. ASSUME NEW e \in Operator, Recorded(e) PROVE HistoryIsLawful'
  <2>0. Adds(e)
    BY <1>3, RecordedAdds
  <2>1. SUFFICES ASSUME NEW n \in 2..Len(log')
                 PROVE  log'[n].status \in Moves[log'[n - 1].status]
    BY DEF HistoryIsLawful, Events, Status
  <2> DEFINE len == Len(log)
  <2>5. len \in Nat \ {0} /\ n \in 2..(len + 1)
    BY <1>3, <2>0 DEF Adds
  <2> HIDE DEF len
  <2>2. CASE n = Len(log) + 1
    <3>1. log'[n].status = Asked(e) /\ n - 1 = Len(log) /\ log'[n - 1] = log[Len(log)]
      BY <1>3, <2>2, <2>5, <2>0 DEF Adds, len
    <3>2. QED
      BY <1>3, <3>1 DEF Recorded, Swappable, Current, Status
  <2>3. CASE n # Len(log) + 1
    <3>1. n \in 2..Len(log) /\ n - 1 \in 1..Len(log) /\ n \in 1..Len(log)
      BY <2>3, <2>5 DEF len
    <3>2. log'[n] = log[n] /\ log'[n - 1] = log[n - 1]
      BY <1>3, <3>1, <2>0 DEF Adds
    <3>3. QED
      BY <1>1, <3>1, <3>2 DEF HistoryIsLawful, Events, Status
  <2>4. QED
    BY <2>2, <2>3
<1>4. QED
  BY <1>2, <1>3, StepCases

\* Requests stay clear of the gate, and so does the log of a limited workflow.
LEMMA StepGated ==
  ASSUME IInv, [Next]_vars PROVE RequestsAreClear' /\ LimitedStaysInert'
<1>1. LogTyped /\ RequestsAreClear /\ LimitedStaysInert /\ P!TypeOK
  BY DEF IInv, P!IInv
<1>2. CASE Quiet
  <2>1. LimitedStaysInert'
    BY <1>1, <1>2 DEF Quiet, LimitedStaysInert, Status
  <2>2. ASSUME NEW f \in Operator, pc'[f] # "idle", call'[f].op.allowance.next \in Actionable
        PROVE  limits' = "unique"
    <3>1. CallGoesOn(f) /\ limits' = limits
      BY <1>2 DEF Quiet
    <3>2. QED
      BY <1>1, <2>2, <3>1 DEF CallGoesOn, Clear, RequestsAreClear, Asked, C!Op
  <2>3. QED
    BY <2>1, <2>2 DEF RequestsAreClear, Asked, C!Op
<1>3. ASSUME NEW e \in Operator, Recorded(e)
      PROVE  RequestsAreClear' /\ LimitedStaysInert'
  <2>0. Adds(e)
    BY <1>3, RecordedAdds
  <2>1. RequestsAreClear'
    BY <1>1, <1>3, <2>0 DEF Adds, RequestsAreClear, Asked, C!Op, Recorded, P!TypeOK
  <2>2. ASSUME limits \in Unresolved, NEW n \in 1..Len(log')
        PROVE  log'[n].status \notin Actionable
    <3>0. Len(log) \in Nat \ {0} /\ n \in 1..(Len(log) + 1)
      BY <1>3, <2>2, <2>0 DEF Adds
    <3>1. CASE n = Len(log) + 1
      <4>1. log'[n].status = Asked(e)
        BY <1>3, <3>1, <2>0 DEF Adds
      <4>2. Asked(e) \notin Actionable
        BY <1>1, <1>3, <2>2 DEF RequestsAreClear, Recorded, Unresolved
      <4>3. QED
        BY <4>1, <4>2
    <3>2. CASE n # Len(log) + 1
      <4>1. n \in 1..Len(log)
        BY <3>0, <3>2
      <4>2. QED
        BY <1>1, <1>3, <2>2, <4>1, <2>0 DEF Adds, LimitedStaysInert, Status
    <3>3. QED
      BY <3>1, <3>2
  <2>3. QED
    BY <1>3, <2>1, <2>2, <2>0 DEF Adds, LimitedStaysInert, Status
<1>4. QED
  BY <1>2, <1>3, StepCases
\* A recorded move adds its allowance to those moved, and no other.
LEMMA AddedMove ==
  ASSUME NEW e \in Operator, Adds(e), NEW a \in Move, Moved(a)'
  PROVE  Moved(a) \/ a = C!Key(e)
<1>1. PICK n \in 2..Len(log') :
        log'[n].reviewed = a.payload /\ log'[n].status = a.next /\ log'[n].by = a.actor
  BY DEF Moved, Events, Status
<1>2. Len(log) \in Nat \ {0} /\ n \in 2..(Len(log) + 1)
  BY DEF Adds
<1>3. CASE n = Len(log) + 1
  <2>1. a.payload = C!Key(e).payload /\ a.next = C!Key(e).next /\ a.actor = C!Key(e).actor
    BY <1>1, <1>3 DEF Adds
  <2>2. a = C!Key(e)
    BY <2>1 DEF Adds, Move
  <2>3. QED
    BY <2>2
<1>4. CASE n # Len(log) + 1
  <2>1. n \in 2..Len(log) /\ n \in 1..Len(log)
    BY <1>2, <1>4
  <2>2. log'[n] = log[n]
    BY <2>1 DEF Adds
  <2>3. QED
    BY <1>1, <2>1, <2>2 DEF Moved, Events, Status
<1>5. QED
  BY <1>3, <1>4

\* No effect runs once its move is in the log.
LEMMA StepRuns ==
  ASSUME IInv, [Next]_vars PROVE RunsPrecedeMoves'
<1>1. /\ RunsPrecedeMoves /\ P!TypeOK /\ P!SingleOwner /\ P!OwnerMatchesRow
  BY DEF IInv, P!IInv
<1>2. SUFFICES ASSUME NEW a \in Move, Moved(a)'
               PROVE  runs'[a] # 0 /\ \A f \in Operator : pc'[f] = "running" => C!Key(f)' # a
  BY DEF RunsPrecedeMoves
<1>3. CASE Quiet
  <2>1. Moved(a)
    BY <1>2, <1>3 DEF Quiet, Moved, Events, Status
  <2>2. runs[a] # 0 /\ runs'[a] # 0
    BY <1>1, <1>3, <2>1 DEF RunsPrecedeMoves, Quiet, RowGoesOn
  <2>3. ASSUME NEW f \in Operator, pc'[f] = "running" PROVE C!Key(f)' # a
    <3>1. pc[f] \in {"running", "effect"} /\ call'[f] = call[f]
      BY <1>3, <2>3 DEF Quiet, CallGoesOn
    <3>2. CASE pc[f] = "running"
      BY <1>1, <2>1, <3>1, <3>2 DEF RunsPrecedeMoves, C!Key
    <3>3. CASE pc[f] = "effect"
      <4>1. runs[C!Key(f)] = 0
        BY <1>1, <3>3 DEF P!OwnerMatchesRow, P!Key, C!Key
      <4>2. QED
        BY <2>2, <3>1, <4>1 DEF C!Key
    <3>4. QED
      BY <3>1, <3>2, <3>3
  <2>4. QED
    BY <2>2, <2>3
<1>4. ASSUME NEW e \in Operator, Recorded(e)
      PROVE  runs'[a] # 0 /\ \A f \in Operator : pc'[f] = "running" => C!Key(f)' # a
  <2>1. Adds(e) /\ pc[e] = "running"
    BY <1>4, RecordedAdds DEF Recorded
  <2>2. \A f \in Operator : pc'[f] = "running" => f # e /\ pc[f] = "running" /\ C!Key(f)' = C!Key(f)
    BY <1>1, <2>1 DEF Adds, P!TypeOK, C!Key
  <2>3. CASE Moved(a)
    BY <1>1, <2>1, <2>2, <2>3 DEF RunsPrecedeMoves, Adds
  <2>4. CASE a = C!Key(e)
    <3>1. runs[a] = 1
      BY <1>1, <2>1, <2>4 DEF P!OwnerMatchesRow, P!Key, C!Key
    <3>2. ASSUME NEW f \in Operator, pc[f] = "running", C!Key(f) = a PROVE f = e
      BY <1>1, <2>1, <2>4, <3>2 DEF P!SingleOwner, P!Owning, P!Key, C!Key
    <3>3. QED
      BY <2>1, <2>2, <3>1, <3>2 DEF Adds
  <2>5. QED
    BY <1>2, <2>1, <2>3, <2>4, AddedMove
<1>5. QED
  BY <1>3, <1>4, StepCases

\* No allowance is recorded a second time.
LEMMA StepMovesOnce ==
  ASSUME IInv, [Next]_vars PROVE AllowanceMovesOnce'
<1>1. AllowanceMovesOnce
  BY DEF IInv
<1>2. CASE Quiet
  BY <1>1, <1>2 DEF Quiet, AllowanceMovesOnce, Events, Status
<1>3. ASSUME NEW e \in Operator, Recorded(e) PROVE AllowanceMovesOnce'
  <2>1. Adds(e)
    BY <1>3, RecordedAdds
  <2>2. SUFFICES ASSUME NEW m \in 2..Len(log'), NEW n \in 2..Len(log'), m # n,
                        log'[m].reviewed = log'[n].reviewed,
                        log'[m].status = log'[n].status, log'[m].by = log'[n].by
                 PROVE  FALSE
    BY DEF AllowanceMovesOnce, Events, Status
  <2>3. Len(log) \in Nat \ {0} /\ m \in 2..(Len(log) + 1) /\ n \in 2..(Len(log) + 1)
    BY <2>1 DEF Adds
  <2>4. ASSUME NEW k \in 2..Len(log), log[k].reviewed = Reviewed(e), log[k].status = Asked(e),
               log[k].by = By(e)
        PROVE  FALSE
    BY <2>1, <2>4 DEF Adds, Moved, Events, Status
  <2>5. \A k \in 2..(Len(log) + 1) :
          k = Len(log) + 1 \/ (k \in 2..Len(log) /\ log'[k] = log[k])
    BY <2>1, <2>3 DEF Adds
  <2>6. /\ log'[Len(log) + 1].reviewed = Reviewed(e)
        /\ log'[Len(log) + 1].status = Asked(e)
        /\ log'[Len(log) + 1].by = By(e)
    BY <2>1 DEF Adds
  <2>7. CASE m = Len(log) + 1
    BY <2>2, <2>3, <2>4, <2>5, <2>6, <2>7
  <2>8. CASE n = Len(log) + 1
    BY <2>2, <2>3, <2>4, <2>5, <2>6, <2>8
  <2>9. CASE m # Len(log) + 1 /\ n # Len(log) + 1
    BY <1>1, <2>2, <2>3, <2>5, <2>9 DEF AllowanceMovesOnce, Events, Status
  <2>10. QED
    BY <2>7, <2>8, <2>9
<1>4. QED
  BY <1>2, <1>3, StepCases

\* Results go on naming their events.
LEMMA StepResults ==
  ASSUME IInv, [Next]_vars PROVE ResultsAreEvents'
<1>1. ResultsAreEvents /\ P!TypeOK
  BY DEF IInv, P!IInv
<1>2. CASE Quiet
  <2>1. ASSUME NEW r, NEW a, Names(r, a)
        PROVE  r \in 2..Len(log') /\ log'[r] = [status |-> a.next, reviewed |-> a.payload, by |-> a.actor]
    BY <1>2, <2>1 DEF Quiet, Names, Events
  <2>2. ASSUME NEW f \in Operator, pc'[f] = "committing"
        PROVE  Names(held[f], C!Key(f))'
    <3>1. Names(held[f], C!Key(f)) /\ held'[f] = held[f] /\ C!Key(f)' = C!Key(f)
      BY <1>1, <1>2, <2>2 DEF ResultsAreEvents, Quiet, CallGoesOn, C!Key
    <3>2. QED
      BY <2>1, <3>1 DEF Names, Events
  <2>3. ASSUME NEW a \in Move, status'[a] = "succeeded" PROVE Names(rowResult[a], a)'
    <3>1. Names(rowResult'[a], a)
      BY <1>1, <1>2, <2>3 DEF ResultsAreEvents, Quiet, RowGoesOn
    <3>2. QED
      BY <2>1, <3>1 DEF Names, Events
  <2>4. QED
    BY <2>2, <2>3 DEF ResultsAreEvents
<1>3. ASSUME NEW e \in Operator, Recorded(e) PROVE ResultsAreEvents'
  <2>1. Adds(e)
    BY <1>3, RecordedAdds
  <2>2. ASSUME NEW r, NEW a, Names(r, a)
        PROVE  r \in 2..Len(log') /\ log'[r] = [status |-> a.next, reviewed |-> a.payload, by |-> a.actor]
    <3>1. r \in 2..Len(log) /\ Len(log) \in Nat /\ Len(log') = Len(log) + 1
      BY <2>1, <2>2 DEF Adds, Names, Events
    <3>2. r \in 1..Len(log) /\ r \in 2..Len(log')
      BY <3>1
    <3>3. QED
      BY <2>1, <2>2, <3>2 DEF Adds, Names
  <2>3. /\ Len(log) + 1 \in 2..Len(log')
        /\ log'[Len(log) + 1] = 
             [status |-> C!Key(e).next, reviewed |-> C!Key(e).payload, by |-> C!Key(e).actor]
    BY <2>1 DEF Adds
  <2>4. ASSUME NEW f \in Operator, pc'[f] = "committing"
        PROVE  Names(held[f], C!Key(f))' 
    <3>1. CASE f = e
      BY <1>1, <2>1, <2>3, <3>1 DEF Adds, P!TypeOK, Names, Events, C!Key
    <3>2. CASE f # e
      <4>1. held'[f] = held[f] /\ pc[f] = "committing" /\ C!Key(f)' = C!Key(f)
        BY <1>1, <2>1, <2>4, <3>2 DEF Adds, P!TypeOK, C!Key
      <4>2. Names(held[f], C!Key(f))
        BY <1>1, <4>1 DEF ResultsAreEvents
      <4>3. QED
        BY <2>2, <4>1, <4>2 DEF Names, Events
    <3>3. QED
      BY <3>1, <3>2
  <2>5. ASSUME NEW a \in Move, status'[a] = "succeeded" PROVE Names(rowResult[a], a)'
    <3>1. Names(rowResult[a], a) /\ rowResult' = rowResult
      BY <1>1, <2>1, <2>5 DEF Adds, ResultsAreEvents
    <3>2. QED
      BY <2>2, <3>1 DEF Names, Events
  <2>6. QED
    BY <2>4, <2>5 DEF ResultsAreEvents
<1>4. QED
  BY <1>2, <1>3, StepCases

-----------------------------------------------------------------------------
(* The theorems.                                                           *)

\* The strengthened invariant holds in every reachable state.
THEOREM TransitionInductive == Spec => []IInv
<1>1. IInv /\ [Next]_vars => IInv'
  <2> SUFFICES ASSUME IInv, [Next]_vars PROVE IInv'
    OBVIOUS
  <2>1. P!IInv'
    BY BoundaryStep DEF IInv
  <2> QED
    BY <2>1, StepLogTyped, StepLawful, StepGated, StepRuns, StepMovesOnce, StepResults
    DEF IInv
<1> QED
  BY <1>1, InitIInv, PTL DEF Spec

\* A governed transition is a call of the one-shot boundary and nothing else: every
\* theorem of the boundary is one of it.
THEOREM TransitionIsOneShot == Spec => P!Spec
<1>1. Init => P!Init
  BY DEF Init, C!Init, P!Init
<1>2. IInv /\ [Next]_vars => [P!Next]_P!vars
  BY StepIsBoundary DEF IInv
<1> QED
  BY <1>1, <1>2, TransitionInductive, PTL DEF Spec, P!Spec

\* The log and the boundary's table keep their types.
THEOREM TransitionTypeCorrect == Spec => []TypeOK
<1>1. IInv => TypeOK
  BY DEF IInv, LogTyped, Entry, TypeOK, P!IInv, P!TypeOK, C!TypeOK, P!Status, C!Status,
     P!Operation, C!Operation, P!Phase, C!Phase, P!PC, C!PC, P!Call, C!Call
<1> QED
  BY <1>1, TransitionInductive, PTL

\* Whoever interleaves or crashes, the history of a workflow is a walk of the matrix.
THEOREM LawfulHistory == Spec => []HistoryIsLawful
<1>1. IInv => HistoryIsLawful
  BY DEF IInv
<1> QED
  BY <1>1, TransitionInductive, PTL

\* By one operator id, a reviewed payload is moved at most once to one status.
THEOREM MovesOnce == Spec => []AllowanceMovesOnce
<1>1. IInv => AllowanceMovesOnce
  BY DEF IInv
<1> QED
  BY <1>1, TransitionInductive, PTL

\* A workflow created with an unresolved verdict is never made actionable.
THEOREM LimitedInert == Spec => []LimitedStaysInert
<1>1. IInv => LimitedStaysInert
  BY DEF IInv
<1> QED
  BY <1>1, TransitionInductive, PTL

\* The table of the boundary and the log of the workflow, which commit apart, agree.
THEOREM DatabasesAlwaysAgree == Spec => []DatabasesAgree
<1>1. ASSUME IInv PROVE DatabasesAgree
  <2>1. /\ P!TypeOK /\ P!AnswersAreDurable /\ P!RowTellsTruth
        /\ RunsPrecedeMoves /\ ResultsAreEvents
    BY <1>1 DEF IInv, P!IInv
  <2>2. DOMAIN status = Move
    BY <2>1 DEF P!TypeOK, Move
  <2>3. ASSUME NEW x \in answers
        PROVE  /\ x.result \in Events
               /\ log[x.result] = [status |-> x.op.allowance.next,
                                   reviewed |-> x.op.allowance.payload,
                                   by |-> x.op.allowance.actor]
    <3>1. x.op.allowance \in Move
      BY <2>1, <2>3 DEF P!TypeOK, P!Operation, Move
    <3>2. status[x.op.allowance] = "succeeded" /\ rowResult[x.op.allowance] = x.result
      BY <2>1, <2>3 DEF P!AnswersAreDurable
    <3>3. QED
      BY <2>1, <3>1, <3>2 DEF ResultsAreEvents, Names
  <2>4. ASSUME NEW a \in Move
        PROVE  /\ status[a] = "succeeded" => Moved(a)
               /\ status[a] \in {"absent", "reserved"} => ~Moved(a)
               /\ status[a] = "failed" /\ rowPhase[a] = "before_effect" => ~Moved(a)
    <3>1. ASSUME status[a] = "succeeded" PROVE Moved(a)
      <4>1. Names(rowResult[a], a)
        BY <2>1, <3>1 DEF ResultsAreEvents
      <4>2. QED
        BY <4>1 DEF Names, Moved, Status
    <3>2. status[a] \in {"absent", "reserved"}
            \/ (status[a] = "failed" /\ rowPhase[a] = "before_effect") => runs[a] = 0
      BY <2>1 DEF P!RowTellsTruth, Move
    <3>3. QED
      BY <2>1, <3>1, <3>2 DEF RunsPrecedeMoves
  <2>5. QED
    BY <2>2, <2>3, <2>4 DEF DatabasesAgree
<1> QED
  BY <1>1, TransitionInductive, PTL
=============================================================================
