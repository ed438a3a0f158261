---------------------- MODULE EffectConsumption_proofs ----------------------
(***************************************************************************)
(* Theorems of the one-shot boundary, for any number of executors,         *)
(* allowances, faults and any clock bound.                                 *)
(***************************************************************************)
EXTENDS EffectConsumption, TLAPS

\* Every row is claimed exactly when it exists, and carries what its state
\* requires.
RowShape ==
  \A a \in Allowance :
    /\ status[a] = "absent" <=> rowOp[a] = None
    /\ status[a] # "succeeded" => rowResult[a] = None
    /\ status[a] = "in_progress" => runs[a] \in {0, 1}
    /\ status[a] = "failed" => rowPhase[a] \in Phase
    /\ status[a] = "succeeded" => rowResult[a] \in Result

\* A running call has a frame.
FrameShape ==
  \A e \in Executor :
    /\ pc[e] # "idle" => call[e] \in Call
    /\ pc[e] = "committing" => held[e] \in Result

\* The inductive invariant: what the executors believe (OwnerMatchesRow) is
\* inductive only if no two of them own the same key (SingleOwner).
IInv ==
  /\ TypeOK
  /\ RowShape
  /\ FrameShape
  /\ SingleOwner
  /\ OwnerMatchesRow
  /\ RowTellsTruth
  /\ AnswersAreDurable
  /\ EffectOnRequiredDay

-----------------------------------------------------------------------------
(* The steps of the system, grouped by what they do to the table.          *)

\* Only the executor's own frame changes.
Private(e) ==
  \/ Authorize(e) \/ ReadReservationTime(e) \/ RefuseDuplicate(e)
  \/ ReadEffectTime(e) \/ (\E r \in Result : EffectReturns(e, r))
  \/ EffectRaises(e) \/ EncodeRejected(e) \/ StoreRaises(e) \/ Crash(e)

Marking(e) == MarkStarted(e) \/ MarkUnacknowledged(e)
Succeeding(e) == CommitSuccess(e) \/ SuccessUnacknowledged(e)
Failing(e) == CommitFailure(e) \/ CommitDayChanged(e)

\* Every step is of one of these groups.
LEMMA StepCases ==
  ASSUME [Next]_vars
  PROVE  \/ \E e \in Executor :
               \/ Private(e) \/ ReserveNew(e) \/ ReplayExact(e) \/ Marking(e)
               \/ BeginEffect(e) \/ Succeeding(e) \/ Failing(e)
         \/ Tick \/ UNCHANGED vars
BY DEF Next, Advance, Disturb, Private, Marking, Succeeding, Failing

-----------------------------------------------------------------------------
\* The first state satisfies the invariant.
LEMMA InitIInv == Init => IInv
<1> SUFFICES ASSUME Init PROVE IInv
  OBVIOUS
<1>1. TypeOK
  BY DEF Init, TypeOK, Status, PC
<1>2. RowShape /\ FrameShape
  BY DEF Init, RowShape, FrameShape
<1>3. SingleOwner /\ OwnerMatchesRow /\ RowTellsTruth
  BY DEF Init, SingleOwner, OwnerMatchesRow, RowTellsTruth, Owning
<1>4. AnswersAreDurable /\ EffectOnRequiredDay
  BY DEF Init, AnswersAreDurable, EffectOnRequiredDay
<1> QED
  BY <1>1, <1>2, <1>3, <1>4 DEF IInv

\* Where a key and an operation come from.
LEMMA CallTypes ==
  ASSUME TypeOK, FrameShape, NEW e \in Executor, pc[e] # "idle"
  PROVE  /\ Op(e) \in Operation
         /\ Key(e) \in Allowance
         /\ Op(e).allowance = Key(e)
         /\ Op(e) # None
BY NoneIsNoOperation DEF FrameShape, Call, Operation, Op, Key


\* Every step keeps the types.
LEMMA StepTypeOK ==
  ASSUME IInv, [Next]_vars PROVE TypeOK'
<1> USE DEF IInv, TypeOK, Goto, Leave, Holds, table, history, frame
<1>1. ASSUME NEW e \in Executor, Authorize(e) PROVE TypeOK'
  <2>1. clock + Validity \in Nat /\ Day(clock) \in Nat
    BY ConsumptionConstants DEF Day
  <2>2. call' \in [Executor -> Call \cup {None}]
    BY <1>1, <2>1 DEF Authorize, Request, Call
  <2> QED
    BY <1>1, <2>2 DEF Authorize, Request, PC
<1>2. ASSUME NEW e \in Executor,
          ReadReservationTime(e) \/ RefuseDuplicate(e) \/ ReadEffectTime(e)
    PROVE TypeOK'
  BY <1>2 DEF ReadReservationTime, RefuseDuplicate, ReadEffectTime, PC
<1>3. ASSUME NEW e \in Executor,
          EffectRaises(e) \/ EncodeRejected(e) \/ StoreRaises(e) \/ Crash(e)
    PROVE TypeOK'
  BY <1>3 DEF EffectRaises, EncodeRejected, StoreRaises, Crash, PC, Fault
<1>4. ASSUME NEW e \in Executor, NEW r \in Result, EffectReturns(e, r) PROVE TypeOK'
  BY <1>4 DEF EffectReturns, PC
<1>5. ASSUME NEW e \in Executor, ReserveNew(e) PROVE TypeOK'
  BY <1>5, CallTypes DEF ReserveNew, PC, Status
<1>6. ASSUME NEW e \in Executor, ReplayExact(e) PROVE TypeOK'
  BY <1>6, CallTypes DEF ReplayExact, PC, MayReplay
<1>7. ASSUME NEW e \in Executor, MarkStarted(e) PROVE TypeOK'
  BY <1>7, CallTypes DEF MarkStarted, PC, Status
<1>8. ASSUME NEW e \in Executor, MarkUnacknowledged(e) PROVE TypeOK'
  BY <1>8, CallTypes DEF MarkUnacknowledged, PC, Status, Fault
<1>9. ASSUME NEW e \in Executor, BeginEffect(e) PROVE TypeOK'
  BY <1>9, CallTypes DEF BeginEffect, PC
<1>10. ASSUME NEW e \in Executor, CommitSuccess(e) PROVE TypeOK'
  BY <1>10, CallTypes DEF CommitSuccess, PC, Status, FrameShape
<1>11. ASSUME NEW e \in Executor, SuccessUnacknowledged(e) PROVE TypeOK'
  BY <1>11, CallTypes DEF SuccessUnacknowledged, PC, Status, Fault, FrameShape
<1>12. ASSUME NEW e \in Executor, CommitFailure(e) PROVE TypeOK'
  BY <1>12, CallTypes DEF CommitFailure, PC, Status, Phase, FailFrom
<1>13. ASSUME NEW e \in Executor, CommitDayChanged(e) PROVE TypeOK'
  BY <1>13, CallTypes DEF CommitDayChanged, PC, Status, Phase
<1>14. CASE Tick \/ UNCHANGED vars
  BY <1>14 DEF Tick, vars
<1> QED
  BY <1>1, <1>2, <1>3, <1>4, <1>5, <1>6, <1>7, <1>8, <1>9, <1>10, <1>11, <1>12,
     <1>13, <1>14 DEF Next, Advance, Disturb

\* A row is claimed when it exists, and carries what its state requires.
LEMMA StepRowShape ==
  ASSUME IInv, [Next]_vars, TypeOK' PROVE RowShape'
<1> USE DEF IInv, TypeOK, Goto, Leave, Holds, table, history, frame, Op, Key,
        RowShape, RowTellsTruth, OwnerMatchesRow, Owning, Phase
<1>1. ASSUME NEW e \in Executor, Private(e) PROVE RowShape'
  BY <1>1, CallTypes DEF Private, Authorize, Request, ReadReservationTime,
     RefuseDuplicate, ReadEffectTime, EffectReturns, EffectRaises, EncodeRejected,
     StoreRaises, Crash
<1>2. ASSUME NEW e \in Executor, ReserveNew(e) PROVE RowShape'
  BY <1>2, CallTypes DEF ReserveNew
<1>3. ASSUME NEW e \in Executor, ReplayExact(e) PROVE RowShape'
  BY <1>3, CallTypes DEF ReplayExact, MayReplay
<1>4. ASSUME NEW e \in Executor, Marking(e) PROVE RowShape'
  BY <1>4, CallTypes DEF Marking, MarkStarted, MarkUnacknowledged
<1>5. ASSUME NEW e \in Executor, BeginEffect(e) PROVE RowShape'
  BY <1>5, CallTypes DEF BeginEffect
<1>6. ASSUME NEW e \in Executor, Succeeding(e) PROVE RowShape'
  BY <1>6, CallTypes DEF Succeeding, CommitSuccess, SuccessUnacknowledged, FrameShape
<1>7. ASSUME NEW e \in Executor, Failing(e) PROVE RowShape'
  BY <1>7, CallTypes DEF Failing, CommitFailure, FailFrom, CommitDayChanged
<1>8. CASE Tick \/ UNCHANGED vars
  BY <1>8 DEF Tick, vars
<1> QED
  BY <1>1, <1>2, <1>3, <1>4, <1>5, <1>6, <1>7, <1>8, StepCases

\* A running call has a frame, and a result once its effect returned one.
LEMMA StepFrameShape ==
  ASSUME IInv, [Next]_vars, TypeOK' PROVE FrameShape'
<1> USE DEF IInv, TypeOK, Goto, Leave, Holds, table, history, frame, Op, Key,
        FrameShape
<1>1. ASSUME NEW e \in Executor, Private(e) PROVE FrameShape'
  <2>1. CASE Authorize(e)
    <3>1. clock + Validity \in Nat /\ Day(clock) \in Nat
      BY ConsumptionConstants DEF Day
    <3>2. call'[e] \in Call
      BY <2>1, <3>1 DEF Authorize, Request, Call
    <3> QED
      BY <2>1, <3>2 DEF Authorize, Request
  <2>2. CASE ~Authorize(e)
    BY <1>1, <2>2 DEF Private, ReadReservationTime, RefuseDuplicate, ReadEffectTime,
       EffectReturns, EffectRaises, EncodeRejected, StoreRaises, Crash
  <2> QED
    BY <2>1, <2>2
<1>2. ASSUME NEW e \in Executor, ReserveNew(e) PROVE FrameShape'
  BY <1>2, CallTypes DEF ReserveNew
<1>3. ASSUME NEW e \in Executor, ReplayExact(e) PROVE FrameShape'
  BY <1>3, CallTypes DEF ReplayExact, MayReplay
<1>4. ASSUME NEW e \in Executor, Marking(e) PROVE FrameShape'
  BY <1>4, CallTypes DEF Marking, MarkStarted, MarkUnacknowledged
<1>5. ASSUME NEW e \in Executor, BeginEffect(e) PROVE FrameShape'
  BY <1>5, CallTypes DEF BeginEffect
<1>6. ASSUME NEW e \in Executor, Succeeding(e) PROVE FrameShape'
  BY <1>6, CallTypes DEF Succeeding, CommitSuccess, SuccessUnacknowledged
<1>7. ASSUME NEW e \in Executor, Failing(e) PROVE FrameShape'
  BY <1>7, CallTypes DEF Failing, CommitFailure, FailFrom, CommitDayChanged
<1>8. CASE Tick \/ UNCHANGED vars
  BY <1>8 DEF Tick, vars
<1> QED
  BY <1>1, <1>2, <1>3, <1>4, <1>5, <1>6, <1>7, <1>8, StepCases

\* No second owner appears: only the insert of a fresh key creates one.
LEMMA StepSingleOwner ==
  ASSUME IInv, [Next]_vars, TypeOK' PROVE SingleOwner'
<1> USE DEF IInv, TypeOK, Goto, Leave, Holds, table, history, frame, Op, Key,
        SingleOwner, OwnerMatchesRow, RowShape, Owning
<1>1. ASSUME NEW e \in Executor, Private(e) PROVE SingleOwner'
  BY <1>1, CallTypes DEF Private, Authorize, Request, ReadReservationTime,
     RefuseDuplicate, ReadEffectTime, EffectReturns, EffectRaises, EncodeRejected,
     StoreRaises, Crash
<1>2. ASSUME NEW e \in Executor, ReserveNew(e) PROVE SingleOwner'
  BY <1>2, CallTypes DEF ReserveNew
<1>3. ASSUME NEW e \in Executor, ReplayExact(e) PROVE SingleOwner'
  BY <1>3, CallTypes DEF ReplayExact, MayReplay
<1>4. ASSUME NEW e \in Executor, Marking(e) PROVE SingleOwner'
  BY <1>4, CallTypes DEF Marking, MarkStarted, MarkUnacknowledged
<1>5. ASSUME NEW e \in Executor, BeginEffect(e) PROVE SingleOwner'
  BY <1>5, CallTypes DEF BeginEffect
<1>6. ASSUME NEW e \in Executor, Succeeding(e) PROVE SingleOwner'
  BY <1>6, CallTypes DEF Succeeding, CommitSuccess, SuccessUnacknowledged
<1>7. ASSUME NEW e \in Executor, Failing(e) PROVE SingleOwner'
  BY <1>7, CallTypes DEF Failing, CommitFailure, FailFrom, CommitDayChanged
<1>8. CASE Tick \/ UNCHANGED vars
  BY <1>8 DEF Tick, vars
<1> QED
  BY <1>1, <1>2, <1>3, <1>4, <1>5, <1>6, <1>7, <1>8, StepCases

\* An owner's belief survives its own steps, and those of all others.
LEMMA StepOwnerMatchesRow ==
  ASSUME IInv, [Next]_vars, TypeOK' PROVE OwnerMatchesRow'
<1> USE DEF IInv, TypeOK, Goto, Leave, Holds, table, history, frame, Op, Key,
        OwnerMatchesRow, RowTellsTruth, RowShape, SingleOwner, Owning
<1>1. ASSUME NEW e \in Executor, Private(e) PROVE OwnerMatchesRow'
  BY <1>1, CallTypes DEF Private, Authorize, Request, ReadReservationTime,
     RefuseDuplicate, ReadEffectTime, EffectReturns, EffectRaises, EncodeRejected,
     StoreRaises, Crash
<1>2. ASSUME NEW e \in Executor, ReserveNew(e) PROVE OwnerMatchesRow'
  BY <1>2, CallTypes DEF ReserveNew
<1>3. ASSUME NEW e \in Executor, ReplayExact(e) PROVE OwnerMatchesRow'
  BY <1>3, CallTypes DEF ReplayExact, MayReplay
<1>4. ASSUME NEW e \in Executor, Marking(e) PROVE OwnerMatchesRow'
  BY <1>4, CallTypes DEF Marking, MarkStarted, MarkUnacknowledged
<1>5. ASSUME NEW e \in Executor, BeginEffect(e) PROVE OwnerMatchesRow'
  BY <1>5, CallTypes DEF BeginEffect
<1>6. ASSUME NEW e \in Executor, Succeeding(e) PROVE OwnerMatchesRow'
  BY <1>6, CallTypes DEF Succeeding, CommitSuccess, SuccessUnacknowledged
<1>7. ASSUME NEW e \in Executor, Failing(e) PROVE OwnerMatchesRow'
  BY <1>7, CallTypes DEF Failing, CommitFailure, FailFrom, CommitDayChanged
<1>8. CASE Tick \/ UNCHANGED vars
  BY <1>8 DEF Tick, vars
<1> QED
  BY <1>1, <1>2, <1>3, <1>4, <1>5, <1>6, <1>7, <1>8, StepCases

\* The row's claim about the effect stays true.
LEMMA StepRowTellsTruth ==
  ASSUME IInv, [Next]_vars, TypeOK' PROVE RowTellsTruth'
<1> USE DEF IInv, TypeOK, Goto, Leave, Holds, table, history, frame, Op, Key,
        RowTellsTruth, RowShape, OwnerMatchesRow, Owning
<1>1. ASSUME NEW e \in Executor, Private(e) PROVE RowTellsTruth'
  BY <1>1, CallTypes DEF Private, Authorize, Request, ReadReservationTime,
     RefuseDuplicate, ReadEffectTime, EffectReturns, EffectRaises, EncodeRejected,
     StoreRaises, Crash
<1>2. ASSUME NEW e \in Executor, ReserveNew(e) PROVE RowTellsTruth'
  BY <1>2, CallTypes DEF ReserveNew
<1>3. ASSUME NEW e \in Executor, ReplayExact(e) PROVE RowTellsTruth'
  BY <1>3, CallTypes DEF ReplayExact, MayReplay
<1>4. ASSUME NEW e \in Executor, Marking(e) PROVE RowTellsTruth'
  BY <1>4, CallTypes DEF Marking, MarkStarted, MarkUnacknowledged
<1>5. ASSUME NEW e \in Executor, BeginEffect(e) PROVE RowTellsTruth'
  BY <1>5, CallTypes DEF BeginEffect
<1>6. ASSUME NEW e \in Executor, Succeeding(e) PROVE RowTellsTruth'
  BY <1>6, CallTypes DEF Succeeding, CommitSuccess, SuccessUnacknowledged
<1>7. ASSUME NEW e \in Executor, Failing(e) PROVE RowTellsTruth'
  BY <1>7, CallTypes DEF Failing, CommitFailure, FailFrom, CommitDayChanged
<1>8. CASE Tick \/ UNCHANGED vars
  BY <1>8 DEF Tick, vars
<1> QED
  BY <1>1, <1>2, <1>3, <1>4, <1>5, <1>6, <1>7, <1>8, StepCases

\* Rows behind an answer are terminal, so no step can take the answer back.
LEMMA StepAnswersAreDurable ==
  ASSUME IInv, [Next]_vars, TypeOK' PROVE AnswersAreDurable'
<1> USE DEF IInv, TypeOK, Goto, Leave, Holds, table, history, frame, Op, Key,
        AnswersAreDurable, OwnerMatchesRow, Owning, Operation
<1>1. ASSUME NEW e \in Executor, Private(e) PROVE AnswersAreDurable'
  BY <1>1, CallTypes DEF Private, Authorize, Request, ReadReservationTime,
     RefuseDuplicate, ReadEffectTime, EffectReturns, EffectRaises, EncodeRejected,
     StoreRaises, Crash
<1>2. ASSUME NEW e \in Executor, ReserveNew(e) PROVE AnswersAreDurable'
  BY <1>2, CallTypes DEF ReserveNew
<1>3. ASSUME NEW e \in Executor, ReplayExact(e) PROVE AnswersAreDurable'
  BY <1>3, CallTypes DEF ReplayExact, MayReplay
<1>4. ASSUME NEW e \in Executor, Marking(e) PROVE AnswersAreDurable'
  BY <1>4, CallTypes DEF Marking, MarkStarted, MarkUnacknowledged
<1>5. ASSUME NEW e \in Executor, BeginEffect(e) PROVE AnswersAreDurable'
  BY <1>5, CallTypes DEF BeginEffect
<1>6. ASSUME NEW e \in Executor, Succeeding(e) PROVE AnswersAreDurable'
  BY <1>6, CallTypes DEF Succeeding, CommitSuccess, SuccessUnacknowledged
<1>7. ASSUME NEW e \in Executor, Failing(e) PROVE AnswersAreDurable'
  BY <1>7, CallTypes DEF Failing, CommitFailure, FailFrom, CommitDayChanged
<1>8. CASE Tick \/ UNCHANGED vars
  BY <1>8 DEF Tick, vars
<1> QED
  BY <1>1, <1>2, <1>3, <1>4, <1>5, <1>6, <1>7, <1>8, StepCases

\* Midnight cannot slip between the second check and the effect.
LEMMA StepEffectOnRequiredDay ==
  ASSUME IInv, [Next]_vars, TypeOK' PROVE EffectOnRequiredDay'
<1> USE DEF IInv, TypeOK, Goto, Leave, Holds, table, history, frame, Op, Key,
        EffectOnRequiredDay
<1>1. ASSUME NEW e \in Executor, Private(e) PROVE EffectOnRequiredDay'
  BY <1>1, CallTypes DEF Private, Authorize, Request, ReadReservationTime,
     RefuseDuplicate, ReadEffectTime, EffectReturns, EffectRaises, EncodeRejected,
     StoreRaises, Crash
<1>2. ASSUME NEW e \in Executor, ReserveNew(e) PROVE EffectOnRequiredDay'
  BY <1>2, CallTypes DEF ReserveNew
<1>3. ASSUME NEW e \in Executor, ReplayExact(e) PROVE EffectOnRequiredDay'
  BY <1>3, CallTypes DEF ReplayExact, MayReplay
<1>4. ASSUME NEW e \in Executor, Marking(e) PROVE EffectOnRequiredDay'
  BY <1>4, CallTypes DEF Marking, MarkStarted, MarkUnacknowledged
<1>5. ASSUME NEW e \in Executor, BeginEffect(e) PROVE EffectOnRequiredDay'
  BY <1>5, CallTypes DEF BeginEffect
<1>6. ASSUME NEW e \in Executor, Succeeding(e) PROVE EffectOnRequiredDay'
  BY <1>6, CallTypes DEF Succeeding, CommitSuccess, SuccessUnacknowledged
<1>7. ASSUME NEW e \in Executor, Failing(e) PROVE EffectOnRequiredDay'
  BY <1>7, CallTypes DEF Failing, CommitFailure, FailFrom, CommitDayChanged
<1>8. CASE Tick \/ UNCHANGED vars
  BY <1>8 DEF Tick, vars
<1> QED
  BY <1>1, <1>2, <1>3, <1>4, <1>5, <1>6, <1>7, <1>8, StepCases

-----------------------------------------------------------------------------
(* The theorems.                                                           *)

\* The strengthened invariant holds in every reachable state.
THEOREM Inductive == Spec => []IInv
<1>1. Init => IInv
  BY InitIInv
<1>2. IInv /\ [Next]_vars => IInv'
  <2> SUFFICES ASSUME IInv, [Next]_vars PROVE IInv'
    OBVIOUS
  <2>1. TypeOK'
    BY StepTypeOK
  <2> QED
    BY <2>1, StepRowShape, StepFrameShape, StepSingleOwner, StepOwnerMatchesRow,
       StepRowTellsTruth, StepAnswersAreDurable, StepEffectOnRequiredDay
    DEF IInv
<1> QED
  BY <1>1, <1>2, PTL DEF Spec

\* The tables and frames have the types the code declares for them.
THEOREM TypeCorrect == Spec => []TypeOK
<1>1. IInv => TypeOK
  BY DEF IInv
<1> QED
  BY <1>1, Inductive, PTL

\* However many processes retry, crash or lose the store, the effect of a
\* reservation key is invoked at most once.
THEOREM EffectAtMostOnce == Spec => []AtMostOnce
<1>1. IInv => AtMostOnce
  <2> SUFFICES ASSUME IInv, NEW a \in Allowance PROVE runs[a] <= 1
    BY DEF AtMostOnce
  <2>1. runs[a] \in {0, 1}
    BY DEF IInv, TypeOK, Status, RowShape, RowTellsTruth, Phase
  <2> QED
    BY <2>1
<1> QED
  BY <1>1, Inductive, PTL

\* The retained row never misstates whether the effect was invoked.
THEOREM RowIsTruthful == Spec => []RowTellsTruth
<1>1. IInv => RowTellsTruth
  BY DEF IInv
<1> QED
  BY <1>1, Inductive, PTL

\* Every result a caller was given is the durable outcome of its operation.
THEOREM AnswersDurable == Spec => []AnswersAreDurable
<1>1. IInv => AnswersAreDurable
  BY DEF IInv
<1> QED
  BY <1>1, Inductive, PTL

\* One live owner per key, whose belief the row confirms.
THEOREM OwnersAgree == Spec => [](SingleOwner /\ OwnerMatchesRow)
<1>1. IInv => SingleOwner /\ OwnerMatchesRow
  BY DEF IInv
<1> QED
  BY <1>1, Inductive, PTL

\* No effect starts on another UTC day than its allowance names.
THEOREM EffectsOnTheirDay == Spec => []EffectOnRequiredDay
<1>1. IInv => EffectOnRequiredDay
  BY DEF IInv
<1> QED
  BY <1>1, Inductive, PTL

\* A row never moves back, never changes hands, and is final once terminal.
THEOREM RowsAreFinal == Spec => RowsOnlyAdvance
<1>1. IInv /\ [Next]_vars =>
        [\A a \in Allowance :
           /\ rowOp[a] # None => rowOp'[a] = rowOp[a]
           /\ Rank(status[a]) <= Rank(status'[a])
           /\ status[a] \in {"succeeded", "failed"} =>
                /\ status'[a] = status[a]
                /\ rowResult'[a] = rowResult[a]
                /\ rowPhase'[a] = rowPhase[a]]_vars
  <2> SUFFICES ASSUME IInv, [Next]_vars, NEW a \in Allowance
               PROVE  /\ rowOp[a] # None => rowOp'[a] = rowOp[a]
                      /\ Rank(status[a]) <= Rank(status'[a])
                      /\ status[a] \in {"succeeded", "failed"} =>
                           /\ status'[a] = status[a]
                           /\ rowResult'[a] = rowResult[a]
                           /\ rowPhase'[a] = rowPhase[a]
    OBVIOUS
  <2> USE DEF IInv, TypeOK, RowShape, OwnerMatchesRow, Owning, Rank, Status,
              Goto, Leave, Holds, table, history, frame, Op, Key
  <2>1. CASE \E e \in Executor : Private(e)
    BY <2>1 DEF Private, Authorize, Request, ReadReservationTime, RefuseDuplicate,
       ReadEffectTime, EffectReturns, EffectRaises, EncodeRejected, StoreRaises, Crash
  <2>2. CASE \E e \in Executor : ReserveNew(e)
    BY <2>2, CallTypes DEF ReserveNew
  <2>3. CASE \E e \in Executor : ReplayExact(e) \/ BeginEffect(e)
    BY <2>3 DEF ReplayExact, BeginEffect
  <2>4. CASE \E e \in Executor : Marking(e)
    BY <2>4, CallTypes DEF Marking, MarkStarted, MarkUnacknowledged
  <2>5. CASE \E e \in Executor : Succeeding(e)
    BY <2>5, CallTypes DEF Succeeding, CommitSuccess, SuccessUnacknowledged
  <2>6. CASE \E e \in Executor : Failing(e)
    BY <2>6, CallTypes DEF Failing, CommitFailure, FailFrom, CommitDayChanged
  <2>7. CASE Tick \/ UNCHANGED vars
    BY <2>7 DEF Tick, vars
  <2> QED
    BY <2>1, <2>2, <2>3, <2>4, <2>5, <2>6, <2>7, StepCases
<1> QED
  BY <1>1, Inductive, PTL DEF Spec, RowsOnlyAdvance

-----------------------------------------------------------------------------
(* Refinement.                                                             *)

\* Each step claims, invokes, publishes, closes or answers, or is invisible.
LEMMA StepRefines ==
  ASSUME IInv, [Next]_vars PROVE [Once!Next]_(Once!vars)
<1> USE DEF IInv, TypeOK, RowShape, Outcome, Goto, Leave, Holds, table, history,
            frame, Once!vars
<1>1. ASSUME NEW e \in Executor, Private(e) PROVE UNCHANGED Once!vars
  BY <1>1 DEF Private, Authorize, Request, ReadReservationTime, RefuseDuplicate,
     ReadEffectTime, EffectReturns, EffectRaises, EncodeRejected, StoreRaises, Crash
<1>2. ASSUME NEW e \in Executor, ReserveNew(e) PROVE Once!Claim(Key(e), Op(e))
  BY <1>2, CallTypes DEF ReserveNew, Once!Claim
<1>3. ASSUME NEW e \in Executor, ReplayExact(e) PROVE Once!Answer(Key(e))
  BY <1>3, CallTypes DEF ReplayExact, MayReplay, Once!Answer
<1>4. ASSUME NEW e \in Executor, Marking(e) PROVE UNCHANGED Once!vars
  BY <1>4, CallTypes DEF Marking, MarkStarted, MarkUnacknowledged
<1>5. ASSUME NEW e \in Executor, BeginEffect(e) PROVE Once!Invoke(Key(e))
  <2>1. Key(e) \in Allowance /\ Op(e) # None
    BY <1>5, CallTypes DEF BeginEffect
  <2>2. rowOp[Key(e)] = Op(e) /\ status[Key(e)] = "in_progress" /\ runs[Key(e)] = 0
    BY <1>5 DEF BeginEffect, OwnerMatchesRow, Owning
  <2>3. runs' = [runs EXCEPT ![Key(e)] = 1]
    BY <1>5, <2>1, <2>2 DEF BeginEffect
  <2> QED
    BY <1>5, <2>1, <2>2, <2>3 DEF BeginEffect, Once!Invoke
<1>6. ASSUME NEW e \in Executor, Succeeding(e)
      PROVE  Once!Publish(Key(e), held[e]) \/ UNCHANGED Once!vars
  BY <1>6, CallTypes DEF Succeeding, CommitSuccess, SuccessUnacknowledged,
     OwnerMatchesRow, Owning, Op, Key, Once!Publish
<1>7. ASSUME NEW e \in Executor, Failing(e)
      PROVE  Once!Close(Key(e)) \/ UNCHANGED Once!vars
  BY <1>7, CallTypes DEF Failing, CommitFailure, FailFrom, CommitDayChanged, Once!Close
<1>8. CASE Tick \/ UNCHANGED vars
  BY <1>8 DEF Tick, vars
<1> HIDE DEF Once!vars, Outcome
<1>9. ASSUME NEW e \in Executor, ReserveNew(e) PROVE Once!Next
  BY <1>2, <1>9, CallTypes DEF ReserveNew, Once!Next
<1>10. ASSUME NEW e \in Executor, ReplayExact(e) \/ BeginEffect(e) PROVE Once!Next
  BY <1>3, <1>5, <1>10, CallTypes DEF ReplayExact, BeginEffect, Once!Next
<1>11. ASSUME NEW e \in Executor, Succeeding(e)
       PROVE  Once!Next \/ UNCHANGED Once!vars
  <2>1. Key(e) \in Allowance /\ held[e] \in Result
    BY <1>11, CallTypes DEF Succeeding, CommitSuccess, SuccessUnacknowledged, FrameShape
  <2>2. Once!Publish(Key(e), held[e]) => Once!Next
    BY <2>1 DEF Once!Next
  <2> QED
    BY <1>6, <1>11, <2>2
<1>12. ASSUME NEW e \in Executor, Failing(e)
       PROVE  Once!Next \/ UNCHANGED Once!vars
  <2>1. Key(e) \in Allowance
    BY <1>12, CallTypes DEF Failing, CommitFailure, CommitDayChanged
  <2>2. Once!Close(Key(e)) => Once!Next
    BY <2>1 DEF Once!Next
  <2> QED
    BY <1>7, <1>12, <2>2
<1> QED
  BY <1>1, <1>4, <1>8, <1>9, <1>10, <1>11, <1>12, StepCases

\* The boundary, faults and all, implements the one-shot promise.
THEOREM Refinement == Spec => ImplementsEffectOnce
<1>1. Init => Once!Init
  BY DEF Init, Once!Init, Outcome
<1>2. IInv /\ [Next]_vars => [Once!Next]_(Once!vars)
  BY StepRefines
<1> QED
  BY <1>1, <1>2, Inductive, PTL DEF Spec, ImplementsEffectOnce, Once!Spec
=============================================================================
