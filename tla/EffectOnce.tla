----------------------------- MODULE EffectOnce -----------------------------
(***************************************************************************)
(* What the one-shot boundary promises, with no processes, clock, faults   *)
(* or recovery in sight: an allowance is claimed for one operation for     *)
(* ever; the operation's effect is invoked at most once, while its outcome *)
(* is open; the outcome is then published or closed, once; and a caller    *)
(* is only ever given the published result of the operation it asked for.  *)
(***************************************************************************)
EXTENDS Naturals

CONSTANTS Allowance, Operation, Result, None

VARIABLES
  claim,    \* the operation an allowance is spent on, None if unspent
  runs,     \* how often that operation's effect was invoked
  outcome,  \* "open", "closed" (no result, ever), or "published"
  result,   \* the published result
  answers   \* <<operation, result>> pairs given to callers

vars == <<claim, runs, outcome, result, answers>>

Init ==
  /\ claim = [a \in Allowance |-> None]
  /\ runs = [a \in Allowance |-> 0]
  /\ outcome = [a \in Allowance |-> "open"]
  /\ result = [a \in Allowance |-> None]
  /\ answers = {}

Claim(a, o) ==
  /\ claim[a] = None
  /\ claim' = [claim EXCEPT ![a] = o]
  /\ UNCHANGED <<runs, outcome, result, answers>>

Invoke(a) ==
  /\ claim[a] # None /\ runs[a] = 0 /\ outcome[a] = "open"
  /\ runs' = [runs EXCEPT ![a] = 1]
  /\ UNCHANGED <<claim, outcome, result, answers>>

Close(a) ==
  /\ claim[a] # None /\ outcome[a] = "open"
  /\ outcome' = [outcome EXCEPT ![a] = "closed"]
  /\ UNCHANGED <<claim, runs, result, answers>>

\* The claimant may learn the result as it is published, or may not.
Publish(a, r) ==
  /\ runs[a] = 1 /\ outcome[a] = "open"
  /\ outcome' = [outcome EXCEPT ![a] = "published"]
  /\ result' = [result EXCEPT ![a] = r]
  /\ answers' \in {answers, answers \cup {[op |-> claim[a], result |-> r]}}
  /\ UNCHANGED <<claim, runs>>

Answer(a) ==
  /\ outcome[a] = "published"
  /\ answers' = answers \cup {[op |-> claim[a], result |-> result[a]]}
  /\ UNCHANGED <<claim, runs, outcome, result>>

Next ==
  \E a \in Allowance :
    \/ \E o \in Operation : Claim(a, o)
    \/ Invoke(a) \/ Close(a) \/ Answer(a)
    \/ \E r \in Result : Publish(a, r)

Spec == Init /\ [][Next]_vars
=============================================================================
