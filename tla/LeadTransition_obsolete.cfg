SPECIFICATION Spec
CONSTANTS
  Operator = {o1, o2}
  Actor = {"a1", "a2"}
  Reason = {r1}
  Wishes <- MCAwayAndBack
  Package = {"hold", "monitor", "review_required", "ready"}
  MaxEvents = 3
  MaxFaults = 0
  None = None
INVARIANT AppliedAsReviewed
CHECK_DEADLOCK FALSE
