SPECIFICATION Spec
CONSTANTS
  Operator = {o1, o2}
  Actor = {"a1", "a2"}
  Reason = {r1}
  Wishes <- MCWishes
  Package = {"hold", "monitor", "review_required", "ready"}
  MaxEvents = 3
  MaxFaults = 1
  None = None
SYMMETRY Symmetry
INVARIANTS HistoryIsLawful AllowanceMovesOnce DatabasesAgree LimitedStaysInert
CHECK_DEADLOCK FALSE
