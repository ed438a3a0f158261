SPECIFICATION Spec
CONSTANTS
  i1 = i1
  i2 = i2
  r1 = r1
  r2 = r2
  Importer = {i1, i2}
  Request = {r1, r2}
  Key = {"k1", "k2"}
  Column = {"title", "posted"}
  Value = {0, 1}
  Plans <- MCPlans
  Workloads <- MCWorkloads
  MaxEvents = 4
  MaxClock = 1
  None = None
SYMMETRY Symmetry
INVARIANT HistoryExplainsRecord
PROPERTY OnlyOvertakenDisagree
CHECK_DEADLOCK FALSE
