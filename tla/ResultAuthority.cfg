SPECIFICATION Spec
CONSTANTS
  Operator = {o1, o2}
  Actor = {"a1", "a2"}
  Status = {"won", "lost"}
  Terms = {"t1"}
  Reason = {"r1", "r2"}
  Asks <- MCAsks
  MaxLegacy = 1
  MaxRevision = 2
  None = None
SYMMETRY Symmetry
INVARIANTS ChainIsLinear AuditNeverFails ReportsAreRevisions
PROPERTIES SnapshotsAreWhole ImplementsRevisionLog
CHECK_DEADLOCK FALSE
