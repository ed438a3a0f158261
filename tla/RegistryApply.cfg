CONSTANTS
  v0 = v0
  v1 = v1
  v2 = v2
  other = other
  first = first
  second = second
  Process = {first, second}
  f = f
  g = g
  h = h
  File = {f, g, h}
  Version = {v0, v1, v2}
  Apply <- MCApply
  Offered <- MCOffered
  Rank <- MCRank
  Foreign = {v0, other}
  MaxEdits = 1
  None = None
SYMMETRY Symmetry
SPECIFICATION Spec
INVARIANTS AuditFollowsTarget OriginalSurvives PendingIsCompletable ReportedIsDurable LocksResolve
CHECK_DEADLOCK FALSE
