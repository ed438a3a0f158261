CONSTANTS
  p1 = p1
  p2 = p2
  c1 = c1
  c2 = c2
  Publishers = {p1, p2}
  CreateOnly = {once}
  Replaceable = {again}
  Contents = {c1, c2}
  MaxFiles = 3
  Nothing = Nothing
  Torn = Torn
  App = {"a1", "a2"}
  Wdid = {"w1", "w2"}
  Content = {"x", "y"}
  None = None
  Facility = {"f1", "f2"}
  Published <- MCPublished
  Rosters <- MCRosters
  RunId = {r1, r2}
  Sweeper = {p, q}
  Lister = {l}
  Budgets = {1, 2}
  MaxObservations = 3
  MaxChanges = 1
SYMMETRY Symmetry
SPECIFICATION EvidenceSpec
INVARIANTS NamesAreWhole ToldIsKept JournalIsSound CheckpointHasEvidence
PROPERTY StepsAreFinal
CHECK_DEADLOCK FALSE
