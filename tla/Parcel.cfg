CONSTANTS
  first = first
  second = second
  Snapshots = {s}
  Probes = {first, second}
  Workloads <- MCWorkloads
  Nil = Nil
  PageSize = 2
  CheckpointAfter = 1
  InjectAt = 1
  MaxAttempts = 2
  FailureKinds = {"transport"}
SYMMETRY Symmetry
SPECIFICATION RehearsalSpec
INVARIANTS SteadyLayersPass ListMissesOnlyDeleted VerdictIsFinal VerifiedIsReconciled
CHECK_DEADLOCK FALSE
