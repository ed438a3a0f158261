SPECIFICATION FairSpec
CONSTANTS
  home = home
  f1 = f1
  f2 = f2
  cli = cli
  timer = timer
  Folder = {home, f1, f2}
  Startup = home
  Scheduled = {timer}
  Manual = {cli}
  Worker = worker
  Workloads <- MCWorkloads
  None = None
INVARIANTS PublishedIsNewest LocksHaveOwners AcknowledgedIsKept
PROPERTIES OutcomesAreFinal HandlersEnd
CHECK_DEADLOCK FALSE
