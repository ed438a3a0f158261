SPECIFICATION Spec
CONSTANTS
  home = home
  f1 = f1
  f2 = f2
  cli = cli
  timer = timer
  Folder = {home, f1, f2}
  Startup = home
  Scheduled = {timer}
  Manual = {cli}
  Worker = worker
  Workloads <- MCDenied
  None = None
PROPERTY DenialStopsSchedule
CHECK_DEADLOCK FALSE
