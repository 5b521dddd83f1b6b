SPECIFICATION Spec
CONSTANTS
  s1 = s1
  j1 = j1
  d1 = d1
  e1 = e1
  e2 = e2
  None = None
  Schedules = {s1}
  Jobs = {j1}
  JobOf <- ScheduledJob
  Def <- EveryUnit
  InitRows <- Planned
  Occurrences <- NoCron
  CheckInterval = 1
  Execs = {e1, e2}
  Devices = {d1}
  DeviceOf <- OneDevice
  MaxConcurrent = 1
  QueueCapacity = 1
  MaxTime = 1
  MaxRestarts = 1
  MaxEdits = 0
  MaxSchedulerErrors = 0
  MaxExecutorErrors = 0
  MaxDisturbances = 1
INVARIANTS RecordedRunExecuted
