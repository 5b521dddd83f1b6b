SPECIFICATION FairSpec
CONSTANTS
  s1 = s1
  j1 = j1
  d1 = d1
  e1 = e1
  e2 = e2
  None = None
  Schedules = {s1}
  Jobs = {j1}
  JobOf <- ScheduledJob
  Def <- EveryUnit
  InitRows <- NewOrPlanned
  Occurrences <- NoCron
  CheckInterval = 1
  Execs = {e1, e2}
  Devices = {d1}
  DeviceOf <- OneDevice
  MaxConcurrent = 1
  QueueCapacity = 1
  MaxTime = 2
  MaxRestarts = 1
  MaxEdits = 1
  MaxSchedulerErrors = 1
  MaxExecutorErrors = 1
  MaxDisturbances = 1
INVARIANTS RecordedRunRequested
PROPERTIES DueRunReachesSlot SchedulerSpec ExecutorSpec
