SPECIFICATION Spec
CONSTANTS
  s1 = s1
  s2 = s2
  s3 = s3
  j1 = j1
  j2 = j2
  j3 = j3
  None = None
  Occurrences <- CronTimes
  Schedules = {s1, s2}
  Jobs = {j1, j2}
  JobOf <- SharedJob
  Def <- CronAndInterval
  InitRows <- Planned
  QueueCapacity = 2
  CheckInterval = 1
  MaxTime = 4
  MaxDbErrors = 0
  MaxRestarts = 0
  MaxEdits = 0
  MaxManual = 0
PROPERTIES TrackedPerSchedule
