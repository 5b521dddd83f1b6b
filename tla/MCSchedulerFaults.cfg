SPECIFICATION Spec
CONSTANTS
  s1 = s1
  s2 = s2
  s3 = s3
  j1 = j1
  j2 = j2
  j3 = j3
  None = None
  Occurrences <- CronTimes
  Schedules = {s1, s2}
  Jobs = {j1, j2}
  JobOf <- OneJobEach
  Def <- CronAndInterval
  InitRows <- NewOrPlanned
  QueueCapacity = 1
  CheckInterval = 1
  MaxTime = 4
  MaxDbErrors = 1
  MaxRestarts = 1
  MaxEdits = 1
  MaxManual = 1
INVARIANTS TypeOK RecordedRunNotRepeated DatabaseAgrees MissedRunsCounted
PROPERTIES DueTimeAdvancesBySend TriggerSpec
