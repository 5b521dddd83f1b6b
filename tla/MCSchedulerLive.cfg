SPECIFICATION FairSpec
CONSTANTS
  s1 = s1
  s2 = s2
  s3 = s3
  j1 = j1
  j2 = j2
  j3 = j3
  None = None
  Occurrences <- CronTimes
  Schedules = {s1, s2, s3}
  Jobs = {j1, j2, j3}
  JobOf <- JobsOfThree
  Def <- OneBadRow
  InitRows <- NewOrPlanned
  QueueCapacity = 1
  CheckInterval = 2
  MaxTime = 5
  MaxDbErrors = 1
  MaxRestarts = 1
  MaxEdits = 0
  MaxManual = 0
PROPERTIES MissedRunCaughtUp
