SPECIFICATION FairSpec
CONSTANTS
  d1 = d1
  d2 = d2
  j1 = j1
  j2 = j2
  e1 = e1
  e2 = e2
  e3 = e3
  None = None
  Execs = {e1, e2}
  Jobs = {j1, j2}
  Devices = {d1, d2}
  DeviceOf <- TwoDevices
  Triggers = {"schedule"}
  MaxConcurrent = 1
  QueueCapacity = 2
  MaxDbErrors = 1
  MaxRestarts = 1
PROPERTIES EveryTaskEnds SlotEventuallyFree SkipJustified
