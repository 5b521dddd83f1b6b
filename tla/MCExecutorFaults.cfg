SPECIFICATION Spec
CONSTANTS
  d1 = d1
  d2 = d2
  j1 = j1
  j2 = j2
  e1 = e1
  e2 = e2
  e3 = e3
  None = None
  Execs = {e1, e2, e3}
  Jobs = {j1, j2}
  Devices = {d1}
  DeviceOf <- OneDevice
  Triggers = {"schedule"}
  MaxConcurrent = 1
  QueueCapacity = 2
  MaxDbErrors = 1
  MaxRestarts = 1
SYMMETRY Symmetry
INVARIANTS TypeOK EntryNamesActiveJob SuccessHasSnapshot OpenRowExplained
PROPERTIES HistorySpec SkipJustified
