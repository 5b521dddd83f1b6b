\* The start of the client beside another one, while the database is edited.
SPECIFICATION FairSpec
CONSTANTS
  None = None
  service = service
  test = test
  jobA = jobA
  jobB = jobB
  here = here
  there = there
  Procs = {service, test}
  TestBackup <- TestOfJobA
  Files <- LocalFiles
  Devices = {here, there}
  This = here
  Jobs = {jobA, jobB}
  DeviceOf <- OneEach
  Rows <- RowOf
  Flags <- ResticFlags
  ValueOptions <- ResticOptions
  InitSettings <- InUse
  Edits <- EditedRows
  MaxEdits = 1
  MaxRuns = 2
INVARIANTS
  TypeOK
  ExitZeroMeansBackup
  PrintedOwnOrLater
  CommandMatchesRow
PROPERTIES
  OwnSettingWins
  HistorySpec
  EveryStartDecides
