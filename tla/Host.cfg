SPECIFICATION HostSpec
CONSTANTS
  Ids = {j1}
  Triggers <- EveryMinute
  MaxMinute = 1
  MaxBack = 1
  MaxEdits = 1
  MaxRuns = 3
  MaxHistory = 2
  MaxDeaths = 1
  MaxFails = 1
  MinutesPerHour = 2
  HoursPerDay = 3
  DaysPerWeek = 2
  DaysPerMonth = 3
  MonthsPerYear = 2
  Shift = 23
  Offset = 3
  Jump <- SetBack
  Start = 10
  Finish = 46
  Ops = {1, 2}
  MaxPid = 2
  MaxProcessCalls = 3
  MaxExits = 1
  MaxDowns = 1
  MaxProcessFails = 1
  Askers = {1, 2}
  Apps = {"id", "uuid"}
  MaxAsks = 2
  MaxAskFails = 1
  Names = {"a", "b"}
  Calls = {c1, c2}
  UploadSize = 2
  ChunkSlots = 1
  MaxFileCalls = 3
  MaxFileFails = 1
INVARIANTS
  RunningIsExact
  OncePerMinute
  OpenRunsAreAlive
  NextIsFirst
  ProcessIsKnown
  CredentialsServe
  FilesAreKept
CHECK_DEADLOCK FALSE
