SPECIFICATION NodeFairSpec
CONSTANTS
  Updaters = {u1, u2}
  Alone = TRUE
  MaxVersion = 3
  MaxRuns = 4
  MaxDeaths = 2
  MaxEdits = 3
  MaxFaults = 3
  Installers = {i1}
  Removers = {m1}
  Order <- InstalledStack
  SaveFails = FALSE
  MaxCopies = 3
  MaxInstalls = 3
  MaxSetbacks = 1
  MaxRemovals = 1
  Quick = {1, 2}
  Sync = {1, 2}
  LookFails = FALSE
  UndoFails = FALSE
  MaxChanges = 3
  MaxMishaps = 2
  MaxCommit = 2
  MaxCalls = 2
  MaxHandEdits = 1
  MaxFailures = 2
  Daemon = {"d1"}
  Cli = {"k1"}
  Watching = TRUE
  HandBreaks = FALSE
  MaxFileChanges = 2
  MaxRebuilds = 1
  MaxKills = 1
  Requests = {r1, r2}
  MaxAccess = 1
  OneAtATime = TRUE
  MaxTokens = 4
  MaxFails = 2
  MaxCrashes = 1
  Tasks = {t1, t2}
  Parts <- AppParts
  Targets <- BothStorages
  Filters = {{1, 2}}
  Keeps = {1}
  MaxSecond = 2
  MaxAppChanges = 1
  MaxBackupCalls = 2
  MaxLosses = 1
  Clients = {c1, c2}
  Capacity = 1
  ReplayLimit = 1
  Size <- ChunkSizes
  StdinCapacity = 1
  PipeCapacity = 1
  MaxChunks = 2
  MaxSessions = 2
  MaxJoins = 2
  MaxInputs = 1
  Procs = {p1, p2}
  Shell = sh
  MaxOut = 2
INVARIANTS
  NoLockout
  TimeoutKillsTheGroup
  RestoredIsSnapshot
  ExactlyOnce
  
  TunnelsGoByTheirFiles
  
PROPERTIES
  EndsWhenWellBehaved
  NeverOlder
  CatchesUp
  BackupsAreKept
  UpdatesAreSafe
  
  ConsoleMoves
  RotationSettles
CHECK_DEADLOCK FALSE
