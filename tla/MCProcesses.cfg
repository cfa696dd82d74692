CONSTANTS
  Threads = {a, b}
  NoThread = NoThread
  Askers = {a, b}
  MaxCalls = 2
  BatchCapacity = 2
  PublishBatch = 2
  QueueCapacity = 3
  MaxAttempts = 0
  Timeouts = TRUE
  MaxCommands = 3
  Machines <- MCMachines
  ModulePath <- MCModulePath
  CommandLines <- MCCommandLines
  Directories = {"folder"}
  MaxLoads = 2
SPECIFICATION MCFairSpec
INVARIANTS NoCommandOverlaps ThreadOrder OwnAnswer CleanMeansDone NothingLeftBehind
PROPERTIES CallsReturn ProcessesFollow StartAndStopEnd
CHECK_DEADLOCK FALSE
