CONSTANTS
  Threads = {a, b}
  NoThread = NoThread
  Askers = {a, b}
  MaxCalls = 1
  BatchCapacity = 1
  PublishBatch = 2
  QueueCapacity = 3
  MaxAttempts = 2
  Timeouts = FALSE
SPECIFICATION Spec
INVARIANT NoAnswerAbandoned
CHECK_DEADLOCK FALSE
