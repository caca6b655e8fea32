CONSTANTS
  Tasks = {t1, t2}
  Workers = {w1, w2, w3}
  NoWorker = NoWorker
  TotalTokens = 2
  MaxEntrances = 3
SPECIFICATION Spec
INVARIANTS TypeOK WorkerHeldOnce NoWorkerLost WorkersBounded RunningExact ShutdownIsExclusive WokenOnce ClosedIsStopped
PROPERTIES CancelledLeaves CloseCompletes
CHECK_DEADLOCK FALSE
