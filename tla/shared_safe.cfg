CONSTANTS
  Threads = {t1, t2}
  Workers = {w1, w2, w3}
  NoWorker = NoWorker
  MaxEntrances = 4
SPECIFICATION Spec
INVARIANTS TypeOK WorkerHeldOnce NoWorkerLost
PROPERTY StatisticsReturns
CHECK_DEADLOCK FALSE
