CONSTANTS
  Tasks = {t1, t2}
  Workers = {w1, w2}
  NoWorker = NoWorker
  TotalTokens = 2
  MaxEntrances = 3
SPECIFICATION SafeSpec
INVARIANT ShutdownStopsAll
CHECK_DEADLOCK FALSE
