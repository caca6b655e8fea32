CONSTANTS
  Threads = {t1, t2}
  Workers = {w1, w2}
  NoWorker = NoWorker
  MaxEntrances = 2
SPECIFICATION Spec
PROPERTY EventuallyConsistent
CHECK_DEADLOCK FALSE
