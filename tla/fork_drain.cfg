CONSTANT NumWorkers = 2
SPECIFICATION Spec
PROPERTY FaultyWorkerEnds
CHECK_DEADLOCK FALSE
