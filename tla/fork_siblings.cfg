CONSTANT NumWorkers = 2
SPECIFICATION Spec
INVARIANTS OnlyYoungerHold OneExchange
PROPERTIES WorkersUnwind CallEndsOrDrains
CHECK_DEADLOCK FALSE
