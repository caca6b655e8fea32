SPECIFICATION Spec
CONSTANTS MaxJobs = 3 MaxParts = 2
INVARIANTS TypeOK AckIsTaken NoTornMessage
PROPERTY StartSettles
CHECK_DEADLOCK FALSE
