CONSTANTS
  MaxJobs = 2
  Sizes = {1, 3}
  PipeCap = 2
  StartMethods = {"spawn", "fork"}
  EagerCleanups = {TRUE, FALSE}
SPECIFICATION Spec
INVARIANTS TypeOK RetryNeverRan FinishedIsDelivered ResultMatchesJob DiscardedIsDead CleanExitNeverBroken
PROPERTIES CallReturns ShutdownEnds NoOrphan ImplementsContract
CHECK_DEADLOCK FALSE
