CONSTANTS
  MaxJobs = 1
  Sizes = {1, 3}
  PipeCap = 2
  StartMethods = {"spawn"}
  EagerCleanups = {TRUE}
SPECIFICATION SafeSpec
INVARIANT DeathIsBrokenWorker
CHECK_DEADLOCK FALSE
