CONSTANTS
  Tasks = {m, x, a}
  MainRoot = m
  Platforms = {"posix", "win32"}
  Contexts = {c0, c1, c2}
  FirstDefault = c0
  NoContext = NoContext
  NoTask = NoTask
  MaxRuns = 2
  MaxFrames = 2
SPECIFICATION Spec
SYMMETRY Symmetry
INVARIANTS TypeOK CallsKeepContext ExitIsGraceful WorkersHaveCloser
CHECK_DEADLOCK FALSE
