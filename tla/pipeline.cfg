CONSTANTS
  NumStages = 3
  NumItems = 6
  TotalTokens = 2
SPECIFICATION Spec
INVARIANTS TypeOK Backpressure EndIsComplete
PROPERTY PipelineEnds
CHECK_DEADLOCK FALSE
