\* A buffer of four bins and four frames; every button at any time.
CONSTANTS
  Size = 4
  MaxFrames = 4
SPECIFICATION FairSpec
INVARIANTS PipelineIsSafe
PROPERTIES  PipelineMovesOn
CHECK_DEADLOCK FALSE
