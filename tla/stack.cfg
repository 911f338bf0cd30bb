\* Two cameras, two frames each, one setting edited meanwhile.
CONSTANTS
  Cameras = {c1, c2}
  BinCount = 1
  Frames = 2
  LastTime = 2
  Interval = 0
  Edits = 1
SPECIFICATION StackSpec
INVARIANTS StackIsSound NoDeadlock
PROPERTIES PacketsAreSound
CHECK_DEADLOCK FALSE
