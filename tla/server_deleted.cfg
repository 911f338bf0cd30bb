\* A device file is deleted, put back by a rename and deleted again.
CONSTANTS
  Consumers <- Four
  Bluetooth <- Blue
  Debug = "debug"
  Paths = {rfcomm0}
  Prefixed = {rfcomm0}
  Present = {}
  Testmodes = {TRUE}
  MaxFrames = 0
  MaxDevOps = 4
  MaxInterrupts = 0
SPECIFICATION ServerSpec
INVARIANTS FindsCurrentConsumer
CHECK_DEADLOCK FALSE
