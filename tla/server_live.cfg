\* Threads run when they can, with and without -t: joins return, packets reach
\* the debug consumer, and the shutdown completes.
CONSTANTS
  Consumers <- Two
  Bluetooth <- Blue
  Debug = "debug"
  Paths = {rfcomm0}
  Prefixed = {rfcomm0}
  Present = {}
  Testmodes = {TRUE, FALSE}
  MaxFrames = 1
  MaxDevOps = 2
  MaxInterrupts = 2
SPECIFICATION FairServerSpec
PROPERTY ServerMovesOn
CHECK_DEADLOCK FALSE
