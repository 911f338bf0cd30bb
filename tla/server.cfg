\* Three operations on two device files, one packet and one SIGINT at every
\* point of main().
CONSTANTS
  Consumers <- Three
  Bluetooth <- Blue
  Debug = "debug"
  Paths = {rfcomm0, rfcomm1}
  Prefixed = {rfcomm0, rfcomm1}
  Present = {}
  Testmodes = {TRUE}
  MaxFrames = 1
  MaxDevOps = 3
  MaxInterrupts = 1
SYMMETRY PathSymmetry
SPECIFICATION ServerSpec
INVARIANTS ServerInv LockIsHeldOrLeaked RunningIsReachable
PROPERTIES ConsumerSpec JoinAllWaitsForAll PutReachesEveryMember
CHECK_DEADLOCK FALSE
