\* One frame is enough to end a thread that nobody told to stop.
CONSTANTS
  Consumers = {"debug", "blue"}
  Bluetooth = {"blue"}
  MaxFrames = 1
SPECIFICATION ConsumerSpec
INVARIANT RunsUntilToldToStop
