\* The debug consumer of main() and one Bluetooth consumer, under every
\* interleaving of puts, stops and timeouts; every thread is scheduled fairly.
CONSTANTS
  Consumers = {"debug", "blue"}
  Bluetooth = {"blue"}
  MaxFrames = 3
SPECIFICATION FairConsumerSpec
INVARIANTS NewestIsKept NothingNewAfterStop
PROPERTIES NeverBackwards ConsumersMoveOn FairMailboxSpec
