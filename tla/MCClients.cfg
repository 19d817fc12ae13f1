\* A publisher and a subscriber, on a pipe that is full after two messages; at the
\* end of a behaviour everything has stopped.
CONSTANTS
  Kinds = {"publisher", "subscriber"}
  Lines <- ThreeLines
  PIPE_SIZE = 2
  Interrupts = TRUE
  Crashes = TRUE
SPECIFICATION FairSpec
INVARIANTS
  NothingLost
  OnlySubscribersEndBroker
PROPERTIES
  WorkerIsMet
  WorkerComesBack
  SubscriberLearns
CHECK_DEADLOCK FALSE
