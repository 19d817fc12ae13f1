\* Two workers, so that requests arrive while one is busy and while none is
\* free; reads may fail.  After a failed open, close or read, or once main waits
\* for a lock nobody will free, the broker really stops.
CONSTANTS
  max_sessions = 2
  BoxOps = {publish, create}
  LinkOps = {publish}
  ListOp = list
  NoOp = NoOp
  ReadsFail = TRUE
SPECIFICATION FairSpec
INVARIANTS
  TypeOK
  PipeReadersExclusive
  QueueNeverWaits
PROPERTIES
  ImplementsSessionPool
  PipeLockComesBack
  PickedWorkerIsFree
CHECK_DEADLOCK FALSE
