\* Two threads on each side, two elements and two slots: enough for the queue
\* to be full and empty, for both threads of a side to meet at its mutex, and
\* for the shift to move an element.
CONSTANTS
  NoThread = NoThread
  Junk = Junk
  Producers = {p1, p2}
  Consumers = {c1, c2}
  Elements = {a, b}
  Capacity = 2
  Word = 8
SPECIFICATION Spec
INVARIANTS
  TypeOK
  SizeWithinCapacity
  ChecksStillHold
  OneSleeperPerSide
  WakeLockFree
  UndisturbedDequeue
PROPERTY ImplementsBoundedBuffer
