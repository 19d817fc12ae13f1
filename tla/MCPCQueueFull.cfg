\* One thread on each side and one slot, under the scheduler's fairness.
CONSTANTS
  NoThread = NoThread
  Junk = Junk
  Producers = {p1}
  Consumers = {c1}
  Elements = {a, b}
  Capacity = 1
  Word = 8
SPECIFICATION FairSpec
PROPERTY SleepsOnlyWhileFull
