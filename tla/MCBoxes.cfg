\* A publisher, a subscriber and a manager, two at a time, on a table of two slots
\* with one name more than there are slots.  Two workers need no third handle.
CONSTANTS
  Names = {b1, b2, b3}
  NoName = NoName
  Publishers = {p1}
  Subscribers = {s1}
  Managers = {m1}
  max_sessions = 2
  MAX_OPEN_FILES = 16
  UINT64_MAX = 9
  MaxLost = 1
SYMMETRY Renamed
SPECIFICATION Spec
INVARIANTS
  TypeOK
  LinkedIsCounted
  TableIsSound
  AnswersAreTrue
  ListIsComplete
