\* Two publishers of one box that a manager has created.
CONSTANTS
  Names = {b1, b2, b3}
  NoName = NoName
  Publishers = {p1, p2}
  Subscribers = {}
  Managers = {m1}
  max_sessions = 2
  MAX_OPEN_FILES = 16
  UINT64_MAX = 9
  MaxLost = 1
SYMMETRY Renamed
SPECIFICATION Spec
INVARIANT OnePublisherPerBox
