\* Two publishers that contend for the box with a subscriber's scan; four bytes
\* hold up to four lines, or one and a piece of another; the slot had a box of
\* three bytes before.  Handles and blocks run
\* out; once a client has left in the wrong moment the broker really stops.
CONSTANTS
  Publishers = {p1, p2}
  Subscribers = {s1}
  Chars = {"a", "b"}
  Nul = Nul
  Messages <- ShortLines
  BLOCK_SIZE = 4
  OldSize = 3
  TablesFill = TRUE
  NoOne = NoOne
SPECIFICATION FairSpec
INVARIANTS
  TypeOK
  ScansSeeWholeLines
  SizeFollowsFile
PROPERTIES
  BoxOnlyGrows
  ImplementsMessageLog
  EveryMessageArrives
CHECK_DEADLOCK FALSE
