\* Three clients that may write before the last request is read; the bytes of a
\* name may be those of an op code.
CONSTANTS
  Clients = {c1, c2, c3}
  NameBytes = {"x", "1"}
  PIPE_NAME_SIZE = 2
  BOX_NAME_SIZE = 1
SPECIFICATION FairSpec
INVARIANTS
  FramesKept
PROPERTIES
  RequestsAreTaken
CHECK_DEADLOCK FALSE
