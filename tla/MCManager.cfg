\* Answers to a create, a remove and a list, through a pipe that holds two boxes
\* and the beginning of a third, with an array that grows by two boxes; at the end of a behaviour
\* everything has stopped.
CONSTANTS
  Kinds = {"code", "list"}
  Begins <- NarrowFields
  Lists <- ShortLists
  PIPE_SIZE = 28
  Crashes = TRUE
  CHUNK = 2
SPECIFICATION FairSpec
INVARIANTS
  ManagerPrintsAnswer
  OnlyLongListsEndBroker
PROPERTIES
  ManagerEnds
  AnswersEnd
CHECK_DEADLOCK FALSE
