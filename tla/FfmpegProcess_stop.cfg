SPECIFICATION FairSpec
CONSTANTS
  PipeSize = 2
  QueueSize = 2
INVARIANTS NoUseAfterClose NothingLeft
PROPERTIES StopTerminates InputEndEndsService
