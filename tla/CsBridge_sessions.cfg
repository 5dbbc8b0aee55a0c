SPECIFICATION FairSpec
CONSTANTS
  Handlers = {h1, h2, h3}
  Sids = {s1}
  MaxSessions = 2
  None = None
INVARIANTS WithinLimit NothingLeaks StatusIsTrue
PROPERTY LeaversAreReleased
CHECK_DEADLOCK FALSE
