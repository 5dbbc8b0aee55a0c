SPECIFICATION FairSpec
CONSTANTS
  Workers = {w1, w2}
  Fds = {f1, f2}
  Sids = {s1}
  MaxSessions = 1
  MaxCleans = 2
  UniqueSids = TRUE
  MayStop = TRUE
  MayExpire = TRUE
  Main = Main
  None = None
INVARIANT SdkOutlivesWorkers
INVARIANT OverIsNotActive
PROPERTY StopCompletes
PROPERTY CleanupCompletes
