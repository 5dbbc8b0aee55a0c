SPECIFICATION Spec
CONSTANTS
  Workers = {w1, w2, w3}
  Fds = {f1, f2, f3}
  Sids = {s1}
  MaxSessions = 2
  MaxCleans = 1
  UniqueSids = FALSE
  MayStop = FALSE
  MayExpire = FALSE
  Main = Main
  None = None
SYMMETRY Symmetry
INVARIANT ManualCleanupMeansCleaned
