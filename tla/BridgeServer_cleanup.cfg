SPECIFICATION Spec
CONSTANTS
  Workers = {w1, w2, w3}
  Fds = {f1, f2, f3}
  Sids = {s1, s2, s3}
  MaxSessions = 2
  MaxCleans = 2
  UniqueSids = TRUE
  MayStop = FALSE
  MayExpire = FALSE
  Main = Main
  None = None
SYMMETRY Symmetry
INVARIANT FdOwnership
INVARIANT OnlyCleanedDisconnected
INVARIANT ResourcesAreLeased
INVARIANT NoSurvivor
INVARIANT CleanupReasonKept
INVARIANT ManualCleanupMeansCleaned
INVARIANT ZeroMeansReleased
PROPERTY ImplementsProtocol
