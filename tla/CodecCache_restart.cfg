SPECIFICATION Spec
CONSTANTS
  None = None
  Keys = {k1, k2}
  Threads = {t1, t2}
  Ttl = 1
  MaxTime = 2
  MaxSets = 3
  MaxCrashes = 2
SYMMETRY Symmetry
INVARIANTS NoOlderEntryReturns RestartRemembers
PROPERTY FreshEntryStays
CHECK_DEADLOCK FALSE
