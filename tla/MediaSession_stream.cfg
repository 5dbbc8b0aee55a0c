SPECIFICATION FairSpec
CONSTANTS
  Limit = 3
  Sizes = {1, 2, 4}
  MaxPackets = 3
INVARIANTS NoGap LossIsReported HandleDiscipline
PROPERTIES EndReachesConsumer StopReleases
