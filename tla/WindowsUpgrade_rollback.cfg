SPECIFICATION FairSpec
CONSTANT MaxAttempts = 2
INVARIANT OldRecoverable
PROPERTIES RestoredMeansRestored UpgradedMeansUpgraded UpgradeEnds
