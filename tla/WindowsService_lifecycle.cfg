SPECIFICATION FairSpec
CONSTANT MaxProgress = 16
INVARIANTS StoppedMeansJoined ZeroMeansOrderly
PROPERTY ImplementsLifecycle
