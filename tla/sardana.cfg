CONSTANTS
  Pool = Pool
  Threads <- MCThreads
  Spares = 2
  Frames = 2
  Foreign = 1
  Tags <- MCThreads
  None = None
  Loads = 2
  Aborts = 1
  Pars = 1
SPECIFICATION SardanaFairSpec
INVARIANT SardanaTypeOK
INVARIANT NeverSilentlyShort
INVARIANT Undisturbed
INVARIANT RaisesOnlyCut
PROPERTY EndIsReported
CHECK_DEADLOCK FALSE
CONSTRAINT Crossings
