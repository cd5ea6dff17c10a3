CONSTANTS
  Ctl = Ctl
  Threads <- MCThreads
  Spares = 2
  Frames = 2
  Foreign = 1
  Tags <- MCThreads
  None = None
  Prepares = 2
  Stops = 1
SPECIFICATION LimaFairSpec
INVARIANT LimaTypeOK
INVARIANT ReadyIsComplete
INVARIANT StopMeansReleased
PROPERTY StopComesBack
CHECK_DEADLOCK FALSE
CONSTRAINT Crossings
