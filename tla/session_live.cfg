CONSTANTS
  N = 2
  Conns = {1, 2}
  Stops = {3, 4, 5, 6}
  None = None
  NbFrames = {2}
  NbCycles = {1}
  FramePeriods = {FALSE}
  SocketRoom = 1
  Overlap = TRUE
  Consumer = {"stop", "leave"}
SPECIFICATION SessionFairSpec
INVARIANT NoUnprovokedError
PROPERTY IterationEnds
CHECK_DEADLOCK FALSE
