CONSTANTS
  N = 3
  Conns = {1, 2, 3}
  Stops = {4, 5, 6, 7, 8, 9, 10}
  None = None
  NbFrames = {0, 3}
  NbCycles = {1}
  FramePeriods = {FALSE}
  SocketRoom = 1
  Overlap = TRUE
  Consumer = {"stop"}
SPECIFICATION SessionSpec
INVARIANT ReturnedComplete
INVARIANT OverMeansReleased
PROPERTY FreshDetector
CHECK_DEADLOCK FALSE
