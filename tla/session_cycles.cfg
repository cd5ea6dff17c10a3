CONSTANTS
  N = 1
  Conns = {1}
  Stops = {2, 3}
  None = None
  NbFrames = {2}
  NbCycles = {2}
  FramePeriods = {FALSE}
  SocketRoom = 1
  Overlap = TRUE
  Consumer = {}
SPECIFICATION SessionSpec
INVARIANT ReturnedComplete
