CONSTANTS
  Me = 1
  MyStop = 2
  MyAbort = 3
  Conns = {1}
  Stops = {2, 3}
  None = None
  NbFrames = {0, 1, 2, 3}
  NbCycles = {0, 1, 2}
  FramePeriods = {TRUE, FALSE}
  SocketRoom = 2
  Overlap = TRUE
SPECIFICATION ProgressFairSpec
INVARIANT ReportNeverAhead
INVARIANT ReturnedWholeCycle
INVARIANT RaisedStopped
PROPERTY ProgressEnds
