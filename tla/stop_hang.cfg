CONSTANTS
  Conns = {c1}
  Stops = {s1}
  None = None
  NbFrames = {1}
  NbCycles = {1}
  FramePeriods = {TRUE}
  SocketRoom = 2
  Overlap = FALSE
  c1 = c1
  s1 = s1
SPECIFICATION FairSpec
PROPERTY AcquisitionEnds
