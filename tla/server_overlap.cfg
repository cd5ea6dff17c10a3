CONSTANTS
  Conns = {c1, c2}
  Stops = {s1}
  None = None
  NbFrames = {2}
  NbCycles = {1}
  FramePeriods = {TRUE}
  SocketRoom = 1
  Overlap = TRUE
  c1 = c1
  c2 = c2
  s1 = s1
SPECIFICATION FairSpec
INVARIANT FailNeedsOther
INVARIANT StatusTracksAcquisition
INVARIANT OwnerIsServing
INVARIANT NoLostWakeup
PROPERTY EndsUnlessCancelled
