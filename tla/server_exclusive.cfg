CONSTANTS
  Conns = {c1, c2}
  Stops = {s1}
  None = None
  NbFrames = {0, 2}
  NbCycles = {1, 2}
  FramePeriods = {TRUE}
  SocketRoom = 1
  Overlap = FALSE
  c1 = c1
  c2 = c2
  s1 = s1
SPECIFICATION Spec
SYMMETRY Symmetry
INVARIANT TypeOK
INVARIANT FrameAccounting
INVARIANT CompleteUnlessCut
INVARIANT IdleMeansQuiescent
INVARIANT NoFailReply
PROPERTY FinishedClosesCycle
PROPERTY Implements
