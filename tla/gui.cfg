CONSTANTS
  Qt = Qt
  Acq = Acq
  m1 = m1
  Threads = {Qt, Acq, m1}
  Monitors = {m1}
  Spares = 2
  Frames = 2
  Foreign = 1
  Tags <- MCTags
  None = None
  Runs = 2
  Presses = 1
SPECIFICATION GuiFairSpec
INVARIANT GuiTypeOK
INVARIANT OwnAnswers
INVARIANT OneAcquisition
PROPERTY StopIsQuiet
PROPERTY ButtonComesBack
INVARIANT SilentMeansComplete
CHECK_DEADLOCK FALSE
CONSTRAINT Crossings
