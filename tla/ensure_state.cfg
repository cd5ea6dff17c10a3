CONSTANTS
  k1 = k1
  d1 = d1
  h1 = h1
  Detectors = {d1}
  Clients = {k1}
  DetectorOf <- OneDetector
  HostOf <- OneHost
  None = None
  Missing = Missing
  SLSError = SLSError
  ConnectionError = ConnectionError
  NbModules = 1
  NbSignals = 1
  Values <- FieldValues
  Program = k1
  Requests <- Bodies
  Keys <- Properties
  Given <- Known
SPECIFICATION EnsureSpec
INVARIANT RestoredUpToFailure
CHECK_DEADLOCK FALSE
