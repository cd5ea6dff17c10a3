CONSTANTS
  k1 = k1
  k2 = k2
  d1 = d1
  h1 = h1
  Detectors = {d1}
  Clients = {k1, k2}
  DetectorOf <- OneDetector
  HostOf <- OneHost
  None = None
  Missing = Missing
  SLSError = SLSError
  ConnectionError = ConnectionError
  NbModules = 2
  NbSignals = 2
  Values <- FieldValues
  Requests <- Mixed
SPECIFICATION Spec
INVARIANT TypeOK
INVARIANT AnsweredIsInformed
PROPERTY FailChangesNothing
