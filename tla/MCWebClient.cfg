SPECIFICATION TimersSpec
CONSTANTS
  SessionLimit = 2
  CommandLimit = 2
  LifecycleLimit = 2
  Retries = 1
  PatientUser = TRUE
INVARIANTS
  WebClientInv
  StopIsLast
PROPERTIES
  StopInTime
  DisconnectReturns
  CallsSettle
