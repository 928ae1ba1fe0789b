SPECIFICATION Spec
CONSTANTS
  CacheSize = 3
  SequenceNumber = {s1, s2, s3, s4}
  Version = {2}
  Bypass = {"GetInfo"}
  Mutation = {"KeyDown"}
  AdmissionIdLimit = 5
  SessionLimit = 1
  None = None
SYMMETRY SequenceSymmetry
INVARIANTS
  Inv
  StopAlwaysHasASlot
PROPERTIES
  ResponsesAreStable
  ImplementsRetryMap
