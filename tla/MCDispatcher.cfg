SPECIFICATION Spec
CONSTANTS
  CacheSize = 4
  SequenceNumber = {s1, s2, s3, s4, s5}
  Version = {2}
  Bypass = {}
  Mutation = {"DownA", "TapB", "Move"}
  Key = {"a", "b"}
  MaxHeld = 1
  BatchCapacity = 2
  ResultCapacity = 2
  Effect <- MCEffect
  AdmissionIdLimit = 6
  SessionLimit = 2
  None = None
SYMMETRY SequenceSymmetry
CHECK_DEADLOCK FALSE
INVARIANTS
  DispatcherInv
  PipelineIsOwnerThenRelease
  BatchIsNeverRefused
  CancelIsCurrent
PROPERTIES
  CancelledWorkStartsNoReport
  StopAckMeansReleased
