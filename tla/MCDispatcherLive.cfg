SPECIFICATION FairSpec
CONSTANTS
  CacheSize = 3
  SequenceNumber = {s1, s2, s3, s4}
  Version = {2}
  Bypass = {"GetInfo"}
  Mutation = {"TapA", "Move", "Wait"}
  Key = {"a", "b"}
  MaxHeld = 1
  BatchCapacity = 1
  ResultCapacity = 2
  Effect <- MCEffect
  AdmissionIdLimit = 4
  SessionLimit = 1
  None = None
CHECK_DEADLOCK FALSE
PROPERTIES
  OwnerIsReleased
  ReleaseIsCarriedOut
