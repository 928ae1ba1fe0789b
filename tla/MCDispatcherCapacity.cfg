SPECIFICATION FairSpec
CONSTANTS
  CacheSize = 3
  SequenceNumber = {s1, s2, s3, s4}
  Version = {2}
  Bypass = {}
  Mutation = {"DownA"}
  Key = {"a", "b"}
  MaxHeld = 1
  BatchCapacity = 1
  ResultCapacity = 2
  Effect <- MCEffect
  AdmissionIdLimit = 5
  SessionLimit = 1
  None = None
CHECK_DEADLOCK FALSE
PROPERTIES
  CapacityFailureKeepsInput
