SPECIFICATION FairSpec
CONSTANTS
  CacheSize = 3
  SequenceNumber = {1, 2, 3, 4}
  Version = {2}
  Bypass = {"GetInfo"}
  Mutation = {"KeyDown"}
  AdmissionIdLimit = 20
  SessionLimit = 12
  None = None
  ExpiryLimit = 1
  RunLimit = 2
  CommandLimit = 2
  ClientCommand = {"KeyDown"}
  Retries = 1
  FirstSequence = 4
  MaxSequence = 4
  RequestCapacity = 2
  ResponseCapacity = 1
  CoalescedDtr = FALSE
  LeftoverPacket = FALSE
  MayBeKilled = TRUE
  MayStall = TRUE
INVARIANTS
  ClientInv
  WorkedOnOnce
  OkMeansDone
PROPERTIES
  CallsReturn
  NothingFollowsStop
