SPECIFICATION FairSpec
CONSTANTS
  SessionLimit = 3
  RequestCapacity = 1
  ResponseCapacity = 1
  SafetyCapacity = 2
  PacketFrames = 2
  CoalescedDtr = FALSE
  None = None
CHECK_DEADLOCK FALSE
INVARIANTS
  AdmissionIsCurrent
  ResponseIsCurrent
  AnnouncedInv
PROPERTIES
  AdmissionsEndWithSession
  SessionIsApplied
  ReceiverListens
