SPECIFICATION FairStreamSpec
CONSTANTS
  Byte = {0, 1, 2, 3}
  Magic <- TwoThree
  MaxPayload = 1
  PacketSize = 6
  Timeout = 2
  Crc <- SomeCrc
  Noise <- SomeNoise
  Garbage <- SomeGarbage
  UnitLimit = 3
CHECK_DEADLOCK FALSE
INVARIANTS
  StreamInv
PROPERTIES
  NothingStaysBuffered
