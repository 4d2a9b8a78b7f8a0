\* Two stations; lost, overlapping and repeated packets; replay and live.
SPECIFICATION FairSpec
CONSTANTS
  a = a
  b = b
  Threads = {0, 1}
  Channels = {a, b}
  HashOf <- TwoQueues
  PacketLength = 2
  Offsets <- OffsetsOfBoth
  MaxDuration = 5
  QueueLimit = 0
  MaxPackets = 3
  MaxLoads = 2
  NullPacket = NullPacket
INVARIANTS
  TypeOK
  HandedOutInOrder
  HandedOutOnce
  GapOnlyInFront
  NoLostWakeUp
  ReplayComplete
PROPERTIES
  ReplayEnds
\* A feeder that was terminated does nothing more.
CHECK_DEADLOCK FALSE
