\* Triggers, parameters and peaks, an unreliable bus, and stop at any time.
SPECIFICATION FairSpec
CONSTANTS
  MaxPerPacket <- Pairs
  Wait <- ShortWait
  MaxQueueTime = 0
  Restart = TRUE
  MaxMessages = 2
  MaxTime = 1
INVARIANTS
  TypeOK
  InOnePlaceInOrder
  IdsConsecutive
  Flushed
  NullLast
PROPERTIES
  StopEnds
\* A sender that has stopped does nothing more.
CHECK_DEADLOCK FALSE
