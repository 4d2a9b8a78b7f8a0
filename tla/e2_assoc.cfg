\* Two events, in all ways that triggers come to them.
SPECIFICATION FairSpec
CONSTANTS
  Triggers = {1, 2, 3, 4}
  StaOf <- MixSta
  ChanOf <- MixChan
  Pos <- MixPos
  FoundAt <- MixTime
  EventIds = {1, 2}
  MinTrigs = 2
  StaTTAllowance = 3
  EnoughStations = 3
  RelocateSpan = 3
  UseTwoStations = TRUE
  UseSingleStation = TRUE
  MaxStaRelocate = 2
  Verdicts = {TRUE, FALSE}
  Enough = 2
  MaxSamples = 2
  MaxBuffer = 1
  Memory = 60
INVARIANTS
  TypeOK
  TriggersOwned
  UpdatedAlive
  OneTriggerPerChannel
PROPERTIES
  EventsFit
  WorkEnds
