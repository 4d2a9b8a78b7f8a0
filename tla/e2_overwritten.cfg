\* Three stations that go together, and a trigger of noise.
SPECIFICATION Spec
CONSTANTS
  Triggers = {1, 2, 3, 4}
  StaOf <- NoiseSta
  ChanOf <- NoiseChan
  Pos <- NoisePos
  FoundAt <- NoiseTime
  EventIds = {1, 2}
  MinTrigs = 3
  StaTTAllowance = 0
  EnoughStations = 6
  RelocateSpan = 3
  UseTwoStations = FALSE
  UseSingleStation = FALSE
  MaxStaRelocate = 2
  Verdicts = {TRUE}
  Enough = 1
  MaxSamples = 1
  MaxBuffer = 4
  Memory = 60
INVARIANTS
  GroupsFound
