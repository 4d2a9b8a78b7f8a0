\* An event emptied by a DELETE expires before it is cancelled.
SPECIFICATION Spec
CONSTANTS
  a1 = a1
  a2 = a2
  AlgIds = {a1}
  Sources = {"epic", "finder"}
  Categories = {"LIVE"}
  SystemOf <- SaSystems
  CoreSystems = {"epic", "finder"}
  AloneSystems = {"epic"}
  Payloads <- ThreePlaces
  Combine <- EqualMean
  MaxTimeToEvent = 2
  MaxDistToEvent = 2
  MaxMisfit = 2
  TwoAlgMag = 100
  ChangeThreshold <- NoThreshold
  NotYet = NotYet
  EventIds = {1, 2}
  AlgTimeout = 1
  DMTimeout = 1
  AlgRegion <- SaRegions
  Region = {0, 1, 2, 10}
  RegionMinMag = 30
  ValidMag = {40, 70}
  DmMinLikelihood = 1
  UseRepublishThreshold = FALSE
  PublishChangesOnly = TRUE
  Versions = {0, 1}
  MaxVersion = 2
  MaxTime = 3
PROPERTIES
  EmptiedEventIsCancelled
