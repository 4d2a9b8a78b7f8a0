\* dm.conf: an update is held, and comes again when nothing holds it.
SPECIFICATION Spec
CONSTANTS
  a1 = a1
  a2 = a2
  AlgIds = {a1}
  Sources = {"epic", "finder"}
  Categories = {"LIVE", "TEST"}
  SystemOf <- SaSystems
  CoreSystems = {"epic", "finder"}
  AloneSystems = {"epic"}
  Payloads <- Shifts
  Combine <- EqualMean
  MaxTimeToEvent = 2
  MaxDistToEvent = 2
  MaxMisfit = 2
  TwoAlgMag = 60
  ChangeThreshold <- SizeOnly
  NotYet = NotYet
  EventIds = {1}
  AlgTimeout = 1
  DMTimeout = 1
  AlgRegion <- SaRegions
  Region = {0, 1, 2, 10}
  RegionMinMag = 30
  ValidMag = {40, 50, 60}
  DmMinLikelihood = 1
  UseRepublishThreshold = TRUE
  PublishChangesOnly = TRUE
  Versions = {0, 1}
  MaxVersion = 3
  MaxTime = 1
INVARIANTS
  ChangesPublished
