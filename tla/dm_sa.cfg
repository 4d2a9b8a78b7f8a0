\* sa.conf: two events of each source compete for the DM events.
SPECIFICATION Spec
CONSTANTS
  a1 = a1
  a2 = a2
  AlgIds = {a1, a2}
  Sources = {"epic", "finder"}
  Categories = {"LIVE"}
  SystemOf <- SaSystems
  CoreSystems = {"epic", "finder"}
  AloneSystems = {"epic"}
  Payloads <- TwoPlaces
  Combine <- EqualMean
  MaxTimeToEvent = 2
  MaxDistToEvent = 2
  MaxMisfit = 2
  TwoAlgMag = 100
  ChangeThreshold <- NoThreshold
  NotYet = NotYet
  EventIds = {1, 2, 3}
  AlgTimeout = 1
  DMTimeout = 1
  AlgRegion <- SaRegions
  Region = {0, 1, 2, 10}
  RegionMinMag = 30
  ValidMag = {40, 70}
  DmMinLikelihood = 1
  UseRepublishThreshold = FALSE
  PublishChangesOnly = TRUE
  Versions = {0, 1}
  MaxVersion = 1
  MaxTime = 3
SYMMETRY AlgIdSymmetry
INVARIANTS
  TypeOK
  MembersKnown
  NoEmptyEventAtReceive
  DeletedStaysAway
  OneEventPerMessage
  OneMessagePerSource
  UpToDateUnlessHeld
PROPERTIES
  ImplementsAlertStream
