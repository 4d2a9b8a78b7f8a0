\* An update alert without a change of magnitude.
SPECIFICATION Spec
CONSTANTS
  EventIds = {1}
  Magnitudes = {10, 50}
  MinMag = 20
  MaxMag = 100
  MinMagChange = 1
  AlertDuration = 3
  EventTimeout = 3
  SendCancelMessage = FALSE
  UseTF = TRUE
  TFEventReverse = FALSE
  MaxUpdates = 1
  MaxTime = 3
  None = None
PROPERTIES
  UpdatesNeedMagChange
