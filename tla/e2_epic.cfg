\* Two events, with cancel messages.
SPECIFICATION Spec
CONSTANTS
  EventIds = {1, 2}
  Magnitudes = {50}
  MinMag = 20
  MaxMag = 100
  MinMagChange = 1
  AlertDuration = 1
  EventTimeout = 1
  SendCancelMessage = TRUE
  UseTF = TRUE
  TFEventReverse = FALSE
  MaxUpdates = 1
  MaxTime = 2
  None = None
INVARIANTS
  AlertsSpaced
  TypeOK
  NoFirstAlertOutstanding
PROPERTIES
  VerdictStands
  ImplementsAlertStream
