CONSTANTS
  Peripherals = {p1, p2}
  None = None
  MaxId = 3
  MaxEvents = 2
  MaxLocks = 2
  Patient = TRUE
  StartInterrupted = FALSE
SPECIFICATION FairSpec
INVARIANTS
  TypeOK
  PeripheralLinked
  NoOrphanLink
  EventsExpected
  ScanWhenLost
  
  DetectorRegistered
  XmitAudioHeld
PROPERTIES
  DetectionEnds
CHECK_DEADLOCK FALSE
