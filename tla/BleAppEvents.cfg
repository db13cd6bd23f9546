CONSTANTS
  Peripherals = {p1, p2}
  None = None
  MaxId = 3
  MaxEvents = 2
  MaxLocks = 1
  Patient = TRUE
  StartInterrupted = TRUE
SPECIFICATION Spec
INVARIANT DetectorRegistered
