CONSTANTS
  MaxFrame = 11
  Threshold = 5
SPECIFICATION FairSpec
INVARIANTS
  TypeOK
  SlotExclusive
  RecognisesOnlyWhileCapturing
  QuietAfterStop
  TornOnlyWhilePublishing
PROPERTIES
  ResultsAdvance
  StopCompletes
  FrameConsumed
  ImplementsFrameSlot
