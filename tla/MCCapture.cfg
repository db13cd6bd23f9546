SPECIFICATION FairSpec
INVARIANTS
  TypeOK
  FrameHasRenderer
  WriteIntoTexture
  NoFrameAfterDeconstruct
PROPERTIES
  MutexesObtained
CHECK_DEADLOCK FALSE
