CONSTANTS
  Prefix = 2
  Chunk = 2
  Align = 3
  Messages = 4
  MaxSize = 2
  MaxConnections = 2
  MaxBoxes = 2
  MaxPosts = 2
  CleanReconnects = TRUE
SPECIFICATION MCSpec
INVARIANTS
  CallTypeOK
  MessagesIntact
  BufferFits
  AbortsOnlyWhenLost
PROPERTIES
  MessageHandled
  LostCallEnds
CHECK_DEADLOCK FALSE
