CONSTANTS
  Prefix = 2
  Chunk = 2
  Align = 3
  Messages = 2
  MaxSize = 2
  MaxConnections = 2
  MaxBoxes = 1
  MaxPosts = 1
  CleanReconnects = FALSE
SPECIFICATION Spec
INVARIANTS
  MessagesIntact
CHECK_DEADLOCK FALSE
