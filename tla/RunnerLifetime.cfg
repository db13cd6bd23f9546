CONSTANTS
  MaxFrame = 1
  Threshold = 5
SPECIFICATION Spec
INVARIANT WorkerGoneBeforeMembers
