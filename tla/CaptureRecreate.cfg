SPECIFICATION Spec
INVARIANT DrawnTextureExists
CHECK_DEADLOCK FALSE
