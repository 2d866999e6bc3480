SPECIFICATION Spec
CONSTANT
  Bodies <- SomeBodies
INVARIANTS
  FramesRecognised
  NothingButHeadersDropped
CHECK_DEADLOCK FALSE
