CONSTANTS
  Frames <- MCFrames
  Chunks <- MCChunks
  BodyWord = 1
SPECIFICATION Spec
CHECK_DEADLOCK FALSE
INVARIANT TypeOK
INVARIANT TimedInOrder
INVARIANT NoCompleteReplyHeld
