CONSTANTS
  s1 = s1
  s2 = s2
  Files <- MCFiles
  Formats <- MCFormats
  NoSrc = NoSrc
  NumClients = 2
  Srcs <- MCSrcs
  Frames <- MCFrames
  DistModes = {TRUE, FALSE}
  MapModes = {TRUE, FALSE}
  CutMidFrame = TRUE
SPECIFICATION Spec
\* a manager whose input has ended waits in its event loop for good
CHECK_DEADLOCK FALSE
INVARIANT RelayFaithful
