\* Reader, postman and two managers that may drop and reconnect once,
\* routing uniformly or by each --filter of MCFilterInputs.
CONSTANTS
  s1 = s1
  s2 = s2
  NumClients = 2
  Fds = {5, 6, 7}
  Srcs <- MCSrcs
  Records <- MCRecords
  BodyLen = 1
  MaxRead = 8
  FilterInputs <- MCFilterInputs
  MaxAccepts = 3

SPECIFICATION Spec
\* After the input ends the postman's loop waits for events that no longer
\* come, and a postman fault ends the process: both are final states.
CHECK_DEADLOCK FALSE

INVARIANT TypeOK
INVARIANT ShortFrameNeverParsed
INVARIANT ForwardedInOrder
INVARIANT AffinityStable
INVARIANT RoutingConsistent
INVARIANT FilterTableMatchesWeights
PROPERTY ReplayCompletes
