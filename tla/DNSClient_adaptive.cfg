CONSTANTS
  s1 = s1
  s2 = s2
  qa = qa
  qb = qb
  noq = noq
  Src <- MCSrc
  Questions = {qa}
  NoQName = noq
  Ids = {1}
  Inputs <- MCAdaptiveInputs
  NonWait = FALSE
  UnifyUdp = FALSE
  Fds = {3, 4}
  UdpReadTimeout = 2
  IcmpErrors = TRUE
  MaxCallbackTicks = 1
  MaxArrivalDelay = 2
  ConnType = "adaptive"
  Bevs = {1, 2}
  TimeOut = 2
  PeerErrors = TRUE
  SplitReplies = TRUE
SPECIFICATION Spec
CHECK_DEADLOCK FALSE
INVARIANT TypeOK
INVARIANT QueryConservation
INVARIANT UdpMapsConsistent
INVARIANT TcpMapsConsistent
PROPERTY AllQueriesDispatched
