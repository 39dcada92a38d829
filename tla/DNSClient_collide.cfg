CONSTANTS
  s1 = s1
  s2 = s2
  qa = qa
  qb = qb
  noq = noq
  Src <- MCSrc
  Questions = {qa}
  NoQName = noq
  Ids = {1}
  Inputs <- MCTraceInputs
  NonWait = FALSE
  UnifyUdp = FALSE
  Fds = {3, 4}
  UdpReadTimeout = 2
  IcmpErrors = FALSE
  MaxCallbackTicks = 1
  MaxArrivalDelay = 2
  ConnType = "udp"
  Bevs = {1}
  TimeOut = 0
  PeerErrors = FALSE
  SplitReplies = FALSE
SPECIFICATION Spec
CHECK_DEADLOCK FALSE
INVARIANT LatencyOfOwnQuery
