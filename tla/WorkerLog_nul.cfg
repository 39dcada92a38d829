CONSTANTS
  w1 = w1
  w2 = w2
  NUL = NUL
  Workers <- MCWorkers
  Output = "latency"
  MaxLines = 2
  LineLen = 2
  ReadMax = 6
  LogFile = TRUE
SPECIFICATION Spec
CHECK_DEADLOCK FALSE
INVARIANT ReadOutputLogged
