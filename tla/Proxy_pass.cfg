CONSTANTS
  r = r
  c1 = c1
  c2 = c2
  c3 = c3
  a1 = a1
  a2 = a2
  tgt = tgt
  NoPacket = NoPacket
  Reader <- r
  Consumers <- MCConsumers
  Inputs <- MCInputs
  Target <- tgt
  MaxLen <- MCMaxLen
SPECIFICATION Spec
PROPERTY PacketQueueSafe PacketQueueLive
CHECK_DEADLOCK FALSE
