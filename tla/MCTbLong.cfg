CONSTANTS
  Depth = 4
  Byte <- LongBytes
  NoByte = NoByte
  Chan = {0, 1, 2}
  MaxLength = 5
  DefMaxPkt = 63
  DefEnable = TRUE
  RefMaxPkt = 63
  RefEnable = 1
  Kinds <- LongKinds
  MaxPackets = 3
  RespDelays = {0, 5}
  HostWrites <- LongWrites
  MaxHostWrites = 1
  VirtualSeq = TRUE
SPECIFICATION Spec
INVARIANTS TypeOK BuffersHoldOnePacket ScoreboardClean ScoreboardsAgree
PROPERTIES ParityVerdict HeldWhileSuspended DelayMeasured SuspendEnds ForwardedPacketsArrive FifosDrain
