CONSTANTS
  Depth = 4
  Byte <- LongBytes
  NoByte = NoByte
  Chan = {0, 1, 2}
  MaxLength = 5
  DefMaxPkt = 63
  DefEnable = TRUE
  RefMaxPkt = 63
  RefEnable = 1
  Kinds <- LongKinds
  MaxPackets = 2
  RespDelays = {5}
  HostWrites <- LowerWrites
  MaxHostWrites = 1
  VirtualSeq = TRUE
SPECIFICATION Spec
INVARIANT SameDrops
