CONSTANTS
  Depth = 4
  Byte <- LongBytes
  NoByte = NoByte
  Chan = {0, 1, 2}
  MaxLength = 5
  DefMaxPkt = 63
  DefEnable = TRUE
  RefMaxPkt = 63
  RefEnable = 1
  Kinds <- LongKinds
  MaxPackets = 1
  RespDelays = {0}
  HostWrites <- WideWrites
  MaxHostWrites = 1
  VirtualSeq = TRUE
SPECIFICATION Spec
PROPERTY ForwardedPacketsArrive
