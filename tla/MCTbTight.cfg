CONSTANTS
  Depth = 4
  Byte <- TightBytes
  NoByte = NoByte
  Chan = {0, 1, 2}
  MaxLength = 5
  DefMaxPkt = 63
  DefEnable = TRUE
  RefMaxPkt = 63
  RefEnable = 1
  Kinds <- TightKinds
  MaxPackets = 2
  RespDelays = {0, 5}
  HostWrites <- NoWrites
  MaxHostWrites = 0
  VirtualSeq = TRUE
SPECIFICATION Spec
INVARIANT ScoreboardClean
