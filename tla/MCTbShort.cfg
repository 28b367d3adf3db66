CONSTANTS
  Depth = 6
  Byte <- ShortBytes
  NoByte = NoByte
  Chan = {0, 1, 2}
  MaxLength = 6
  DefMaxPkt = 63
  DefEnable = TRUE
  RefMaxPkt = 63
  RefEnable = 1
  Kinds <- ShortKinds
  MaxPackets = 3
  RespDelays = {0, 2}
  HostWrites <- ShortWrites
  MaxHostWrites = 1
  VirtualSeq = FALSE
SPECIFICATION Spec
INVARIANT ScoreboardClean
PROPERTIES ForwardedPacketsArrive
