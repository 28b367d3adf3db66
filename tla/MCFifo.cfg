CONSTANTS
  Depth = 4
  b1 = b1
  b2 = b2
  NoByte = NoByte
  Byte <- MCByte
SPECIFICATION Spec
INVARIANTS TypeOK FlagsTellFullFromEmpty OutputIsHead
PROPERTIES ReadingWhileValidNeverEmpties ImplementsByteQueue
