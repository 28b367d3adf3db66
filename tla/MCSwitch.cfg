CONSTANTS
  NumPorts = 3
  QMax = 4
  Count <- TwoEach
  RestCycles = 1
  Targets <- Mixed
SPECIFICATION Spec
INVARIANTS TypeOK ExactlyOnce SourceOrder
PROPERTIES Delivered
