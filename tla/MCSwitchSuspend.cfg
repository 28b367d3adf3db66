CONSTANTS
  NumPorts = 3
  QMax = 2
  Count <- ManyEach
  RestCycles = 1
  Targets <- Broadcast
SPECIFICATION Spec
PROPERTIES SuspendedInputTakesNothing
