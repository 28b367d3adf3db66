CONSTANTS
  Access <- MCAccess
  WaitCycles = {1, 2, 3}
  Responders = {"dut", "slave"}
  Z = Z
  X = X
SPECIFICATION Spec
INVARIANTS TypeOK ReferenceFollows
PROPERTIES NobodyMissesAnAccess ReadEnableTwoCycles ReportedIsRequested ImplementsRegisterFile ImplementsHostPort
