SPECIFICATION Spec
CONSTANTS
  Runners = {r1}
  Operations = {op1}
  None = None
  RecoveryWired = FALSE
  SaveFaults = FALSE
  CommandFaults = FALSE
  MaxDeaths = 0
  MaxEntries = 8
PROPERTIES
  NoRestartDuringGame
