SPECIFICATION Spec
CONSTANTS
  Runners = {r1, r2}
  Operations = {op1, op2}
  None = None
  RecoveryWired = FALSE
  SaveFaults = FALSE
  CommandFaults = FALSE
  MaxDeaths = 0
  MaxEntries = 8
SYMMETRY Symmetry
INVARIANTS
  OneMutator
