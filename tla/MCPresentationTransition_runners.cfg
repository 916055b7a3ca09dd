SPECIFICATION Spec
CONSTANTS
  Runners = {r1, r2}
  Operations = {op1, op2}
  None = None
  RecoveryWired = TRUE
  SaveFaults = TRUE
  CommandFaults = TRUE
  MaxDeaths = 1
  MaxEntries = 8
CONSTRAINT Bounds
SYMMETRY Symmetry
INVARIANTS
  LoneMutator
  UntouchedWithoutStep
  CommittedIsConfigured
  EventsAreLegal
PROPERTIES
  MutationIsJournaled
