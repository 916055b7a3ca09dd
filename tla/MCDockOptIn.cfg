SPECIFICATION MCSpec
CONSTANTS
  None = None
  ReadySamples = 2
  Flicker = TRUE
  ReadsFail = TRUE
  Owners = {"presentation", "release"}
INVARIANTS
  ConsentIsPrompt
  ReadyIsLastSample
PROPERTIES
  OneRequestPerAttachment
  CalmLoopAttempts
