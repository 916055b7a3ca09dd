SPECIFICATION LoopSpec
CONSTANTS
  None = None
  ReadySamples = 2
  Flicker = FALSE
  ReadsFail = FALSE
  Owners = {"presentation", "release"}
PROPERTIES
  OptOutRearms
