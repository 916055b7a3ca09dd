SPECIFICATION SystemSpec
CONSTANTS
  None = None
  Ops = {o1}
  SleepOps = {o1}
  Games = {}
  Removals = {"live"}
  MaxCalls = 1
  ReleaseLen = 5
  SleepDeaths = 0
  MaxGameTokens = 1
  MaxEntries = 24
PROPERTIES
  AcknowledgedStaysGone
CHECK_DEADLOCK FALSE
