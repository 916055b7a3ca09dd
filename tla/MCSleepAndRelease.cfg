SPECIFICATION MCSpec
CONSTANTS
  None = None
  Nobody = Nobody
  NoHelper = NoHelper
  Ops = {o1, o2, o3}
  i1 = i1
  Instances = {i1, i2}
  Closable = {i1, i2}
  MaxTokens = 1
  MaxDeaths = 1
  SleepOps = {o1, o2}
  Games = {g1}
  Removals = {"live"}
  MaxCalls = 1
  ReleaseLen = 7
  SleepDeaths = 1
  MaxGameTokens = 1
  MaxEntries = 24
  Starts = {p1, p2, p3}
  Helpers = {h1, h2, h3}
INVARIANTS
  ForceAfterGraceful
  OneSignalPerConsent
  StageIsJournalStep
  ContinuedOnceNeverResumed
  OnlyTheTargetIsHit
  OneInhibitor
PROPERTIES
  SignalIsAnnounced
  SignalIsWithinConsent
  ActsAreConsented
  
  ReleasesEnd
  SleepsEnd
  NoInhibitorStays
CHECK_DEADLOCK FALSE
