SPECIFICATION MCSpec
CONSTANTS
  PanelSinks = {p1}
  G1Sink = G1Sink
  NoSink = NoSink
  Inexact = Inexact
  Tokens = {a, b}
  NoToken = NoToken
  Shims = {s1}
  NoShim = NoShim
  Evidence = {e1, e2}
  Approvals = {a, b}
  NoApproval = NoApproval
  Rpcs = {x, y}
  Workers = {k1, k2}
  Ttls = {1}
  LastTick = 1
  MaxEvents = 2
  Requests = {q1, q2}
  PreviewTokens = {1, 2}
  PreviewTtl = 1
  MaxPreviews = 1
  Apps = {app1, app2}
  NoApp = NoApp
  TestTtl = 1
  LastRun = 2
  LastSessionId = 2
  Clients = {c1, c2}
  Operations = {op1, op2}
  Stores = {store}
  StoreOf <- SharedStore
  None = None
  MaxEntries = 4
  IgpuGames = {g1, g2}
  WatchIds = {w1, w2}
  Unverified = Unverified
  NoWatch = NoWatch
  LastSession = 3
INVARIANTS
  WatchHasOwner
  AnswersAreSeen
  RecoveryIsProved
  PreparationIsTrue
  OneActPerApproval
  HandoffIsVerified
  SavedIsPreviewed
  ResultsAreObserved
  EndedTestLeavesNoLogging
  StoreTypeOK
  RunningOperationIsOnDisk
PROPERTIES
  RestoreFollowsLoss
  ReadyHasEvidence
  StatusFollows
  VerboseHasConsent
  HistoryOnlyGrows
  RegisterBehaviour
CHECK_DEADLOCK FALSE
