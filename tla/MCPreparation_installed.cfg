SPECIFICATION MCSpec
CONSTANTS
  Tokens = {a}
  NoToken = NoToken
  Shims = {s1}
  NoShim = NoShim
  Evidence = {e1}
INVARIANT FailureUndoesInstall
CHECK_DEADLOCK FALSE
