---------------------------- MODULE GameChildren ----------------------------
(***************************************************************************)
(* The two children of the closing_game step, composed with the service    *)
(* they belong to: the verified save and the graceful close.  Each         *)
(* consumes a single-use approval, checks its parent and the game, records *)
(* the start of its substep, asks its mechanism, and polls until the       *)
(* effect is proved or a deadline passes.  The service, the other child    *)
(* and the player move between any two of these.                           *)
(*                                                                         *)
(* Their journal appends load, append and save in one step.                *)
(***************************************************************************)
EXTENDS CanonicalSleep

CONSTANT MaxGameTokens   \* approvals kept by each store, max_tokens

ASSUME GameChildrenAssumption == MaxGameTokens \in Nat \ {0}

VARIABLES
  saveTokens, closeTokens,  \* approvals not yet used, oldest first
  saver, closer,            \* the child under way: [at, op, game], or None
  proved                    \* the game whose save proof is verified, or None

childVars == <<saveTokens, closeTokens, saver, closer, proved>>
systemVars == <<sleepVars, childVars>>

SystemInit ==
  /\ SleepInit
  /\ saveTokens = <<>> /\ closeTokens = <<>>
  /\ saver = None /\ closer = None /\ proved = None

\* game_close_parent_operation_id, for any request of the session.
ClosingParent ==
  IF session = None \/ file = None THEN None
  ELSE IF /\ session.stage = "closing_game" /\ file.op = session.op /\ ~Ended(file)
       THEN session.op ELSE None

\* game_save_requirements: only while a save is required and not yet done.
SavingParent ==
  IF ClosingParent = None THEN None
  ELSE IF session.save /\ ~session.saved THEN session.op ELSE None

KeptTokens(tokens) == IF Len(tokens) >= MaxGameTokens THEN Tail(tokens) ELSE tokens
Unused(tokens, n) == SubSeq(tokens, 1, n - 1) \o SubSeq(tokens, n + 1, Len(tokens))

\* _append of either child: the parent's open journal, in closing_game.
ChildMayAppend(op, kind) ==
  IF file = None THEN FALSE
  ELSE /\ file.op = op /\ ~Ended(file) /\ file.step = "closing_game"
       /\ MayAppend(file, <<kind>>)

ChildAppends(op, kind) ==
  /\ ChildMayAppend(op, kind)
  /\ file' = WithKinds(file, <<kind>>)

\* The append raises: the child answers journal_persist_failed.
AppendRefused(op, kind) ==
  /\ diskFails \/ ~ChildMayAppend(op, kind)
  /\ UNCHANGED file

\* _fail: the parent's operation fails with its child, when it can be written.
Fails(op) == ChildAppends(op, "failed") \/ AppendRefused(op, "failed")

serviceRest == <<diskFails, egpu, game, calls, childMem, restarted, unobserved, used,
                 consented, continued, interrupted, outlived, sleepDeaths>>

-----------------------------------------------------------------------------
(* Verified save                                                           *)

PrepareSave ==
  /\ SavingParent # None /\ game # None
  /\ saveTokens' = Append(KeptTokens(saveTokens), [op |-> SavingParent, game |-> game])
  /\ UNCHANGED <<sleepVars, closeTokens, saver, closer, proved>>

\* A token of another parent is spent for nothing; changed evidence fails the
\* parent; otherwise the substep is recorded.
ExecuteSave(n) ==
  LET approval == saveTokens[n]
  IN  /\ saver = None
      /\ saveTokens' = Unused(saveTokens, n)
      /\ \/ /\ SavingParent # approval.op /\ UNCHANGED <<file, saver>>
         \/ /\ SavingParent = approval.op
            /\ Fails(approval.op) /\ UNCHANGED saver
         \/ /\ SavingParent = approval.op /\ game = approval.game
            /\ \/ /\ ChildAppends(approval.op, "substep_started")
                  /\ saver' = [at |-> "request", op |-> approval.op,
                               game |-> approval.game]
               \/ AppendRefused(approval.op, "substep_started") /\ UNCHANGED saver
      /\ UNCHANGED <<session, serviceRest, closeTokens, closer, proved>>

\* The mechanism refuses or raises, evidence changes, the deadline passes.
SaveChildFails ==
  /\ saver # None
  /\ saver' = None /\ Fails(saver.op)
  /\ UNCHANGED <<session, serviceRest, saveTokens, closeTokens, closer, proved>>

RequestSave ==
  /\ IF saver = None THEN FALSE ELSE saver.at = "request"
  /\ saver' = [saver EXCEPT !.at = "poll"]
  /\ UNCHANGED <<sleepVars, saveTokens, closeTokens, closer, proved>>

\* The game writes its save: a new proof generation.
GameSaves ==
  /\ game # None /\ saver # None /\ proved # game /\ proved' = game
  /\ UNCHANGED <<sleepVars, saveTokens, closeTokens, saver, closer>>

\* Poll: the same game, and an independent proof.
SaveProved ==
  /\ IF saver = None THEN FALSE ELSE saver.at = "poll" /\ game = saver.game
                                     /\ proved = saver.game
  /\ \/ /\ ChildAppends(saver.op, "substep_verified")
        /\ saver' = [saver EXCEPT !.at = "mark"]
     \/ AppendRefused(saver.op, "substep_verified") /\ saver' = None
  /\ UNCHANGED <<session, serviceRest, saveTokens, closeTokens, closer, proved>>

\* mark_verified_game_save_completed: the journal must still end with the
\* child's own event; a refusal fails the parent.
MarkSaved ==
  /\ IF saver = None THEN FALSE ELSE saver.at = "mark"
  /\ saver' = None
  /\ IF /\ SavingParent = saver.op /\ SavingParent # None
        /\ IF file = None THEN FALSE ELSE file.kind = "substep_verified"
     THEN session' = [session EXCEPT !.saved = TRUE] /\ UNCHANGED file
     ELSE Fails(saver.op) /\ UNCHANGED session
  /\ UNCHANGED <<serviceRest, saveTokens, closeTokens, closer, proved>>

-----------------------------------------------------------------------------
(* Graceful close                                                          *)

\* preview with user_confirmed.
PreviewClose ==
  /\ ClosingParent # None /\ game # None
  /\ IF session = None THEN FALSE ELSE session.save => session.saved
  /\ closeTokens' = Append(KeptTokens(closeTokens), [op |-> ClosingParent, game |-> game])
  /\ UNCHANGED <<sleepVars, saveTokens, saver, closer, proved>>

\* Fault: the approval's parent is not compared with the session's.
ExecuteCloseAnyParent(n) ==
  LET approval == closeTokens[n]
  IN  /\ closer = None
      /\ closeTokens' = Unused(closeTokens, n)
      /\ IF ClosingParent # None /\ game = approval.game
         THEN /\ ChildAppends(ClosingParent, "substep_started")
              /\ closer' = [at |-> "request", op |-> ClosingParent,
                            game |-> approval.game]
         ELSE UNCHANGED <<file, closer>>
      /\ UNCHANGED <<session, serviceRest, saveTokens, saver, proved>>

ExecuteClose(n) ==
  LET approval == closeTokens[n]
  IN  /\ closer = None
      /\ closeTokens' = Unused(closeTokens, n)
      /\ \/ /\ ClosingParent # approval.op /\ UNCHANGED <<file, closer>>
         \/ /\ ClosingParent = approval.op
            /\ Fails(approval.op) /\ UNCHANGED closer
         \/ /\ ClosingParent = approval.op /\ game = approval.game
            /\ \/ /\ ChildAppends(approval.op, "substep_started")
                  /\ closer' = [at |-> "request", op |-> approval.op,
                                game |-> approval.game]
               \/ AppendRefused(approval.op, "substep_started") /\ UNCHANGED closer
      /\ UNCHANGED <<session, serviceRest, saveTokens, saver, proved>>

CloseChildFails ==
  /\ closer # None
  /\ IF closer = None THEN FALSE ELSE closer.at # "advance" /\ Fails(closer.op)
  /\ closer' = None
  /\ UNCHANGED <<session, serviceRest, saveTokens, closeTokens, saver, proved>>

RequestClose ==
  /\ IF closer = None THEN FALSE ELSE closer.at = "request"
  /\ closer' = [closer EXCEPT !.at = "poll"]
  /\ UNCHANGED <<sleepVars, saveTokens, closeTokens, saver, proved>>

\* Poll: no game runs any more.
ExitProved ==
  /\ IF closer = None THEN FALSE ELSE closer.at = "poll" /\ game = None
  /\ \/ /\ ChildAppends(closer.op, "substep_verified")
        /\ closer' = [closer EXCEPT !.at = "advance"]
     \/ AppendRefused(closer.op, "substep_verified") /\ closer' = None
  /\ UNCHANGED <<session, serviceRest, saveTokens, closeTokens, saver, proved>>

\* advance(GAME_EXIT_VERIFIED), for this request's session only.
CloseAdvances ==
  /\ IF closer = None THEN FALSE ELSE closer.at = "advance"
  /\ closer' = None
  /\ \/ /\ IF session = None THEN FALSE ELSE session.op = closer.op
        /\ Advances("game_exit_verified")
     \/ UNCHANGED <<file, session, consented, continued>>
  /\ UNCHANGED <<diskFails, egpu, game, calls, childMem, restarted, unobserved, used,
                 interrupted, outlived, sleepDeaths>>
  /\ UNCHANGED <<saveTokens, closeTokens, saver, proved>>

-----------------------------------------------------------------------------

TokenLapses ==
  /\ \/ saveTokens # <<>> /\ saveTokens' = Tail(saveTokens) /\ UNCHANGED closeTokens
     \/ closeTokens # <<>> /\ closeTokens' = Tail(closeTokens) /\ UNCHANGED saveTokens
  /\ UNCHANGED <<sleepVars, saver, closer, proved>>

\* Everything of a dead process is gone, its children with it.
ServiceStep ==
  /\ SleepServiceNext
  /\ IF sleepDeaths' # sleepDeaths
     THEN /\ saveTokens' = <<>> /\ closeTokens' = <<>> /\ saver' = None /\ closer' = None
          /\ UNCHANGED proved
     ELSE UNCHANGED childVars

SaveChild == RequestSave \/ SaveProved \/ MarkSaved \/ SaveChildFails
CloseChild == RequestClose \/ ExitProved \/ CloseAdvances \/ CloseChildFails

SystemNext ==
  \/ ServiceStep
  \/ PrepareSave \/ \E n \in DOMAIN saveTokens : ExecuteSave(n)
  \/ PreviewClose \/ \E n \in DOMAIN closeTokens : ExecuteClose(n)
  \/ GameSaves \/ SaveChild \/ CloseChild \/ TokenLapses

SystemSpec == SystemInit /\ [][SystemNext]_systemVars

\* The steps of the service's other threads and callers, for fairness.
SleepRecovers == restarted /\ RecoverSleep /\ UNCHANGED childVars
ReleaseChildEnds ==
  UNCHANGED childVars /\ \E kind \in {"substep_verified", "failed"} : ReleaseChildSaves(kind)
AnswerEnds ==
  UNCHANGED childVars /\ \E call \in calls : AnswerArrives(call) \/ AnswerIsRefused(call)
CancelBegins == AnswerBegins("cancel") /\ UNCHANGED childVars
CancelArrives ==
  UNCHANGED childVars /\ \E call \in calls : call[2] = "cancel" /\ AnswerArrives(call)

-----------------------------------------------------------------------------
(* Properties                                                              *)

\* The stage in memory is the step on disk: while a session can advance and its
\* operation is open, both are in the same step, whatever the children, the
\* facade's late calls, a failure or a death did in between
\* (advance_sleep_journal, _fail_session, recover_interrupted).
StageIsJournalStep ==
  InSession =>
    IF file = None THEN TRUE
    ELSE file.op = session.op /\ ~Ended(file) => file.step = session.stage

\* An original sleep request is continued at most once, and never one that a
\* restart found incomplete (docs/SLEEP_WORKFLOW.md).
ContinuedOnceNeverResumed ==
  /\ \A m, n \in DOMAIN continued : m # n => continued[m] # continued[n]
  /\ \A n \in DOMAIN continued : continued[n] \notin interrupted

\* Every game is closed or saved under an operation whose player agreed to
\* the close, and no close precedes the save its consent was bound to
\* (GuardedGameCloseService.preview, game_save_requirements).
Acts(child, next) ==
  IF child = None \/ next = None THEN FALSE
  ELSE child.at = "request" /\ next.at = "poll"

ActsAreConsented ==
  [][/\ Acts(saver, saver') => saver.op \in consented
     /\ Acts(closer, closer') =>
          /\ closer.op \in consented
          /\ InSession => (session.op = closer.op /\ session.save => session.saved)
    ]_systemVars

\* What is on file behaves as the operations the player is shown: each opened
\* once and ended once, and gone for good when acknowledged unless its release
\* child was then still at work (acknowledge, ProcessReleaseRunner.run).
SleepOnFile == IF file = None THEN FALSE ELSE file.op \in used
ShownOp == IF SleepOnFile THEN file.op ELSE None
ShownOver == IF SleepOnFile THEN Ended(file) ELSE FALSE

Lifecycle == INSTANCE OperationLifecycle WITH
  LifecycleOps <- SleepOps, NoOp <- None, current <- ShownOp, over <- ShownOver,
  opened <- used, loose <- outlived
OperationsLiveOnce == Lifecycle!LifecycleSpec

\* Without the exception: an acknowledged operation never comes back, and nothing
\* is appended to one that ended (docs/TRANSITION_JOURNAL.md).
Strict == INSTANCE OperationLifecycle WITH
  LifecycleOps <- SleepOps, NoOp <- None, current <- ShownOp, over <- ShownOver,
  opened <- used, loose <- {}
AcknowledgedStaysGone == Strict!LifecycleSpec

\* While writes succeed, a player who keeps cancelling gets out: every operation
\* ends, whichever child was under way, and whether or not the plugin died; but
\* one that a recovery without an observation left, or that its own child brought
\* back, may stay (recover_interrupted).
SleepEnds ==
  (/\ ~diskFails
   /\ IF SleepOnFile THEN ~Ended(file) ELSE FALSE)
     ~> (IF SleepOnFile THEN Ended(file) \/ unobserved \/ file.op \in outlived ELSE TRUE)
=============================================================================
