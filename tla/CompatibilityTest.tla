------------------------- MODULE CompatibilityTest -------------------------
(***************************************************************************)
(* One compatibility test of a game: a session with a deadline, advanced   *)
(* under one lock by what its callers record and by what its collectors    *)
(* observe, and the temporary verbose logging that every call switches on  *)
(* or off with the stage the session is in.  The player's own logging      *)
(* switch goes to the same controller, past that lock.                     *)
(*                                                                         *)
(* A collector reads several instants while the world moves: the game that *)
(* runs, what the renderer saw, the game again.  A reading that failed, is *)
(* inexact or shows no game is the answer Unverified, as is a collector    *)
(* that was not given.  Whether a generation is fresh is an input.         *)
(***************************************************************************)
EXTENDS DiagnosticLogging

CONSTANTS Apps, NoApp,   \* Steam applications, and the absence of one
          TestTtl,       \* how long a session and its logging may last
          LastRun,       \* bound: starts of a game in a behaviour
          LastSessionId  \* bound: sessions of a behaviour

ASSUME CompatibilityAssumption ==
  NoApp \notin Apps /\ TestTtl \in Nat \ {0} /\ LastRun \in Nat /\ LastSessionId \in Nat

VARIABLES
  gaming,   \* the world: the run of a game, the GPU it renders on, the dock
  session,  \* CompatibilityTestLifecycle._session
  watch,    \* CompatibilityTestLifecycle._save_exit_watch
  capture   \* the collector that holds the lock: where it is, what it read

testVars == <<loggingVars, gaming, session, watch, capture>>

Tests == {"handoff", "save"}
LiveStages == {"awaiting_baseline", "active"}
TestEnded == {"awaiting_review", "completed", "cancelled", "action_required"}
Handoffs == {"verified", "falls_back_to_igpu", "known_issue"}

\* captured: the results a collector recorded; observed: those of them for
\* which the world was as the result says.
NoSession == [stage |-> "none", id |-> 0, tests |-> {}, expires |-> 0,
              app |-> NoApp, gpu |-> "unknown", results |-> {},
              captured |-> {}, observed |-> {}]

NoWatchYet == [run |-> 0, app |-> NoApp, session |-> 0]

NoCapture == [at |-> "off", of |-> "none", run |-> 0, app |-> NoApp, now |-> 0,
              docked |-> FALSE, rendered |-> FALSE]

TestInit ==
  /\ LoggingInit
  /\ gaming = [run |-> 0, app |-> NoApp, starts |-> 0, external |-> FALSE, docked |-> FALSE]
  /\ session = NoSession /\ watch = NoWatchYet /\ capture = NoCapture

-----------------------------------------------------------------------------
(* The world and the player's logging switch                               *)

\* What has been true at some instant of the capture.
Noticed(c, scene) ==
  IF c.at = "off" THEN c
  ELSE [c EXCEPT !.docked = @ \/ scene.docked,
                 !.rendered = @ \/ (scene.external /\ scene.run = c.run)]

WorldMovesOn ==
  /\ \/ \E app \in Apps : /\ gaming.starts < LastRun
                          /\ gaming' = [gaming EXCEPT !.run = gaming.starts + 1, !.app = app,
                                                      !.starts = @ + 1]
     \/ gaming.run # 0 /\ gaming' = [gaming EXCEPT !.run = 0, !.app = NoApp]
     \/ gaming' = [gaming EXCEPT !.external = ~@]
     \/ gaming' = [gaming EXCEPT !.docked = ~@]
  /\ capture' = Noticed(capture, gaming')
  /\ UNCHANGED <<loggingVars, session, watch>>

TimePasses == ClockTicks /\ UNCHANGED <<gaming, session, watch, capture>>

PlayerSwitches ==
  /\ \/ \E grant \in Grants : Enable(grant, TRUE) /\ word' = grant
     \/ Disable /\ word' = LoggingOff
  /\ UNCHANGED <<now, log, worker, gaming, session, watch, capture>>

-----------------------------------------------------------------------------
(* The session policy                                                      *)

IsExpired(s, at) == at >= s.expires
Cancelled(s) == [s EXCEPT !.stage = "cancelled"]
ActionRequiredIn(s) == [s EXCEPT !.stage = "action_required"]

Reconciled(s) == IF s.stage \in LiveStages /\ IsExpired(s, now) THEN Cancelled(s) ELSE s

\* require_compatibility_action, for a session some caller has reconciled.
RequireAction(s, at) == IF IsExpired(s, at) THEN Cancelled(s) ELSE ActionRequiredIn(s)

WithBaseline(s, app, gpu, sound, at) ==
  IF IsExpired(s, at) THEN Cancelled(s)
  ELSE IF s.stage # "awaiting_baseline" \/ ~sound THEN ActionRequiredIn(s)
  ELSE [s EXCEPT !.stage = "active", !.app = app, !.gpu = gpu]

Recordable(s, test, fresh) ==
  s.stage = "active" /\ test \in s.tests /\ test \notin s.results /\ fresh

\* record_egpu_handoff_result: the status must agree with the renderer.
Agrees(status, gpu) ==
  /\ status = "verified" => gpu = "external"
  /\ status = "falls_back_to_igpu" => gpu = "internal"

WithHandoff(s, status, gpu, fresh, at) ==
  IF IsExpired(s, at) THEN Cancelled(s)
  ELSE IF Recordable(s, "handoff", fresh) /\ Agrees(status, gpu)
  THEN [s EXCEPT !.results = @ \cup {"handoff"}] ELSE ActionRequiredIn(s)

WithSave(s, fresh, at) ==
  IF IsExpired(s, at) THEN Cancelled(s)
  ELSE IF Recordable(s, "save", fresh)
  THEN [s EXCEPT !.results = @ \cup {"save"}] ELSE ActionRequiredIn(s)

FinishedTest(s, at) ==
  IF IsExpired(s, at) THEN Cancelled(s)
  ELSE IF s.stage = "active" /\ s.tests \subseteq s.results
  THEN [s EXCEPT !.stage = "awaiting_review"] ELSE ActionRequiredIn(s)

Started(id, tests) == [NoSession EXCEPT !.stage = "awaiting_baseline", !.id = id,
                                        !.tests = tests, !.expires = now + TestTtl]

-----------------------------------------------------------------------------
(* The lifecycle                                                           *)

\* Fault: a session that waits for its review keeps its logging.
DirectedUntilReviewed(on, s) ==
  IF s.stage = "awaiting_baseline"
  THEN IF on.on /\ now < on.until THEN on ELSE OnFor(TestTtl)
  ELSE IF s.stage \in TestEnded \ {"awaiting_review"} THEN LoggingOff ELSE on

\* _apply_logging_directives_locked, from what the controller holds.
Directed(on, s) ==
  IF s.stage = "awaiting_baseline"
  THEN IF on.on /\ now < on.until THEN on ELSE OnFor(TestTtl)
  ELSE IF s.stage \in TestEnded THEN LoggingOff ELSE on

NoLock == capture.at = "off"

\* Enabling needs the boot identity: without it the logging is off and the
\* call raises, once the session it reconciled or started is in place.
Raises(s, boot) == s.stage = "awaiting_baseline" /\ ~boot

\* A call of the lifecycle: it reconciles, then acts unless there is nothing
\* for it to do, then applies the directives again.
CallOf(s, boot, to) ==
  LET once == Directed(logging, s) IN
    /\ session' = IF Raises(s, boot) THEN s ELSE to
    /\ logging' = IF Raises(s, boot) \/ Raises(to, boot) THEN LoggingOff ELSE Directed(once, to)

OnlySession == UNCHANGED <<now, log, worker, word, gaming>>

Now == Reconciled(session)
\* Whether the boot identity can be read matters where it is asked for.
Boots == IF Now.stage = "awaiting_baseline" THEN BOOLEAN ELSE {TRUE}
IsLive == Now.stage \in LiveStages
Testing(test) == Now.stage = "active" /\ test \in Now.tests

\* status(), and every call that finds no live session.
ReadsStatus ==
  /\ NoLock /\ session # NoSession
  /\ \E boot \in Boots : CallOf(Now, boot, Now)
  /\ OnlySession /\ UNCHANGED <<watch, capture>>

\* Fault: the watch of the session before is still there.
FreshWatchKept == watch

FreshWatch == NoWatchYet

\* start(): the player confirmed it; a hardware test also needs the runner's
\* authorization, and without either the call ends as status() does.
StartsTest ==
  /\ NoLock /\ ~IsLive /\ session.id < LastSessionId
  /\ \E tests \in SUBSET Tests \ {{}}, boot \in BOOLEAN :
       CallOf(Now, boot, Started(session.id + 1, tests))
  /\ watch' = FreshWatch
  /\ OnlySession /\ UNCHANGED capture

\* _advance, with what the session may become.
Advances(outcomes) ==
  /\ NoLock /\ IsLive
  /\ \E to \in outcomes, boot \in Boots : CallOf(Now, boot, to)
  /\ OnlySession /\ UNCHANGED <<watch, capture>>

RecordsBaseline ==
  Advances({WithBaseline(Now, app, gpu, sound, now) :
            app \in Apps \cup {NoApp}, gpu \in {"internal", "external"}, sound \in BOOLEAN})

RecordsHandoff ==
  Advances({WithHandoff(Now, status, gpu, fresh, now) :
            status \in Handoffs, gpu \in {"internal", "external"}, fresh \in BOOLEAN})

RecordsSave == Advances({WithSave(Now, fresh, now) : fresh \in BOOLEAN})

FinishesTest == Advances({FinishedTest(Now, now)})

CancelsTest == Advances({Cancelled(Now)})

-----------------------------------------------------------------------------
(* The collectors: the same game before and after what the renderer saw    *)

\* The call takes the lock and keeps it until its collector has answered.
CaptureBegins(of) ==
  /\ NoLock /\ session # NoSession
  /\ \E boot \in Boots : CallOf(Now, boot, Now) /\ ~Raises(Now, boot)
  /\ capture' = [NoCapture EXCEPT !.at = "before", !.of = of, !.now = now]
  /\ OnlySession /\ UNCHANGED watch

CapturesBaseline == Now.stage = "awaiting_baseline" /\ CaptureBegins("baseline")
CapturesHandoff == Testing("handoff") /\ CaptureBegins("handoff")

\* The result goes into the session, the directives are applied, the lock
\* is released.
CaptureEnds(to) ==
  /\ session' = to /\ logging' = Directed(logging, to)
  /\ capture' = NoCapture
  /\ OnlySession /\ UNCHANGED watch

CaptureRejected ==
  /\ capture.at # "off"
  /\ CaptureEnds(RequireAction(session, IF capture.of = "baseline" THEN now ELSE capture.now))

CaptureGoesOn(c) == capture' = Noticed(c, gaming) /\ UNCHANGED <<logging, session, watch>>

\* The scopes of one exact game run; its run number stands for the hash of
\* the application and its scopes.
GameIsExact == gaming.run # 0

\* The game is the one of the first reading, and it is still there.
SameGame == gaming.run = capture.run

ReadsGameBefore ==
  /\ capture.at = "before" /\ GameIsExact
  /\ capture.of = "handoff" => session.app = gaming.app /\ session.gpu = "internal"
  /\ CaptureGoesOn([capture EXCEPT !.at = "snapshot", !.run = gaming.run, !.app = gaming.app])
  /\ OnlySession

\* The snapshot the renderer's evidence takes its placement from.
Placed == gaming.docked <=> capture.of = "handoff"

ReadsSnapshot ==
  /\ capture.at = "snapshot" /\ SameGame /\ Placed
  /\ CaptureGoesOn([capture EXCEPT !.at = "counters"])
  /\ OnlySession

\* The engine counters of the GPU asked about grew between two samples.
CountersGrew == gaming.external <=> capture.of = "handoff"

ReadsCounters ==
  /\ capture.at = "counters" /\ SameGame /\ CountersGrew
  /\ CaptureGoesOn([capture EXCEPT !.at = "after"])
  /\ OnlySession

BaselineCaptured ==
  /\ capture.at = "after" /\ capture.of = "baseline" /\ SameGame
  /\ CaptureEnds(WithBaseline(session, capture.app, "internal", TRUE, now))

HandoffCaptured ==
  /\ capture.at = "after" /\ capture.of = "handoff" /\ SameGame
  /\ \E fresh \in BOOLEAN :
       LET to == WithHandoff(session, "verified", "external", fresh, capture.now) IN
         CaptureEnds(IF to.stage # "active" THEN to
                     ELSE [to EXCEPT !.captured = @ \cup {"handoff"},
                            !.observed = IF capture.docked /\ capture.rendered
                                         THEN @ \cup {"handoff"} ELSE @])

-----------------------------------------------------------------------------
(* The exit of the game: armed while it runs, captured once it is gone      *)

\* The exact game of the baseline runs.
ArmSeen(exact) == exact /\ gaming.run # 0 /\ gaming.app = Now.app

ArmsExit ==
  /\ NoLock /\ Testing("save")
  /\ \E exact \in BOOLEAN, boot \in Boots :
       IF ArmSeen(exact)
       THEN /\ watch' = [run |-> gaming.run, app |-> gaming.app, session |-> Now.id]
            /\ CallOf(Now, boot, Now)
       ELSE watch' = NoWatchYet /\ CallOf(Now, boot, RequireAction(Now, now))
  /\ OnlySession /\ UNCHANGED capture

\* An idle instant after the armed run, and a watch on the game of this test.
ExitSeen(exact) == exact /\ watch.app = Now.app /\ gaming.run = 0

CapturesExit ==
  /\ NoLock /\ Testing("save")
  /\ \E exact \in BOOLEAN, boot \in Boots :
       IF watch # NoWatchYet /\ ExitSeen(exact)
       THEN LET to == WithSave(Now, TRUE, now) IN
              CallOf(Now, boot,
                IF to.stage # "active" THEN to
                ELSE [to EXCEPT !.captured = @ \cup {"save"},
                       !.observed = IF watch.session = Now.id THEN @ \cup {"save"} ELSE @])
       ELSE CallOf(Now, boot, RequireAction(Now, now))
  /\ watch' = NoWatchYet
  /\ OnlySession /\ UNCHANGED capture

TestNext ==
  \/ WorldMovesOn \/ TimePasses \/ PlayerSwitches
  \/ ReadsStatus \/ StartsTest \/ RecordsBaseline \/ RecordsHandoff \/ RecordsSave
  \/ FinishesTest \/ CancelsTest
  \/ CapturesBaseline \/ CapturesHandoff \/ CaptureRejected
  \/ ReadsGameBefore \/ ReadsSnapshot \/ ReadsCounters \/ BaselineCaptured \/ HandoffCaptured
  \/ ArmsExit \/ CapturesExit

TestSpec == TestInit /\ [][TestNext]_testVars

-----------------------------------------------------------------------------
(* A result a collector recorded was so: a verified handoff had the dock    *)
(* and the external GPU under the very game that ran all through the        *)
(* capture, and a verified exit was of a game armed in this same session.   *)
ResultsAreObserved == session.captured \subseteq session.observed

(* Once a test has ended and the call that ended it has returned, the only  *)
(* verbose logging that may be on is one the player asked for.              *)
EndedTestLeavesNoLogging ==
  session.stage \in TestEnded /\ NoLock /\ logging.on => logging = word
=============================================================================
