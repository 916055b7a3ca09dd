------------------------------ MODULE DockedIgpu ------------------------------
(***************************************************************************)
(* The watch over a game played on the TV by the internal GPU: the watcher *)
(* that arms on one exact game and polls for its end, the facade that      *)
(* keeps the watch, the lifecycle that owns its name, the asyncio          *)
(* scheduler that ticks the lifecycle in a worker thread, and the player's *)
(* acknowledgement, which runs in a thread of its own.                     *)
(*                                                                         *)
(* Every observation is a step: games, placement and the Gamescope session *)
(* change between any two of them.  A failed, inexact or invalid           *)
(* observation is the answer Unverified.                                   *)
(***************************************************************************)
EXTENDS Naturals

CONSTANTS IgpuGames, WatchIds, Unverified, NoWatch,
          LastSession    \* bound: Gamescope sessions of a behaviour

Stages == {"idle", "watching", "promotion_ready", "action_required", "closed"}

\* A watch the facade keeps: the exact game and session it was armed on.
Watches == [id : WatchIds, stage : Stages, game : IgpuGames, session : Nat]

ASSUME DockedIgpuAssumption ==
  /\ LastSession \in Nat /\ NoWatch \notin WatchIds \cup Watches
  /\ Unverified \notin IgpuGames \cup Nat /\ "idle" \notin IgpuGames

VARIABLES
  igame,      \* the world: the game that runs, or "idle"
  onTv,       \* the world: Gamescope shows the TV from the internal GPU
  gamescope,  \* the world: the Gamescope session that runs
  current,    \* DockedIgpuPromotionFacade._current, or NoWatch
  lifecycle,  \* DockedIgpuWatchLifecycle: its stage and the watch it owns
  tick,       \* the worker thread in tick(): where it is and what it read
  scheduler,  \* where the coroutine run() is
  wake,       \* DockedIgpuLifecycleScheduler._wake
  shown,      \* DockedIgpuLifecycleScheduler._latest
  ack,        \* the thread of acknowledge_action: where it is, what it read
  inspects    \* whether the facade was built with a preview service

worldVars == <<igame, onTv, gamescope>>
threadVars == <<current, lifecycle, tick>>
igpuVars == <<worldVars, threadVars, scheduler, wake, shown, ack, inspects>>

\* What a tick has read so far; instant is the world its snapshot was taken of.
Nothing == [at |-> "off", game |-> "idle", session |-> 0, fit |-> FALSE,
            instant |-> <<>>, stage |-> "idle"]

IgpuInit ==
  /\ igame \in IgpuGames \cup {"idle"} /\ onTv \in BOOLEAN /\ gamescope = 1
  /\ current = NoWatch /\ lifecycle = [stage |-> "idle", watch |-> NoWatch]
  /\ tick = Nothing /\ scheduler = "building" /\ wake = FALSE /\ shown = "idle"
  /\ ack = [at |-> "off", stage |-> "idle"] /\ inspects \in BOOLEAN

-----------------------------------------------------------------------------
(* The world                                                               *)

WorldMoves ==
  /\ \/ igame' \in (IgpuGames \cup {"idle"}) \ {igame} /\ UNCHANGED <<onTv, gamescope>>
     \/ onTv' = ~onTv /\ UNCHANGED <<igame, gamescope>>
     \/ gamescope < LastSession /\ gamescope' = gamescope + 1 /\ igame' = "idle"
          /\ UNCHANGED onTv
  /\ UNCHANGED <<threadVars, scheduler, wake, shown, ack, inspects>>

GameAnswers == {igame, Unverified}
SessionAnswers == {gamescope, Unverified}

-----------------------------------------------------------------------------
(* The facade and the lifecycle                                            *)

MayCancel == IF current = NoWatch THEN FALSE ELSE current.id = lifecycle.watch

\* The lock is released: tick() returns the lifecycle's status.
Returns(life) == /\ lifecycle' = life
                 /\ tick' = [Nothing EXCEPT !.at = "returned", !.stage = life.stage]

\* _cancel_locked, then the status that follows it.
CancelThenIdle ==
  IF lifecycle.watch = NoWatch \/ MayCancel
  THEN current' = NoWatch /\ Returns([stage |-> "idle", watch |-> NoWatch])
  ELSE UNCHANGED current /\ Returns([lifecycle EXCEPT !.stage = "action_required"])

\* The watcher answers poll() with the watch in this stage.
PollEnds(stage) ==
  IF stage = "cancelled"
  THEN CancelThenIdle
  ELSE /\ current' = [current EXCEPT !.stage = stage]
       /\ Returns([lifecycle EXCEPT !.stage = stage])

ArmRejected == UNCHANGED current /\ Returns([lifecycle EXCEPT !.stage = "idle"])

Rests == \/ lifecycle.stage \in {"closed", "action_required"}
         \/ lifecycle.stage = "promotion_ready" /\ inspects

\* tick() takes the lock and sees what there is to do.
TickBegins ==
  /\ tick.at = "queued"
  /\ IF Rests THEN UNCHANGED current /\ Returns(lifecycle)
     ELSE IF lifecycle.stage = "promotion_ready" THEN CancelThenIdle
     ELSE IF IF lifecycle.watch = NoWatch THEN current # NoWatch ELSE ~MayCancel
     THEN UNCHANGED current /\ Returns([lifecycle EXCEPT !.stage = "action_required"])
     ELSE /\ tick' = [Nothing EXCEPT !.at = IF current = NoWatch THEN "arm" ELSE "poll"]
          /\ UNCHANGED <<current, lifecycle>>

Reading(step) == tick.at = step
GoesOnWith(t) == tick' = t /\ UNCHANGED <<current, lifecycle>>

-----------------------------------------------------------------------------
(* DockedIgpuGameExitWatcher.arm: game, session, snapshot, game, session    *)

ArmReadsGame ==
  /\ Reading("arm")
  /\ \E g \in GameAnswers :
       IF g \in IgpuGames
       THEN GoesOnWith([tick EXCEPT !.at = "armSession", !.game = g])
       ELSE ArmRejected

ArmReadsSession ==
  /\ Reading("armSession")
  /\ \E s \in SessionAnswers :
       IF s = Unverified THEN ArmRejected
       ELSE GoesOnWith([tick EXCEPT !.at = "armSnapshot", !.session = s])

\* A snapshot of one instant, or none that can be used.
ArmReadsSnapshot ==
  /\ Reading("armSnapshot")
  /\ \E ok \in BOOLEAN :
       IF ok /\ onTv /\ igame # "idle"
       THEN GoesOnWith([tick EXCEPT !.at = "armGameAgain"])
       ELSE ArmRejected

ArmReadsGameAgain ==
  /\ Reading("armGameAgain")
  /\ \E g \in GameAnswers :
       IF g = tick.game THEN GoesOnWith([tick EXCEPT !.at = "armSessionAgain"])
       ELSE ArmRejected

ArmReadsSessionAgain ==
  /\ Reading("armSessionAgain")
  /\ \E s \in SessionAnswers :
       IF s # tick.session THEN ArmRejected
       ELSE \E id \in WatchIds :
              /\ current' = [id |-> id, stage |-> "watching", game |-> tick.game,
                             session |-> tick.session]
              /\ Returns([stage |-> "watching", watch |-> id])

-----------------------------------------------------------------------------
(* DockedIgpuGameExitWatcher.poll: clock, session, game, snapshot, game,    *)
(* session                                                                  *)

PollReadsSession ==
  /\ Reading("poll")
  /\ \/ \E early \in {"action_required", "cancelled"} : PollEnds(early)  \* the clock
     \/ \E s \in SessionAnswers :
          IF s = Unverified THEN PollEnds("action_required")
          ELSE IF s # current.session THEN PollEnds("cancelled")
          ELSE GoesOnWith([tick EXCEPT !.at = "pollGame"])

PollReadsGame ==
  /\ Reading("pollGame")
  /\ \E g \in GameAnswers :
       IF g = Unverified THEN PollEnds("action_required")
       ELSE IF g = "idle" THEN GoesOnWith([tick EXCEPT !.at = "pollSnapshot"])
       ELSE IF g = current.game THEN PollEnds("watching")
       ELSE PollEnds("cancelled")

\* fit: the same hosts and eGPU, exactly known, as when the watch was armed.
PollReadsSnapshot ==
  /\ Reading("pollSnapshot")
  /\ \/ PollEnds("action_required")
     \/ IF igame # "idle" THEN PollEnds("watching")
        ELSE IF ~onTv THEN PollEnds("cancelled")
        ELSE \E fit \in BOOLEAN :
               GoesOnWith([tick EXCEPT !.at = "pollGameAgain", !.fit = fit,
                                       !.instant = <<igame, onTv, gamescope>>])

PollReadsGameAgain ==
  /\ Reading("pollGameAgain")
  /\ \E g \in GameAnswers :
       IF g # "idle" THEN PollEnds("action_required")
       ELSE GoesOnWith([tick EXCEPT !.at = "pollSessionAgain"])

\* Fault: the session is not asked for again after the snapshot.
PollSkipsSessionAgain ==
  /\ Reading("pollSessionAgain")
  /\ PollEnds(IF tick.fit THEN "promotion_ready" ELSE "action_required")

PollReadsSessionAgain ==
  /\ Reading("pollSessionAgain")
  /\ \E s \in SessionAnswers :
       IF s = Unverified THEN PollEnds("action_required")
       ELSE IF s # current.session THEN PollEnds("cancelled")
       ELSE PollEnds(IF tick.fit THEN "promotion_ready" ELSE "action_required")

WatcherReads ==
  \/ ArmReadsGame \/ ArmReadsSession \/ ArmReadsSnapshot \/ ArmReadsGameAgain
  \/ ArmReadsSessionAgain
  \/ PollReadsSession \/ PollReadsGame \/ PollReadsSnapshot \/ PollReadsGameAgain
  \/ PollReadsSessionAgain

\* The worker thread that runs tick() to its end.
TickRuns ==
  /\ TickBegins \/ WatcherReads
  /\ UNCHANGED <<worldVars, scheduler, wake, shown, ack, inspects>>

\* The lifecycle's lock is free: no tick is between its first and last step.
Unlocked == tick.at \in {"off", "queued", "returned"}

\* inspect_ready asks for an unconfirmed preview; the preview may find that the
\* placement changed.
InspectReady ==
  /\ Unlocked /\ inspects /\ lifecycle.stage = "promotion_ready"
  /\ ~MayCancel \/ ~onTv
  /\ lifecycle' = [lifecycle EXCEPT !.stage = "action_required"]
  /\ UNCHANGED <<worldVars, current, tick, scheduler, wake, shown, ack, inspects>>

-----------------------------------------------------------------------------
(* The scheduler                                                           *)

BuildScheduler ==
  /\ scheduler = "building" /\ scheduler' = "looping"
  /\ UNCHANGED <<worldVars, threadVars, wake, shown, ack, inspects>>

\* The status asks for another tick after a while.
AsksAgain(stage) == \/ stage \in {"idle", "watching"}
                    \/ stage = "promotion_ready" /\ ~inspects

\* Fault: the wake-up call is cleared after the tick, not before it.
ClearAfterTick ==
  \/ /\ scheduler = "looping" /\ tick.at = "off"
     /\ tick' = [Nothing EXCEPT !.at = "queued"] /\ scheduler' = "ticking"
     /\ UNCHANGED <<worldVars, current, lifecycle, wake, shown, ack, inspects>>
  \/ /\ scheduler = "ticking" /\ tick.at = "returned"
     /\ wake' = FALSE /\ shown' = tick.stage /\ tick' = Nothing
     /\ scheduler' = IF AsksAgain(tick.stage) THEN "sleeping" ELSE "parked"
     /\ UNCHANGED <<worldVars, current, lifecycle, ack, inspects>>

\* The coroutine clears the event and ticks in a thread, then shows the answer
\* and waits for the event, or for a while.
Loop ==
  \/ /\ scheduler = "looping" /\ tick.at = "off"
     /\ wake' = FALSE
     /\ tick' = [Nothing EXCEPT !.at = "queued"] /\ scheduler' = "ticking"
     /\ UNCHANGED <<worldVars, current, lifecycle, shown, ack, inspects>>
  \/ /\ scheduler = "ticking" /\ tick.at = "returned"
     /\ shown' = tick.stage /\ tick' = Nothing
     /\ scheduler' = IF AsksAgain(tick.stage) THEN "sleeping" ELSE "parked"
     /\ UNCHANGED <<worldVars, current, lifecycle, wake, ack, inspects>>

WaitEnds ==
  /\ scheduler \in {"sleeping", "parked"} /\ (wake \/ scheduler = "sleeping")
  /\ scheduler' = "looping"
  /\ UNCHANGED <<worldVars, threadVars, wake, shown, ack, inspects>>

\* _stop_docked_igpu_lifecycle cancels the coroutine; a tick goes on in its thread.
StopLifecycle ==
  /\ scheduler \notin {"closing", "stopped"}
  /\ scheduler' = IF scheduler = "building" THEN "stopped" ELSE "closing"
  /\ UNCHANGED <<worldVars, threadVars, wake, shown, ack, inspects>>

\* Fault: the lifecycle closes without asking the facade to cancel.
CloseWithoutCancel ==
  /\ scheduler = "closing" /\ Unlocked
  /\ lifecycle' = [stage |-> "closed", watch |-> NoWatch]
  /\ scheduler' = "stopped" /\ shown' = "closed"
  /\ UNCHANGED <<worldVars, current, tick, wake, ack, inspects>>

CloseLifecycle ==
  /\ scheduler = "closing" /\ Unlocked
  /\ LET cancelled == lifecycle.watch = NoWatch \/ MayCancel IN
     /\ current' = IF lifecycle.watch # NoWatch /\ MayCancel THEN NoWatch ELSE current
     /\ lifecycle' = [stage |-> "closed",
                      watch |-> IF cancelled THEN NoWatch ELSE lifecycle.watch]
  /\ scheduler' = "stopped" /\ shown' = "closed"
  /\ UNCHANGED <<worldVars, tick, wake, ack, inspects>>

-----------------------------------------------------------------------------
(* The player's acknowledgement                                            *)

AskAcknowledge ==
  /\ ack.at = "off" /\ scheduler \notin {"building", "stopped"}
  /\ ack' = [ack EXCEPT !.at = "asked"]
  /\ UNCHANGED <<worldVars, threadVars, scheduler, wake, shown, inspects>>

AcknowledgeAction ==
  /\ ack.at = "asked" /\ Unlocked
  /\ IF lifecycle.stage = "action_required" /\ MayCancel
     THEN /\ current' = NoWatch /\ lifecycle' = [stage |-> "idle", watch |-> NoWatch]
          /\ ack' = [ack EXCEPT !.at = "done"]
     ELSE ack' = [ack EXCEPT !.at = "off"] /\ UNCHANGED <<current, lifecycle>>
  /\ UNCHANGED <<worldVars, tick, scheduler, wake, shown, inspects>>

\* scheduler.acknowledge_action reads the status, then shows it.
AcknowledgeReads ==
  /\ ack.at = "done" /\ Unlocked
  /\ ack' = [at |-> "read", stage |-> lifecycle.stage]
  /\ UNCHANGED <<worldVars, threadVars, scheduler, wake, shown, inspects>>

AcknowledgeShows ==
  /\ ack.at = "read"
  /\ shown' = ack.stage /\ ack' = [at |-> "shown", stage |-> "idle"]
  /\ UNCHANGED <<worldVars, threadVars, scheduler, wake, inspects>>

AcknowledgeWakes ==
  /\ ack.at = "shown"
  /\ wake' = TRUE /\ ack' = [ack EXCEPT !.at = "off"]
  /\ UNCHANGED <<worldVars, threadVars, scheduler, shown, inspects>>

AcknowledgeRuns == AcknowledgeAction \/ AcknowledgeReads \/ AcknowledgeShows
                   \/ AcknowledgeWakes

SchedulerRuns == BuildScheduler \/ Loop \/ WaitEnds \/ CloseLifecycle

IgpuNext == WorldMoves \/ TickRuns \/ InspectReady \/ SchedulerRuns
            \/ StopLifecycle \/ AskAcknowledge \/ AcknowledgeRuns

IgpuSpec == IgpuInit /\ [][IgpuNext]_igpuVars

-----------------------------------------------------------------------------
(* Properties                                                              *)

\* The lifecycle owns exactly the watch the facade keeps, whatever was
\* cancelled, acknowledged or closed meanwhile; so an action that is required
\* can always be acknowledged, and no watch is left behind by unload.
WatchHasOwner ==
  Unlocked =>
    /\ IF lifecycle.watch = NoWatch THEN current = NoWatch ELSE MayCancel
    /\ lifecycle.stage = "action_required" => MayCancel
    /\ lifecycle.stage = "closed" => current = NoWatch

\* A watch becomes ready only if, at one instant of that poll, no game ran, the
\* TV was shown from the internal GPU, and the session was the one armed on.
ReadyHasEvidence ==
  [][lifecycle'.stage = "promotion_ready" /\ lifecycle.stage # "promotion_ready"
     => tick.instant = <<"idle", TRUE, current.session>>]_igpuVars

\* As main.py builds it, without inspection: the status shown to the player
\* catches up with the lifecycle, so no acknowledgement leaves an old stage on
\* display for good.
ShownFollows ==
  (~inspects /\ shown # lifecycle.stage /\ scheduler \notin {"closing", "stopped"})
    ~> (shown = lifecycle.stage \/ scheduler \in {"closing", "stopped"})
==============================================================================
