---------------------------- MODULE UndockRecovery ----------------------------
(***************************************************************************)
(* The coordinator that takes an unexpected loss of the eGPU or the TV     *)
(* back to Portable: a trigger sample, a fresh sample that proves the      *)
(* loss, one attempt of a mechanism, a poll for Portable, and a fallback   *)
(* with a poll of its own.  The world moves between any two of them; the   *)
(* mechanism may do its work, part of it or none, whatever it answers.     *)
(*                                                                         *)
(* A sample is the whole picture or nothing exact: an identity, a          *)
(* confidence or an inventory that cannot be verified makes it inexact.    *)
(* The repository builds the coordinator in its tests only.                *)
(***************************************************************************)

CONSTANT Inexact    \* an observation that fails or proves nothing

VARIABLES
  world,    \* eGPU and TV attached, what Gamescope presents, whether a game runs
  recovery, \* the run: where it is, its request, its trigger, its result
  held      \* instants of the run: the loss since the trigger, Portable since the
            \* mechanism last acted (no code keeps them)

undockVars == <<world, recovery, held>>

Placements == {"portable", "docked_igpu", "docked_egpu", "unknown", "degraded"}
LossEvents == {"egpu_removed", "external_display_lost"}
Workflows == {"idle", "sleep_pending_disconnect"}

World(egpu, tv, shows, game) == [egpu |-> egpu, tv |-> tv, shows |-> shows, game |-> game]

\* What Gamescope can present with these devices.
Presentable(egpu, tv) ==
  {"portable", "unknown", "degraded"} \cup (IF tv THEN {"docked_igpu"} ELSE {})
    \cup (IF tv /\ egpu THEN {"docked_egpu"} ELSE {})

\* The TV hangs on the G1.
UndockWorlds ==
  {w \in [egpu : BOOLEAN, tv : BOOLEAN, shows : Placements, game : BOOLEAN] :
     (w.tv => w.egpu) /\ w.shows \in Presentable(w.egpu, w.tv)}

NoRecovery == [at |-> "off", event |-> "none", workflow |-> "idle", sleepId |-> FALSE,
               trigger |-> Inexact, result |-> "none"]

UndockInit ==
  /\ world \in UndockWorlds /\ recovery = NoRecovery
  /\ held = [loss |-> FALSE, portable |-> FALSE]

-----------------------------------------------------------------------------
(* What a sample proves                                                     *)

\* _gamescope_healthy
Healthy(w) == w.shows # "degraded"

\* _loss_verified and _egpu_identity_valid_for_event
LossProved(event, w) == IF event = "egpu_removed" THEN ~w.egpu ELSE w.egpu /\ ~w.tv

\* _binding: what the event says was lost must still be there in the trigger.
Bindable(event, w) ==
  /\ w.egpu /\ ~w.game /\ Healthy(w)
  /\ event = "external_display_lost" =>
       w.tv /\ w.shows \in {"docked_igpu", "docked_egpu"}

\* Fault: the loss itself is not looked for again.
NotBlockedByReattach(event, w) == ~w.game /\ Healthy(w)

\* _recovery_blocker finds nothing.
Recoverable(event, w) == ~w.game /\ Healthy(w) /\ LossProved(event, w)

\* _portable_verified
PortableProved(event, w) == ~w.game /\ LossProved(event, w) /\ w.shows = "portable"

\* decide_topology_event, for the events the coordinator lets through.
Directive(event, placement) ==
  IF event = "egpu_removed" /\ placement = "portable" THEN "observe_stability"
  ELSE IF placement \in {"unknown", "degraded", "portable"}
  THEN "action_required"
  ELSE "recover_portable"

-----------------------------------------------------------------------------
(* The world, which is seen by the observer of the properties after a step  *)

Observer(w) ==
  held' = [loss |-> held.loss \/ (recovery'.event \in LossEvents
                                  /\ LossProved(recovery'.event, w) /\ ~w.game),
           portable |-> held.portable \/ (~w.game /\ w.shows = "portable")]

UndockWorldMoves ==
  /\ world' \in UndockWorlds \ {world}
  /\ \/ <<world'.egpu, world'.tv, world'.shows>> = <<world.egpu, world.tv, world.shows>>
     \/ /\ world'.game = world.game
        /\ \/ <<world'.egpu, world'.tv>> = <<world.egpu, world.tv>>
           \/ world'.shows \in {world.shows, "unknown", "degraded"}
  /\ UNCHANGED recovery /\ Observer(world')

-----------------------------------------------------------------------------
(* The run                                                                  *)

Goes(r) == recovery' = r /\ UNCHANGED world /\ Observer(world)
GoesTo(at) == Goes([recovery EXCEPT !.at = at])
Result(kind) == Goes([recovery EXCEPT !.at = "done", !.result = kind])
Samples == {world, Inexact}

\* A second request is refused while one runs.  The event names the sample it was
\* derived from.
UndockRequest ==
  /\ recovery.at = "off"
  /\ \E event \in LossEvents \cup {"egpu_attached"}, workflow \in Workflows, id \in BOOLEAN :
       /\ recovery' = [NoRecovery EXCEPT !.at = "trigger", !.event = event,
                         !.workflow = workflow, !.sleepId = id, !.trigger = world]
       /\ UNCHANGED world /\ held' = [loss |-> FALSE, portable |-> FALSE]

TransactionBlocked == (recovery.workflow = "sleep_pending_disconnect") # recovery.sleepId

ObserveTrigger ==
  /\ recovery.at = "trigger"
  /\ IF TransactionBlocked \/ recovery.event \notin LossEvents THEN Result("blocked")
     ELSE \E sample \in Samples :
            IF sample = Inexact \/ sample # recovery.trigger THEN Result("blocked")
            ELSE LET directive == Directive(recovery.event, sample.shows) IN
                 IF directive = "observe_stability" THEN GoesTo("stable")
                 ELSE IF directive = "recover_portable" /\ Bindable(recovery.event, sample)
                 THEN GoesTo("fresh")
                 ELSE Result("blocked")

\* _verify_no_op: another sample still shows Portable.
VerifyNoOp ==
  /\ recovery.at = "stable"
  /\ \/ Result("blocked")
     \/ world.shows = "portable" /\ Result("no_op")

ValidateLoss ==
  /\ recovery.at = "fresh"
  /\ \/ Result("blocked")
     \/ world # recovery.trigger /\ Recoverable(recovery.event, world) /\ GoesTo("restore")

\* The mechanism presents the panel, loses the session, or does nothing; what was
\* seen of Portable before counts no more.
Mechanism ==
  /\ world' \in {world, [world EXCEPT !.shows = "portable"], [world EXCEPT !.shows = "degraded"]}
  /\ held' = [held EXCEPT !.portable = ~world'.game /\ world'.shows = "portable"]

RestorePortable ==
  /\ recovery.at = "restore" /\ Mechanism
  /\ \E at \in {"verify", "fallback"} : recovery' = [recovery EXCEPT !.at = at]

VerifyPortable ==
  /\ recovery.at = "verify"
  /\ \/ GoesTo("fallback")
     \/ PortableProved(recovery.event, world) /\ Result("succeeded")

PreservePortable ==
  /\ recovery.at = "fallback" /\ Mechanism
  /\ \/ recovery' = [recovery EXCEPT !.at = "done", !.result = "failed"]
     \/ recovery' = [recovery EXCEPT !.at = "preserved"]

VerifyFallback ==
  /\ recovery.at = "preserved"
  /\ \/ Result("failed")
     \/ PortableProved(recovery.event, world) /\ Result("recovered")

UndockReturns == recovery.at = "done" /\ Goes(NoRecovery)

UndockNext ==
  \/ UndockWorldMoves \/ UndockRequest \/ ObserveTrigger \/ VerifyNoOp \/ ValidateLoss
  \/ RestorePortable \/ VerifyPortable \/ PreservePortable \/ VerifyFallback \/ UndockReturns

UndockSpec == UndockInit /\ [][UndockNext]_undockVars

-----------------------------------------------------------------------------
(* Properties                                                               *)

\* The mechanism is only called for a loss that was real, with no game running, at
\* some instant after the trigger; and a positive result means that the panel was
\* presented, with no game running, at some instant after the mechanism last acted
\* (or after the request, when it was never called).
RecoveryIsProved ==
  /\ recovery.at \in {"restore", "verify", "fallback", "preserved"} => held.loss
  /\ recovery.result \in {"succeeded", "recovered"} => held.portable
==============================================================================
