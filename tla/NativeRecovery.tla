---------------------------- MODULE NativeRecovery ----------------------------
(***************************************************************************)
(* The observer of SteamOS' own return to Portable: a supervisor that      *)
(* keeps the last exact idle docked observation, recognises the loss of    *)
(* the TV path and the return after it, and the loop around it, which      *)
(* reads the preference and the snapshot in threads and has the Portable   *)
(* sound restored afterwards (a call of AudioHandoff).                     *)
(*                                                                         *)
(* scene is what a snapshot amounts to: "docked" an exact idle TV          *)
(* presentation, "lost" Gamescope stopped, the TV gone and the panel       *)
(* available, "portable" verified, "other" anything else.  Whether the     *)
(* deadline has passed is open once an incident has begun.                 *)
(***************************************************************************)

VARIABLES
  scene,       \* the world
  optIn,       \* the stored preference
  native,      \* the supervisor: baseline, incident (_started_ms) and stage
  nativeLoop,  \* the loop: where it is, the preference it read, what it saw
  lossSeen     \* since it last observed the dock, the opted-in loop observed a loss

nativeVars == <<scene, optIn, native, nativeLoop, lossSeen>>

Scenes == {"docked", "lost", "portable", "other"}

Supervisor(baseline, incident, stage) ==
  [baseline |-> baseline, incident |-> incident, stage |-> stage]
LoopAt(at, enabled, saw) == [at |-> at, enabled |-> enabled, saw |-> saw]
LoopIdle == LoopAt("idle", FALSE, "other")

NativeInit ==
  /\ scene \in Scenes /\ optIn \in BOOLEAN
  /\ native = Supervisor(FALSE, FALSE, "idle")
  /\ nativeLoop = LoopIdle /\ lossSeen = FALSE

SceneChanges ==
  /\ \/ scene' \in Scenes \ {scene} /\ UNCHANGED optIn
     \/ optIn' = ~optIn /\ UNCHANGED scene
  /\ UNCHANGED <<native, nativeLoop, lossSeen>>

LoadOptIn ==
  /\ nativeLoop.at = "idle" /\ nativeLoop' = LoopAt("loaded", optIn, "other")
  /\ UNCHANGED <<scene, optIn, native, lossSeen>>

\* Observing may fail, which ends the iteration.
ObserveScene ==
  /\ nativeLoop.at = "loaded"
  /\ nativeLoop' \in {LoopAt("observed", nativeLoop.enabled, scene), LoopIdle}
  /\ UNCHANGED <<scene, optIn, native, lossSeen>>

Reset == Supervisor(FALSE, FALSE, "idle")
ActionRequired == Supervisor(FALSE, FALSE, "action_required")
Recovered == Supervisor(FALSE, FALSE, "recovered")
Waiting == Supervisor(TRUE, TRUE, "waiting")

\* Fault: an incident is not forgotten when the dock is back.
UpdatedKeepingIncident(saw) ==
  IF saw = "docked" THEN {Supervisor(TRUE, native.incident, "armed")}
  ELSE IF ~native.baseline THEN {Reset}
  ELSE IF saw = "portable" THEN {IF native.incident THEN Recovered ELSE Reset}
  ELSE IF native.incident THEN {Waiting, ActionRequired}
  ELSE {IF saw = "lost" THEN Waiting ELSE ActionRequired}

\* The answers of update() to an observation while opted in.
Updated(saw) ==
  IF saw = "docked" THEN {Supervisor(TRUE, FALSE, "armed")}
  ELSE IF ~native.baseline THEN {Reset}
  ELSE IF saw = "portable" THEN {IF native.incident THEN Recovered ELSE Reset}
  ELSE IF native.incident THEN {Waiting, ActionRequired}
  ELSE {IF saw = "lost" THEN Waiting ELSE ActionRequired}

Supervise ==
  /\ nativeLoop.at = "observed"
  /\ native' \in IF nativeLoop.enabled THEN Updated(nativeLoop.saw) ELSE {Reset}
  /\ lossSeen' = (/\ nativeLoop.enabled /\ nativeLoop.saw # "docked"
                  /\ native'.stage # "recovered"
                  /\ lossSeen \/ nativeLoop.saw = "lost")
  /\ nativeLoop' = IF native'.stage = "recovered" THEN LoopAt("restoring", TRUE, "portable")
                   ELSE LoopIdle
  /\ UNCHANGED <<scene, optIn>>

\* The user is resolved and the sound restored, or not; the loop goes on.
RestoreReturns ==
  /\ nativeLoop.at = "restoring" /\ nativeLoop' = LoopIdle
  /\ UNCHANGED <<scene, optIn, native, lossSeen>>

\* The plugin is unloaded and loaded again.
NativeReloads ==
  /\ native' = Reset /\ nativeLoop' = LoopIdle /\ lossSeen' = FALSE
  /\ UNCHANGED <<scene, optIn>>

NativeNext ==
  SceneChanges \/ LoadOptIn \/ ObserveScene \/ Supervise \/ RestoreReturns \/ NativeReloads

NativeSpec == NativeInit /\ [][NativeNext]_nativeVars

-----------------------------------------------------------------------------
(* Properties                                                               *)

\* A verified return, and with it the restore of the sound, needs a loss that the
\* loop observed after the dock, while opted in; and a loss is answered once.
RestoreFollowsLoss ==
  [][native'.stage = "recovered" /\ native.stage # "recovered" => lossSeen]_nativeVars
==============================================================================
