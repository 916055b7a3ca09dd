------------------------------ MODULE SleepFlow ------------------------------
(***************************************************************************)
(* The canonical sleep workflow as a reducer: which stage a request starts *)
(* in and which stage an event leads to, from one observation.  Directives *)
(* and reason codes are texts of the stage and are left out; whether the   *)
(* original sleep request is still pending follows from it.                *)
(***************************************************************************)
Stages == {"normal_sleep_allowed", "awaiting_game_consent", "closing_game",
           "releasing_clients", "awaiting_disconnect", "shutdown_required",
           "restoring_portable", "ready_to_continue_sleep", "completed",
           "cancelled", "action_required"}

FlowEvents == {"game_consent_granted", "game_consent_denied", "game_exit_verified",
               "software_clients_released", "egpu_removal_verified",
               "portable_recovery_verified", "original_sleep_continued", "cancel"}

\* The stages a session does not leave.
SessionTerminal == {"completed", "cancelled", "action_required",
                    "shutdown_required", "normal_sleep_allowed"}

\* The stages that are steps of the journal, and those that block it.
IntermediateStages == {"awaiting_game_consent", "closing_game", "releasing_clients",
                       "awaiting_disconnect", "restoring_portable",
                       "ready_to_continue_sleep"}
BlockedStages == {"shutdown_required", "cancelled", "action_required"}

\* What one observation tells the reducer.  `scan` sums up the disconnect
\* readiness: "blocked" for an incomplete scan, storage in use, a game or a
\* protected client; "eligible" when only closable clients remain; else "clear".
Contexts == [egpu : {"present", "absent", "unknown"}, exact : BOOLEAN,
             safe : BOOLEAN,            \* the profile is verified sleep-safe
             game : {"idle", "running", "unknown"},
             scan : {"blocked", "eligible", "clear"},
             removal : {"live", "shutdown", "unknown"}, ready : BOOLEAN,
             portable : BOOLEAN]

\* _disconnect_step.
DisconnectStage(c) ==
  IF c.game # "idle" \/ c.scan = "blocked" THEN "action_required"
  ELSE IF c.scan = "eligible" THEN "releasing_clients"
  ELSE IF c.removal = "live" /\ c.ready THEN "awaiting_disconnect"
  ELSE IF c.removal = "shutdown" THEN "shutdown_required"
  ELSE "action_required"

\* start_sleep_flow.
StartStage(c) ==
  IF c.egpu = "absent" THEN "normal_sleep_allowed"
  ELSE IF c.egpu = "unknown" \/ ~c.exact THEN "action_required"
  ELSE IF c.safe THEN "normal_sleep_allowed"
  ELSE IF c.game = "running" THEN "awaiting_game_consent"
  ELSE DisconnectStage(c)

\* advance_sleep_flow; every stage a session can advance from has the original
\* request pending, so a late call of any kind cancels.
NextStage(stage, event, c, expired) ==
  IF expired \/ event = "cancel" THEN "cancelled"
  ELSE IF stage = "awaiting_game_consent" /\ event = "game_consent_denied"
    THEN "cancelled"
  ELSE IF stage = "awaiting_game_consent" /\ event = "game_consent_granted"
    THEN "closing_game"
  ELSE IF \/ stage = "closing_game" /\ event = "game_exit_verified"
          \/ stage = "releasing_clients" /\ event = "software_clients_released"
    THEN DisconnectStage(c)
  ELSE IF /\ stage = "awaiting_disconnect" /\ event = "egpu_removal_verified"
          /\ c.removal = "live" /\ c.egpu = "absent"
    THEN "restoring_portable"
  ELSE IF /\ stage = "restoring_portable" /\ event = "portable_recovery_verified"
          /\ c.portable
    THEN "ready_to_continue_sleep"
  ELSE IF stage = "ready_to_continue_sleep" /\ event = "original_sleep_continued"
    THEN "completed"
  ELSE "action_required"
=============================================================================
