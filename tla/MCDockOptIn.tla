------------------------------ MODULE MCDockOptIn ------------------------------
(* AutomaticDock for TLC, in three scenarios: the opt-in beside reloads and the *)
(* player's own operations, beside a status view that refreshes, and where      *)
(* neither view nor reload disturb it, which shows what the loop gets done.     *)
EXTENDS AutomaticDock

VARIABLE scenario   \* which of the three a behaviour is of

MCInit == Init /\ scenario \in {"operated", "viewed", "calm"}

OptIn == \E enabled \in BOOLEAN : SetPreference(enabled)

World == DockChanges \/ GameChanges \/ SessionReturns

Opening ==
  \E owner \in Owners, target \in {"portable", "docked_egpu", None} :
    PlayerOpens(owner, target)

Operating == PlayerOperationEnds \/ Acknowledge \/ ResetLatch

Viewing == Glance \/ RecordGlance

MCNext ==
  \/ UNCHANGED scenario /\ (LoopStep \/ OptIn \/ World)
  \/ scenario # "viewed" /\ UNCHANGED scenario /\ Operating
  \/ scenario = "viewed" /\ UNCHANGED scenario /\ Viewing
  \/ scenario = "operated" /\ UNCHANGED scenario /\ (Opening \/ PluginRestarts)

\* The loop keeps running, and an observation does not fail for ever.
Fairness ==
  /\ WF_vars(scenario = "calm" /\ LoopStep)
  /\ SF_vars(scenario = "calm" /\ Observe)

MCSpec == MCInit /\ [][MCNext]_<<vars, scenario>> /\ Fairness

\* CalmDockIsAttempted, where neither view nor reload disturb the loop.
CalmLoopAttempts == scenario = "calm" => CalmDockIsAttempted
===============================================================================
