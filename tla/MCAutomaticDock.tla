---------------------------- MODULE MCAutomaticDock ----------------------------
(* AutomaticDock for TLC where neither a status view refreshes beside the loop  *)
(* nor the plugin is reloaded.                                                  *)
EXTENDS AutomaticDock

LoopNext == LoopStep \/ PlayerStep \/ DockChanges \/ GameChanges \/ SessionReturns

LoopSpec == Init /\ [][LoopNext]_vars
===============================================================================
