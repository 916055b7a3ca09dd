------------------------------ MODULE SleepGuard ------------------------------
(***************************************************************************)
(* The login1 sleep inhibitor held while a G1 is attached: the controller  *)
(* and its lease in the plugin, the loop that observes in one thread and   *)
(* reconciles in another, unload, which cancels the loop but not a thread  *)
(* at work, and the helper processes, each of which asks the kernel for a  *)
(* signal on its parent's death and only then looks whether it is too      *)
(* late.                                                                   *)
(*                                                                         *)
(* Stopping a helper waits for its end; a stop that fails is left out.     *)
(***************************************************************************)
EXTENDS Naturals, FiniteSets

CONSTANTS Helpers,    \* helper processes the plugin may start, in some order
          NoHelper

ASSUME SleepGuardAssumption == NoHelper \notin Helpers /\ IsFiniteSet(Helpers)

VARIABLES
  attached,   \* the world: whether a G1 is attached
  plugin,     \* "loaded", "unloading", "closed" or "dead"
  loop,       \* the loop: "idle", "observing", a presence it has, or "stopped"
  thread,     \* the presence a worker thread is to reconcile, or "none"
  lease,      \* Login1SleepInhibitor._process
  helper      \* for each helper: "none", "spawned", "unchecked", "holding", "dead"

guardVars == <<attached, plugin, loop, thread, lease, helper>>

Alive(h) == helper[h] \notin {"none", "dead"}

GuardInit ==
  /\ attached \in BOOLEAN /\ plugin = "loaded"
  /\ loop = "idle" /\ thread = "none" /\ lease = NoHelper
  /\ helper = [h \in Helpers |-> "none"]

G1Moves == attached' = ~attached /\ UNCHANGED <<plugin, loop, thread, lease, helper>>

-----------------------------------------------------------------------------
(* The loop                                                                *)

ObservePresence ==
  /\ plugin = "loaded" /\ loop = "idle" /\ thread = "none"
  /\ loop' \in {"unknown", IF attached THEN "present" ELSE "absent"}
  /\ UNCHANGED <<attached, plugin, thread, lease, helper>>

\* The coroutine hands what it saw to a worker thread.
SubmitReconcile ==
  /\ plugin = "loaded" /\ loop \in {"present", "absent", "unknown"}
  /\ thread' = loop /\ loop' = "idle"
  /\ UNCHANGED <<attached, plugin, lease, helper>>

LeaseRuns == IF lease = NoHelper THEN FALSE ELSE Alive(lease)

\* Login1SleepInhibitor.acquire; a helper that ends within the grace period is
\* an error and no lease.
Acquire ==
  IF LeaseRuns THEN UNCHANGED <<lease, helper>>
  ELSE \/ \E h \in Helpers :
            /\ helper[h] = "none"
            /\ helper' = [helper EXCEPT ![h] = "spawned"] /\ lease' = h
       \/ lease' = NoHelper /\ UNCHANGED helper

\* release: terminate and wait.
Release ==
  /\ lease' = NoHelper
  /\ helper' = IF LeaseRuns THEN [helper EXCEPT ![lease] = "dead"] ELSE helper

\* status: forget a process that has ended.
LeaseStatus == lease' = (IF LeaseRuns THEN lease ELSE NoHelper) /\ UNCHANGED helper

\* Fault: the controller does not remember that it was closed.
ReconcileEvenClosed ==
  /\ plugin # "dead" /\ thread # "none"
  /\ IF thread = "present" THEN Acquire
     ELSE IF thread = "absent" THEN Release
     ELSE LeaseStatus
  /\ thread' = "none"
  /\ UNCHANGED <<attached, plugin, loop>>

\* SleepGuardController.reconcile in the worker thread, which no cancellation
\* stops.
Reconcile ==
  /\ plugin # "dead" /\ thread # "none"
  /\ IF plugin = "closed" THEN LeaseStatus
     ELSE IF thread = "present" THEN Acquire
     ELSE IF thread = "absent" THEN Release
     ELSE LeaseStatus
  /\ thread' = "none"
  /\ UNCHANGED <<attached, plugin, loop>>

\* A snapshot asks for the status.
AskStatus == plugin # "dead" /\ LeaseStatus /\ UNCHANGED <<attached, plugin, loop, thread>>

\* _unload cancels the task, then closes in a thread of its own.
Unload ==
  /\ plugin = "loaded" /\ plugin' = "unloading" /\ loop' = "stopped"
  /\ UNCHANGED <<attached, thread, lease, helper>>

CloseGuard ==
  /\ plugin = "unloading" /\ plugin' = "closed" /\ Release
  /\ UNCHANGED <<attached, loop, thread>>

\* The kernel signals the helpers that asked for it.
GuardPluginDies ==
  /\ plugin # "dead" /\ plugin' = "dead"
  /\ helper' = [h \in Helpers |-> IF helper[h] \in {"unchecked", "holding"} THEN "dead"
                                  ELSE helper[h]]
  /\ UNCHANGED <<attached, loop, thread, lease>>

-----------------------------------------------------------------------------
(* inhibitor_guard.py                                                      *)

ArmDeathSignal(h) ==
  /\ helper[h] = "spawned"
  /\ helper' = [helper EXCEPT ![h] = "unchecked"]
  /\ UNCHANGED <<attached, plugin, loop, thread, lease>>

\* Fault: the parent is not looked at after arming.
CheckNothing(h) ==
  /\ helper[h] = "unchecked"
  /\ helper' = [helper EXCEPT ![h] = "holding"]
  /\ UNCHANGED <<attached, plugin, loop, thread, lease>>

CheckParent(h) ==
  /\ helper[h] = "unchecked"
  /\ helper' = [helper EXCEPT ![h] = IF plugin = "dead" THEN "dead" ELSE "holding"]
  /\ UNCHANGED <<attached, plugin, loop, thread, lease>>

HelperEnds(h) ==
  /\ Alive(h)
  /\ helper' = [helper EXCEPT ![h] = "dead"]
  /\ UNCHANGED <<attached, plugin, loop, thread, lease>>

HelperRuns(h) == ArmDeathSignal(h) \/ CheckParent(h)

GuardNext ==
  \/ G1Moves \/ ObservePresence \/ SubmitReconcile \/ Reconcile \/ AskStatus
  \/ Unload \/ CloseGuard \/ GuardPluginDies
  \/ \E h \in Helpers : HelperRuns(h) \/ HelperEnds(h)

GuardSpec == GuardInit /\ [][GuardNext]_guardVars

-----------------------------------------------------------------------------

\* There is never a second inhibitor, and after close there is none: a late
\* reconcile of what was seen before the unload acquires nothing
\* (SleepGuardController.reconcile, _unload).
OneInhibitor ==
  /\ Cardinality({h \in Helpers : Alive(h)}) <= 1
  /\ plugin = "closed" => \A h \in Helpers : ~Alive(h)

\* However the plugin ends, no inhibitor outlives it and keeps the handheld
\* awake: also one that had not yet armed its parent-death signal.
NoInhibitorOutlivesPlugin ==
  (plugin = "dead") ~> (\A h \in Helpers : ~Alive(h))
=============================================================================
