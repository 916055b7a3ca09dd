-------------------------- MODULE MCSleepAndRelease --------------------------
(***************************************************************************)
(* One run for four specifications: a behaviour is one of process release, *)
(* of canonical sleep with its children, of the signal adapter or of the   *)
(* sleep guard, the others staying as they start.                          *)
(***************************************************************************)
EXTENDS ProcessRelease, GameChildren, ProcessSignal, SleepGuard

CONSTANT i1     \* an instance that is there from the start

VARIABLE part

partVars == <<releaseVars, systemVars, signalVars, guardVars, part>>

ReleasePart == <<parentOp, client, drawn, tokenVars, runVars, sent, deaths>>
SleepPart == <<egpu, game, serviceVars, childVars>>

MCInit ==
  /\ part \in {"release", "sleep", "signal", "guard"}
  /\ ReleaseInit /\ client[i1] = "present"
  /\ part # "release" \/ diskFails => client = [i \in Instances |-> "present"]
  /\ SystemInit
  /\ part # "sleep" => egpu = "present" /\ game = None
  /\ part \notin {"release", "sleep"} => ~diskFails
  /\ SignalInit /\ owner = CHOOSE p \in Starts : TRUE
  /\ GuardInit /\ (part # "guard" => attached)

MCNext ==
  \/ part = "release" /\ ReleaseNext /\ UNCHANGED <<SleepPart, signalVars, guardVars, part>>
  \/ part = "sleep" /\ SystemNext /\ UNCHANGED <<ReleasePart, signalVars, guardVars, part>>
  \/ part = "signal" /\ SignalNext
       /\ UNCHANGED <<file, diskFails, ReleasePart, SleepPart, guardVars, part>>
  \/ part = "guard" /\ GuardNext
       /\ UNCHANGED <<file, diskFails, ReleasePart, SleepPart, signalVars, part>>

\* The release runner's thread and startup recovery are not suspended for ever.
ReleaseFairness ==
  /\ WF_releaseVars(part = "release" /\ ~diskFails /\ ReleaseWork)

\* The children's deadlines and the release runner end; startup recovery runs;
\* and a player who keeps cancelling gets an observation now and then.
SleepFairness ==
  /\ WF_systemVars(part = "sleep" /\ ~diskFails /\ SaveChild)
  /\ WF_systemVars(part = "sleep" /\ ~diskFails /\ CloseChild)
  /\ WF_systemVars(part = "sleep" /\ ~diskFails /\ SleepRecovers)
  /\ WF_systemVars(part = "sleep" /\ ~diskFails /\ ReleaseChildEnds)
  /\ WF_systemVars(part = "sleep" /\ ~diskFails /\ AnswerEnds)
  /\ SF_systemVars(part = "sleep" /\ ~diskFails /\ CancelBegins)
  /\ SF_systemVars(part = "sleep" /\ ~diskFails /\ CancelArrives)

\* A helper process runs.
GuardFairness == \A h \in Helpers : WF_guardVars(part = "guard" /\ HelperRuns(h))

MCSpec ==
  /\ MCInit /\ [][MCNext]_partVars
  /\ ReleaseFairness /\ SleepFairness /\ GuardFairness

\* ReleaseEnds, in the behaviours of a release (ProcessReleaseRunner.run and
\* recover_interrupted): each release that began ends while writes succeed.
ReleasesEnd == part = "release" => ReleaseEnds

\* SleepEnds, in those of canonical sleep (advance, recover_interrupted): every
\* operation ends, but for the two cases the property names.
SleepsEnd == part = "sleep" => SleepEnds

\* NoInhibitorOutlivesPlugin, in those of the guard (the helper's parent check).
NoInhibitorStays == part = "guard" => NoInhibitorOutlivesPlugin
==============================================================================
