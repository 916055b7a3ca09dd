--------------------------- MODULE PeripheralHandoff ---------------------------
(***************************************************************************)
(* The plan that hands controllers and sound over when the device is       *)
(* docked or undocked, and the runner that carries it out: before a step   *)
(* the plan is made again from a new sample and must be the same; after it *)
(* another sample must show the step in effect; a failure takes back the   *)
(* accepted steps, last first, with the same checks.  The devices change   *)
(* between any two of these; the mechanism does its step or not, whatever  *)
(* it answers.                                                             *)
(*                                                                         *)
(* `other' is the rest of an observation: identities, bindings and the     *)
(* exactness of both inventories.  The repository runs this in its tests   *)
(* only: no mechanism is built for it.                                     *)
(***************************************************************************)
EXTENDS Naturals, Sequences

VARIABLES
  devices,  \* controllers, outputs, and the rest of what an observation shows
  setting,  \* direction, policy and capabilities of this run
  handoff,  \* the runner: where it is, its plan, the step it is at, how many it applied
  witness   \* instants seen: the plan fits since the last step, the step (or its
            \* rollback) in effect since the mechanism was called (no code keeps them)

handoffVars == <<devices, setting, handoff, witness>>

\* An external controller is of use or is not known to be: its presence or its input.
Devices ==
  [external : {"absent", "unknown", "works"}, builtin : {"silent", "works"},
   primary : {"builtin", "external"}, suppressed : BOOLEAN,
   output : {"portable", "external"}, tv : BOOLEAN, other : {"as planned", "changed"}]

\* suppress and ends: what the policy wants and the capabilities verify; a disconnect
\* is wanted itself or what a power-off falls back to.
Settings ==
  [direction : {"dock"}, audio : BOOLEAN, promotion : BOOLEAN, ends : {"keep"},
   suppress : {"no", "verified", "unverified"}]
  \cup [direction : {"undock"}, audio : BOOLEAN, promotion : {FALSE}, suppress : {"no"},
        ends : {"keep", "power off", "disconnect", "unverified"}]
  \cup [direction : {"external controller lost"}, audio : {FALSE}, promotion : {FALSE},
        suppress : {"no"}, ends : {"keep"}]

NoHandoff == [at |-> "off", steps |-> <<>>, n |-> 0, applied |-> 0]
Unseen == [fits |-> FALSE, met |-> FALSE]

HandoffInit ==
  /\ devices \in {d \in Devices : d.primary = "builtin" /\ ~d.suppressed /\ d.other = "as planned"}
  /\ setting \in Settings /\ handoff = NoHandoff /\ witness = Unseen

-----------------------------------------------------------------------------
(* The plan: its steps, and whether anything blocks it                      *)

Plan(steps, blocked) == [steps |-> steps, blocked |-> blocked]
Step(kind, back) == [kind |-> kind, back |-> back]
NoWay == "none"    \* no rollback binding

\* plan_controller_handoff and _controller_steps, when an external controller may be
\* made the first one.
DockControllers(d) ==
  IF d.external = "absent" THEN Plan(<<>>, d.builtin = "silent")
  ELSE IF d.external # "works" \/ ~setting.promotion THEN Plan(<<>>, TRUE)
  ELSE LET promote == Step("promote external", "builtin")
           suppressible == setting.suppress = "verified" /\ d.builtin = "works" IN
       IF setting.suppress = "no" THEN Plan(<<promote>>, FALSE)
       ELSE IF suppressible THEN Plan(<<promote, Step("suppress builtin", "builtin")>>, FALSE)
       ELSE Plan(<<promote>>, TRUE)

\* What becomes of the external controller at an undock.
ExternalEnds(d) ==
  IF setting.ends = "keep" \/ d.external = "absent" THEN Plan(<<>>, FALSE)
  ELSE IF d.external = "unknown" \/ setting.ends = "unverified" THEN Plan(<<>>, TRUE)
  ELSE Plan(<<Step(IF setting.ends = "power off" THEN "power off external"
                   ELSE "disconnect external", NoWay)>>, FALSE)

UndockControllers(d) ==
  IF d.builtin = "silent" THEN Plan(<<>>, TRUE)
  ELSE Plan(<<Step("restore builtin", NoWay), Step("promote builtin", NoWay)>>, FALSE)

\* _audio_steps: the step goes back to the present output.
AudioStep(d) ==
  Step(IF setting.direction = "dock" THEN "select external audio" ELSE "restore portable audio",
       d.output)

\* plan_audio_handoff
Audio(d) ==
  IF setting.direction = "external controller lost" THEN Plan(<<>>, FALSE)
  ELSE IF ~setting.audio \/ (setting.direction = "dock" /\ ~d.tv) THEN Plan(<<>>, TRUE)
  ELSE Plan(<<AudioStep(d)>>, FALSE)

Only(kind, steps) == SelectSeq(steps, LAMBDA s : s.kind = kind)

\* plan_peripheral_handoff: sound after the first controller, and what takes a
\* controller away last.
Planned(d) ==
  IF d.other = "changed" THEN Plan(<<>>, TRUE)
  ELSE IF setting.direction = "dock"
  THEN LET c == DockControllers(d) IN
       Plan(Only("promote external", c.steps) \o Audio(d).steps
              \o Only("suppress builtin", c.steps), c.blocked \/ Audio(d).blocked)
  ELSE LET c == UndockControllers(d)
           e == IF c.blocked THEN Plan(<<>>, TRUE) ELSE ExternalEnds(d) IN
       Plan(c.steps \o Audio(d).steps \o e.steps, e.blocked \/ Audio(d).blocked)

ReadyPlan(plan) == plan.steps # <<>> /\ ~plan.blocked

\* _same_plan
Fitting(steps, d) == ReadyPlan(Planned(d)) /\ Planned(d).steps = steps

-----------------------------------------------------------------------------
(* What a step does to the devices                                          *)

Done(step, d) ==
  CASE step.kind = "promote external" -> d.primary = "external"
    [] step.kind = "promote builtin" -> d.primary = "builtin"
    [] step.kind = "suppress builtin" -> d.suppressed
    [] step.kind = "restore builtin" -> ~d.suppressed
    [] step.kind = "select external audio" -> d.output = "external"
    [] step.kind = "restore portable audio" -> d.output = "portable"
    [] OTHER -> d.external = "absent"

\* Back where the rollback binding says; a step without one promises nothing.
Undone(step, d) ==
  CASE step.kind = "promote external" -> d.primary = "builtin"
    [] step.kind = "suppress builtin" -> ~d.suppressed
    [] step.kind \in {"select external audio", "restore portable audio"} ->
         d.output = step.back
    [] OTHER -> TRUE

\* The one thing a step can change.
Touched(step, d) ==
  CASE step.kind \in {"promote external", "promote builtin"} ->
         {[d EXCEPT !.primary = p] : p \in {"builtin", "external"}}
    [] step.kind \in {"suppress builtin", "restore builtin"} ->
         {[d EXCEPT !.suppressed = s] : s \in BOOLEAN}
    [] step.kind \in {"select external audio", "restore portable audio"} ->
         {[d EXCEPT !.output = o] : o \in {"portable", "external"}}
    [] OTHER -> {d, [d EXCEPT !.external = "absent"]}

Current == handoff.steps[handoff.n]

\* What an instant shows, for the properties.
Seen(w) ==
  witness' = [fits |-> w.fits \/ (handoff'.at \in {"check", "recheck"} /\ Fitting(handoff'.steps, devices')),
              met |-> w.met \/ (handoff'.at \in {"verify", "verify_undo"}
                                /\ LET step == handoff'.steps[handoff'.n] IN
                                   IF handoff'.at = "verify" THEN Done(step, devices')
                                   ELSE Undone(step, devices'))]

DevicesChange ==
  /\ \/ \E v \in {"absent", "unknown", "works"} : devices' = [devices EXCEPT !.external = v]
     \/ \E v \in {"silent", "works"} : devices' = [devices EXCEPT !.builtin = v]
     \/ \E v \in {"builtin", "external"} : devices' = [devices EXCEPT !.primary = v]
     \/ devices' = [devices EXCEPT !.suppressed = ~@]
     \/ \E v \in {"portable", "external"} : devices' = [devices EXCEPT !.output = v]
     \/ devices' = [devices EXCEPT !.tv = ~@]
     \/ \E v \in {"as planned", "changed"} : devices' = [devices EXCEPT !.other = v]
  /\ devices' # devices
  /\ UNCHANGED <<setting, handoff>> /\ Seen(witness)

-----------------------------------------------------------------------------
(* PeripheralHandoffRunner.run                                              *)

To(h, w) == /\ handoff' = h /\ UNCHANGED <<devices, setting>> /\ Seen(w)
RunnerEnds(outcome) == To([NoHandoff EXCEPT !.at = outcome], [witness EXCEPT !.fits = FALSE])

\* A plan that is not Ready is refused.
RunPlanned ==
  /\ handoff.at = "off"
  /\ ReadyPlan(Planned(devices))
  /\ To([at |-> "check", steps |-> Planned(devices).steps, n |-> 1, applied |-> 0], Unseen)

\* _recover: accepted steps are taken back, if there are any.
Recover ==
  IF handoff.applied = 0 THEN RunnerEnds("action_required")
  ELSE To([handoff EXCEPT !.at = "recheck", !.n = handoff.applied], Unseen)

\* _revalidate and _same_plan: an observation that fails, that is no new sample or
\* that plans anything else goes to recovery.
RevalidateStep ==
  /\ handoff.at = "check"
  /\ \/ Recover
     \/ Fitting(handoff.steps, devices) /\ To([handoff EXCEPT !.at = "apply"], witness)

\* Accepted is applied, before anything is verified.
ApplyStep ==
  /\ handoff.at = "apply"
  /\ devices' \in Touched(Current, devices) /\ UNCHANGED setting
  /\ \/ handoff' = [handoff EXCEPT !.at = "verify", !.applied = handoff.n]
     \/ handoff' = IF handoff.applied = 0 THEN [NoHandoff EXCEPT !.at = "action_required"]
                   ELSE [handoff EXCEPT !.at = "recheck", !.n = handoff.applied]
  /\ Seen(Unseen)

Advance ==
  IF handoff.n = Len(handoff.steps) THEN RunnerEnds("completed")
  ELSE To([handoff EXCEPT !.at = "check", !.n = @ + 1], [witness EXCEPT !.fits = FALSE])

\* Fault: what was accepted is taken for done.
BelieveAccepted == handoff.at = "verify" /\ Advance

VerifyStep ==
  /\ handoff.at = "verify"
  /\ \/ Recover
     \/ Done(Current, devices) /\ devices.other = "as planned" /\ Advance

RevalidateUndo ==
  /\ handoff.at = "recheck"
  /\ \/ RunnerEnds("action_required")
     \/ Fitting(handoff.steps, devices) /\ To([handoff EXCEPT !.at = "undo"], witness)

UndoStep ==
  /\ handoff.at = "undo"
  /\ devices' \in Touched(Current, devices) /\ UNCHANGED setting
  /\ handoff' \in {[handoff EXCEPT !.at = "verify_undo"], [NoHandoff EXCEPT !.at = "action_required"]}
  /\ Seen(Unseen)

VerifyUndo ==
  /\ handoff.at = "verify_undo"
  /\ \/ RunnerEnds("action_required")
     \/ /\ Undone(Current, devices) /\ devices.other = "as planned"
        /\ IF handoff.n = 1 THEN RunnerEnds("recovered")
           ELSE To([handoff EXCEPT !.at = "recheck", !.n = @ - 1], [witness EXCEPT !.fits = FALSE])

RunnerReturns ==
  handoff.at \in {"completed", "recovered", "action_required"} /\ To(NoHandoff, Unseen)

HandoffNext ==
  \/ DevicesChange \/ RunPlanned \/ RevalidateStep \/ ApplyStep \/ VerifyStep
  \/ RevalidateUndo \/ UndoStep \/ VerifyUndo \/ RunnerReturns

HandoffSpec == HandoffInit /\ [][HandoffNext]_handoffVars

-----------------------------------------------------------------------------
(* Properties                                                               *)

\* Whatever the mechanism answers and however the devices change: it is called for a
\* step or its rollback only if the whole plan fitted the devices at an instant after
\* the step before; the next step, and Completed, wait for an instant that showed the
\* step in effect; the next rollback, and Recovered, for one that showed it undone.
HandoffIsVerified ==
  /\ handoff.at \in {"apply", "undo"} => witness.fits
  /\ handoff.at \in {"check", "apply"} /\ handoff.n > 1 => witness.met
  /\ handoff.at \in {"completed", "recovered"} => witness.met
  /\ handoff.at \in {"recheck", "undo"} /\ handoff.n < handoff.applied => witness.met
==============================================================================
