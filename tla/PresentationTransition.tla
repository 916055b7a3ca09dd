------------------------ MODULE PresentationTransition ------------------------
(***************************************************************************)
(* One display handoff, end to end: the orchestrator that journals it, the *)
(* mechanism that writes Gamescope's launch configuration and queues the   *)
(* session restart, the session that restarts whenever systemd gets to it, *)
(* the dock and the game that change underneath, and the plugin process    *)
(* that may die at every step.                                             *)
(*                                                                         *)
(* Several runners (the player's request and the automatic dock loop) each *)
(* build an orchestrator and a journal store of their own, each with its   *)
(* own lock, and share only the journal file.  What one of them checks     *)
(* before its first save, and an acknowledgement before its unlink, may    *)
(* be stale when the file is replaced.  A later save checks and replaces   *)
(* in one step: only a stale opening or a stale unlink can come in between,*)
(* and that one already sets "clobbered".                                  *)
(*                                                                         *)
(* A snapshot is the placement it shows, the dock and the game; what else  *)
(* it holds may differ between two observations at any time.  Deadlines    *)
(* are nondeterministic: a wait may end at any moment, and does end.       *)
(***************************************************************************)
EXTENDS TransitionJournal, FiniteSets

CONSTANTS
  Runners,         \* threads that may run a transition
  Operations,      \* operation identities, fresh in every request
  None,
  RecoveryWired,   \* does plugin startup call recover_interrupted?
  SaveFaults,      \* may a journal save fail?
  CommandFaults,   \* may a mechanism command, its audio or its write fail?
  MaxDeaths        \* bound on plugin deaths and reboots

Placements == {"portable", "docked_igpu", "docked_egpu"}
Targets == {"portable", "docked_egpu"}

\* The journal with the two details of its first entry that are read back.
Records == [op : Operations, kinds : Seq(Kinds),
            from : Placements, target : Targets]

\* A plan and the facts its generation hashed.
Plans == [op : Operations, from : Placements, target : Targets,
          facts : (Placements \X {"absent", "present", "ready"}
                              \X {"idle", "running"}) \cup {None}]

ASSUME PresentationAssumption ==
  /\ {RecoveryWired, SaveFaults, CommandFaults} \subseteq BOOLEAN
  /\ MaxDeaths \in Nat
  /\ None \notin Records /\ None \notin Plans
  /\ MaxEntries >= 8

VARIABLES
  file,      \* the journal on disk: None or [op, kinds, from, target]
  config,    \* launch configuration valid for this boot, None without one
  session,   \* where the running Gamescope renders and shows, or "down"
  restart,   \* a queued restart job systemd has not finished
  dock,      \* exact eGPU and its display: absent, present, ready (EDID)
  game,      \* "idle" or "running"
  pc,        \* where each runner is
  plan,      \* the plan it executes
  mem,       \* the journal it carries
  aim,       \* the placement the mechanism call in progress writes
  seen,      \* the placement the snapshot of that call showed
  good,      \* what a recovery's mechanism, then its verification, concluded
  sound,     \* durable: every journal save of this run succeeded so far
  clearing,  \* operations whose acknowledgement has yet to unlink the file
  startup,   \* is plugin startup still ahead of its recovery call?
  found,     \* history: config when the operation on file was opened
  clobbered, \* history: an opening or an unlink hit a journal it had not read
  deaths     \* plugin deaths and reboots so far

world == <<config, session, restart, dock, game>>
thread == <<pc, plan, mem, aim, seen, good, sound>>
rest == <<clearing, startup, found, clobbered, deaths>>
vars == <<file, world, thread, rest>>

\* infer_placement over the snapshot an observation would collect now.
Placement ==
  IF session = "down" THEN "degraded"
  ELSE IF session # "portable" /\ dock = "absent" THEN "unknown"
  ELSE session

\* The semantic snapshot a generation hashes.
Facts == <<Placement, dock, game>>

\* StrictRuntimeTransitionPolicy.blockers, but for the placement check.
Unfit(target) ==
  \/ game # "idle"
  \/ dock = "absent"
  \/ target = "docked_egpu" /\ dock # "ready"

\* select_launch_configuration: a dock target needs the exact dock present.
Selected ==
  IF config \in {"docked_igpu", "docked_egpu"} /\ dock # "absent"
    THEN config ELSE "portable"

\* mutation_may_have_started: the events after which recovery must act.
MutationKinds == {"step_started", "step_verified", "recovery_started"}

Init ==
  /\ file = None /\ found = None /\ deaths = 0 /\ startup = TRUE
  /\ clearing = {} /\ clobbered = FALSE
  /\ \/ config = None /\ session = "portable"
     \/ config \in Placements /\ session = config
  /\ restart = FALSE
  /\ dock \in IF session = "portable" THEN {"absent", "present", "ready"}
                                      ELSE {"present", "ready"}
  /\ game = "idle"
  /\ pc = [r \in Runners |-> "idle"]
  /\ plan = [r \in Runners |-> None]
  /\ mem = [r \in Runners |-> None]
  /\ aim = [r \in Runners |-> None]
  /\ seen = [r \in Runners |-> None]
  /\ good = [r \in Runners |-> FALSE]
  /\ sound = [r \in Runners |-> TRUE]

-----------------------------------------------------------------------------
(* Moving a runner                                                         *)

Goto(r, label) == pc' = [pc EXCEPT ![r] = label]

\* The run returns; its locals are gone.
Return(r) ==
  /\ pc' = [pc EXCEPT ![r] = "idle"]
  /\ plan' = [plan EXCEPT ![r] = None]
  /\ mem' = [mem EXCEPT ![r] = None]
  /\ aim' = [aim EXCEPT ![r] = None]
  /\ seen' = [seen EXCEPT ![r] = None]
  /\ good' = [good EXCEPT ![r] = FALSE]
  /\ sound' = [sound EXCEPT ![r] = TRUE]

\* _append_save succeeds: append_journal_entry accepts the event and the
\* store accepts the longer history.
Saved(r, kind) ==
  /\ CanAppend(mem[r], kind)
  /\ file # None => Progress(file, Appended(mem[r], kind))
  /\ file' = Appended(mem[r], kind)
  /\ UNCHANGED <<world, rest>>

\* _append_save raises and nothing is written.
SaveFails(r, kind) ==
  /\ \/ SaveFaults
     \/ ~CanAppend(mem[r], kind)
     \/ file # None /\ ~Progress(file, Appended(mem[r], kind))
  /\ UNCHANGED <<file, world, rest>>

\* The run goes on with the saved journal.
Carry(r) == mem' = [mem EXCEPT ![r] = file']

\* A last save whose failure only shows in the result's "durable" flag.
SaveAndReturn(r, kind) == (Saved(r, kind) \/ SaveFails(r, kind)) /\ Return(r)

\* A save that goes on to one label, or to another one when it fails.
SaveThen(r, kind, label, otherwise) ==
  /\ \/ Saved(r, kind) /\ Carry(r) /\ Goto(r, label)
     \/ SaveFails(r, kind) /\ Goto(r, otherwise) /\ UNCHANGED mem
  /\ UNCHANGED <<plan, aim, seen, good, sound>>

-----------------------------------------------------------------------------
(* SupervisedPresentationTransitionService and TransitionOrchestrator.run   *)

Fresh(op) ==
  /\ file # None => file.op # op
  /\ op \notin clearing
  /\ \A r \in Runners : plan[r] # None => plan[r].op # op

\* Nothing on file and nobody at work on it: what an earlier overlap of two
\* runs left behind is over.
Quiet == file = None /\ clearing = {} /\ \A r \in Runners : pc[r] = "idle"

\* execute / execute_automatic: observe and build the plan.
Request(r, target, op) ==
  /\ pc[r] = "idle" /\ ~startup
  /\ Fresh(op)
  /\ Placement \in Placements
  /\ Placement # target => game = "idle" /\ dock = "ready"
  /\ plan' = [plan EXCEPT ![r] = [op |-> op, from |-> Placement,
                                  target |-> target, facts |-> Facts]]
  /\ Goto(r, "planned")
  /\ clobbered' = (clobbered /\ ~Quiet)
  /\ UNCHANGED <<file, world, mem, aim, seen, good, sound>>
  /\ UNCHANGED <<clearing, startup, found, deaths>>

\* An operation already on file stops the request without a trace.
RefusedByJournal(r) ==
  /\ pc[r] = "planned"
  /\ file # None
  /\ Return(r)
  /\ UNCHANGED <<file, world, rest>>

\* Fault: the request goes on whatever it has read.
CheckAnyway(r) ==
  /\ pc[r] = "planned"
  /\ mem' = [mem EXCEPT ![r] = file]
  /\ Goto(r, "opening")
  /\ UNCHANGED <<file, world, plan, aim, seen, good, sound, rest>>

\* The request reads that nothing is on file: the read at the start of run
\* and the one inside the first save, which alone decides.
Check(r) ==
  /\ pc[r] = "planned"
  /\ file = None
  /\ mem' = [mem EXCEPT ![r] = file]
  /\ Goto(r, "opening")
  /\ UNCHANGED <<file, world, plan, aim, seen, good, sound, rest>>

\* The first save replaces the file, whatever another runner's store, with a
\* lock of its own, has put there since this one read it.
Open(r) ==
  /\ pc[r] = "opening"
  /\ \/ /\ file' = [op |-> plan[r].op, kinds |-> <<"requested">>,
                    from |-> plan[r].from, target |-> plan[r].target]
        /\ found' = config
        /\ clobbered' = (clobbered \/ file # mem[r])
        /\ Carry(r) /\ Goto(r, "opened")
        /\ UNCHANGED <<plan, aim, seen, good, sound>>
     \/ SaveFaults /\ Return(r) /\ UNCHANGED <<file, found, clobbered>>
  /\ UNCHANGED <<world, clearing, startup, deaths>>

\* No observation: the request is terminated.
InitialObservationFails(r) ==
  /\ pc[r] = "opened"
  /\ Goto(r, "failing")
  /\ UNCHANGED <<file, world, plan, mem, aim, seen, good, sound, rest>>

\* OBSERVED; a failed save returns and leaves the journal incomplete.  The
\* request is stale when any fact of the snapshot changed since the plan; the
\* plan's facts are not looked at again.
InitialObservation(r) ==
  /\ pc[r] = "opened"
  /\ \/ /\ Saved(r, "observed") /\ Carry(r)
        /\ \/ Facts = plan[r].facts /\ Goto(r, "accepted")
           \/ Goto(r, "blocking")
        /\ plan' = [plan EXCEPT ![r].facts = None]
        /\ UNCHANGED <<aim, seen, good, sound>>
     \/ SaveFails(r, "observed") /\ Return(r)

Validate(r) ==
  /\ pc[r] = "accepted"
  /\ SaveThen(r, "validated", "validated", "failing")

PlanReady(r) ==
  /\ pc[r] = "validated"
  /\ SaveThen(r, "planned", "ready", "failing")

\* The target was reached before the request: commit without a step.
CommitNoOp(r) ==
  /\ pc[r] = "ready" /\ plan[r].from = plan[r].target
  /\ \/ Saved(r, "committed") /\ Return(r)
     \/ /\ SaveFails(r, "committed") /\ Goto(r, "failing")
        /\ UNCHANGED <<plan, mem, aim, seen, good, sound>>

\* Fault: the mechanism is called although STEP_STARTED was not saved.
StartStepAnyway(r) ==
  /\ pc[r] = "ready" /\ plan[r].from # plan[r].target
  /\ Placement = plan[r].from
  /\ ~Unfit(plan[r].target)
  /\ \/ Saved(r, "step_started") /\ Carry(r)
     \/ SaveFails(r, "step_started") /\ UNCHANGED mem
  /\ Goto(r, "apply")
  /\ aim' = [aim EXCEPT ![r] = plan[r].target]
  /\ seen' = [seen EXCEPT ![r] = Placement]
  /\ UNCHANGED <<plan, good, sound>>

\* Re-observe, revalidate and make STEP_STARTED durable.
StartStep(r) ==
  /\ pc[r] = "ready" /\ plan[r].from # plan[r].target
  /\ Placement = plan[r].from
  /\ ~Unfit(plan[r].target)
  /\ \/ /\ Saved(r, "step_started") /\ Carry(r) /\ Goto(r, "apply")
        /\ aim' = [aim EXCEPT ![r] = plan[r].target]
        /\ seen' = [seen EXCEPT ![r] = Placement]
        /\ UNCHANGED <<plan, good, sound>>
     \/ /\ SaveFails(r, "step_started") /\ Goto(r, "failing")
        /\ UNCHANGED <<plan, mem, aim, seen, good, sound>>

\* No observation, a changed placement, or any blocker.
StepBlocked(r) ==
  /\ pc[r] = "ready" /\ plan[r].from # plan[r].target
  /\ Goto(r, "blocking")
  /\ UNCHANGED <<file, world, plan, mem, aim, seen, good, sound, rest>>

\* _blocked and _terminal: the last event, saved or not.
Block(r) == pc[r] = "blocking" /\ SaveAndReturn(r, "blocked")
Fail(r) == pc[r] = "failing" /\ SaveAndReturn(r, "failed")

-----------------------------------------------------------------------------
(* PresentationTransitionMechanism._attempt                                *)

Applying(r) == aim[r] = plan[r].target

\* The mechanism returns, and its locals are gone; its result is only kept in
\* a recovery.
Answered(r, ok) ==
  /\ good' = [good EXCEPT ![r] = ok /\ ~Applying(r)]
  /\ aim' = [aim EXCEPT ![r] = None]
  /\ seen' = [seen EXCEPT ![r] = None]
  /\ UNCHANGED <<plan, mem, sound>>

\* Fault: a failed mechanism goes on to verification as well.
AnswerIgnored(r, ok) ==
  /\ Goto(r, IF Applying(r) THEN "verify" ELSE "confirm")
  /\ Answered(r, ok)

\* The mechanism answers: success goes on to verification, failure to
\* recovery; within a recovery both go on to its verification.
Answer(r, ok) ==
  /\ Goto(r, IF ~Applying(r) THEN "confirm"
             ELSE IF ok THEN "verify" ELSE "recover")
  /\ Answered(r, ok)

\* Integration, user, daemon reload or unit check fail: nothing was written.
MechanismRefuses(r) ==
  /\ pc[r] = "apply" /\ CommandFaults
  /\ Answer(r, FALSE)
  /\ UNCHANGED <<file, world, rest>>

\* write_target.  It may raise with the new file already in place, when only
\* the directory sync failed.
Configure(r) ==
  /\ pc[r] = "apply"
  /\ \/ config' = aim[r] /\ Goto(r, "configured")
     \/ CommandFaults /\ config' \in {config, aim[r]} /\ Goto(r, "rollback")
  /\ UNCHANGED <<file, session, restart, dock, game>>
  /\ UNCHANGED <<plan, mem, aim, seen, good, sound, rest>>

\* systemctl --no-block restart.  A command that times out may have been
\* accepted; a changed user stops the attempt before it.
QueueRestart(r) ==
  /\ pc[r] = "configured"
  /\ \/ restart' = TRUE /\ Goto(r, "audio")
     \/ CommandFaults /\ restart' \in {restart, TRUE} /\ Goto(r, "rollback")
  /\ UNCHANGED <<file, config, session, dock, game>>
  /\ UNCHANGED <<plan, mem, aim, seen, good, sound, rest>>

SwitchAudio(r) ==
  /\ pc[r] = "audio"
  /\ \/ Answer(r, TRUE)
     \/ CommandFaults /\ Goto(r, "rollback")
        /\ UNCHANGED <<plan, mem, aim, seen, good, sound>>
  /\ UNCHANGED <<file, world, rest>>

\* _restore_current_config: rewrite the placement the snapshot showed, if it
\* is one a configuration can name.
RollBack(r) ==
  /\ pc[r] = "rollback"
  /\ \/ seen[r] \in Placements /\ config' = seen[r]
     \/ UNCHANGED config /\ (CommandFaults \/ seen[r] \notin Placements)
  /\ Answer(r, FALSE)
  /\ UNCHANGED <<file, session, restart, dock, game, rest>>

-----------------------------------------------------------------------------
(* Verification, commit and recovery                                       *)

\* _verify_step: an observation of the target placement with no blocker.
VerifyStep(r) ==
  /\ pc[r] = "verify"
  /\ Placement = plan[r].target
  /\ ~Unfit(plan[r].target)
  /\ \/ /\ Saved(r, "step_verified") /\ Carry(r) /\ Goto(r, "verified")
        /\ UNCHANGED <<plan, aim, seen, good, sound>>
     \/ /\ SaveFails(r, "step_verified") /\ Goto(r, "recover")
        /\ sound' = [sound EXCEPT ![r] = FALSE]
        /\ UNCHANGED <<plan, mem, aim, seen, good>>

\* The step deadline passes first.
VerifyTimesOut(r) ==
  /\ pc[r] = "verify"
  /\ Goto(r, "recover")
  /\ UNCHANGED <<file, world, plan, mem, aim, seen, good, sound, rest>>

Commit(r) ==
  /\ pc[r] = "verified"
  /\ \/ Saved(r, "committed") /\ Return(r)
     \/ /\ SaveFails(r, "committed") /\ Goto(r, "recover")
        /\ sound' = [sound EXCEPT ![r] = FALSE]
        /\ UNCHANGED <<plan, mem, aim, seen, good>>

\* _recover goes on whether or not RECOVERY_STARTED could be saved.
BeginRecovery(r) ==
  /\ pc[r] = "recover"
  /\ Goto(r, "diagnose")
  /\ \/ /\ Saved(r, "recovery_started") /\ Carry(r)
        /\ UNCHANGED <<plan, aim, seen, good, sound>>
     \/ /\ SaveFails(r, "recovery_started")
        /\ sound' = [sound EXCEPT ![r] = FALSE]
        /\ UNCHANGED <<plan, mem, aim, seen, good>>

\* recovery.already_satisfied: the source is what the session still shows.
AlreadySatisfied(r) ==
  /\ pc[r] = "diagnose"
  /\ Placement = plan[r].from
  /\ good' = [good EXCEPT ![r] = TRUE]
  /\ Goto(r, "conclude")
  /\ UNCHANGED <<file, world, plan, mem, aim, seen, sound, rest>>

\* mechanism.recover with a snapshot it accepts.
RecoverSource(r) ==
  /\ pc[r] = "diagnose"
  /\ Placement # plan[r].from
  /\ game = "idle" /\ dock # "absent"
  /\ plan[r].from # "portable" => dock = "ready"
  /\ aim' = [aim EXCEPT ![r] = plan[r].from]
  /\ seen' = [seen EXCEPT ![r] = Placement]
  /\ Goto(r, "apply")
  /\ UNCHANGED <<file, world, plan, mem, good, sound, rest>>

\* No snapshot, a game, no exact binding or no ready display: nothing is
\* written, the source may still come back by itself.
RecoverRefused(r) ==
  /\ pc[r] = "diagnose"
  /\ good' = [good EXCEPT ![r] = FALSE]
  /\ Goto(r, "confirm")
  /\ UNCHANGED <<file, world, plan, mem, aim, seen, sound, rest>>

\* _verify_recovery sees the source placement, or its deadline passes.
Confirm(r) ==
  /\ pc[r] = "confirm"
  /\ \/ Placement = plan[r].from /\ UNCHANGED good
     \/ good' = [good EXCEPT ![r] = FALSE]
  /\ Goto(r, "conclude")
  /\ UNCHANGED <<file, world, plan, mem, aim, seen, sound, rest>>

\* RECOVERY_VERIFIED or FAILED, unless an earlier save of the run was lost.
Conclude(r) ==
  /\ pc[r] = "conclude"
  /\ IF sound[r]
       THEN SaveAndReturn(r, IF good[r] THEN "recovery_verified" ELSE "failed")
       ELSE Return(r) /\ UNCHANGED <<file, world, rest>>

-----------------------------------------------------------------------------
(* recover_interrupted, at plugin startup                                  *)

\* Fault: recovery acts whatever the interrupted operation had recorded.
RecoverWhatever(r) ==
  /\ startup /\ RecoveryWired
  /\ startup' = FALSE
  /\ file # None
  /\ ~Terminal(file)
  /\ mem' = [mem EXCEPT ![r] = file]
  /\ plan' = [plan EXCEPT ![r] = [op |-> file.op, from |-> file.from,
                                  target |-> file.target, facts |-> None]]
  /\ Goto(r, "diagnose")
  /\ UNCHANGED <<file, world, aim, seen, good, sound>>
  /\ UNCHANGED <<clearing, found, clobbered, deaths>>

RecoverInterrupted(r) ==
  /\ startup /\ RecoveryWired
  /\ startup' = FALSE
  /\ file # None
  /\ ~Terminal(file)
  /\ mem' = [mem EXCEPT ![r] = file]
  /\ plan' = [plan EXCEPT ![r] = [op |-> file.op, from |-> file.from,
                                  target |-> file.target, facts |-> None]]
  /\ Goto(r, IF LastKind(file) \notin MutationKinds THEN "failing"
             ELSE IF LastKind(file) = "recovery_started" THEN "diagnose"
             ELSE "resume")
  /\ UNCHANGED <<file, world, aim, seen, good, sound>>
  /\ UNCHANGED <<clearing, found, clobbered, deaths>>

\* Nothing to recover, or nobody asks.
StartupEnds ==
  /\ startup
  /\ RecoveryWired /\ file # None => Terminal(file)
  /\ startup' = FALSE
  /\ UNCHANGED <<file, world, thread, clearing, found, clobbered, deaths>>

\* Unlike _recover, it returns when RECOVERY_STARTED cannot be saved.
ResumeRecovery(r) ==
  /\ pc[r] = "resume"
  /\ \/ /\ Saved(r, "recovery_started") /\ Carry(r) /\ Goto(r, "diagnose")
        /\ UNCHANGED <<plan, aim, seen, good, sound>>
     \/ SaveFails(r, "recovery_started") /\ Return(r)

\* The player acknowledges a terminal result: the store reads it,
BeginClear ==
  /\ file # None
  /\ Terminal(file)
  /\ clearing' = clearing \cup {file.op}
  /\ UNCHANGED <<file, world, thread, startup, found, clobbered, deaths>>

\* and unlinks the file as it now is.  Several callers may acknowledge the
\* same result: after one unlink another may still be to come.
Unlink(op) ==
  /\ op \in clearing
  /\ clearing' \in {clearing, clearing \ {op}}
  /\ file' = None
  /\ found' = None
  /\ clobbered' = (clobbered \/ (file # None /\ file.op # op))
  /\ UNCHANGED <<world, thread, startup, deaths>>

-----------------------------------------------------------------------------
(* The world                                                               *)

\* systemd works off the queued restart, or the session dies by itself.
SessionStops ==
  /\ session # "down"
  /\ session' = "down"
  /\ UNCHANGED <<file, config, restart, dock, game, thread, rest>>

\* The Gamescope wrapper reads the configuration and execs.
SessionStarts ==
  /\ session = "down"
  /\ session' = Selected
  /\ restart' = FALSE
  /\ UNCHANGED <<file, config, dock, game, thread, rest>>

DockChanges ==
  /\ dock' \in {"absent", "present", "ready"} \ {dock}
  /\ UNCHANGED <<file, config, session, restart, game, thread, rest>>

GameChanges ==
  /\ game' = IF game = "idle" THEN "running" ELSE "idle"
  /\ UNCHANGED <<file, config, session, restart, dock, thread, rest>>

Forget ==
  /\ deaths < MaxDeaths
  /\ deaths' = deaths + 1
  /\ startup' = TRUE
  /\ clearing' = {}
  /\ pc' = [r \in Runners |-> "idle"]
  /\ plan' = [r \in Runners |-> None]
  /\ mem' = [r \in Runners |-> None]
  /\ aim' = [r \in Runners |-> None]
  /\ seen' = [r \in Runners |-> None]
  /\ good' = [r \in Runners |-> FALSE]
  /\ sound' = [r \in Runners |-> TRUE]

\* The plugin process is killed or reloaded; the session goes on.
PluginDies ==
  /\ \E r \in Runners : pc[r] # "idle"
  /\ Forget
  /\ UNCHANGED <<file, world, found, clobbered>>

\* A new boot: launch configurations of the old one name another boot.
Reboot ==
  /\ Forget
  /\ config' = None
  /\ session' = "portable"
  /\ restart' = FALSE
  /\ game' = "idle"
  /\ UNCHANGED <<file, dock, found, clobbered>>

-----------------------------------------------------------------------------

RunnerStep(r) ==
  \/ RefusedByJournal(r) \/ Check(r) \/ Open(r)
  \/ InitialObservation(r) \/ InitialObservationFails(r)
  \/ Validate(r) \/ PlanReady(r) \/ CommitNoOp(r)
  \/ StartStep(r) \/ StepBlocked(r) \/ Block(r) \/ Fail(r)
  \/ MechanismRefuses(r) \/ Configure(r) \/ QueueRestart(r)
  \/ SwitchAudio(r) \/ RollBack(r)
  \/ VerifyStep(r) \/ VerifyTimesOut(r) \/ Commit(r)
  \/ BeginRecovery(r) \/ AlreadySatisfied(r) \/ RecoverSource(r)
  \/ RecoverRefused(r) \/ Confirm(r) \/ Conclude(r)
  \/ ResumeRecovery(r)

WorldStep ==
  SessionStops \/ SessionStarts \/ DockChanges \/ GameChanges

Next ==
  \/ \E r \in Runners :
       \/ RunnerStep(r)
       \/ RecoverInterrupted(r)
       \/ \E target \in Targets, op \in Operations : Request(r, target, op)
  \/ \E op \in Operations : Unlink(op)
  \/ StartupEnds \/ BeginClear \/ WorldStep \/ PluginDies \/ Reboot

Spec == Init /\ [][Next]_vars

\* A runner that is not killed keeps running and its deadlines pass.  Nothing
\* is assumed of the player, the session, the dock or the game.
FairSpec ==
  /\ Spec
  /\ \A r \in Runners : WF_vars(RunnerStep(r))
-----------------------------------------------------------------------------
(* Properties                                                              *)

Labels ==
  {"idle", "planned", "opening", "opened", "accepted", "validated", "ready", "blocking",
   "failing", "apply", "configured", "audio", "rollback", "verify",
   "verified", "recover", "diagnose", "confirm", "conclude", "resume"}

\* Labels at which a mechanism call is in progress.
Mutating == {"apply", "configured", "audio", "rollback"}

\* The type of the state.
TypeOK ==
  /\ file \in Records \cup {None}
  /\ config \in Placements \cup {None}
  /\ session \in Placements \cup {"down"}
  /\ restart \in BOOLEAN
  /\ dock \in {"absent", "present", "ready"}
  /\ game \in {"idle", "running"}
  /\ pc \in [Runners -> Labels]
  /\ plan \in [Runners -> Plans \cup {None}]
  /\ mem \in [Runners -> Records \cup {None}]
  /\ aim \in [Runners -> Placements \cup {None}]
  /\ seen \in [Runners -> Placements \cup {"degraded", "unknown", None}]
  /\ good \in [Runners -> BOOLEAN]
  /\ sound \in [Runners -> BOOLEAN]
  /\ clearing \subseteq Operations
  /\ startup \in BOOLEAN /\ clobbered \in BOOLEAN
  /\ found \in Placements \cup {None}
  /\ deaths \in Nat

Happened(j, kind) == \E i \in 1 .. Len(j.kinds) : j.kinds[i] = kind

\* The journal is what keeps two runners, each with locks of its own, from
\* working the session at the same time.
OneMutator ==
  \A r, s \in Runners : pc[r] \in Mutating /\ pc[s] \in Mutating => r = s

\* It does unless an opening or an unlink hit a journal that its own check had
\* not read: no failed save, timeout, recovery, death or acknowledgement lets
\* a second run in.
LoneMutator == ~clobbered => OneMutator

\* "step_started must be durable before it calls a mechanism": whoever writes
\* the launch configuration or queues a restart, in an apply or a recovery,
\* after failed saves or a restart of the plugin, the journal on disk shows
\* an event from which startup recovery knows that a step may have started.
MutationIsJournaled ==
  [][ ~clobbered /\ (config' \notin {config, None} \/ (restart' /\ ~restart))
        => file # None /\ LastKind(file) \in MutationKinds ]_vars

\* Recovery tells an abandoned request from an attempted step by the journal
\* alone.  A journal without step_started, left by a death, a block or a lost
\* save, belongs to an operation that never touched the configuration.
UntouchedWithoutStep ==
  ~clobbered /\ file # None =>
    (~Happened(file, "step_started") => config \in {found, None})

\* A committed handoff is the configuration the next session start will use,
\* until it is acknowledged or the machine reboots.
CommittedIsConfigured ==
  ~clobbered /\ file # None =>
    (LastKind(file) = "committed" =>
       config \in {IF Happened(file, "step_started") THEN file.target ELSE found,
                   None})

\* Every event the orchestrator may have to record next is one that the
\* journal's transition table and capacity accept; otherwise the append
\* raises and the run ends as if the disk had failed.
EventsAreLegal ==
  \A r \in Runners :
    /\ pc[r] = "opened" => CanAppend(mem[r], "observed")
    /\ pc[r] = "accepted" => CanAppend(mem[r], "validated")
    /\ pc[r] = "validated" => CanAppend(mem[r], "planned")
    /\ pc[r] = "ready" =>
         CanAppend(mem[r], IF plan[r].from = plan[r].target
                             THEN "committed" ELSE "step_started")
    /\ pc[r] = "verify" => CanAppend(mem[r], "step_verified")
    /\ pc[r] = "verified" => CanAppend(mem[r], "committed")
    /\ pc[r] \in {"recover", "resume"} => CanAppend(mem[r], "recovery_started")
    /\ pc[r] = "blocking" => CanAppend(mem[r], "blocked")
    /\ pc[r] = "failing" => CanAppend(mem[r], "failed")
    /\ pc[r] = "conclude" /\ sound[r] =>
         /\ CanAppend(mem[r], "recovery_verified")
         /\ CanAppend(mem[r], "failed")

\* A request that found the source placement leaves it configured: no later
\* start of the session goes on to the dock after the journal has recorded
\* that the source was recovered.
RecoveredStaysRecovered ==
  [][ file # None /\ LastKind(file) = "recovery_verified"
        /\ file.target = "docked_egpu" /\ session = "down"
      => session' # "docked_egpu" ]_vars

\* "A transition that requires restarting Gamescope is blocked while a game
\* is running."
NoRestartDuringGame ==
  [][ restart' /\ ~restart => game = "idle" ]_vars

\* An operation on file comes to a terminal event: a run ends by itself, and
\* after a death of the plugin startup recovery ends it.
OperationsEnd ==
  \A op \in Operations :
    (file # None /\ file.op = op)
      ~> (file = None \/ file.op # op \/ Terminal(file))
===============================================================================
