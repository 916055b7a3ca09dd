----------------------------- MODULE AutomaticDock -----------------------------
(***************************************************************************)
(* The opt-in that docks by itself: the backend loop that samples the      *)
(* machine, the readiness watch it shares with every status refresh, the   *)
(* one-shot coordinator, the acknowledgements that reset its latch, the    *)
(* stored preference, and the restart of the plugin that forgets the rest. *)
(*                                                                         *)
(* A display handoff is two steps here, its opening and its end on the     *)
(* shared journal; PresentationTransition is the module that takes it      *)
(* apart.  Every sample carries its own time stamp, so two samples are     *)
(* never the same one.                                                     *)
(***************************************************************************)
EXTENDS Naturals

CONSTANTS
  None,
  ReadySamples,     \* READY_STABILITY_SAMPLES, 4 in the code
  Flicker,          \* may an attached G1 be seen incompletely?
  ReadsFail,        \* may the journal be unreadable for a moment?
  Owners            \* whose operations does the player start by hand?

ASSUME AutomaticDockAssumption ==
  /\ ReadySamples \in Nat \ {0}
  /\ Flicker \in BOOLEAN /\ ReadsFail \in BOOLEAN
  /\ Owners \subseteq {"presentation", "release", "sleep"}

VARIABLES
  pref,         \* the stored opt-in
  dock,         \* absent, partial (USB4 only), exact, ready (display and link)
  game,         \* "idle" or "running"
  shown,        \* where the session shows: portable, docked_egpu or degraded
  journal,      \* the shared journal: None or [owner, target, state]
  attempted,    \* the coordinator's latch
  watch,        \* is an attach watch bound to the G1?
  votes,        \* ready samples in a row
  readiness,    \* the watch's status
  previous,     \* what the recorder tells apart of its last sample
  pc,           \* the loop: sleep, loaded, observed, arm, decide, execute, wait
  consent,      \* the preference this iteration loaded
  sample,       \* the snapshot this iteration took
  status,       \* the readiness this iteration was answered
  glance,       \* a snapshot a status refresh took and has not recorded
  ack,          \* an acknowledgement that cleared the journal, not the latch
  requested,    \* history: has this attachment had its request, and since then
                \* neither acknowledgement nor opt-out?
  held,         \* history: has the G1 been exact since the sample?
  again,        \* history: was requested set when the sample was taken?
  returned,     \* history: was this attachment's Portable return acknowledged?
  late          \* history: automatic handoffs opened since the opt-out

machine == <<dock, game, shown>>
recorder == <<watch, votes, readiness, previous>>
iteration == <<consent, sample, status, held, again>>
vars == <<pref, machine, journal, attempted, recorder, pc, iteration, glance, ack,
          requested, returned, late>>

Docks == {"absent", "exact", "ready"} \cup (IF Flicker THEN {"partial"} ELSE {})

Sample == [dock |-> dock, game |-> game, shown |-> shown]

Exact(s) == s.dock \in {"exact", "ready"}

\* observe_attach_readiness of a watch and a newer sample.
Classified(s) ==
  IF ~Exact(s) \/ s.shown = "degraded" THEN "action_required"
  ELSE IF s.dock # "ready" THEN "waiting"
  ELSE IF s.game = "running" THEN "game_running"
  ELSE "ready_idle"

Seen(s) == IF Exact(s) THEN Classified(s) ELSE "apart"

\* detect_topology_event = EGPU_ATTACHED against the last sample recorded.
Attached(s) == previous = "apart" /\ Exact(s)

Init ==
  /\ pref \in BOOLEAN
  /\ dock \in Docks
  /\ game \in {"idle", "running"}
  /\ shown \in IF dock = "ready" THEN {"portable", "docked_egpu"} ELSE {"portable"}
  /\ journal = None
  /\ attempted = FALSE
  /\ watch = FALSE /\ votes = 0 /\ readiness = "idle" /\ previous = None
  /\ pc = "sleep" /\ consent = FALSE /\ sample = None /\ status = "idle"
  /\ glance = None /\ ack = None
  /\ requested = FALSE /\ held = FALSE /\ again = FALSE
  /\ returned = FALSE /\ late = 0

-----------------------------------------------------------------------------
(* The readiness watch: _record_topology_observation and arm_current        *)

Vote ==
  /\ votes' = IF votes < ReadySamples THEN votes + 1 ELSE votes
  /\ readiness' = IF votes' = ReadySamples THEN "ready_idle" ELSE "settling"
  /\ UNCHANGED watch

\* Fault: a sample that is not ready keeps the status of the last ready one.
RecordLeniently(s) ==
  /\ previous' = Seen(s)
  /\ IF Attached(s)
       THEN watch' = TRUE /\ votes' = 0 /\ readiness' = "settling"
     ELSE IF watch /\ Classified(s) = "ready_idle"
       THEN Vote
     ELSE UNCHANGED <<watch, votes, readiness>>

\* AttachReadinessLifecycle.update under the topology lock.
RecordSample(s) ==
  /\ previous' = Seen(s)
  /\ IF Attached(s)
       THEN watch' = TRUE /\ votes' = 0 /\ readiness' = "settling"
     ELSE IF ~watch
       THEN UNCHANGED <<watch, votes, readiness>>
     ELSE IF Classified(s) = "ready_idle"
       THEN Vote
     ELSE votes' = 0 /\ readiness' = Classified(s) /\ UNCHANGED watch

\* A status refresh collects a snapshot ...
Glance ==
  /\ glance = None
  /\ glance' = Sample
  /\ UNCHANGED <<pref, machine, journal, attempted, recorder, pc, iteration, ack,
                 requested, returned, late>>

\* ... and records it later, perhaps after the loop recorded a newer one.
RecordGlance ==
  /\ glance # None
  /\ RecordSample(glance)
  /\ glance' = None
  /\ UNCHANGED <<pref, machine, journal, attempted, pc, iteration, ack, requested,
                 returned, late>>

-----------------------------------------------------------------------------
(* _automatic_dock_loop                                                     *)

\* Back to the wait; what the iteration read is not used again.
EndIteration ==
  /\ pc' = "sleep" /\ consent' = FALSE /\ sample' = None /\ status' = "idle"
  /\ held' = FALSE /\ again' = FALSE

LoadPreference ==
  /\ pc = "sleep"
  /\ consent' = pref
  /\ pc' = "loaded"
  /\ UNCHANGED <<pref, machine, journal, attempted, recorder, sample, status, held,
                 again, glance, ack, requested, returned, late>>

TakeSample ==
  /\ pc' = "observed"
  /\ sample' = Sample
  /\ held' = Exact(Sample) /\ again' = requested
  /\ UNCHANGED <<consent, status>>

\* Fault: a disabled loop goes on as well.
ObserveAlways ==
  /\ pc = "loaded"
  /\ TakeSample
  /\ UNCHANGED <<pref, machine, journal, attempted, recorder, glance, ack, requested,
                 returned, late>>

\* A disabled loop observes and goes back to sleep without telling the
\* coordinator or the watch.
Observe ==
  /\ pc = "loaded"
  /\ IF consent THEN TakeSample ELSE EndIteration
  /\ UNCHANGED <<pref, machine, journal, attempted, recorder, glance, ack, requested,
                 returned, late>>

\* Any exception of the iteration: log, wait and start over.
SampleFails ==
  /\ pc \in {"loaded", "execute"}
  /\ EndIteration
  /\ UNCHANGED <<pref, machine, journal, attempted, recorder, glance, ack, requested,
                 returned, late>>

Record ==
  /\ pc = "observed"
  /\ RecordSample(sample)
  /\ status' = readiness'
  /\ pc' = IF readiness' = "idle" THEN "arm" ELSE "decide"
  /\ UNCHANGED <<pref, machine, journal, attempted, consent, sample, held, again,
                 glance, ack, requested, returned, late>>

\* Fault: only an attach event arms the watch.
ArmNothing ==
  /\ pc = "arm"
  /\ status' = readiness
  /\ pc' = "decide"
  /\ UNCHANGED <<pref, machine, journal, attempted, recorder, consent, sample, held,
                 again, glance, ack, requested, returned, late>>

\* arm_current: a G1 that was attached before the plugin started.
Arm ==
  /\ pc = "arm"
  /\ IF watch
       THEN UNCHANGED <<watch, votes, readiness>>
       ELSE /\ watch' = Exact(sample) /\ votes' = 0
            /\ readiness' = IF Exact(sample) THEN "settling" ELSE "action_required"
  /\ status' = readiness'
  /\ pc' = "decide"
  /\ UNCHANGED <<pref, machine, journal, attempted, previous, consent, sample, held,
                 again, glance, ack, requested, returned, late>>

\* Will update issue a request?
Asks == /\ Exact(sample)
        /\ sample.shown = "portable"
        /\ ~attempted
        /\ status = "ready_idle"

\* Fault: the latch goes with the display, not with the G1.
UpdateForgetful ==
  attempted' = (sample.dock = "ready" /\ (attempted \/ Asks))

\* AutomaticDockCoordinator.update, which only an enabled loop calls: a G1
\* that is gone clears the latch, a TV already shown on or a request sets it.
Update ==
  attempted' = (Exact(sample) /\ (attempted \/ sample.shown = "docked_egpu" \/ Asks))

Decide ==
  /\ pc = "decide"
  /\ Update
  /\ IF Asks
       THEN /\ pc' = "execute"
            /\ requested' = (requested \/ held)
            /\ UNCHANGED iteration
       ELSE EndIteration /\ UNCHANGED requested
  /\ UNCHANGED <<pref, machine, journal, recorder, glance, ack, returned, late>>

\* execute_automatic opens the operation: the same generation (which hashes
\* all of a sample), a free journal, an idle Portable source, a ready display.
ExecuteAutomatic ==
  /\ pc = "execute"
  /\ sample = Sample
  /\ journal = None
  /\ dock = "ready" /\ game = "idle" /\ shown = "portable"
  /\ journal' = [owner |-> "presentation", target |-> "docked_egpu", state |-> "running"]
  /\ pc' = "wait"
  /\ late' = IF pref THEN 0 ELSE late + 1
  /\ UNCHANGED <<pref, machine, attempted, recorder, iteration, glance, ack,
                 requested, returned>>

\* Changed evidence, an unready integration or an occupied journal.
ExecuteRefused ==
  /\ pc = "execute"
  /\ EndIteration
  /\ UNCHANGED <<pref, machine, journal, attempted, recorder, glance, ack, requested,
                 returned, late>>

\* The handoff ends on the TV, back at the panel, or without a session.
HandoffEnds ==
  /\ pc = "wait"
  /\ journal' = [journal EXCEPT !.state = "terminal"]
  /\ \/ dock = "ready" /\ shown' = "docked_egpu"
     \/ shown' \in {"portable", "degraded"}
  /\ EndIteration
  /\ UNCHANGED <<pref, dock, game, attempted, recorder, glance, ack, requested,
                 returned, late>>

-----------------------------------------------------------------------------
(* The player                                                               *)

SetPreference(enabled) ==
  /\ pref # enabled
  /\ pref' = enabled
  /\ late' = 0
  /\ IF enabled THEN UNCHANGED <<requested, again>>
                ELSE requested' = FALSE /\ again' = FALSE
  /\ UNCHANGED <<machine, journal, attempted, recorder, pc, consent, sample, status,
                 held, glance, ack, returned>>

\* A supervised handoff or another workflow takes the free journal.
PlayerOpens(owner, target) ==
  /\ journal = None
  /\ (target # None) = (owner = "presentation")
  /\ owner = "presentation" =>
       /\ dock = "ready" /\ game = "idle"
       /\ shown = IF target = "portable" THEN "docked_egpu" ELSE "portable"
  /\ journal' = [owner |-> owner, target |-> target, state |-> "running"]
  /\ returned' = (returned /\ owner # "presentation")
  /\ UNCHANGED <<pref, machine, attempted, recorder, pc, iteration, glance, ack,
                 requested, late>>

PlayerOperationEnds ==
  /\ journal # None
  /\ journal.state = "running" /\ pc # "wait"
  /\ journal' = [journal EXCEPT !.state = "terminal"]
  /\ \/ UNCHANGED shown
     \/ /\ journal.owner = "presentation"
        /\ journal.target = "docked_egpu" => dock = "ready"
        /\ shown' = journal.target
  /\ UNCHANGED <<pref, dock, game, attempted, recorder, pc, iteration, glance, ack,
                 requested, returned, late>>

\* An acknowledgement reads the status for its target, which may fail, clears
\* the terminal journal ...
Acknowledge ==
  /\ journal # None /\ ack = None
  /\ journal.state = "terminal"
  /\ \E target \in {journal.target} \cup (IF ReadsFail THEN {None} ELSE {}) :
       ack' = [owner |-> journal.owner, target |-> target]
  /\ journal' = None
  /\ UNCHANGED <<pref, machine, attempted, recorder, pc, iteration, glance,
                 requested, returned, late>>

\* ... and then reaches the latch: held after a Portable return, re-armed
\* after anything else.
ResetLatch ==
  /\ ack # None
  /\ ack' = None
  /\ IF ack = [owner |-> "presentation", target |-> "portable"]
       THEN /\ attempted' = TRUE
            /\ returned' = TRUE
            /\ UNCHANGED <<requested, again>>
       ELSE /\ attempted' = FALSE
            /\ requested' = FALSE /\ again' = FALSE
            /\ UNCHANGED returned
  /\ UNCHANGED <<pref, machine, journal, recorder, pc, consent, sample, status, held,
                 glance, late>>

-----------------------------------------------------------------------------
(* The world                                                                *)

DockChanges ==
  /\ dock' \in Docks \ {dock}
  /\ shown' \in IF shown = "docked_egpu" /\ dock' # "ready" THEN {"degraded", shown}
                                                             ELSE {shown}
  /\ IF dock' \notin {"exact", "ready"}
       THEN requested' = FALSE /\ held' = FALSE /\ returned' = FALSE
       ELSE UNCHANGED <<requested, held, returned>>
  /\ UNCHANGED <<pref, game, journal, attempted, recorder, pc, consent, sample,
                 status, again, glance, ack, late>>

GameChanges ==
  /\ game' = IF game = "idle" THEN "running" ELSE "idle"
  /\ UNCHANGED <<pref, dock, shown, journal, attempted, recorder, pc, iteration,
                 glance, ack, requested, returned, late>>

\* SteamOS brings a session back on the panel.
SessionReturns ==
  /\ shown # "portable" /\ (shown = "docked_egpu" => dock # "ready")
  /\ shown' = "portable"
  /\ UNCHANGED <<pref, dock, game, journal, attempted, recorder, pc, iteration,
                 glance, ack, requested, returned, late>>

\* The plugin is reloaded.  Startup fails an interrupted process release
\* before the loop starts; another interrupted operation stays as it is.
PluginRestarts ==
  /\ journal' =
       IF journal # None /\ journal.state = "running"
         THEN [journal EXCEPT !.state = IF @ = "running" /\ journal.owner = "release"
                                        THEN "terminal" ELSE "orphaned"]
         ELSE journal
  /\ attempted' = FALSE
  /\ watch' = FALSE /\ votes' = 0 /\ readiness' = "idle" /\ previous' = None
  /\ EndIteration
  /\ glance' = None /\ ack' = None
  /\ requested' = FALSE
  /\ UNCHANGED <<pref, machine, returned, late>>

-----------------------------------------------------------------------------

LoopStep ==
  \/ LoadPreference \/ Observe \/ SampleFails \/ Record \/ Arm \/ Decide
  \/ ExecuteAutomatic \/ ExecuteRefused \/ HandoffEnds

PlayerStep ==
  \/ \E enabled \in BOOLEAN : SetPreference(enabled)
  \/ \E owner \in Owners, target \in {"portable", "docked_egpu", None} :
       PlayerOpens(owner, target)
  \/ PlayerOperationEnds \/ Acknowledge \/ ResetLatch

Next ==
  \/ LoopStep \/ PlayerStep \/ Glance \/ RecordGlance
  \/ DockChanges \/ GameChanges \/ SessionReturns \/ PluginRestarts

Spec == Init /\ [][Next]_vars

-----------------------------------------------------------------------------
(* Properties                                                               *)

Samples == [dock : Docks,
            game : {"idle", "running"},
            shown : {"portable", "docked_egpu", "degraded"}]

Operations == [owner : Owners \cup {"presentation"},
               target : {"portable", "docked_egpu", None},
               state : {"running", "orphaned", "terminal"}]

ASSUME NoneIsNoOperation == None \notin Operations

Acknowledged == [owner : Owners \cup {"presentation"},
                 target : {"portable", "docked_egpu", None}]

Readinesses ==
  {"idle", "settling", "waiting", "game_running", "ready_idle", "action_required"}

\* The type of the state.
TypeOK ==
  /\ pref \in BOOLEAN
  /\ dock \in Docks /\ game \in {"idle", "running"}
  /\ shown \in {"portable", "docked_egpu", "degraded"}
  /\ journal \in Operations \cup {None}
  /\ attempted \in BOOLEAN
  /\ watch \in BOOLEAN /\ votes \in 0 .. ReadySamples
  /\ readiness \in Readinesses
  /\ previous \in Readinesses \cup {"apart", None}
  /\ pc \in {"sleep", "loaded", "observed", "arm", "decide", "execute", "wait"}
  /\ consent \in BOOLEAN
  /\ sample \in Samples \cup {None}
  /\ status \in Readinesses
  /\ glance \in Samples \cup {None}
  /\ ack \in Acknowledged \cup {None}
  /\ requested \in BOOLEAN /\ held \in BOOLEAN
  /\ again \in BOOLEAN /\ returned \in BOOLEAN
  /\ late \in Nat

\* "Ready" is a quorum of samples of which the newest recorded one is ready,
\* although two threads record and one of them may be late.
ReadyIsLastSample ==
  readiness = "ready_idle" =>
    /\ watch /\ votes = ReadySamples
    /\ previous = "ready_idle"

\* "Issue at most one request while one exact eGPU remains attached": as long
\* as the G1 is exact, a second request takes an acknowledgement, an opt-out or
\* a restart of the plugin, whatever the display, the game, the session and
\* the status view did meanwhile.
OneRequestPerAttachment ==
  [][ pc = "decide" /\ pc' = "execute" => ~again ]_vars

\* "The attempted latch clears ... when the player deliberately disables
\* docking": an iteration that finds the opt-in withdrawn leaves the latch free.
OptOutRearms ==
  [][ Observe /\ ~consent => ~attempted' ]_vars

\* After the opt-out at most the handoff being decided is still opened.
ConsentIsPrompt == late <= 1

\* An attached, displayed and idle G1 under an opt-in does get its request.
Calm == /\ pref /\ dock = "ready" /\ game = "idle" /\ shown = "portable"

CalmDockIsAttempted == <>[]Calm => []<>attempted

\* "latches automatic docking off for that exact attachment until the G1 is
\* removed": a sample of that attachment leads to no request.
PortableReturnStays ==
  [][ pc = "decide" /\ pc' = "execute" => ~returned ]_vars

===============================================================================
