# TLA+ models of Handheld Docked Mode

Handheld Dock Mode (HDM) is a Decky plugin that moves a SteamOS handheld
between its own panel and a GPD G1 eGPU dock. It changes where Gamescope
renders, restarts the session, releases processes that hold the eGPU, guards
sleep, and keeps one durable journal from which a restarted plugin can tell
what had begun. This directory models that behaviour, checks it with TLC and
proves the central results with TLAPS.

## The system

| component | state it keeps | operations | what makes it correct |
|---|---|---|---|
| transition journal (`domain/transition_journal.py`) | immutable history of one operation | append | only legal, bounded histories; nothing after a terminal event |
| journal store (`delivery/transition_journal_store.py`) | `active-transition.json`, a lock per object | load, save, clear_terminal | one operation at a time; history only grows; only terminal state is discarded |
| transition orchestrator (`application/transition_orchestrator.py`) | the journal it carries | run, recover_interrupted | write-ahead: durable `step_started` before any mutation; every operation ends; source recovered on failure |
| supervised service (`application/supervised_transition.py`) | approvals, journal | preview, execute, execute_automatic, acknowledge, status | fresh evidence, one operation, foreign journals left alone |
| presentation mechanism (`adapters/presentation_transition.py`, `delivery/presentation_config.py`) | launch configuration, queued restart, audio | apply, recover | failed attempts leave the configuration that was there |
| Gamescope wrapper (`delivery/gamescope_wrapper.py`) | none | choose a launch configuration | never selects a dock that is absent or a configuration of another boot |
| automatic dock (`application/automatic_dock.py`, `attach_readiness.py`, `topology_event_detection.py`, preference store) | latch, samples, events, stored opt-in | update, suppress, reset, record_result | at most one attempt per attachment; only with consent; only after a quorum of fresh samples |
| process release (`application/process_release*.py`, `guarded_process_release.py`, `adapters/steamos/process_signal.py`) | receipts, journal | preview, execute, recover, acknowledge | only revalidated targets are signalled; force only after a graceful attempt; a death never repeats a signal |
| sleep guard (`adapters/steamos/sleep_inhibitor.py`, loop in `main.py`) | inhibitor lease | reconcile, close | held whenever docked; released on unload |
| canonical sleep (`application/canonical_sleep.py`, `domain/sleep_workflow.py`) | shared journal | run, recover, acknowledge | no suspend with the dock in use; every workflow ends |
| safe-disconnect shutdown (`application/safe_disconnect_shutdown.py`) | one token | preview, execute | one dispatch per approval, on unchanged evidence |
| docked iGPU lifecycle (`application/docked_igpu_*.py`, `delivery/docked_igpu_scheduler.py`) | one watch, the shown status | arm, poll, cancel, acknowledge, close | a watch always has an owner; no promotion on stale evidence |
| native and unexpected-undock recovery (`application/native_portable_recovery.py`, `unexpected_undock.py`) | the last docked baseline, an incident | observe, restore, fall back | nothing is recovered without a loss; success only on a fresh sample |
| audio handoff (`adapters/steamos/audio_handoff.py`, `delivery/audio_state.py`) | default sink, remembered sink | switch, roll back, remember | a reported switch was seen |
| presentation activation (`application/presentation_activation.py`, `delivery/gamescope_integration.py`) | one approval, the drop-in | preview, execute, roll back | prepared only with the drop-in in place; a failure undoes a new install |
| game close and save (`application/guarded_game_*.py`) | tokens, substeps | prepare, execute | only under the consent of the operation, save before close |
| peripheral handoff (`application/peripheral_handoff*.py`) | the applied steps | plan, run, recover | every step verified before the next, undone in reverse |
| diagnostic logging, support bundle, compatibility test | consent, previews, a session | enable, preview, save, record, capture | logged only under a consent that stands; saved as shown; recorded as observed |
| discovery, profiles, advisory policies, frontend | snapshots | read, classify, show | deterministic classification of the evidence |

The components meet in three places. `main.py` runs an asyncio loop that sends
calls from the frontend and four background loops (native recovery, automatic
dock, docked-iGPU supervisor, sleep guard) to worker threads, and builds most
services anew in every call. The journal file is shared by presentation,
release and sleep operations. And the session, dock and game change underneath
all of them, so that everything a step decided may be stale when it acts.

## Modules

| module | models | state and actions |
|---|---|---|
| `TransitionJournal` | the journal as a value | `AllowedNext` is the transition table, `CanAppend`/`Appended` the append, `Progress` the store's comparison of an old and a new history |
| `JournalRegister` | what docs and docstring promise of the file | `Open`, `Grow`, `Clear` on one variable |
| `JournalStore` | `FileTransitionJournalStore` and callers that share it (`OneStore`) | `file` is the target path, `lock` one lock per store object, `pc`/`job` a call in progress, `mem` the journal a runner carries. `SaveValidates` then `Replace` or `ReplaceFails`; `ClearValidates` then `Unlink`; `Crash` keeps only the file |
| `PresentationTransition` | a display handoff from request to acknowledgement | one action per journal event and per mechanism command; see below |
| `AutomaticDock` | the opt-in that docks by itself | one action per step of `_automatic_dock_loop`, the readiness watch, the acknowledgements; see below |
| `OwnedJournal` | the journal as its owners read it | who opened it, its last event and its step; a length stands for the history |
| `OperationLifecycle` | what the journal promises the player | an operation is opened once, ends once, and is gone for good when acknowledged; `ComesBack` is for those in `loose` |
| `ProcessRelease` | approvals, receipts and the release runner | `pc` walks `ProcessReleaseRunner.run` and `GuardedProcessReleaseService`; one action per save, signal and re-scan; the parent operation is the environment |
| `ProcessSignal` | the signal adapter on one PID | open the pidfd, read the start time, compare, signal; exit and reuse of the PID between any two |
| `SleepGuard` | the inhibitor lease | the loop's worker thread, the controller, unload, and helpers that arm their parent-death signal |
| `SleepFlow` | `start_sleep_flow`, `advance_sleep_flow` | operators from a stage and an observation to a stage |
| `CanonicalSleep` | the sleep service, its journal, its facade | request, advance, expiry, failure, restart, both acknowledgements; a release child is a writer that carries the journal; `outlived` are the operations acknowledged under such a child, `unobserved` a recovery that had no observation and left the operation as it was |
| `GameChildren` | `CanonicalSleep` with the guarded save and close | tokens, substeps, mechanisms and polls of both children beside the service |
| `DockedIgpu` | the docked iGPU watch | one action per read of the watcher, the facade and lifecycle around it, the scheduler, the acknowledgement, unload |
| `AudioHandoff` | the sound of a handoff | sinks, the default, the remembered sink and its temporary file; three callers' threads |
| `NativeRecovery` | SteamOS' own return to Portable | the supervisor and its loop |
| `UndockRecovery` | `UnexpectedUndockRecoveryCoordinator` | trigger, fresh sample, mechanism, poll, fallback, poll |
| `Preparation` | presentation activation | the approval slot and, per call, every read and write of the drop-in up to its rollback |
| `PlayerApproval` | the switch and the shutdown a player approves | preview, the slot of the token store, execution in RPCs that overlap |
| `PeripheralHandoff` | the peripheral plan and its runner | the plan as an operator on a sample; revalidate, apply, verify, and the same backwards |
| `DiagnosticLogging` | the consent to verbose logging | the reads before the lock and the decision under it, per worker thread; the rotating log |
| `SupportBundle` | preview and save of a bundle | build, issue, consume, write; extends `DiagnosticLogging`, whose log it reads |
| `CompatibilityTest` | one test of a game | session policy, lifecycle, directed logging, and the collectors' reads one by one; extends `DiagnosticLogging` |
| `MC*` | instances for TLC | constants, symmetry, and unions of components that share no state |
| `JournalStoreProofs`, `PresentationProofs`, `AutomaticDockProofs` | theorems | the journal store, the presentation, the automatic dock; see "What is proved" |
| `ReleaseProofs`, `SleepProofs` | theorems | `ProcessRelease`, `ProcessSignal`, `SleepGuard`; `GameChildren` with `CanonicalSleep` |
| `ConsentProofs`, `HandoffProofs`, `WatchProofs` | theorems | approvals, logging, bundle and preparation; sound, undock, peripherals and native recovery; docked iGPU and compatibility test |

Canonical sleep, the guarded close and save, the unexpected-undock coordinator,
the peripheral runner and the compatibility test are libraries with tests:
`main.py` does not build them (it only acknowledges and reports sleep journals).
They are modelled as their tests build them, with ports as externals.

In `PresentationTransition` a runner is a thread with an orchestrator of its
own. `pc` walks the code of `_run_locked`: `planned` (the plan is built),
`opened` (REQUESTED saved), `accepted`/`validated`/`ready` (before VALIDATED,
PLANNED, STEP_STARTED), `apply`/`configured`/`audio`/`rollback` (inside
`PresentationTransitionMechanism._attempt`), `verify`/`verified`,
`recover`/`diagnose`/`confirm`/`conclude` (`_recover`, and `resume` for
`recover_interrupted`), `blocking`/`failing` (`_blocked`, `_terminal`). `good`
is the mechanism's, then the verification's answer, `sound` the `durable` flag
of the code. `config` is the launch configuration as the wrapper of this boot
would accept it, `session` what Gamescope runs, `restart` the job queued with
`--no-block`; `dock` and `game` change at any moment. A snapshot's generation
is the tuple `Facts`; everything else in it may differ at any time, so a
verification may always see a generation it accepts. Deadlines are
nondeterministic.

Atomic steps: one observation, one journal save, one command, one file
replacement. `main.py` builds a store per call, so that the lock in it orders
nothing between two runners. Therefore the first save of a run is two steps,
`Check` (the path is empty) and `Open` (the file is replaced by what the new run
wrote, whatever has come there since), and an acknowledgement is two,
`BeginClear` and `Unlink`. `clobbered` remembers that an `Open` or an `Unlink`
hit a journal its own check had not read; `Request` forgets it when nothing is on
file and nobody at work (`Quiet`). A later save reads, compares and replaces in
one step: its operation is on file, so the only writers that could come between
are the late `Open` and the late `Unlink`, and both have set `clobbered` already.
`OneMutator` says that two runners are never in mechanism calls together; the code
breaks it (`presentation_overlap`). `LoneMutator` says that nothing but such an
overlap breaks it. `JournalStore` is the store itself, step by step, for callers
that share one object, as the tests and the docs have it.

`RecoveryWired` says whether startup calls `recover_interrupted`, which the code
offers and `main.py` does not use for presentation journals. The safety run has it
called, for the paths of the recovery; the theorems hold for both values; the
counterexample on endings has it as `main.py` does.

In `AutomaticDock`, `pc` walks one iteration of `_automatic_dock_loop`, with the
opt-in (`consent`), the snapshot (`sample`) and the readiness (`status`) it
read. `watch`, `votes`, `readiness` and `previous` are the state of
`AttachReadinessLifecycle` and `_record_topology_observation`, to which
`get_snapshot` contributes samples of its own (`Glance`, `RecordGlance`),
`attempted` is the coordinator's latch (an iteration without the opt-in leaves it
alone, since the loop goes back to sleep before it calls the coordinator), `ack`
an acknowledgement between the clearing of the journal and the latch. `dock` is what discovery sees of the G1:
`partial` is USB4 without its GPU functions, `exact` the exact profile, `ready`
a display and a link as well. The variables called history observe the run for
the properties and guard nothing. Status texts and polling delays are left out.

In the modules of components that use no journal a state says where each call
is (`at`) and what it has read; every read of the world, write of a file and
call of a mechanism is a step, and the world moves between any two. Variables
commented as kept by no code (`Preparation`'s `up` and `down`, `session.observed`
of `CompatibilityTest`, `word` of `DiagnosticLogging`, the `seen`, `met`, `loss`
and `portable` of others) record what was true at an instant, for the
properties: a component that reads a moving world can only promise that what it
reports was so at some instant after it was asked.

Left out on purpose: `PlayerApproval` does not start from the docked iGPU
presentation; `CompatibilityTest` takes the freshness of a generation as an
input and leaves out the review, a pure function no caller of the lifecycle
applies; `SleepGuard` leaves out a stop of a helper that fails.

Operators introduced by a comment "Fault:" are not used by any specification.
Each is a plausible slip in the definition that follows it; exchanging the two
breaks the property named with it in `PROJECT.json`, and so shows
that the property depends on that line of the code.

## What each run shows

| run | question | bounds |
|---|---|---|
| `presentation_runners` | unless two openings or a late unlink overlap: is the mechanism driven by one runner at a time, every mutation journaled, every journal truthful, under all failures and one death? And, overlap or not, is every event a run owes one the journal takes? | 2 runners and 2 operations (symmetric), every save and command failing at will, 1 death or reboot, 8 entries (a run writes at most 8, so no save is refused for lack of room); while runs overlap, the world holds still and nobody dies; after a death one runner is at work at a time and nobody acknowledges (`Bounds`) |
| `dock_opt_in` | is there one request while a G1 stays exact, at most one handoff after an opt-out, is readiness that of the newest recorded sample, and is a calm G1 attempted in the end? | three scenarios: handoffs, process releases and reloads by hand; a status view that refreshes with one sample in flight; neither, for the liveness. Quorum of 2 samples (4 in the code: it only takes more of the same); failed reads and incomplete sightings in all three, attachments, opt-outs and acknowledgements without limit |
| `sleep_and_release` | are signals announced, consented, on target and not repeated, do release and sleep end, does the session in memory follow the journal, does an operation live once, does an inhibitor outlive its plugin? | release: 2 processes, 3 operations, 1 token, 1 death; sleep: 2 operations, 1 game, 1 token per child, 1 facade call, 1 death, acknowledgements under a child at work, recoveries without an observation; signal: 3 owners of a PID; guard: 3 helpers |
| `components` | the safety of the sound, the undock recovery, preparation, approvals, the peripheral handoff, logging, the bundle, the compatibility test, the docked iGPU watch, the native recovery and the journal store; does the docked iGPU status follow? | a behaviour is of one of them. 2 approvals, tokens, RPCs and worker threads; 2 games and 2 sessions; 1 preview kept and 2 tokens drawn; 2 watches and 3 Gamescope sessions; for the store 2 clients of one object, 2 operations and 4 entries, enough to fill the journal, to terminate and to acknowledge late |
| `presentation_overlap` | can two requests drive the mechanism at once? | counterexample |
| `presentation_wedge` | does every operation end with startup wired as in `main.py`? | counterexample |
| `presentation_game` | can a restart meet a running game? | counterexample |
| `presentation_recovered` | does a verified recovery stay? | counterexample |
| `dock_rearmed` | does an opt-out re-arm the attachment? | counterexample |
| `dock_returned` | does an acknowledged Portable return last? | counterexample |
| `sleep_revived` | does an acknowledged sleep operation stay gone? | counterexample |
| `preparation_installed` | does a preparation that fails after its install take it back? | counterexample |

`sleep_and_release` and `components` are unions: components that share no state
are checked in one run, with a frozen variable that says whose behaviour it is. A
union has the behaviours of its parts, no more; a liveness property of a part is
stated there of that part's behaviours (`SleepsEnd` is `SleepEnds`, `ReleasesEnd`
`ReleaseEnds`, `NoInhibitorStays` `NoInhibitorOutlivesPlugin`, `StatusFollows`
`ShownFollows`, and `CalmLoopAttempts` `CalmDockIsAttempted` in its scenario).

The bounds are the smallest at which the hazards happen. An operation interacts
with another through the journal file alone, and a death forgets everything but
the files and the world, so more runners, operations or deaths repeat the
interleavings of two and of one. A slot of one token meets two approvals, a
store of one preview two tokens, a release of two targets a re-scan between
them; two RPCs or two threads are enough for every race on a slot or a lock. The
safety properties do not rest on the bounds: each of them is proved for every
value of the constants.

Fairness is assumed in four places, and nothing of the session, the dock or the
game. In `AutomaticDock` (scenario `calm`) the loop takes steps for as long as the
plugin is loaded (weak fairness of `LoopStep`), and an observation that fails is
retried and does not fail for ever (strong fairness of `Observe`); status view and
reload are left out there because one in every iteration would starve the loop.
In the docked iGPU watch the worker thread, the scheduler's coroutine and the
acknowledgement's thread run on. Release and sleep end while the disk works
(`~diskFails`): the runner's thread, the children's polls with their deadlines
and the startup recovery are weakly fair (`_main` calls that of the release;
canonical sleep's is taken to be called once, as its tests do). A sleep may
stay unended in two cases, which `SleepEnds` names: the recovery had no
observation to go by (`unobserved`; it is not asked again by itself), or the
operation was brought back by its own child (`outlived`). Of the player only
`SleepEnds` assumes something, that one who keeps cancelling is observed now and
then (strong fairness of the cancel), because the expiry of a canonical sleep is
only noticed by the next call. A helper of the sleep guard runs on. The
counterexample `presentation_wedge` assumes that a runner takes its own steps: a
thread that is not killed runs on, every wait of the code has a deadline and every
command a timeout.

### Disagreements the runs found

1. `main.py` builds a `FileTransitionJournalStore` per call, so its lock does
   not serialise anything: two requests both find the path empty, the second
   opening replaces the first journal, and both go on to the mechanism
   (`presentation_overlap`).
2. Startup recovers process-release journals only; a presentation journal left
   by a death stays incomplete and nothing clears it (`presentation_wedge`).
3. The game state is read before `step_started` and not again before the
   restart (`presentation_game`).
4. Recovery is recorded as verified on the strength of the session that still
   runs, while the configuration names the target and the restart is queued
   (`presentation_recovered`).
5. Acknowledging a process release or a sleep result re-arms automatic docking
   after an acknowledged Portable return (`dock_returned`).
6. An opt-out does not re-arm the attachment: the disabled loop never calls the
   coordinator, whose docstring and test say it would (`dock_rearmed`).
7. A sleep operation acknowledged while its release child is at work comes back:
   the child saves the journal it carries, and there is no file left to compare
   it with (`sleep_revived`).
8. A preparation whose activation fails after the drop-in was written answers
   `install_failed` and leaves it there (`preparation_installed`).

Seen while modelling, without a run of their own:

- `Arm` of `AutomaticDock` answers with the shared status, so that samples of
  status refreshes can make the loop request on an older sample of its own.
- `remember_portable` records any default sink, the G1's too, where
  docs/ARCHITECTURE.md speaks of the current Portable default.
- a canonical sleep remembers that the game was saved for the operation, not
  for the game: one that replaces the saved game may be closed unsaved.
- a peripheral plan with a step after the sound's is never the same again once
  the sound has moved, so it ends in Action Required; and the runner takes back
  steps that were accepted but never verified, where
  docs/PERIPHERAL_HANDOFF.md speaks of the verified ones.
- a compatibility test that waits for its baseline switches the player's own
  logging on again, and one that ended switches it off.
- a support preview is consumed before its file is written: a failed write
  needs a new preview.

## What is proved

Every invariant and every action property that a passing run checks is also a
theorem, for every value of the constants that the modules' assumptions admit:
any number of runners, threads, tokens, operations, processes and games. The
refinements are proved as well. The assumptions of the modules (each named, and
evaluated by TLC in the runs) are types, bounds that are natural numbers, a
journal with room for the longest run (`MaxEntries >= 8`, 128 in the code), and
constants that stand for "nothing" (`None`, `NoWatch`, `NoApp`, ...) being no
value of the kind they are absent from. Only the theorems of
`JournalStoreProofs` assume more: `OneStore`, explained below.

Each proof has the same form: an inductive invariant, one lemma per action or
family of actions that preserves it, and the property as a part of it or as a
consequence of one step from it. TLC checked each invariant on the instance of
the run before it was proved. What each adds to the property is why the
property holds.

`JournalStoreProofs` (under the assumption `OneStore`, that all clients use
one store object, which `main.py` does not see to: what is lost without it is
`presentation_overlap`):

- `StoreInvariant`: the inductive invariant `StoreInv`. Typing alone is not
  inductive; it needs that a client inside a critical section holds the lock
  and that what it validated is still what is on file, that a running
  operation's memory equals the file, and that identities on file are used.
- `StoreTyping`, `StoreDurability`, `StoreHistory`, `StoreRetention`: the
  checked properties.
- `StoreImplementsRegister`: every step of the store is a step of
  `JournalRegister` or leaves the file alone.

`PresentationProofs`:

- `RunInvariant`: what holds however runs overlap. A run and the journal it
  carries agree: its label determines which event that journal ends in, and the
  event bounds its length; one whose step may have started finds an event in it
  that says so; and what is on file is a journal as runs write it, whoever wrote
  it last. `TransitionTyping` and `RunsStayLegal` follow. The second needs that a
  run in recovery whose saves all succeeded carries `recovery_started`, which in
  turn needs that it tells applying from recovering: a step only starts towards
  another placement than the source.
- `FileInvariant` on top of it: as long as nothing was clobbered, a runner past its
  opening carries the journal on file, so that only one runner is there; a journal
  without `step_started` leaves the configuration as it was at the opening; and
  the configuration is the target from the write to the commit.
  `AbandonedIsUntouched`, `MutualExclusion` (of `LoneMutator`),
  `CommitIsConfigured` and `WriteAhead` follow. That `clobbered` is forgotten
  again keeps the invariant because `Quiet` leaves nothing to disagree with.

`AutomaticDockProofs` (with status refreshes and reloads beside the loop):

- `DockInvariant`: typing, plus: every label that uses a sample has one, the
  loop's own handoff stays on file while it waits, a display handoff has a
  target, and once a handoff has opened after an opt-out the loop is back where
  the next one takes a new opt-in. `DockTyping`, `ReadyIsEarned` and
  `OptOutIsPrompt` follow.
- `OneRequest`, from the invariant `Latched`: the exact attachment that had its
  request is latched, also while a sample of an earlier attachment is still to be
  decided. An attachment ends when the G1 is no longer seen as exact, be it by one
  sample that shows only its USB4 device (`update` clears the latch); a request
  after an acknowledgement, an opt-out or a reload counts as the player's.

`ReleaseProofs`:

- `ReleaseInvariant`: a waiting approval has an identity of its own under which
  nothing was sent, and a forced one names only processes that were asked
  before (`TokensHold`); the same of the approval under way, for the targets
  still to come (`RunHolds`); before a signal the carried journal is the file,
  in an open step that the parent may not close (`JournalHolds`); whatever was
  sent was sent under a drawn identity (`SentHolds`). `ForceComesSecond`,
  `ConsentSignalsOnce`, `SignalsAreAnnounced` and `SignalsAreWithinConsent`
  follow. A death keeps the invariant because it loses tokens, never identities.
- `SignalHitsItsTarget`, from: the descriptor is of the PID's owner or of one
  that has left, and after the start time matched, of the wanted process or of
  one that has left. `GuardHoldsOneInhibitor`, from: only the lease's helper
  lives.

`SleepProofs`:

- `SleepInvariant`: stage and step agree, plus: a release child that carries the
  journal belongs to a session which waits for it with its operation open
  (`CarriedHolds`), what can still advance was neither continued nor
  interrupted (`NotYetContinued`), and close tokens and closing sessions have
  their consent and their save (`ConsentHolds`), and the operation of a child at
  work is on file or was acknowledged under it (`CarriedIsKnown`).
  `SleepStageIsJournalStep`, `SleepContinuesOnce` and `SleepActsAreConsented`
  follow.
- `SleepOperationsLiveOnce`, the refinement of `OperationLifecycle` with `outlived`
  for `loose`: whoever acknowledges when, only an operation acknowledged under its
  own release child comes back. That it does come back is `sleep_revived`, the same
  refinement with nothing loose.

`ConsentProofs`:

- `ApprovalActsOnce`, from: a token is held by one RPC, and its holder has not
  acted. `VerboseNeedsConsent`, from: logging is off or is the player's last
  word. `BundleSavesWhatWasShown`, from: a preview in the store or consumed by a
  save is what was displayed, and a token on disk is in neither place.
  `PreparationTellsTheTruth`, from: a call that is to answer has noticed the
  drop-in as its answer says.

`HandoffProofs`:

- `AudioAnswersAreSeen`, `UndockRecoveryIsProved` and `HandoffVerifiesEachStep`:
  each invariant says for every place of a call what the world has shown it
  since the instant the property speaks of. `NativeRestoresALoss` needs only
  that an incident began with a loss.

`WatchProofs`:

- `IgpuWatchHasOwner` and `IgpuReadyHasEvidence`, from: lifecycle and facade
  agree on the watch at every read of a tick (`OwnerHolds`), and sessions only
  grow, so a session read before and after an idle game was that of the instant
  between (`EvidenceHolds`).
- `TestResultsAreObserved` and `TestEndLeavesNoLogging`, from: the exit watch is
  of this session, and the collector past a read has noticed what it read.

Only model-checked:

- the liveness properties `StatusFollows`, `CalmLoopAttempts`, `ReleasesEnd`,
  `SleepsEnd` and `NoInhibitorStays`, because liveness under fairness is beyond
  the prover;
- the eight counterexamples, which are traces. They stand for `OperationsEnd` and
  the other properties that the code does not have.

The reducer of `SleepFlow` and the policy of `CompatibilityTest` are operators
without recursion; the proofs use what they do to a stage or a session
(`NextStages`, `Policy`), the runs what they compute. Each proof is of its module
as it stands: that a presentation, a release and a sleep share one journal file is
composed nowhere yet (see "Plan"), but each treats the others as an environment
that refuses or is refused by a journal on file.

## What is not modelled

Parts listed as `not_modelled` in `PROJECT.json`, with the reason: discovery and
profiles are reads and tables, whose outcome the models take as an input;
scripts are one-shot tools; the compatibility catalogue and the support
submission are dormant. The advisory policies are pure functions of a snapshot
and the frontend's refresh policy and sleep preflight are small reducers: both
are planned.

## Plan

1. Proofs: the safety properties are done; what remains is that the presentation,
   as long as nothing is clobbered, refines `JournalRegister` as well.
2. The shared journal under all its owners at once: presentation, release and
   sleep on one `JournalStore`.
3. Pure policies (safe-undock readiness, health) as operators against reference
   definitions; the frontend's refresh policy and sleep preflight.
4. The compatibility catalogue.
