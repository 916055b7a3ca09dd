---------------------------- MODULE ReleaseProofs ----------------------------
(***************************************************************************)
(* Process release, its signal adapter and the sleep guard: who is         *)
(* signalled, under whose consent, how often and after what announcement,  *)
(* and that there is never a second inhibitor, for any number of           *)
(* processes, approvals, deaths and helpers.                               *)
(***************************************************************************)
EXTENDS ProcessRelease, ProcessSignal, SleepGuard, FiniteSetTheorems, TLAPS

-----------------------------------------------------------------------------
(* The signal adapter (ProcessSignal)                                      *)

SignalTyped ==
  /\ owner \in Starts \cup {Nobody} /\ past \subseteq Starts
  /\ wanted \in Starts /\ wanted \in past \cup {owner}
  /\ descriptor \in Starts \cup {Nobody}
  /\ at \in {"open", "read", "send", "done"}

\* A descriptor was opened on an owner of the PID: it is gone or still there;
\* and when the start time that was read afterwards was the wanted one, the
\* descriptor's process is the wanted one or had left before.
DescriptorHolds ==
  /\ at = "read" => descriptor # Nobody /\ descriptor \in past \cup {owner}
  /\ at = "send" => descriptor \in past \cup {wanted}

SignalInv == SignalTyped /\ owner \notin past /\ DescriptorHolds /\ OnlyTheTargetIsHit

\* The descriptor is of a process that was seen with the PID, and past its check of
\* the wanted one or of one that has exited.
LEMMA SignalInvariant == SignalSpec => []SignalInv
<1> USE SignalAssumption
<1>1. SignalInit => SignalInv
  BY DEF SignalInit, SignalInv, SignalTyped, DescriptorHolds, OnlyTheTargetIsHit
<1>2. SignalInv /\ [SignalNext]_signalVars => SignalInv'
  <2> SUFFICES ASSUME SignalInv, [SignalNext]_signalVars PROVE SignalInv'
    OBVIOUS
  <2> USE DEF SignalInv, SignalTyped, DescriptorHolds, OnlyTheTargetIsHit
  <2>1. CASE OwnerExits
    BY <2>1 DEF OwnerExits
  <2>2. ASSUME NEW p \in Starts, PidReused(p) PROVE SignalInv'
    BY <2>2 DEF PidReused
  <2>3. CASE OpenPidfd
    BY <2>3 DEF OpenPidfd, Answer, kernelVars
  <2>4. CASE ReadStartTime
    BY <2>4 DEF ReadStartTime, Answer, kernelVars
  <2>5. CASE SendSignal
    BY <2>5 DEF SendSignal, Answer, kernelVars
  <2>6. CASE UNCHANGED signalVars
    BY <2>6 DEF signalVars, kernelVars
  <2> QED
    BY <2>1, <2>2, <2>3, <2>4, <2>5, <2>6 DEF SignalNext
<1> QED
  BY <1>1, <1>2, PTL DEF SignalSpec

\* However often the PID is reused between the calls of the signal adapter, only
\* the process the approval names is ever signalled
\* (PosixProcessSignalAdapter.signal).
THEOREM SignalHitsItsTarget == SignalSpec => []OnlyTheTargetIsHit
<1>1. SignalInv => OnlyTheTargetIsHit
  BY DEF SignalInv
<1> QED
  BY <1>1, SignalInvariant, PTL

-----------------------------------------------------------------------------
(* The sleep guard (SleepGuard)                                            *)

HelperStates == {"none", "spawned", "unchecked", "holding", "dead"}

\* Every helper that runs is the one the lease names; none runs once closed.
GuardInv ==
  /\ helper \in [Helpers -> HelperStates]
  /\ lease \in Helpers \cup {NoHelper}
  /\ \A h \in Helpers : Alive(h) => h = lease
  /\ plugin = "closed" => \A h \in Helpers : ~Alive(h)

\* Every step of loop, worker, helper and unload keeps the lease and its helper paired.
LEMMA GuardKeeps ==
  ASSUME GuardInv, [GuardNext]_guardVars PROVE GuardInv'
<1> USE SleepGuardAssumption DEF GuardInv, HelperStates, Alive
<1>1. ASSUME LeaseStatus, plugin' = plugin PROVE GuardInv'
  BY <1>1 DEF LeaseStatus, LeaseRuns
<1>2. ASSUME Release PROVE GuardInv'
  BY <1>2 DEF Release, LeaseRuns
<1>3. ASSUME Acquire, plugin # "closed", plugin' = plugin PROVE GuardInv'
  BY <1>3 DEF Acquire, LeaseRuns
<1>4. CASE Reconcile
  BY <1>1, <1>2, <1>3, <1>4 DEF Reconcile
<1>5. CASE AskStatus
  BY <1>1, <1>5 DEF AskStatus
<1>6. CASE CloseGuard
  BY <1>2, <1>6 DEF CloseGuard
<1>7. CASE G1Moves \/ ObservePresence \/ SubmitReconcile \/ Unload
  BY <1>7 DEF G1Moves, ObservePresence, SubmitReconcile, Unload
<1>8. CASE GuardPluginDies
  BY <1>8 DEF GuardPluginDies
<1>9. ASSUME NEW h \in Helpers, HelperRuns(h) \/ HelperEnds(h) PROVE GuardInv'
  BY <1>9 DEF HelperRuns, HelperEnds, ArmDeathSignal, CheckParent
<1>10. CASE UNCHANGED guardVars
  BY <1>10 DEF guardVars
<1> QED
  BY <1>4, <1>5, <1>6, <1>7, <1>8, <1>9, <1>10 DEF GuardNext

\* There is never a second inhibitor, and after close there is none, however
\* many threads still reconcile what was seen before the unload
\* (SleepGuardController.reconcile, _unload).
THEOREM GuardHoldsOneInhibitor == GuardSpec => []OneInhibitor
<1>1. GuardInit => GuardInv
  BY SleepGuardAssumption DEF GuardInit, GuardInv, HelperStates, Alive
<1>2. GuardInv /\ [GuardNext]_guardVars => GuardInv'
  BY GuardKeeps
<1>3. GuardInv => OneInhibitor
  <2> SUFFICES ASSUME GuardInv PROVE OneInhibitor
    OBVIOUS
  <2> DEFINE Running == {h \in Helpers : Alive(h)}
  <2>1. Running \subseteq {lease}
    BY DEF GuardInv
  <2>2. IsFiniteSet({lease}) /\ Cardinality({lease}) = 1
    BY FS_Singleton
  <2>3. Cardinality(Running) <= Cardinality({lease})
    BY <2>1, <2>2, FS_Subset
  <2>4. Cardinality(Running) <= 1
    BY <2>2, <2>3
  <2> QED
    BY <2>4 DEF OneInhibitor, GuardInv
<1> QED
  BY <1>1, <1>2, <1>3, PTL DEF GuardSpec

-----------------------------------------------------------------------------
(* Process release (ProcessRelease)                                        *)

MemStates == RunnerStates \ {"idle", "recover", "start"}
TargetStates == {"noop", "signal", "rescan", "verify"}
\* Where the runner signals no more.
LastStates == {"completed", "blocked", "failed", "return"}

InRun == pc \notin {"idle", "recover"}

RunTyped ==
  /\ pc \in RunnerStates
  /\ InRun => approval \in Approvals
  /\ scan \subseteq Instances \cup {None} /\ todo \subseteq Instances
  /\ stays \subseteq Instances /\ (~InRun => stays = {})
  /\ pc \in MemStates => mem \in Journals
  /\ pc \in TargetStates => target \in todo

ReleaseTyped ==
  /\ file \in Journals \cup {None}
  /\ parentOp \in Ops \cup {None}
  /\ client \in [Instances -> {"unborn", "present", "gone"}]
  /\ drawn \subseteq Ops /\ parentOp \in drawn \cup {None}
  /\ approvals \in Seq(Approvals) /\ receipts \in Seq(Receipts)
  /\ sent \in [Instances -> Seq(Signals)]
  /\ RunTyped

\* Instance i was asked for a graceful termination under parent p.
Asked(s, i, p) ==
  \E k \in DOMAIN s[i] : s[i][k].phase = "graceful" /\ s[i][k].parent = p

\* Instance i was signalled under the consent op.
Signalled(s, i, op) == \E k \in DOMAIN s[i] : s[i][k].op = op

\* An approval's identity is drawn and no parent's; a forced one names only
\* instances asked before.
Sound(a, s, ids, par) ==
  /\ a.op \in ids /\ a.op # par
  /\ a.phase = "force" => \A i \in a.targets : Asked(s, i, a.parent)

\* The approvals that wait have identities of their own, under which nothing was
\* signalled; the receipts name only what was asked.
TokensHold ==
  /\ \A n \in DOMAIN approvals :
       /\ Sound(approvals[n], sent, drawn, parentOp)
       /\ \A i \in Instances : ~Signalled(sent, i, approvals[n].op)
  /\ \A m, n \in DOMAIN approvals : m # n => approvals[m].op # approvals[n].op
  /\ \A n \in DOMAIN receipts :
       \A i \in receipts[n].attempted : Asked(sent, i, receipts[n].parent)

\* What the approval under way still may do, and what it has done.
MaySignal == {i \in todo : /\ pc \notin LastStates
                           /\ pc \in {"rescan", "verify"} => i # target}

RunHolds ==
  InRun =>
    /\ Sound(approval, sent, drawn, parentOp)
    /\ \A n \in DOMAIN approvals : approvals[n].op # approval.op
    /\ todo \subseteq approval.targets
    /\ \A i \in MaySignal : ~Signalled(sent, i, approval.op)
    /\ approval.phase = "graceful" => \A i \in stays : Asked(sent, i, approval.parent)
    /\ pc = "rescan" /\ approval.phase = "graceful" => Asked(sent, target, approval.parent)

\* The journal the runner carries is that of its release or of its parent, and
\* before a signal it is the file, in an open step that nobody else may close.
JournalHolds ==
  /\ pc \in MemStates => mem.op = IF Standalone THEN approval.op ELSE approval.parent
  /\ pc = "signal" => /\ file = mem /\ file.kind = StepStarted
                      /\ target \in scan /\ scan \subseteq approval.seen

SentHolds ==
  /\ \A i \in Instances : \A k \in DOMAIN sent[i] : sent[i][k].op \in drawn
  /\ ForceAfterGraceful /\ OneSignalPerConsent

ReleaseInv == ReleaseTyped /\ TokensHold /\ RunHolds /\ JournalHolds /\ SentHolds

-----------------------------------------------------------------------------

\* A run that returns leaves nothing behind but the file.
LEMMA RunEnds ==
  ASSUME ReleaseInv, Idle, UNCHANGED <<parentOp, drawn, client, tokenVars, sent>>,
         file' \in Journals \cup {None}
  PROVE  ReleaseInv'
<1>1. ReleaseTyped'
  BY DEF ReleaseInv, ReleaseTyped, RunTyped, InRun, Idle, tokenVars, RunnerStates, MemStates,
         TargetStates
<1>2. TokensHold' /\ SentHolds'
  BY DEF ReleaseInv, TokensHold, SentHolds, tokenVars, ForceAfterGraceful, OneSignalPerConsent
<1>3. RunHolds' /\ JournalHolds'
  BY DEF RunHolds, JournalHolds, InRun, Idle, MemStates
<1> QED
  BY <1>1, <1>2, <1>3 DEF ReleaseInv

\* A step of the runner that draws, consumes and signals nothing, and after which
\* it may signal no more than before.
LEMMA RunGoesOn ==
  ASSUME ReleaseInv, InRun, approval' = approval,
         UNCHANGED <<parentOp, drawn, client, tokenVars, sent>>,
         file' \in Journals \cup {None},
         scan' \subseteq Instances \cup {None},
         pc' \in RunnerStates \ {"idle", "recover", "rescan"},
         pc' \in MemStates => mem' \in Journals,
         pc' \in TargetStates => target' \in todo',
         todo' \subseteq todo, MaySignal' \subseteq MaySignal,
         stays' \subseteq Instances,
         \A i \in stays' : i \in stays \/ (pc = "rescan" /\ i = target),
         JournalHolds'
  PROVE  ReleaseInv'
<1>1. ReleaseTyped'
  BY DEF ReleaseInv, ReleaseTyped, RunTyped, InRun, tokenVars, RunnerStates
<1>2. TokensHold' /\ SentHolds'
  BY DEF ReleaseInv, TokensHold, SentHolds, tokenVars, ForceAfterGraceful, OneSignalPerConsent
<1>3. RunHolds'
  BY DEF ReleaseInv, RunHolds, InRun, tokenVars
<1> QED
  BY <1>1, <1>2, <1>3 DEF ReleaseInv

\* A journal just opened is one.
LEMMA OpenedTyped ==
  ASSUME NEW op \in Ops, NEW by \in Owners
  PROVE  OpenedJournal(op, by) \in Journals /\ OpenedJournal(op, by).op = op
<1>1. "" \in JournalSteps
  BY Zenon DEF JournalSteps
<1>2. "requested" \in Kinds /\ 1 \in Nat
  BY DEF Kinds
<1> QED
  BY <1>1, <1>2, Zenon DEF OpenedJournal, Journals

\* A save of the journal the runner carries.
LEMMA SavesMem ==
  ASSUME ReleaseInv, pc \in MemStates, NEW kind \in Kinds, Saves(kind)
  PROVE  /\ mem' = file' /\ file' \in Journals
         /\ file'.op = mem.op /\ file'.kind = kind
<1>1. mem \in Journals
  BY DEF ReleaseInv, ReleaseTyped, RunTyped
<1>2. <<kind>>[Len(<<kind>>)] = kind /\ Len(<<kind>>) = 1
  OBVIOUS
<1>3. file' = [mem EXCEPT !.kind = kind, !.len = @ + 1]
  BY <1>2 DEF Saves, WithKinds
<1>4. mem.len + 1 \in Nat
  BY <1>1 DEF Journals
<1> HIDE DEF Saves
<1>5. [mem EXCEPT !.kind = kind, !.len = @ + 1] \in Journals
  BY <1>1, <1>4 DEF Journals
<1>6. /\ [mem EXCEPT !.kind = kind, !.len = @ + 1].op = mem.op
      /\ [mem EXCEPT !.kind = kind, !.len = @ + 1].kind = kind
  BY <1>1 DEF Journals
<1>7. mem' = file'
  BY DEF Saves
<1> QED
  BY <1>3, <1>5, <1>6, <1>7

\* Record saves one event and goes on, or returns.
LEMMA RecordKeeps ==
  ASSUME ReleaseInv, pc \in MemStates, NEW kind \in Kinds, NEW label, Record(kind, label),
         label \in {"check", "planned", "target", "completed", "return"},
         pc \notin LastStates \cup TargetStates \/ label \in LastStates
  PROVE  ReleaseInv'
<1>1. CASE Raises(kind)
  BY <1>1, RunEnds DEF Record, Raises, ReleaseInv, ReleaseTyped
<1>2. CASE Saves(kind) /\ ~Raises(kind)
  <2>1. /\ mem' = file' /\ file' \in Journals /\ file'.op = mem.op
    BY <1>2, SavesMem
  <2>2. /\ pc' = label /\ UNCHANGED <<approval, scan, todo, target, stays>>
        /\ UNCHANGED <<parentOp, drawn, client, tokenVars, sent>>
    BY <1>2 DEF Record
  <2>3. InRun /\ MaySignal' \subseteq MaySignal
    BY <2>2 DEF InRun, MemStates, MaySignal, LastStates, TargetStates
  <2>4. JournalHolds'
    BY <2>1, <2>2 DEF ReleaseInv, JournalHolds, MemStates, Standalone
  <2>5. pc' \in RunnerStates \ {"idle", "recover", "rescan"} /\ pc' \notin TargetStates
    BY <2>2 DEF RunnerStates, TargetStates
  <2>6. scan' \subseteq Instances \cup {None} /\ stays' \subseteq Instances
    BY <2>2 DEF ReleaseInv, ReleaseTyped, RunTyped
  <2> QED
    <3>1. todo' \subseteq todo /\ (\A i \in stays' : i \in stays \/ (pc = "rescan" /\ i = target))
      BY <2>2
    <3>2. file' \in Journals \cup {None} /\ approval' = approval
      BY <2>1, <2>2
    <3>3. /\ pc' \in MemStates => mem' \in Journals
          /\ pc' \in TargetStates => target' \in todo'
      BY <2>1, <2>5
    <3> QED
      BY <2>2, <2>3, <2>4, <2>5, <2>6, <3>1, <3>2, <3>3, RunGoesOn
<1> QED
  BY <1>1, <1>2 DEF Record

\* The runner's steps that save or observe, but signal nothing.
LEMMA RunnerKeeps ==
  ASSUME ReleaseInv, Runner, ~Signal, ~Finish PROVE ReleaseInv'
<1> USE DEF InRun, LastStates, TargetStates
<1>0. /\ file \in Journals \cup {None} /\ scan \subseteq Instances \cup {None}
      /\ stays \subseteq Instances /\ todo \subseteq Instances
      /\ InRun => approval \in Approvals
      /\ pc \in MemStates => mem \in Journals
      /\ pc \in TargetStates => target \in todo
  BY DEF ReleaseInv, ReleaseTyped, RunTyped
<1>k. /\ StepStarted \in Kinds /\ StepVerified \in Kinds
      /\ {"observed", "validated", "planned", "blocked", "failed", "committed"} \subseteq Kinds
  BY DEF StepStarted, StepVerified, Kinds
<1>1. CASE Start
  <2>1. CASE JournalFree(approval.parent) /\ pc' # "idle"
    <3>1. /\ pc = "start" /\ pc' = IF Standalone THEN "requested" ELSE "check"
          /\ mem' = IF Standalone THEN OpenedJournal(approval.op, "process_release") ELSE file
          /\ UNCHANGED <<approval, scan, todo, target, stays>>
          /\ UNCHANGED <<file, parentOp, client, drawn, tokenVars, sent>>
      BY <1>1, <2>1 DEF Start, Idle, worldVars
    <3>2. approval \in Approvals
      BY <1>0, <3>1
    <3>3. mem' \in Journals /\ mem'.op = IF Standalone THEN approval.op ELSE approval.parent
      <4>1. CASE Standalone
        <5>0. approval.op \in Ops
          BY <3>2 DEF Approvals
        <5>1. /\ OpenedJournal(approval.op, "process_release") \in Journals
              /\ OpenedJournal(approval.op, "process_release").op = approval.op
          BY <5>0, OpenedTyped DEF Owners
        <5> QED
          BY <4>1, <5>1, <3>1
      <4>2. CASE ~Standalone
        BY <4>2, <2>1, <3>1, <1>0 DEF JournalFree, ParentReady, Standalone
      <4> QED
        BY <4>1, <4>2
    <3>4. JournalHolds'
      BY <3>1, <3>3 DEF JournalHolds, Standalone
    <3>5. MaySignal' \subseteq MaySignal
      BY <3>1 DEF MaySignal
    <3>6. pc' \in RunnerStates \ {"idle", "recover", "rescan"}
      BY <3>1 DEF RunnerStates
    <3>7. pc' \notin TargetStates /\ InRun
      BY <3>1
    <3> QED
      BY <1>0, <3>1, <3>3, <3>4, <3>5, <3>6, <3>7, RunGoesOn
  <2>2. CASE Idle
    BY <1>0, <1>1, <2>2, RunEnds DEF Start, worldVars
  <2> QED
    BY <1>1, <2>1, <2>2 DEF Start
<1>2. CASE SaveRequested
  <2>1. CASE Idle
    BY <1>0, <1>2, <2>1, RunEnds DEF SaveRequested, MemStates, RunnerStates
  <2>2. CASE ~Idle
    <3>1. /\ pc = "requested" /\ pc' = "observed" /\ file' = mem /\ mem' = mem
          /\ UNCHANGED <<approval, scan, todo, target, stays>>
          /\ UNCHANGED <<parentOp, client, drawn, tokenVars, sent>>
      BY <1>2, <2>2 DEF SaveRequested
    <3>2. mem \in Journals
      BY <1>0, <3>1 DEF MemStates, RunnerStates
    <3>3. JournalHolds'
      BY <3>1 DEF ReleaseInv, JournalHolds, MemStates, RunnerStates, Standalone
    <3>4. MaySignal' \subseteq MaySignal
      BY <3>1 DEF MaySignal
    <3>5. pc' \in RunnerStates \ {"idle", "recover", "rescan"} /\ InRun /\ pc' \notin TargetStates
      BY <3>1 DEF RunnerStates
    <3> QED
      BY <1>0, <3>1, <3>2, <3>3, <3>4, <3>5, RunGoesOn
  <2> QED
    BY <2>1, <2>2
<1>3. CASE SaveObserved
  BY <1>3, <1>k, RecordKeeps DEF SaveObserved, MemStates, RunnerStates
<1>4. CASE Revalidate
  <2>1. /\ pc = "check" /\ pc' \in {"blocked", "validated", "target"}
        /\ UNCHANGED <<approval, scan, todo, target, stays, mem, file>>
        /\ UNCHANGED <<parentOp, client, drawn, tokenVars, sent>>
    BY <1>4 DEF Revalidate, worldVars
  <2>2. mem' \in Journals
    BY <1>0, <2>1 DEF MemStates, RunnerStates
  <2>3. JournalHolds'
    BY <2>1 DEF ReleaseInv, JournalHolds, MemStates, RunnerStates, Standalone
  <2>4. MaySignal' \subseteq MaySignal
    BY <2>1 DEF MaySignal
  <2>5. pc' \in RunnerStates \ {"idle", "recover", "rescan"} /\ InRun /\ pc' \notin TargetStates
    BY <2>1 DEF RunnerStates
  <2> QED
    BY <1>0, <2>1, <2>2, <2>3, <2>4, <2>5, RunGoesOn
<1>5. CASE SaveValidated
  BY <1>5, <1>k, RecordKeeps DEF SaveValidated, MemStates, RunnerStates
<1>6. CASE SavePlanned
  BY <1>6, <1>k, RecordKeeps DEF SavePlanned, MemStates, RunnerStates
<1>7. CASE SaveBlocked
  BY <1>7, <1>k, RecordKeeps DEF SaveBlocked, MemStates, RunnerStates
<1>8. CASE SaveFailed
  BY <1>8, <1>k, RecordKeeps DEF SaveFailed, MemStates, RunnerStates
<1>9. CASE TargetFails
  <2>1. CASE Idle
    BY <1>0, <1>9, <2>1, RunEnds DEF TargetFails, Raises
  <2>2. CASE ~Idle
    <3>1. /\ pc = "target" /\ pc' = "failed"
          /\ UNCHANGED <<approval, scan, todo, target, stays, mem, file>>
          /\ UNCHANGED <<parentOp, client, drawn, tokenVars, sent>>
      BY <1>9, <2>2 DEF TargetFails, Raises
    <3>2. mem' \in Journals
      BY <1>0, <3>1 DEF MemStates, RunnerStates
    <3>3. JournalHolds'
      BY <3>1 DEF ReleaseInv, JournalHolds, MemStates, RunnerStates, Standalone
    <3>4. MaySignal' \subseteq MaySignal
      BY <3>1 DEF MaySignal
    <3>5. pc' \in RunnerStates \ {"idle", "recover", "rescan"} /\ InRun /\ pc' \notin TargetStates
      BY <3>1 DEF RunnerStates
    <3> QED
      BY <1>0, <3>1, <3>2, <3>3, <3>4, <3>5, RunGoesOn
  <2> QED
    BY <2>1, <2>2
<1>10. ASSUME NEW i \in Instances, NextTarget(i) PROVE ReleaseInv'
  <2>0. /\ pc = "target" /\ i \in todo /\ scan \subseteq approval.seen
        /\ target' = i /\ pc' = IF i \in scan THEN "signal" ELSE "noop"
        /\ UNCHANGED <<approval, scan, todo, stays>>
        /\ UNCHANGED <<parentOp, client, drawn, tokenVars, sent>>
    BY <1>10 DEF NextTarget, StillWithin
  <2>1. /\ mem' = file' /\ file' \in Journals /\ file'.op = mem.op
        /\ file'.kind = StepStarted
    BY <1>10, <1>k, <2>0, SavesMem DEF NextTarget, MemStates, RunnerStates
  <2>3. JournalHolds'
    BY <2>0, <2>1 DEF ReleaseInv, JournalHolds, MemStates, RunnerStates, Standalone, StepStarted
  <2>4. MaySignal' \subseteq MaySignal
    BY <2>0 DEF MaySignal
  <2>5. pc' \in RunnerStates \ {"idle", "recover", "rescan"} /\ InRun
    BY <2>0 DEF RunnerStates
  <2> QED
    BY <1>0, <2>0, <2>1, <2>3, <2>4, <2>5, RunGoesOn
<1>11. CASE AlreadyReleased
  <2>1. CASE Idle
    BY <1>0, <1>11, <2>1, RunEnds, SavesMem, <1>k
       DEF AlreadyReleased, Raises, MemStates, RunnerStates
  <2>2. CASE ~Idle
    <3>0. /\ pc = "noop" /\ Saves(StepVerified) /\ todo' = todo \ {target} /\ pc' = "target"
          /\ UNCHANGED <<approval, scan, target, stays>>
          /\ UNCHANGED <<parentOp, client, drawn, tokenVars, sent>>
      BY <1>11, <2>2 DEF AlreadyReleased, Raises
    <3>1. mem' = file' /\ file' \in Journals /\ file'.op = mem.op
      BY <1>k, <3>0, SavesMem DEF MemStates, RunnerStates
    <3>3. JournalHolds'
      BY <3>0, <3>1 DEF ReleaseInv, JournalHolds, MemStates, RunnerStates, Standalone
    <3>4. MaySignal' \subseteq MaySignal
      BY <3>0 DEF MaySignal
    <3>5. pc' \in RunnerStates \ {"idle", "recover", "rescan"} /\ InRun /\ pc' \notin TargetStates
      BY <3>0 DEF RunnerStates
    <3> QED
      BY <1>0, <3>0, <3>1, <3>3, <3>4, <3>5, RunGoesOn
  <2> QED
    BY <2>1, <2>2
<1>12. CASE Rescan
  <2>0. /\ pc = "rescan" /\ pc' \in {"verify", "failed"} /\ scan' \in Scans
        /\ stays' \subseteq stays \cup {target}
        /\ UNCHANGED <<approval, todo, target, mem, file>>
        /\ UNCHANGED <<parentOp, client, drawn, tokenVars, sent>>
    BY <1>12 DEF Rescan, worldVars
  <2>1. mem' \in Journals /\ target \in todo
    BY <1>0, <2>0 DEF MemStates, RunnerStates
  <2>2. scan' \subseteq Instances \cup {None}
    BY <2>0 DEF Scans, Present, Unusable
  <2>3. JournalHolds'
    BY <2>0 DEF ReleaseInv, JournalHolds, MemStates, RunnerStates, Standalone
  <2>4. MaySignal' \subseteq MaySignal
    BY <2>0 DEF MaySignal
  <2>5. pc' \in RunnerStates \ {"idle", "recover", "rescan"} /\ InRun
    BY <2>0 DEF RunnerStates
  <2>6. stays' \subseteq Instances /\ \A i \in stays' : i \in stays \/ (pc = "rescan" /\ i = target)
    BY <1>0, <2>0, <2>1
  <2> QED
    BY <1>0, <2>0, <2>1, <2>2, <2>3, <2>4, <2>5, <2>6, RunGoesOn
<1>13. CASE SaveVerified
  <2>1. CASE Idle
    BY <1>0, <1>13, <2>1, RunEnds, SavesMem, <1>k
       DEF SaveVerified, Raises, MemStates, RunnerStates
  <2>2. CASE ~Idle
    <3>0. /\ pc = "verify" /\ Saves(StepVerified) /\ todo' = todo \ {target}
          /\ pc' \in {"target", "failed"}
          /\ UNCHANGED <<approval, scan, target, stays>>
          /\ UNCHANGED <<parentOp, client, drawn, tokenVars, sent>>
      BY <1>13, <2>2 DEF SaveVerified, Raises
    <3>1. mem' = file' /\ file' \in Journals /\ file'.op = mem.op
      BY <1>k, <3>0, SavesMem DEF MemStates, RunnerStates
    <3>3. JournalHolds'
      BY <3>0, <3>1 DEF ReleaseInv, JournalHolds, MemStates, RunnerStates, Standalone
    <3>4. MaySignal' \subseteq MaySignal
      BY <3>0 DEF MaySignal
    <3>5. pc' \in RunnerStates \ {"idle", "recover", "rescan"} /\ InRun /\ pc' \notin TargetStates
      BY <3>0 DEF RunnerStates
    <3> QED
      BY <1>0, <3>0, <3>1, <3>3, <3>4, <3>5, RunGoesOn
  <2> QED
    BY <2>1, <2>2
<1>14. CASE AllHandled
  <2>1. CASE Standalone
    BY <1>14, <1>k, <2>1, RecordKeeps DEF AllHandled, RecordOwn, MemStates, RunnerStates
  <2>2. CASE ~Standalone
    <3>1. /\ pc = "target" /\ pc' = "completed"
          /\ UNCHANGED <<approval, scan, todo, target, stays, mem, file>>
          /\ UNCHANGED <<parentOp, client, drawn, tokenVars, sent>>
      BY <1>14, <2>2 DEF AllHandled, RecordOwn, worldVars
    <3>2. mem' \in Journals
      BY <1>0, <3>1 DEF MemStates, RunnerStates
    <3>3. JournalHolds'
      BY <3>1 DEF ReleaseInv, JournalHolds, MemStates, RunnerStates, Standalone
    <3>4. MaySignal' \subseteq MaySignal
      BY <3>1 DEF MaySignal
    <3>5. pc' \in RunnerStates \ {"idle", "recover", "rescan"} /\ InRun /\ pc' \notin TargetStates
      BY <3>1 DEF RunnerStates
    <3> QED
      BY <1>0, <3>1, <3>2, <3>3, <3>4, <3>5, RunGoesOn
  <2> QED
    BY <2>1, <2>2
<1> QED
  BY <1>1, <1>2, <1>3, <1>4, <1>5, <1>6, <1>7, <1>8, <1>9, <1>10, <1>11, <1>12, <1>13, <1>14
     DEF Runner

\* What a kept or a consumed token store holds, and in which order.
LEMMA KeptShape ==
  ASSUME NEW S, NEW s \in Seq(S)
  PROVE  /\ Kept(s) \in Seq(S)
         /\ \E d \in {0, 1} : /\ Len(Kept(s)) = Len(s) - d
                              /\ \A k \in 1 .. Len(Kept(s)) : Kept(s)[k] = s[k + d]
<1>1. CASE Len(s) >= MaxTokens
  <2>1. s # <<>>
    BY <1>1, ReleaseAssumption
  <2>2. /\ Tail(s) \in Seq(S) /\ Len(Tail(s)) = Len(s) - 1
        /\ \A k \in 1 .. Len(Tail(s)) : Tail(s)[k] = s[k + 1]
    BY <2>1
  <2> QED
    BY <1>1, <2>2 DEF Kept
<1>2. CASE ~(Len(s) >= MaxTokens)
  BY <1>2 DEF Kept
<1> QED
  BY <1>1, <1>2

\* Taking out the n-th element moves the later ones down.
LEMMA WithoutShape ==
  ASSUME NEW S, NEW s \in Seq(S), NEW n \in DOMAIN s
  PROVE  /\ Without(s, n) \in Seq(S)
         /\ Len(Without(s, n)) = Len(s) - 1
         /\ \A k \in 1 .. Len(s) - 1 : Without(s, n)[k] = s[IF k < n THEN k ELSE k + 1]
<1> DEFINE a == SubSeq(s, 1, n - 1)
           b == SubSeq(s, n + 1, Len(s))
<1>1. n \in 1 .. Len(s) /\ Len(s) \in Nat
  OBVIOUS
<1>2. a \in Seq(S) /\ Len(a) = n - 1 /\ \A k \in 1 .. n - 1 : a[k] = s[k]
  BY <1>1
<1>3. b \in Seq(S) /\ Len(b) = Len(s) - n /\ \A k \in 1 .. Len(s) - n : b[k] = s[k + n]
  BY <1>1
<1> HIDE DEF a, b
<1>4. /\ a \o b \in Seq(S) /\ Len(a \o b) = Len(s) - 1
      /\ \A k \in 1 .. Len(s) - 1 : (a \o b)[k] = IF k <= n - 1 THEN a[k] ELSE b[k - (n - 1)]
  BY <1>1, <1>2, <1>3
<1>5. ASSUME NEW k \in 1 .. Len(s) - 1
      PROVE  (a \o b)[k] = s[IF k < n THEN k ELSE k + 1]
  <2>1. CASE k < n
    BY <1>1, <1>2, <1>4, <2>1
  <2>2. CASE ~(k < n)
    <3>1. k - (n - 1) \in 1 .. Len(s) - n /\ k - (n - 1) + n = k + 1
      BY <1>1, <2>2
    <3>2. (a \o b)[k] = b[k - (n - 1)]
      BY <1>1, <1>4, <2>2
    <3>3. b[k - (n - 1)] = s[k + 1]
      BY <1>3, <3>1
    <3> QED
      BY <2>2, <3>2, <3>3
  <2> QED
    BY <2>1, <2>2
<1> QED
  BY <1>4, <1>5 DEF Without, a, b

\* A step that leaves the runner and the signals alone: the tokens that are new
\* carry identities nobody had, and the parent is still the same, none, or new.
LEMMA OthersStep ==
  ASSUME ReleaseInv, UNCHANGED <<runVars, sent>>,
         file' \in Journals \cup {None}, pc = "signal" => file' = file,
         client' \in [Instances -> {"unborn", "present", "gone"}],
         drawn \subseteq drawn', drawn' \subseteq Ops,
         parentOp' \in {None, parentOp} \cup (drawn' \ drawn),
         approvals' \in Seq(Approvals), receipts' \in Seq(Receipts),
         \A n \in DOMAIN approvals' :
           \/ \E m \in DOMAIN approvals : approvals'[n] = approvals[m]
           \/ /\ approvals'[n].op \notin drawn
              /\ Sound(approvals'[n], sent, drawn', parentOp'),
         \A m, n \in DOMAIN approvals' : m # n => approvals'[m].op # approvals'[n].op,
         \A n \in DOMAIN receipts' : \E m \in DOMAIN receipts : receipts'[n] = receipts[m]
  PROVE  ReleaseInv'
<1>1. ReleaseTyped'
  BY DEF ReleaseInv, ReleaseTyped, RunTyped, InRun, runVars
<1>2. ASSUME NEW a, Sound(a, sent, drawn, parentOp)
      PROVE  Sound(a, sent', drawn', parentOp')
  <2>1. a.op \in drawn /\ a.op # parentOp /\ a.op # None
    BY <1>2, ReleaseAssumption DEF Sound, ReleaseInv, ReleaseTyped
  <2> QED
    BY <1>2, <2>1 DEF Sound
<1>3. TokensHold'
  <2>1. ASSUME NEW n \in DOMAIN approvals'
        PROVE  /\ Sound(approvals'[n], sent', drawn', parentOp')
               /\ \A i \in Instances : ~Signalled(sent', i, approvals'[n].op)
    <3>1. CASE \E m \in DOMAIN approvals : approvals'[n] = approvals[m]
      BY <1>2, <3>1 DEF ReleaseInv, TokensHold
    <3>2. CASE approvals'[n].op \notin drawn /\ Sound(approvals'[n], sent, drawn', parentOp')
      BY <3>2 DEF ReleaseInv, SentHolds, Signalled
    <3> QED
      BY <2>1, <3>1, <3>2
  <2>2. ASSUME NEW n \in DOMAIN receipts', NEW i \in receipts'[n].attempted
        PROVE  Asked(sent', i, receipts'[n].parent)
    BY <2>2 DEF ReleaseInv, TokensHold
  <2> QED
    BY <2>1, <2>2 DEF TokensHold
<1>4. RunHolds'
  <2> SUFFICES ASSUME InRun' PROVE RunHolds'
    BY DEF RunHolds
  <2>0. UNCHANGED <<pc, approval, todo, target, stays, MaySignal>>
    BY DEF runVars, MaySignal
  <2>1. InRun /\ Sound(approval, sent, drawn, parentOp)
    BY <2>0 DEF InRun, ReleaseInv, RunHolds
  <2>2. \A n \in DOMAIN approvals' : approvals'[n].op # approval.op
    BY <2>1 DEF ReleaseInv, RunHolds, Sound
  <2>3. Sound(approval', sent', drawn', parentOp')
    BY <1>2, <2>0, <2>1
  <2>4. UNCHANGED sent
    OBVIOUS
  <2> QED
    BY <2>0, <2>1, <2>2, <2>3, <2>4 DEF ReleaseInv, RunHolds
<1>5. JournalHolds'
  BY DEF ReleaseInv, JournalHolds, runVars, Standalone, StepStarted
<1>6. SentHolds'
  BY DEF ReleaseInv, SentHolds, ForceAfterGraceful, OneSignalPerConsent
<1> QED
  BY <1>1, <1>3, <1>4, <1>5, <1>6 DEF ReleaseInv

\* Tokens that go leave the others as they are.
LEMMA WithoutKeeps ==
  ASSUME NEW S, NEW s \in Seq(S), NEW n \in DOMAIN s
  PROVE  \A j, k \in DOMAIN Without(s, n) :
           /\ \E m \in DOMAIN s : m # n /\ Without(s, n)[k] = s[m]
           /\ j # k => \E l, m \in DOMAIN s : /\ l # m /\ Without(s, n)[j] = s[l]
                                              /\ Without(s, n)[k] = s[m]
<1> SUFFICES ASSUME NEW j \in DOMAIN Without(s, n), NEW k \in DOMAIN Without(s, n)
             PROVE  /\ \E m \in DOMAIN s : m # n /\ Without(s, n)[k] = s[m]
                    /\ j # k => \E l, m \in DOMAIN s : /\ l # m /\ Without(s, n)[j] = s[l]
                                                       /\ Without(s, n)[k] = s[m]
  OBVIOUS
<1> DEFINE From(x) == IF x < n THEN x ELSE x + 1
<1>1. /\ Without(s, n) \in Seq(S) /\ Len(Without(s, n)) = Len(s) - 1
      /\ \A x \in 1 .. Len(s) - 1 : Without(s, n)[x] = s[From(x)]
  BY WithoutShape
<1>2. /\ j \in 1 .. Len(s) - 1 /\ k \in 1 .. Len(s) - 1
      /\ n \in 1 .. Len(s) /\ DOMAIN s = 1 .. Len(s)
  BY <1>1
<1>3. From(k) \in DOMAIN s /\ From(k) # n /\ From(j) \in DOMAIN s
  BY <1>2
<1>4. j # k => From(j) # From(k)
  BY <1>2
<1>5. Without(s, n)[j] = s[From(j)] /\ Without(s, n)[k] = s[From(k)]
  BY <1>1, <1>2
<1> HIDE DEF From
<1> QED
  BY <1>3, <1>4, <1>5

\* The elements a full store keeps are different elements of it.
LEMMA KeptKeeps ==
  ASSUME NEW S, NEW s \in Seq(S)
  PROVE  \A j, k \in DOMAIN Kept(s) :
           /\ \E m \in DOMAIN s : Kept(s)[k] = s[m]
           /\ j # k => \E l, m \in DOMAIN s : l # m /\ Kept(s)[j] = s[l] /\ Kept(s)[k] = s[m]
<1>1. PICK d \in {0, 1} : /\ Len(Kept(s)) = Len(s) - d
                          /\ \A k \in 1 .. Len(Kept(s)) : Kept(s)[k] = s[k + d]
  BY KeptShape
<1>2. Kept(s) \in Seq(S)
  BY KeptShape
<1>3. DOMAIN Kept(s) = 1 .. Len(s) - d /\ DOMAIN s = 1 .. Len(s) /\ Len(s) \in Nat
  BY <1>1, <1>2
<1>4. \A k \in DOMAIN Kept(s) : k + d \in DOMAIN s /\ Kept(s)[k] = s[k + d] /\ k \in Nat
  <2>1. Len(Kept(s)) = Len(s) - d /\ DOMAIN Kept(s) = 1 .. Len(Kept(s)) /\ d \in {0, 1}
    BY <1>1, <1>3
  <2>2. \A k \in 1 .. Len(s) - d : k + d \in 1 .. Len(s) /\ k \in Nat
    BY <1>3, <2>1
  <2>3. \A k \in DOMAIN Kept(s) : Kept(s)[k] = s[k + d]
    BY <1>1, <2>1
  <2> QED
    BY <1>3, <2>2, <2>3
<1>5. ASSUME NEW j \in DOMAIN Kept(s), NEW k \in DOMAIN Kept(s), j # k
      PROVE  j + d # k + d
  BY <1>4, <1>5
<1>6. ASSUME NEW j \in DOMAIN Kept(s), NEW k \in DOMAIN Kept(s), j # k
      PROVE  \E l, m \in DOMAIN s : l # m /\ Kept(s)[j] = s[l] /\ Kept(s)[k] = s[m]
  BY <1>4, <1>5, <1>6
<1> QED
  BY <1>4, <1>6

\* The tail's elements are different elements of the sequence.
LEMMA TailKeeps ==
  ASSUME NEW S, NEW s \in Seq(S), s # <<>>
  PROVE  /\ Tail(s) \in Seq(S)
         /\ \A j, k \in DOMAIN Tail(s) :
              /\ \E m \in DOMAIN s : Tail(s)[k] = s[m]
              /\ j # k => \E l, m \in DOMAIN s : l # m /\ Tail(s)[j] = s[l] /\ Tail(s)[k] = s[m]
<1>1. /\ Tail(s) \in Seq(S) /\ DOMAIN Tail(s) = 1 .. Len(s) - 1 /\ DOMAIN s = 1 .. Len(s)
      /\ Len(s) \in Nat
  OBVIOUS
<1>2. \A k \in DOMAIN Tail(s) : k + 1 \in DOMAIN s /\ Tail(s)[k] = s[k + 1] /\ k \in Nat
  BY <1>1
<1>3. ASSUME NEW j \in DOMAIN Tail(s), NEW k \in DOMAIN Tail(s), j # k PROVE j + 1 # k + 1
  BY <1>2, <1>3
<1>4. ASSUME NEW j \in DOMAIN Tail(s), NEW k \in DOMAIN Tail(s), j # k
      PROVE  \E l, m \in DOMAIN s : l # m /\ Tail(s)[j] = s[l] /\ Tail(s)[k] = s[m]
  BY <1>2, <1>3, <1>4
<1> QED
  BY <1>1, <1>2, <1>4

\* An approval that is issued.
LEMMA IssueKeeps ==
  ASSUME ReleaseInv, NEW phase \in Phases, NEW parent \in Ops \cup {None}, NEW op \in Ops,
         op \notin drawn, Issue(phase, parent, op),
         UNCHANGED <<runVars, sent, file, client, parentOp>>,
         receipts' \in Seq(Receipts),
         \A n \in DOMAIN receipts' : \E m \in DOMAIN receipts : receipts'[n] = receipts[m],
         phase = "force" => \A i \in Eligible(Present) : Asked(sent, i, parent)
  PROVE  ReleaseInv'
<1> DEFINE new == [op |-> op, phase |-> phase, targets |-> Eligible(Present),
                   seen |-> Present, parent |-> parent]
           kept == Kept(approvals)
<1>0. approvals \in Seq(Approvals) /\ parentOp \in drawn \cup {None} /\ drawn \subseteq Ops
  BY DEF ReleaseInv, ReleaseTyped
<1>1. new \in Approvals
  BY DEF Approvals, Eligible, Present
<1>2. /\ new.op = op /\ new.phase = phase /\ new.targets = Eligible(Present)
      /\ new.parent = parent
  OBVIOUS
<1>3. drawn' = drawn \cup {op} /\ approvals' = Append(kept, new)
  BY DEF Issue
<1>4. /\ kept \in Seq(Approvals)
      /\ \A j, k \in DOMAIN kept :
           /\ \E m \in DOMAIN approvals : kept[k] = approvals[m]
           /\ j # k => \E l, m \in DOMAIN approvals :
                         l # m /\ kept[j] = approvals[l] /\ kept[k] = approvals[m]
  BY <1>0, KeptShape, KeptKeeps
<1> HIDE DEF new, kept
<1>5. Sound(new, sent, drawn', parentOp')
  BY <1>0, <1>2, <1>3, ReleaseAssumption DEF Sound
<1>6. /\ approvals' \in Seq(Approvals)
      /\ \A n \in DOMAIN approvals' : (n \in DOMAIN kept /\ approvals'[n] = kept[n])
                                      \/ (n = Len(kept) + 1 /\ approvals'[n] = new)
  BY <1>1, <1>3, <1>4
<1>7. \A n \in DOMAIN approvals' :
        \/ \E m \in DOMAIN approvals : approvals'[n] = approvals[m]
        \/ /\ approvals'[n].op \notin drawn
           /\ Sound(approvals'[n], sent, drawn', parentOp')
  BY <1>2, <1>4, <1>5, <1>6
<1>8. ASSUME NEW m \in DOMAIN approvals', NEW n \in DOMAIN approvals', m # n
      PROVE  approvals'[m].op # approvals'[n].op
  <2>1. \A k \in DOMAIN kept : kept[k].op \in drawn
    BY <1>4 DEF ReleaseInv, TokensHold, Sound
  <2>2. \A j, k \in DOMAIN kept : j # k => kept[j].op # kept[k].op
    BY <1>4 DEF ReleaseInv, TokensHold
  <2> QED
    BY <1>2, <1>6, <1>8, <2>1, <2>2
<1>9. /\ parentOp' \in {None, parentOp} \cup (drawn' \ drawn)
      /\ drawn \subseteq drawn' /\ drawn' \subseteq Ops
      /\ file' \in Journals \cup {None} /\ file' = file
      /\ client' \in [Instances -> {"unborn", "present", "gone"}]
  BY <1>0, <1>3 DEF ReleaseInv, ReleaseTyped
<1> QED
  BY <1>6, <1>7, <1>8, <1>9, OthersStep

\* A step that only takes tokens from the stores.
LEMMA TokensGo ==
  ASSUME ReleaseInv, UNCHANGED <<runVars, sent, worldVars>>,
         approvals' \in Seq(Approvals), receipts' \in Seq(Receipts),
         \A j, k \in DOMAIN approvals' :
           /\ \E m \in DOMAIN approvals : approvals'[k] = approvals[m]
           /\ j # k => \E l, m \in DOMAIN approvals :
                         l # m /\ approvals'[j] = approvals[l] /\ approvals'[k] = approvals[m],
         \A n \in DOMAIN receipts' : \E m \in DOMAIN receipts : receipts'[n] = receipts[m]
  PROVE  ReleaseInv'
<1>1. \A m, n \in DOMAIN approvals' : m # n => approvals'[m].op # approvals'[n].op
  BY DEF ReleaseInv, TokensHold
<1>2. /\ file' \in Journals \cup {None} /\ file' = file
      /\ client' \in [Instances -> {"unborn", "present", "gone"}]
      /\ drawn \subseteq drawn' /\ drawn' \subseteq Ops /\ parentOp' = parentOp
  BY DEF ReleaseInv, ReleaseTyped, worldVars
<1> QED
  BY <1>1, <1>2, OthersStep

\* A step of a service that moves the file, but not under a signal.
LEMMA FileMoves ==
  ASSUME ReleaseInv, UNCHANGED <<client, tokenVars, runVars, sent>>,
         file' \in Journals \cup {None}, pc = "signal" => file' = file,
         drawn \subseteq drawn', drawn' \subseteq Ops,
         parentOp' \in {None, parentOp} \cup (drawn' \ drawn)
  PROVE  ReleaseInv'
<1>1. /\ approvals' \in Seq(Approvals) /\ receipts' \in Seq(Receipts)
      /\ client' \in [Instances -> {"unborn", "present", "gone"}]
      /\ approvals' = approvals /\ receipts' = receipts
  BY DEF ReleaseInv, ReleaseTyped, tokenVars
<1>2. \A m, n \in DOMAIN approvals' : m # n => approvals'[m].op # approvals'[n].op
  BY <1>1 DEF ReleaseInv, TokensHold
<1> QED
  BY <1>1, <1>2, OthersStep

\* An approval is consumed: no copy of it stays behind.
LEMMA ExecuteKeeps ==
  ASSUME ReleaseInv, NEW n \in DOMAIN approvals, Execute(n) PROVE ReleaseInv'
<1>1. /\ pc = "idle" /\ approvals' = Without(approvals, n) /\ receipts' = receipts
      /\ UNCHANGED <<worldVars, sent, target, stays, mem, accepted>>
  BY DEF Execute, Consume
<1>2. /\ approvals \in Seq(Approvals) /\ receipts \in Seq(Receipts) /\ stays = {}
      /\ approvals[n] \in Approvals
  BY <1>1 DEF ReleaseInv, ReleaseTyped, RunTyped, InRun
<1>3. /\ approvals' \in Seq(Approvals)
      /\ \A j, k \in DOMAIN approvals' :
           /\ \E m \in DOMAIN approvals : m # n /\ approvals'[k] = approvals[m]
           /\ j # k => \E l, m \in DOMAIN approvals :
                         l # m /\ approvals'[j] = approvals[l] /\ approvals'[k] = approvals[m]
  <2>1. Without(approvals, n) \in Seq(Approvals)
    BY <1>2, WithoutShape
  <2>2. \A j, k \in DOMAIN Without(approvals, n) :
           /\ \E m \in DOMAIN approvals : m # n /\ Without(approvals, n)[k] = approvals[m]
           /\ j # k => \E l, m \in DOMAIN approvals :
                         /\ l # m /\ Without(approvals, n)[j] = approvals[l]
                         /\ Without(approvals, n)[k] = approvals[m]
    BY <1>2, WithoutKeeps
  <2> QED
    BY <1>1, <2>1, <2>2
<1>4. CASE UNCHANGED <<pc, approval, scan, todo>>
  <2>1. UNCHANGED runVars
    BY <1>1, <1>4 DEF runVars
  <2> QED
    BY <1>1, <1>2, <1>3, <2>1, TokensGo
<1>5. CASE ~UNCHANGED <<pc, approval, scan, todo>>
  <2>1. /\ pc' = "start" /\ approval' = approvals[n] /\ scan' \in Scans
        /\ todo' = approvals[n].targets
    BY <1>5 DEF Execute
  <2>2. ReleaseTyped'
    <3>1. RunTyped'
      <4>1. scan' \subseteq Instances \cup {None}
        BY <2>1 DEF Scans, Present, Unusable
      <4>2. todo' \subseteq Instances
        BY <1>2, <2>1 DEF Approvals
      <4> QED
        BY <1>1, <1>2, <2>1, <4>1, <4>2 DEF RunTyped, InRun, RunnerStates, MemStates, TargetStates
    <3> QED
      BY <1>1, <1>2, <1>3, <3>1 DEF ReleaseInv, ReleaseTyped, worldVars
  <2>3. TokensHold'
    <3>1. \A k \in DOMAIN approvals' : \E m \in DOMAIN approvals : approvals'[k] = approvals[m]
      BY <1>3
    <3>2. UNCHANGED <<sent, drawn, parentOp>>
      BY <1>1 DEF worldVars
    <3>3. \A k \in DOMAIN approvals' :
            /\ Sound(approvals'[k], sent', drawn', parentOp')
            /\ \A i \in Instances : ~Signalled(sent', i, approvals'[k].op)
      BY <3>1, <3>2 DEF ReleaseInv, TokensHold
    <3>4. \A j, k \in DOMAIN approvals' : j # k => approvals'[j].op # approvals'[k].op
      BY <1>3 DEF ReleaseInv, TokensHold
    <3> QED
      BY <1>1, <3>2, <3>3, <3>4 DEF ReleaseInv, TokensHold
  <2>4. RunHolds'
    <3>1. Sound(approval', sent', drawn', parentOp')
      BY <1>1, <2>1 DEF ReleaseInv, TokensHold, worldVars
    <3>2. \A k \in DOMAIN approvals' : approvals'[k].op # approval'.op
      BY <1>3, <2>1 DEF ReleaseInv, TokensHold
    <3>3. \A i \in MaySignal' : ~Signalled(sent', i, approval'.op)
      <4>1. MaySignal' \subseteq Instances
        BY <1>2, <2>1 DEF MaySignal, Approvals
      <4> QED
        BY <1>1, <2>1, <4>1 DEF ReleaseInv, TokensHold
    <3> QED
      BY <1>1, <1>2, <2>1, <3>1, <3>2, <3>3 DEF RunHolds
  <2>5. JournalHolds' /\ SentHolds'
    BY <1>1, <2>1 DEF ReleaseInv, JournalHolds, SentHolds, MemStates, worldVars, ForceAfterGraceful,
                      OneSignalPerConsent
  <2> QED
    BY <2>2, <2>3, <2>4, <2>5 DEF ReleaseInv
<1> QED
  BY <1>4, <1>5

\* Approvals, executions and acknowledgements by the player.
LEMMA PlayerKeeps ==
  ASSUME ReleaseInv, Player PROVE ReleaseInv'
<1>0. /\ approvals \in Seq(Approvals) /\ receipts \in Seq(Receipts)
      /\ Parents \subseteq Ops \cup {None} /\ file \in Journals \cup {None}
      /\ client \in [Instances -> {"unborn", "present", "gone"}]
  BY DEF ReleaseInv, ReleaseTyped, Parents
<1>1. ASSUME NEW parent \in Parents, NEW op \in Ops, ApproveGraceful(parent, op)
      PROVE  ReleaseInv'
  <2>1. /\ op \notin drawn /\ Issue("graceful", parent, op)
        /\ UNCHANGED <<runVars, sent, file, client, parentOp>> /\ receipts' = receipts
    BY <1>1 DEF ApproveGraceful, Draws
  <2> QED
    BY <1>0, <2>1, IssueKeeps DEF Phases
<1>2. ASSUME NEW parent \in Parents, NEW op \in Ops, NEW n \in DOMAIN receipts,
             ApproveForce(parent, n, op)
      PROVE  ReleaseInv'
  <2>1. /\ op \notin drawn /\ receipts' = Without(receipts, n)
        /\ UNCHANGED <<runVars, sent, file, client, parentOp>>
    BY <1>2 DEF ApproveForce, Draws, worldVars
  <2>2. /\ receipts' \in Seq(Receipts)
        /\ \A k \in DOMAIN receipts' : \E m \in DOMAIN receipts : receipts'[k] = receipts[m]
    BY <1>0, <2>1, WithoutShape, WithoutKeeps
  <2>3. CASE ForceAllowed(receipts[n], parent) /\ Issue("force", parent, op)
    <3>1. \A i \in Eligible(Present) : Asked(sent, i, parent)
      BY <2>3 DEF ForceAllowed, ReleaseInv, TokensHold
    <3> QED
      BY <1>0, <1>2, <2>1, <2>2, <2>3, <3>1, IssueKeeps DEF Phases, ApproveForce
  <2>4. CASE UNCHANGED <<drawn, approvals>>
    <3>1. UNCHANGED worldVars
      BY <1>2, <2>4 DEF ApproveForce, worldVars
    <3>2. \A j, k \in DOMAIN approvals' :
            /\ \E m \in DOMAIN approvals : approvals'[k] = approvals[m]
            /\ j # k => \E l, m \in DOMAIN approvals :
                          l # m /\ approvals'[j] = approvals[l] /\ approvals'[k] = approvals[m]
      BY <2>4
    <3> QED
      BY <1>0, <1>2, <2>2, <2>4, <3>1, <3>2, TokensGo DEF ApproveForce
  <2> QED
    BY <1>2, <2>3, <2>4 DEF ApproveForce
<1>3. ASSUME NEW n \in DOMAIN approvals, Execute(n) PROVE ReleaseInv'
  BY <1>3, ExecuteKeeps
<1>4. CASE TokenExpires
  <2>1. CASE approvals # <<>> /\ approvals' = Tail(approvals) /\ UNCHANGED receipts
    BY <1>0, <1>4, <2>1, TailKeeps, TokensGo DEF TokenExpires
  <2>2. CASE receipts # <<>> /\ receipts' = Tail(receipts) /\ UNCHANGED approvals
    <3>1. \A j, k \in DOMAIN approvals' :
            /\ \E m \in DOMAIN approvals : approvals'[k] = approvals[m]
            /\ j # k => \E l, m \in DOMAIN approvals :
                          l # m /\ approvals'[j] = approvals[l] /\ approvals'[k] = approvals[m]
      BY <2>2
    <3> QED
      BY <1>0, <1>4, <2>2, <3>1, TailKeeps, TokensGo DEF TokenExpires
  <2> QED
    BY <1>4, <2>1, <2>2 DEF TokenExpires
<1>5. CASE AcknowledgeRelease
  <2>1. file' = None /\ UNCHANGED <<parentOp, client, drawn, tokenVars, runVars, sent>>
    BY <1>5 DEF AcknowledgeRelease
  <2>2. pc # "signal"
    BY <1>5 DEF AcknowledgeRelease, Ended, ReleaseInv, JournalHolds, StepStarted, TerminalKinds
  <2>3. drawn \subseteq Ops
    BY DEF ReleaseInv, ReleaseTyped
  <2> QED
    BY <2>1, <2>2, <2>3, FileMoves
<1> QED
  BY <1>1, <1>2, <1>3, <1>4, <1>5 DEF Player

\* What one or two events appended to a journal leave of it.
LEMMA WithKindsTyped ==
  ASSUME NEW j \in Journals, NEW k \in Kinds
  PROVE  /\ WithKinds(j, <<k>>) \in Journals
         /\ \A e \in Kinds : WithKinds(j, <<e, k>>) \in Journals
<1>1. /\ [j EXCEPT !.kind = k, !.len = @ + 1] \in Journals
      /\ [j EXCEPT !.kind = k, !.len = @ + 2] \in Journals
  <2>1. j.len + 1 \in Nat /\ j.len + 2 \in Nat
    BY DEF Journals
  <2>2. ASSUME NEW x \in Nat PROVE [j EXCEPT !.kind = k, !.len = x] \in Journals
    BY DEF Journals
  <2> QED
    BY <2>1, <2>2
<1>2. WithKinds(j, <<k>>) = [j EXCEPT !.kind = k, !.len = @ + 1]
  <2>1. <<k>>[Len(<<k>>)] = k /\ Len(<<k>>) = 1
    OBVIOUS
  <2> QED
    BY <2>1 DEF WithKinds
<1>3. ASSUME NEW e \in Kinds
      PROVE  WithKinds(j, <<e, k>>) = [j EXCEPT !.kind = k, !.len = @ + 2]
  <2>1. <<e, k>>[Len(<<e, k>>)] = k /\ Len(<<e, k>>) = 2
    OBVIOUS
  <2> QED
    BY <2>1 DEF WithKinds
<1> QED
  BY <1>1, <1>2, <1>3

\* Where a signal is about to go out, the file is the carried journal, in an open step.
LEMMA OpenStep ==
  ASSUME ReleaseInv, pc = "signal"
  PROVE  /\ file # None /\ ~Ended(file)
         /\ file.kind \in {"step_started", "substep_started"}
         /\ file.kind = "step_started" => file.op = approval.op /\ file.op # parentOp
<1>1. /\ file = mem /\ file.kind = StepStarted /\ pc \in MemStates /\ InRun
      /\ mem.op = IF Standalone THEN approval.op ELSE approval.parent
      /\ mem \in Journals /\ approval.op # parentOp
  BY DEF ReleaseInv, JournalHolds, RunHolds, Sound, InRun, MemStates, RunnerStates, ReleaseTyped,
         RunTyped
<1>2. file # None
  BY <1>1, NoneAssumption
<1> QED
  BY <1>1, <1>2 DEF Standalone, StepStarted, Ended, TerminalKinds

\* The parent operation never closes the step a release of it works in.
LEMMA ParentKeeps ==
  ASSUME ReleaseInv, ParentActs PROVE ReleaseInv'
<1>0. /\ file \in Journals \cup {None} /\ drawn \subseteq Ops
      /\ parentOp \in Ops \cup {None}
  BY DEF ReleaseInv, ReleaseTyped
<1>k. {"blocked", "step_verified", "step_started", "recovery_started", "failed"} \subseteq Kinds
  BY DEF Kinds
<1>1. ASSUME NEW op \in Ops, ParentOpens(op) PROVE ReleaseInv'
  <2>1. /\ file = None /\ op \notin drawn /\ drawn' = drawn \cup {op} /\ parentOp' = op
        /\ UNCHANGED <<client, tokenVars, runVars, sent>>
    BY <1>1 DEF ParentOpens, Draws
  <2>2. file' \in Journals
    <3>1. OpenedJournal(op, "sleep") \in Journals
      BY OpenedTyped DEF Owners
    <3>2. \A j \in Journals, s \in JournalSteps :
            [j EXCEPT !.kind = "step_started", !.step = s, !.len = 5] \in Journals
      BY <1>k DEF Journals
    <3>3. "releasing_clients" \in JournalSteps
      BY Zenon DEF JournalSteps
    <3> QED
      BY <1>1, <3>1, <3>2, <3>3 DEF ParentOpens
  <2>3. pc # "signal"
    BY <2>1, OpenStep
  <2> QED
    BY <1>0, <2>1, <2>2, <2>3, FileMoves
<1>2. ASSUME NEW step \in JournalSteps, NEW kinds,
             ParentAdvances(kinds, step),
             \A j \in Journals : WithKinds(j, kinds) \in Journals
      PROVE  ReleaseInv'
  <2>1. /\ parentOp # None /\ file # None /\ file.op = parentOp
        /\ file.kind \in {"step_started", "substep_verified"}
        /\ file' = [WithKinds(file, kinds) EXCEPT !.step = step]
        /\ parentOp' = None /\ UNCHANGED <<drawn, client, tokenVars, runVars, sent>>
    BY <1>2 DEF ParentAdvances
  <2>2. pc # "signal"
    BY <2>1, OpenStep
  <2>3. WithKinds(file, kinds) \in Journals
    BY <1>0, <1>2, <2>1
  <2>4. file' \in Journals
    BY <2>1, <2>3 DEF Journals
  <2> QED
    BY <1>0, <2>1, <2>2, <2>4, FileMoves
<1>3. ASSUME ParentAdvances(<<"blocked">>, "releasing_clients") PROVE ReleaseInv'
  <2>1. "releasing_clients" \in JournalSteps
    BY Zenon DEF JournalSteps
  <2>2. \A j \in Journals : WithKinds(j, <<"blocked">>) \in Journals
    BY <1>k, WithKindsTyped
  <2> QED
    BY <1>2, <1>3, <2>1, <2>2
<1>4. ASSUME ParentAdvances(<<"step_verified", "step_started">>, "awaiting_disconnect")
      PROVE  ReleaseInv'
  <2>1. "awaiting_disconnect" \in JournalSteps
    BY Zenon DEF JournalSteps
  <2>2. \A j \in Journals :
          WithKinds(j, <<"step_verified", "step_started">>) \in Journals
    BY <1>k, WithKindsTyped
  <2> QED
    BY <1>2, <1>4, <2>1, <2>2
<1>5. CASE ParentRecovers
  <2>1. /\ file # None /\ pc = "idle"
        /\ file' = WithKinds(file, <<"recovery_started", "failed">>)
        /\ UNCHANGED <<parentOp, client, drawn, tokenVars, runVars, sent>>
    BY <1>5 DEF ParentRecovers
  <2>2. file' \in Journals
    BY <1>0, <1>k, <2>1, WithKindsTyped
  <2> QED
    BY <1>0, <2>1, <2>2, FileMoves
<1>6. CASE ParentAcknowledged
  <2>1. /\ file # None /\ Ended(file) /\ file' = None
        /\ UNCHANGED <<parentOp, client, drawn, tokenVars, runVars, sent>>
    BY <1>6 DEF ParentAcknowledged
  <2> QED
    BY <1>0, <2>1, OpenStep, FileMoves
<1> QED
  BY <1>1, <1>3, <1>4, <1>5, <1>6 DEF ParentActs

\* One more signal: it takes from no instance what it was asked before.
LEMMA OneMoreSignal ==
  ASSUME sent \in [Instances -> Seq(Signals)], NEW tgt \in Instances, NEW c \in Signals,
         sent' = [sent EXCEPT ![tgt] = Append(@, c)]
  PROVE  /\ sent' \in [Instances -> Seq(Signals)]
         /\ \A i \in Instances : \A p : Asked(sent, i, p) => Asked(sent', i, p)
         /\ \A i \in Instances : \A op :
              Signalled(sent', i, op) => Signalled(sent, i, op) \/ (i = tgt /\ op = c.op)
         /\ c.phase = "graceful" => Asked(sent', tgt, c.parent)
<1>1. /\ sent[tgt] \in Seq(Signals) /\ sent'[tgt] = Append(sent[tgt], c)
      /\ \A i \in Instances : i # tgt => sent'[i] = sent[i]
      /\ sent' \in [Instances -> Seq(Signals)]
  OBVIOUS
<1>2. /\ DOMAIN sent[tgt] = 1 .. Len(sent[tgt]) /\ Len(sent[tgt]) \in Nat
      /\ DOMAIN sent'[tgt] = 1 .. Len(sent[tgt]) + 1
      /\ sent'[tgt][Len(sent[tgt]) + 1] = c
      /\ \A k \in 1 .. Len(sent[tgt]) : sent'[tgt][k] = sent[tgt][k]
  BY <1>1
<1>3. /\ \A k \in DOMAIN sent[tgt] : k \in DOMAIN sent'[tgt] /\ sent'[tgt][k] = sent[tgt][k]
      /\ \A k \in DOMAIN sent'[tgt] :
           (k \in DOMAIN sent[tgt] /\ sent'[tgt][k] = sent[tgt][k]) \/ sent'[tgt][k] = c
      /\ \E k \in DOMAIN sent'[tgt] : sent'[tgt][k] = c
  BY <1>2
<1>4. ASSUME NEW i \in Instances, NEW p, Asked(sent, i, p) PROVE Asked(sent', i, p)
  BY <1>1, <1>3, <1>4 DEF Asked
<1>5. ASSUME NEW i \in Instances, NEW op, Signalled(sent', i, op)
      PROVE  Signalled(sent, i, op) \/ (i = tgt /\ op = c.op)
  BY <1>1, <1>3, <1>5 DEF Signalled
<1>6. c.phase = "graceful" => Asked(sent', tgt, c.parent)
  BY <1>3 DEF Asked
<1> QED
  BY <1>1, <1>4, <1>5, <1>6

\* A signal goes to a target that had none under this consent.
LEMMA SignalKeeps ==
  ASSUME ReleaseInv, Signal PROVE ReleaseInv'
<1> DEFINE c == [op |-> approval.op, phase |-> approval.phase, parent |-> approval.parent]
<1>0. /\ pc = "signal" /\ pc' = "rescan" /\ target \in todo /\ InRun
      /\ approval \in Approvals /\ todo \subseteq approval.targets /\ todo \subseteq Instances
      /\ UNCHANGED <<worldVars, tokenVars, approval, scan, todo, target, stays, mem>>
      /\ sent \in [Instances -> Seq(Signals)]
  BY DEF ReleaseInv, ReleaseTyped, RunTyped, RunHolds, InRun, TargetStates, Signal
<1>1. /\ c \in Signals /\ c.op = approval.op /\ c.phase = approval.phase
      /\ c.parent = approval.parent /\ sent' = [sent EXCEPT ![target] = Append(@, c)]
  BY <1>0 DEF Approvals, Signals, Signal
<1>2. target \in Instances
  BY <1>0
<1> HIDE DEF c
<1>3. /\ sent' \in [Instances -> Seq(Signals)]
      /\ \A i \in Instances : \A p : Asked(sent, i, p) => Asked(sent', i, p)
      /\ \A i \in Instances : \A op :
           Signalled(sent', i, op) => Signalled(sent, i, op) \/ (i = target /\ op = c.op)
      /\ c.phase = "graceful" => Asked(sent', target, c.parent)
  BY <1>0, <1>1, <1>2, OneMoreSignal
<1>4. ASSUME NEW a \in Approvals, Sound(a, sent, drawn, parentOp)
      PROVE  Sound(a, sent', drawn', parentOp')
  <2>1. a.targets \subseteq Instances
    BY DEF Approvals
  <2> QED
    BY <1>0, <1>3, <1>4, <2>1 DEF Sound, worldVars
<1>5. ReleaseTyped'
  BY <1>0, <1>3 DEF ReleaseInv, ReleaseTyped, RunTyped, InRun, RunnerStates, MemStates,
                    TargetStates, worldVars, tokenVars
<1>6. TokensHold'
  <2>0. UNCHANGED <<approvals, receipts>> /\ approvals \in Seq(Approvals)
        /\ receipts \in Seq(Receipts)
    BY <1>0 DEF tokenVars, ReleaseInv, ReleaseTyped
  <2>1. ASSUME NEW n \in DOMAIN approvals
        PROVE  /\ Sound(approvals[n], sent', drawn', parentOp')
               /\ \A i \in Instances : ~Signalled(sent', i, approvals[n].op)
    <3>1. approvals[n] \in Approvals
      BY <2>0
    <3>2. approvals[n].op # c.op
      BY <1>0, <1>1 DEF ReleaseInv, RunHolds
    <3> QED
      BY <1>3, <1>4, <3>1, <3>2 DEF ReleaseInv, TokensHold
  <2>2. ASSUME NEW n \in DOMAIN receipts, NEW i \in receipts[n].attempted
        PROVE  Asked(sent', i, receipts[n].parent)
    <3>0. receipts[n] \in Receipts
      BY <2>0, <2>2
    <3>1. i \in Instances
      BY <2>2, <3>0 DEF Receipts
    <3> QED
      BY <1>3, <3>1 DEF ReleaseInv, TokensHold
  <2>3. \A m, n \in DOMAIN approvals : m # n => approvals[m].op # approvals[n].op
    BY DEF ReleaseInv, TokensHold
  <2> QED
    BY <2>0, <2>1, <2>2, <2>3 DEF TokensHold
<1>7. RunHolds'
  <2>1. Sound(approval', sent', drawn', parentOp')
    BY <1>0, <1>4 DEF ReleaseInv, RunHolds
  <2>2. \A n \in DOMAIN approvals' : approvals'[n].op # approval'.op
    BY <1>0 DEF ReleaseInv, RunHolds, tokenVars
  <2>3. \A i \in MaySignal' : ~Signalled(sent', i, approval'.op)
    <3>1. \A i \in MaySignal' : i \in MaySignal /\ i # target /\ i \in Instances
      BY <1>0 DEF MaySignal, LastStates
    <3> QED
      BY <1>0, <1>3, <3>1 DEF ReleaseInv, RunHolds
  <2>4. approval.phase = "graceful" => \A i \in stays : Asked(sent', i, approval.parent)
    <3>1. stays \subseteq Instances
      BY DEF ReleaseInv, ReleaseTyped, RunTyped
    <3> QED
      BY <1>0, <1>3, <3>1 DEF ReleaseInv, RunHolds
  <2> QED
    BY <1>0, <1>1, <1>3, <2>1, <2>2, <2>3, <2>4 DEF RunHolds
<1>8. JournalHolds'
  BY <1>0 DEF ReleaseInv, JournalHolds, MemStates, RunnerStates, Standalone
<1>9. SentHolds'
  <2>0. /\ \A i \in Instances : i # target => sent'[i] = sent[i]
        /\ sent'[target] = Append(sent[target], c) /\ sent[target] \in Seq(Signals)
        /\ drawn' = drawn
    BY <1>0, <1>1, <1>2 DEF worldVars
  <2>1. /\ DOMAIN sent[target] = 1 .. Len(sent[target]) /\ Len(sent[target]) \in Nat
        /\ DOMAIN sent'[target] = 1 .. Len(sent[target]) + 1
        /\ sent'[target][Len(sent[target]) + 1] = c
        /\ \A k \in 1 .. Len(sent[target]) : sent'[target][k] = sent[target][k]
    BY <2>0
  <2>2. c.op \in drawn /\ (c.phase = "force" => Asked(sent, target, c.parent))
    BY <1>0, <1>1 DEF ReleaseInv, RunHolds, Sound
  <2>3. \A k \in DOMAIN sent[target] : sent[target][k].op # c.op
    <3>1. target \in MaySignal
      BY <1>0 DEF MaySignal, LastStates
    <3> QED
      BY <1>0, <1>1, <3>1 DEF ReleaseInv, RunHolds, Signalled
  <2>4. \A i \in Instances : \A k \in DOMAIN sent'[i] : sent'[i][k].op \in drawn'
    <3>1. \A i \in Instances : \A k \in DOMAIN sent[i] : sent[i][k].op \in drawn
      BY DEF ReleaseInv, SentHolds
    <3>2. \A k \in DOMAIN sent'[target] : sent'[target][k].op \in drawn
      <4>1. \A k \in DOMAIN sent[target] : sent'[target][k].op \in drawn
        BY <1>2, <2>1, <3>1
      <4>2. \A k \in DOMAIN sent'[target] : k \in DOMAIN sent[target] \/ sent'[target][k] = c
        BY <2>1
      <4> QED
        BY <2>2, <4>1, <4>2
    <3>3. \A i \in Instances : i = target \/ sent'[i] = sent[i]
      BY <2>0
    <3> QED
      BY <2>0, <3>1, <3>2, <3>3
  <2>5. ASSUME NEW i \in Instances, NEW n \in DOMAIN sent'[i], sent'[i][n].phase = "force"
        PROVE  \E m \in 1 .. n - 1 : /\ sent'[i][m].phase = "graceful"
                                     /\ sent'[i][m].parent = sent'[i][n].parent
    <3>1. CASE i # target
      BY <2>0, <2>5, <3>1 DEF ReleaseInv, SentHolds, ForceAfterGraceful
    <3>2. CASE i = target /\ n = Len(sent[target]) + 1
      <4>1. PICK m \in DOMAIN sent[target] : /\ sent[target][m].phase = "graceful"
                                             /\ sent[target][m].parent = c.parent
        BY <2>1, <2>2, <2>5, <3>2 DEF Asked
      <4> QED
        BY <2>1, <3>2, <4>1
    <3>3. CASE i = target /\ n \in DOMAIN sent[target]
      <4>1. PICK m \in 1 .. n - 1 : /\ sent[target][m].phase = "graceful"
                                    /\ sent[target][m].parent = sent[target][n].parent
        BY <1>2, <2>1, <2>5, <3>3 DEF ReleaseInv, SentHolds, ForceAfterGraceful
      <4>2. m \in 1 .. Len(sent[target]) /\ n \in 1 .. Len(sent[target])
        BY <2>1, <3>3
      <4> QED
        BY <2>1, <3>3, <4>1, <4>2
    <3> QED
      BY <2>1, <3>1, <3>2, <3>3
  <2>6. ASSUME NEW i \in Instances, NEW m \in DOMAIN sent'[i], NEW n \in DOMAIN sent'[i],
               m # n
        PROVE  sent'[i][m].op # sent'[i][n].op
    <3>1. CASE i # target
      BY <2>0, <2>6, <3>1 DEF ReleaseInv, SentHolds, OneSignalPerConsent
    <3>2. CASE i = target
      <4>1. \A k \in DOMAIN sent'[target] :
              (k \in DOMAIN sent[target] /\ sent'[target][k] = sent[target][k])
              \/ (k = Len(sent[target]) + 1 /\ sent'[target][k] = c)
        BY <2>1
      <4>2. \A k, l \in DOMAIN sent[target] : k # l => sent[target][k].op # sent[target][l].op
        BY <1>2 DEF ReleaseInv, SentHolds, OneSignalPerConsent
      <4> QED
        BY <2>3, <2>6, <3>2, <4>1, <4>2
    <3> QED
      BY <3>1, <3>2
  <2> QED
    BY <2>4, <2>5, <2>6 DEF SentHolds, ForceAfterGraceful, OneSignalPerConsent
<1> QED
  BY <1>5, <1>6, <1>7, <1>8, <1>9 DEF ReleaseInv

\* The receipt names what was signalled and stays.
LEMMA FinishKeeps ==
  ASSUME ReleaseInv, Finish PROVE ReleaseInv'
<1> DEFINE new == [attempted |-> stays, parent |-> approval.parent]
<1>0. /\ Idle /\ UNCHANGED <<worldVars, approvals, sent>> /\ InRun
      /\ receipts' = IF approval.phase = "graceful" /\ stays # {}
                     THEN Append(Kept(receipts), new) ELSE receipts
  BY DEF Finish, InRun
<1>1. /\ receipts \in Seq(Receipts) /\ stays \subseteq Instances /\ approval \in Approvals
  BY <1>0 DEF ReleaseInv, ReleaseTyped, RunTyped
<1>2. new \in Receipts /\ new.attempted = stays /\ new.parent = approval.parent
  BY <1>1 DEF Receipts, Approvals
<1> HIDE DEF new
<1>3. /\ receipts' \in Seq(Receipts)
      /\ \A n \in DOMAIN receipts' :
           \/ \E m \in DOMAIN receipts : receipts'[n] = receipts[m]
           \/ receipts'[n] = new /\ approval.phase = "graceful"
  <2>1. CASE approval.phase = "graceful" /\ stays # {}
    <3>1. /\ Kept(receipts) \in Seq(Receipts)
          /\ \A k \in DOMAIN Kept(receipts) : \E m \in DOMAIN receipts :
               Kept(receipts)[k] = receipts[m]
      BY <1>1, KeptShape, KeptKeeps
    <3>2. receipts' = Append(Kept(receipts), new)
      BY <1>0, <2>1
    <3>3. /\ receipts' \in Seq(Receipts)
          /\ \A n \in DOMAIN receipts' :
               (n \in DOMAIN Kept(receipts) /\ receipts'[n] = Kept(receipts)[n])
               \/ receipts'[n] = new
      BY <1>2, <3>1, <3>2
    <3> QED
      BY <2>1, <3>1, <3>3
  <2>2. CASE ~(approval.phase = "graceful" /\ stays # {})
    BY <1>0, <1>1, <2>2
  <2> QED
    BY <2>1, <2>2
<1>4. \A i \in new.attempted : approval.phase = "graceful" => Asked(sent, i, new.parent)
  BY <1>0, <1>2 DEF ReleaseInv, RunHolds
<1>5. ReleaseTyped'
  BY <1>0, <1>3 DEF ReleaseInv, ReleaseTyped, RunTyped, InRun, Idle, worldVars, RunnerStates,
                    MemStates, TargetStates
<1>6. TokensHold' /\ SentHolds'
  <2>1. UNCHANGED <<sent, drawn, parentOp, approvals>>
    BY <1>0 DEF worldVars
  <2>2. ASSUME NEW n \in DOMAIN receipts', NEW i \in receipts'[n].attempted
        PROVE  Asked(sent', i, receipts'[n].parent)
    BY <1>3, <1>4, <2>1 DEF ReleaseInv, TokensHold
  <2> QED
    BY <2>1, <2>2 DEF ReleaseInv, TokensHold, SentHolds, ForceAfterGraceful, OneSignalPerConsent
<1>7. RunHolds' /\ JournalHolds'
  BY <1>0 DEF RunHolds, JournalHolds, InRun, Idle, MemStates
<1> QED
  BY <1>5, <1>6, <1>7 DEF ReleaseInv

\* A death loses approvals and runs, the recovery the journal: neither forgets a signal.
LEMMA DeathKeeps ==
  ASSUME ReleaseInv, PluginDies PROVE ReleaseInv'
<1>0. /\ approvals' = <<>> /\ receipts' = <<>> /\ pc' = "recover" /\ stays' = {}
      /\ scan' = {} /\ todo' = {} /\ parentOp' = None
      /\ UNCHANGED <<file, client, drawn, sent>>
  BY DEF PluginDies
<1>1. ReleaseTyped'
  BY <1>0 DEF ReleaseInv, ReleaseTyped, RunTyped, InRun, RunnerStates, MemStates, TargetStates
<1>2. TokensHold' /\ SentHolds'
  BY <1>0 DEF ReleaseInv, TokensHold, SentHolds, ForceAfterGraceful, OneSignalPerConsent
<1>3. RunHolds' /\ JournalHolds'
  BY <1>0 DEF RunHolds, JournalHolds, InRun, MemStates
<1> QED
  BY <1>1, <1>2, <1>3 DEF ReleaseInv

\* Every step keeps the invariant.
LEMMA ReleaseKeeps ==
  ASSUME ReleaseInv, [ReleaseNext]_releaseVars PROVE ReleaseInv'
<1>0. /\ file \in Journals \cup {None} /\ drawn \subseteq Ops
      /\ client \in [Instances -> {"unborn", "present", "gone"}]
      /\ approvals \in Seq(Approvals) /\ receipts \in Seq(Receipts)
  BY DEF ReleaseInv, ReleaseTyped
<1>1. CASE Runner
  BY <1>1, RunnerKeeps, SignalKeeps, FinishKeeps
<1>2. CASE Player
  BY <1>2, PlayerKeeps
<1>3. ASSUME NEW i \in Instances, ClientAppears(i) \/ ClientExits(i) PROVE ReleaseInv'
  <2>1. /\ client' \in [Instances -> {"unborn", "present", "gone"}]
        /\ UNCHANGED <<file, parentOp, drawn, tokenVars, runVars, sent>>
    BY <1>0, <1>3 DEF ClientAppears, ClientExits
  <2>2. /\ approvals' = approvals /\ receipts' = receipts
    BY <2>1 DEF tokenVars
  <2>3. \A m, n \in DOMAIN approvals' : m # n => approvals'[m].op # approvals'[n].op
    BY <2>2 DEF ReleaseInv, TokensHold
  <2> QED
    BY <1>0, <2>1, <2>2, <2>3, OthersStep
<1>4. CASE PluginDies
  BY <1>4, DeathKeeps
<1>5. CASE RecoverRelease
  <2>1. file' \in Journals \cup {None}
    BY <1>0, <1>5, WithKindsTyped DEF RecoverRelease, OwnJournal, Kinds
  <2> QED
    BY <1>5, <2>1, RunEnds DEF RecoverRelease
<1>6. CASE ParentActs
  BY <1>6, ParentKeeps
<1>7. CASE UNCHANGED releaseVars
  <2>1. UNCHANGED <<worldVars, tokenVars, runVars, sent>>
    BY <1>7 DEF releaseVars
  <2>2. \A j, k \in DOMAIN approvals' :
          /\ \E m \in DOMAIN approvals : approvals'[k] = approvals[m]
          /\ j # k => \E l, m \in DOMAIN approvals :
                        l # m /\ approvals'[j] = approvals[l] /\ approvals'[k] = approvals[m]
    BY <2>1 DEF tokenVars
  <2>3. /\ approvals' \in Seq(Approvals) /\ receipts' \in Seq(Receipts)
        /\ \A n \in DOMAIN receipts' : \E m \in DOMAIN receipts : receipts'[n] = receipts[m]
    BY <1>0, <2>1 DEF tokenVars
  <2> QED
    BY <2>1, <2>2, <2>3, TokensGo
<1> QED
  BY <1>1, <1>2, <1>3, <1>4, <1>5, <1>6, <1>7 DEF ReleaseNext, World

\* What process release relies on between any two of its steps: whose consent a
\* signal has, what was asked before, what the file says.
THEOREM ReleaseInvariant == ReleaseSpec => []ReleaseInv
<1>1. ReleaseInit => ReleaseInv
  <2> SUFFICES ASSUME ReleaseInit PROVE ReleaseInv
    OBVIOUS
  <2>1. ReleaseTyped
    BY DEF ReleaseInit, ReleaseTyped, RunTyped, InRun, RunnerStates, MemStates, TargetStates
  <2>2. TokensHold /\ SentHolds
    BY DEF ReleaseInit, TokensHold, SentHolds, ForceAfterGraceful, OneSignalPerConsent
  <2>3. RunHolds /\ JournalHolds
    BY DEF ReleaseInit, RunHolds, JournalHolds, InRun, MemStates
  <2> QED
    BY <2>1, <2>2, <2>3 DEF ReleaseInv
<1>2. ReleaseInv /\ [ReleaseNext]_releaseVars => ReleaseInv'
  BY ReleaseKeeps
<1> QED
  BY <1>1, <1>2, PTL DEF ReleaseSpec

\* Force is the second attempt, whatever died, expired, was cancelled or approved
\* again in between (_validate_candidate, GracefulReleaseReceiptStore).
THEOREM ForceComesSecond == ReleaseSpec => []ForceAfterGraceful
<1>1. ReleaseInv => ForceAfterGraceful
  BY DEF ReleaseInv, SentHolds
<1> QED
  BY <1>1, ReleaseInvariant, PTL

\* One consent signals one process at most once, also across a death and its
\* recovery (ProcessReleaseJournalRecovery).
THEOREM ConsentSignalsOnce == ReleaseSpec => []OneSignalPerConsent
<1>1. ReleaseInv => OneSignalPerConsent
  BY DEF ReleaseInv, SentHolds
<1> QED
  BY <1>1, ReleaseInvariant, PTL

\* Only the signal step signals.
LEMMA OnlySignalSignals ==
  ASSUME [ReleaseNext]_releaseVars, sent' # sent PROVE Signal
<1>1. ~Runner \/ Signal
  BY DEF Runner, Start, SaveRequested, SaveObserved, Revalidate, SaveValidated, SavePlanned,
         SaveBlocked, SaveFailed, TargetFails, NextTarget, AlreadyReleased, Rescan, SaveVerified,
         AllHandled, RecordOwn, Record, Finish
<1>2. ~Player
  BY DEF Player, ApproveGraceful, ApproveForce, Execute, TokenExpires, AcknowledgeRelease
<1>3. ~World /\ ~PluginDies /\ ~RecoverRelease /\ sent' # sent
  BY DEF World, ClientAppears, ClientExits, PluginDies, RecoverRelease
<1>4. ~ParentActs
  BY DEF ParentActs, ParentOpens, ParentAdvances, ParentRecovers, ParentAcknowledged
<1> QED
  BY <1>1, <1>2, <1>3, <1>4 DEF ReleaseNext, releaseVars

\* No signal without its durable announcement in an open step of the release or
\* of its parent (ProcessReleaseRunner.run).
THEOREM SignalsAreAnnounced == ReleaseSpec => SignalIsAnnounced
<1>1. ReleaseInv /\ [ReleaseNext]_releaseVars =>
        [sent' # sent => /\ file # None
                         /\ file.op = IF Standalone THEN approval.op ELSE approval.parent
                         /\ file.kind \in {"step_started", "substep_started"}]_releaseVars
  <2> SUFFICES ASSUME ReleaseInv, [ReleaseNext]_releaseVars, sent' # sent
               PROVE  /\ file # None
                      /\ file.op = IF Standalone THEN approval.op ELSE approval.parent
                      /\ file.kind \in {"step_started", "substep_started"}
    OBVIOUS
  <2>1. pc = "signal"
    BY OnlySignalSignals DEF Signal
  <2>2. pc \in MemStates
    BY <2>1 DEF MemStates, RunnerStates
  <2> QED
    BY <2>1, <2>2, OpenStep DEF ReleaseInv, JournalHolds
<1> QED
  BY <1>1, ReleaseInvariant, PTL DEF ReleaseSpec, SignalIsAnnounced

\* Only what the player saw and approved is signalled, by the runner's last scan
\* (revalidate_process_release_target).
THEOREM SignalsAreWithinConsent == ReleaseSpec => SignalIsWithinConsent
<1>1. ReleaseInv /\ [ReleaseNext]_releaseVars =>
        [sent' # sent => /\ target \in approval.targets \cap scan
                         /\ scan \subseteq approval.seen]_releaseVars
  <2> SUFFICES ASSUME ReleaseInv, [ReleaseNext]_releaseVars, sent' # sent
               PROVE  target \in approval.targets \cap scan /\ scan \subseteq approval.seen
    OBVIOUS
  <2>1. pc = "signal"
    BY OnlySignalSignals DEF Signal
  <2> QED
    BY <2>1 DEF ReleaseInv, JournalHolds, RunHolds, InRun, ReleaseTyped, RunTyped, TargetStates
<1> QED
  BY <1>1, ReleaseInvariant, PTL DEF ReleaseSpec, SignalIsWithinConsent
=============================================================================
