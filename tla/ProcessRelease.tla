---------------------------- MODULE ProcessRelease ----------------------------
(***************************************************************************)
(* Guarded release of the processes that hold the eGPU: approvals and      *)
(* graceful receipts (both single use), the runner that signals one target *)
(* at a time and re-scans after each, its journal, a death of the plugin   *)
(* between any two steps, and the recovery that never repeats a signal.    *)
(*                                                                         *)
(* A release is an operation of its own or a child of the sleep operation  *)
(* whose journal is on file.  Here that parent is the environment: its     *)
(* service may open, cancel, advance and acknowledge it between any two    *)
(* steps of the runner, with a store object of its own.                    *)
(*                                                                         *)
(* A scan is the set of clients it saw.  A scan that is stale, incomplete, *)
(* of another eGPU or with storage in use is Unusable: it equals no        *)
(* approved scan and lies within none.                                     *)
(***************************************************************************)
EXTENDS OwnedJournal, FiniteSets

CONSTANTS
  Instances,     \* process instances, identified by PID and start time
  Closable,      \* those of user processes that may be closed
  MaxTokens,     \* approvals and receipts kept, MAX_APPROVAL_TOKENS
  MaxDeaths      \* bound on deaths of the plugin

ASSUME ReleaseAssumption ==
  /\ None \notin Instances
  /\ None \notin Ops
  /\ Closable \subseteq Instances
  /\ MaxTokens \in Nat \ {0}
  /\ MaxDeaths \in Nat

VARIABLES
  parentOp,    \* the operation release_parent_operation_id answers, or None
  client,      \* "unborn", "present" or "gone" for each instance
  drawn,       \* operation identities already drawn
  approvals,   \* ProcessReleaseApprovalStore._values, oldest first
  receipts,    \* GracefulReleaseReceiptStore._values, oldest first
  pc,          \* where the runner is, "idle" when the lock is free
  approval,    \* the approval it consumed
  scan,        \* the last scan it has
  todo,        \* targets not yet handled
  target,      \* the target being signalled
  stays,       \* targets signalled and still there at their re-scan
  mem,         \* the journal it carries
  accepted,    \* whether the last signal was accepted
  sent,        \* history: the signals each instance was to get, in order
  deaths

worldVars == <<file, diskFails, parentOp, client, drawn>>
tokenVars == <<approvals, receipts>>
runVars == <<pc, approval, scan, todo, target, stays, mem, accepted>>
releaseVars == <<worldVars, tokenVars, runVars, sent, deaths>>

Unusable == {None}
Present == {i \in Instances : client[i] = "present"}
Scans == {Present, Unusable}
Eligible(s) == s \cap Closable

Phases == {"graceful", "force"}
Approvals == [op : Ops, phase : Phases, targets : SUBSET Instances,
              seen : SUBSET Instances, parent : Ops \cup {None}]
Receipts == [attempted : SUBSET Instances, parent : Ops \cup {None}]
Signals == [op : Ops, phase : Phases, parent : Ops \cup {None}]
RunnerStates == {"idle", "start", "requested", "observed", "check", "validated",
                 "planned", "target", "noop", "signal", "rescan", "verify",
                 "completed", "blocked", "failed", "return", "recover"}

ReleaseInit ==
  /\ file = None /\ diskFails \in BOOLEAN /\ parentOp = None
  /\ client \in [Instances -> {"unborn", "present"}]
  /\ drawn = {}
  /\ approvals = <<>> /\ receipts = <<>>
  /\ pc = "idle" /\ approval = None /\ scan = {} /\ todo = {} /\ target = None
  /\ stays = {} /\ mem = None /\ accepted = TRUE
  /\ sent = [i \in Instances |-> <<>>] /\ deaths = 0

-----------------------------------------------------------------------------
(* The world                                                               *)

ClientAppears(i) ==
  /\ client[i] = "unborn"
  /\ client' = [client EXCEPT ![i] = "present"]
  /\ UNCHANGED <<diskFails, file, parentOp, drawn, tokenVars, runVars, sent, deaths>>

ClientExits(i) ==
  /\ client[i] = "present"
  /\ client' = [client EXCEPT ![i] = "gone"]
  /\ UNCHANGED <<diskFails, file, parentOp, drawn, tokenVars, runVars, sent, deaths>>

-----------------------------------------------------------------------------
(* Preview and approval                                                    *)

\* An incomplete sleep journal in its client-release step, with no child
\* under way.
ParentReady(j) ==
  /\ j # None
  /\ j.owner = "sleep"
  /\ ~Ended(j)
  /\ j.step = "releasing_clients"
  /\ j.kind \in {"step_started", "substep_verified"}

\* _journal_blocker and _validate_child_parent: a child needs the release step
\* of its own parent, a release of its own needs the journal to be free.
JournalFree(parent) ==
  IF parent = None THEN file = None ELSE ParentReady(file) /\ file.op = parent

\* A player's release has no parent; the coordinator names the live session's.
Parents == {None} \cup {parentOp}

\* The bounded token stores drop their oldest entry to make room.
Kept(tokens) == IF Len(tokens) >= MaxTokens THEN Tail(tokens) ELSE tokens

Without(tokens, n) == SubSeq(tokens, 1, n - 1) \o SubSeq(tokens, n + 1, Len(tokens))

\* A fresh identity; as it is random, which one is of no consequence.
Draws(op) == op \notin drawn /\ op = CHOOSE o \in Ops : o \notin drawn

Issue(phase, parent, op) ==
  /\ drawn' = drawn \cup {op}
  /\ approvals' = Append(Kept(approvals),
       [op |-> op, phase |-> phase, targets |-> Eligible(Present),
        seen |-> Present, parent |-> parent])

\* preview(GRACEFUL, user_confirmed) on a usable scan with an eligible client.
ApproveGraceful(parent, op) ==
  /\ pc # "recover" /\ Draws(op)
  /\ JournalFree(parent)
  /\ Eligible(Present) # {}
  /\ Issue("graceful", parent, op)
  /\ UNCHANGED <<diskFails, file, parentOp, client, receipts, runVars, sent, deaths>>

\* Fault: force may add targets the receipt does not name.
ForceAllowedForAnyTarget(receipt, parent) ==
  /\ Eligible(Present) # {}
  /\ receipt.parent = parent

\* _validate_candidate for the force phase.
ForceAllowed(receipt, parent) ==
  /\ Eligible(Present) # {}
  /\ receipt.parent = parent
  /\ Eligible(Present) \subseteq receipt.attempted

\* preview(FORCE, user_confirmed, receipt): the receipt is consumed before the
\* candidate is validated, and so spent by a refusal too.
ApproveForce(parent, n, op) ==
  /\ pc # "recover" /\ Draws(op)
  /\ JournalFree(parent)
  /\ receipts' = Without(receipts, n)
  /\ \/ ForceAllowed(receipts[n], parent) /\ Issue("force", parent, op)
     \/ UNCHANGED <<drawn, approvals>>      \* refused, or the scan is Unusable
  /\ UNCHANGED <<diskFails, file, parentOp, client, runVars, sent, deaths>>

\* _expire_locked, observed at the next call.
TokenExpires ==
  /\ \/ approvals # <<>> /\ approvals' = Tail(approvals) /\ UNCHANGED receipts
     \/ receipts # <<>> /\ receipts' = Tail(receipts) /\ UNCHANGED approvals
  /\ UNCHANGED <<worldVars, runVars, sent, deaths>>

-----------------------------------------------------------------------------
(* The runner.  Its lock is held from Execute to Finish.                   *)

Standalone == approval.parent = None

\* The run returns or raises: its locals are gone.
Idle ==
  /\ pc' = "idle"
  /\ approval' = None /\ scan' = {} /\ todo' = {} /\ target' = None
  /\ stays' = {} /\ mem' = None /\ accepted' = TRUE

\* Fault: the approval is left in the store.
ConsumeNothing(n) == UNCHANGED approvals

Consume(n) == approvals' = Without(approvals, n)

\* execute: consume the approval, then observe; no scan, no run.  The
\* coordinator asks only that some parent is in its release step.
Execute(n) ==
  /\ pc = "idle"
  /\ approvals[n].parent # None => parentOp # None
  /\ Consume(n)
  /\ \/ /\ pc' = "start"
        /\ approval' = approvals[n]
        /\ scan' \in Scans
        /\ todo' = approvals[n].targets
     \/ UNCHANGED <<pc, approval, scan, todo>>
  /\ UNCHANGED <<target, stays, mem, accepted>>
  /\ UNCHANGED <<worldVars, receipts, sent, deaths>>

\* run loads the journal: a child needs its parent's release step, a release
\* of its own a free journal.  A refusal is an exception execute catches.
Start ==
  /\ pc = "start"
  /\ \/ /\ JournalFree(approval.parent)
        /\ pc' = IF Standalone THEN "requested" ELSE "check"
        /\ mem' = IF Standalone THEN OpenedJournal(approval.op, "process_release")
                                ELSE file
        /\ UNCHANGED <<approval, scan, todo, target, stays, accepted>>
     \/ ~JournalFree(approval.parent) /\ Idle
  /\ UNCHANGED <<worldVars, tokenVars, sent, deaths>>

\* journal_event: append and save.
Saves(kind) ==
  /\ MayAppend(mem, <<kind>>)
  /\ Accepts(file, mem)
  /\ file' = WithKinds(mem, <<kind>>)
  /\ mem' = file'

\* A full journal, a history another writer extended, or a failed write is an
\* exception: no result, no receipt.
Raises(kind) ==
  /\ diskFails \/ ~MayAppend(mem, <<kind>>) \/ ~Accepts(file, mem)
  /\ Idle
  /\ UNCHANGED file

Record(kind, label) ==
  /\ \/ /\ Saves(kind)
        /\ pc' = label
        /\ UNCHANGED <<approval, scan, todo, target, stays, accepted>>
     \/ Raises(kind)
  /\ UNCHANGED <<diskFails, parentOp, client, drawn, tokenVars, sent, deaths>>

\* The events a child does not write advance only the runner.
RecordOwn(kind, label) ==
  IF Standalone
  THEN Record(kind, label)
  ELSE /\ pc' = label
       /\ UNCHANGED <<approval, scan, todo, target, stays, mem, accepted>>
       /\ UNCHANGED <<worldVars, tokenVars, sent, deaths>>

\* The first save of a release of its own creates the file.
SaveRequested ==
  /\ pc = "requested"
  /\ \/ /\ file = None
        /\ file' = mem
        /\ pc' = "observed"
        /\ UNCHANGED <<approval, scan, todo, target, stays, mem, accepted>>
     \/ /\ diskFails \/ file # None
        /\ Idle
        /\ UNCHANGED file
  /\ UNCHANGED <<diskFails, parentOp, client, drawn, tokenVars, sent, deaths>>

SaveObserved == pc = "observed" /\ Record("observed", "check")

\* revalidate_process_release: fresh, usable, and the very scan approved.
SeenAsApproved(s) == s = approval.seen

Revalidate ==
  /\ pc = "check"
  /\ pc' = IF ~SeenAsApproved(scan) THEN "blocked"
           ELSE IF Standalone THEN "validated" ELSE "target"
  /\ UNCHANGED <<worldVars, tokenVars, approval, scan, todo, target, stays, mem,
                 accepted, sent, deaths>>

SaveValidated == pc = "validated" /\ Record("validated", "planned")
SavePlanned   == pc = "planned" /\ Record("planned", "target")
SaveBlocked   == pc = "blocked" /\ Record("blocked", "return")
SaveFailed    == pc = "failed" /\ Record("failed", "return")

StepStarted  == IF Standalone THEN "step_started" ELSE "substep_started"
StepVerified == IF Standalone THEN "step_verified" ELSE "substep_verified"

\* revalidate_process_release_target and _rescan: no client the approval has
\* not seen.
StillWithin(s) == s \subseteq approval.seen

\* Fault: the signal goes out before the step is recorded.
NextTargetUnrecorded(i) ==
  /\ pc = "target" /\ i \in todo
  /\ StillWithin(scan)
  /\ target' = i
  /\ pc' = IF i \in scan THEN "signal" ELSE "noop"
  /\ UNCHANGED <<worldVars, tokenVars, approval, scan, todo, stays, mem, accepted,
                 sent, deaths>>

\* Fault: a target that has left is signalled all the same.
NextTargetGone(i) ==
  /\ pc = "target" /\ i \in todo
  /\ StillWithin(scan)
  /\ Saves(StepStarted)
  /\ target' = i
  /\ pc' = "signal"
  /\ UNCHANGED <<diskFails, parentOp, client, drawn, tokenVars, approval, scan, todo, stays, accepted,
                 sent, deaths>>

\* The next target: stop when the evidence changed, otherwise say durably that
\* the step starts.
NextTarget(i) ==
  /\ pc = "target" /\ i \in todo
  /\ StillWithin(scan)
  /\ Saves(StepStarted)
  /\ target' = i
  /\ pc' = IF i \in scan THEN "signal" ELSE "noop"
  /\ UNCHANGED <<diskFails, parentOp, client, drawn, tokenVars, approval, scan, todo, stays, accepted,
                 sent, deaths>>

TargetFails ==
  /\ pc = "target" /\ todo # {}
  /\ IF StillWithin(scan)
     THEN Raises(StepStarted)
     ELSE /\ pc' = "failed"
          /\ UNCHANGED <<file, approval, scan, todo, target, stays, mem, accepted>>
  /\ UNCHANGED <<diskFails, parentOp, client, drawn, tokenVars, sent, deaths>>

\* A target that left as an effect of an earlier signal: verified, no signal.
AlreadyReleased ==
  /\ pc = "noop"
  /\ \/ /\ Saves(StepVerified)
        /\ todo' = todo \ {target}
        /\ pc' = "target"
        /\ UNCHANGED <<approval, scan, target, stays, accepted>>
     \/ Raises(StepVerified)
  /\ UNCHANGED <<diskFails, parentOp, client, drawn, tokenVars, sent, deaths>>

\* The signal port answers accepted (delivered, or the process is absent) or
\* not accepted (permission, identity, operating system).
Signal ==
  /\ pc = "signal"
  /\ accepted' \in BOOLEAN
  /\ sent' = [sent EXCEPT ![target] = Append(@,
                [op |-> approval.op, phase |-> approval.phase,
                 parent |-> approval.parent])]
  /\ pc' = "rescan"
  /\ UNCHANGED <<worldVars, tokenVars, approval, scan, todo, target, stays, mem,
                 deaths>>

\* The mandatory observation after the signal: none or an unusable one fails.
Rescan ==
  /\ pc = "rescan"
  /\ scan' \in Scans
  /\ pc' = IF StillWithin(scan') THEN "verify" ELSE "failed"
  /\ stays' = IF StillWithin(scan') /\ target \notin scan' THEN stays
              ELSE stays \cup {target}
  /\ UNCHANGED <<worldVars, tokenVars, approval, todo, target, mem, accepted, sent,
                 deaths>>

\* Verified; then a late or rejected signal ends the run.
SaveVerified ==
  /\ pc = "verify"
  /\ \/ /\ Saves(StepVerified)
        /\ todo' = todo \ {target}
        /\ pc' \in IF accepted THEN {"target", "failed"} ELSE {"failed"}
        /\ UNCHANGED <<approval, scan, target, stays, accepted>>
     \/ Raises(StepVerified)
  /\ UNCHANGED <<diskFails, parentOp, client, drawn, tokenVars, sent, deaths>>

AllHandled ==
  /\ pc = "target" /\ todo = {}
  /\ RecordOwn("committed", "completed")

\* _graceful_evidence: a receipt for what was signalled and stays.
Finish ==
  /\ pc \in {"return", "completed"}
  /\ receipts' = IF approval.phase = "graceful" /\ stays # {}
                 THEN Append(Kept(receipts),
                             [attempted |-> stays, parent |-> approval.parent])
                 ELSE receipts
  /\ Idle
  /\ UNCHANGED <<worldVars, approvals, sent, deaths>>

-----------------------------------------------------------------------------
(* Death and restart                                                       *)

\* The process dies: tokens, runner and memory go, the file stays.  (With no
\* journal on file and an idle runner a death is the expiry of all tokens.)
PluginDies ==
  /\ deaths < MaxDeaths
  /\ file # None \/ pc # "idle"
  /\ deaths' = deaths + 1
  /\ approvals' = <<>> /\ receipts' = <<>>
  /\ pc' = "recover"
  /\ approval' = None /\ scan' = {} /\ todo' = {} /\ target' = None
  /\ stays' = {} /\ mem' = None /\ accepted' = TRUE
  /\ parentOp' = None
  /\ UNCHANGED <<diskFails, file, client, drawn, sent>>

OwnJournal == file # None /\ file.owner = "process_release"

\* Fault: only a release that reached a signal is ended.
RecoverStartedOnly ==
  /\ pc = "recover"
  /\ Idle
  /\ IF OwnJournal /\ file.kind = "step_started"
     THEN file' = WithKinds(file, <<"failed">>)
     ELSE UNCHANGED file
  /\ UNCHANGED <<diskFails, parentOp, client, drawn, tokenVars, sent, deaths>>

\* recover, from _main before any other call: an incomplete journal of its own
\* is failed, never resumed; the write may fail and leaves it incomplete.
RecoverRelease ==
  /\ pc = "recover"
  /\ Idle
  /\ IF OwnJournal /\ ~Ended(file)
     THEN \/ MayAppend(file, <<"failed">>) /\ file' = WithKinds(file, <<"failed">>)
          \/ diskFails /\ UNCHANGED file
     ELSE UNCHANGED file
  /\ UNCHANGED <<diskFails, parentOp, client, drawn, tokenVars, sent, deaths>>

\* acknowledge: only a finished release is cleared.
AcknowledgeRelease ==
  /\ pc # "recover"
  /\ OwnJournal /\ Ended(file)
  /\ file' = None
  /\ UNCHANGED <<diskFails, parentOp, client, drawn, tokenVars, runVars, sent, deaths>>

-----------------------------------------------------------------------------
(* The parent's service                                                    *)

\* canonical sleep has opened its journal and entered the release step.
ParentOpens(op) ==
  /\ pc # "recover"
  /\ file = None /\ Draws(op)
  /\ drawn' = drawn \cup {op}
  /\ parentOp' = op
  /\ file' = [OpenedJournal(op, "sleep") EXCEPT
                !.kind = "step_started", !.step = "releasing_clients", !.len = 5]
  /\ UNCHANGED <<diskFails, client, tokenVars, runVars, sent, deaths>>

\* advance: cancel, or verify the step and start the next one.
ParentAdvances(kinds, step) ==
  /\ parentOp # None /\ IF file = None THEN FALSE ELSE file.op = parentOp
  /\ file.kind \in {"step_started", "substep_verified"}
  /\ MayAppend(file, kinds)
  /\ file' = [WithKinds(file, kinds) EXCEPT !.step = step]
  /\ parentOp' = None
  /\ UNCHANGED <<diskFails, client, drawn, tokenVars, runVars, sent, deaths>>

\* recover_interrupted in a new process.
ParentRecovers ==
  /\ file # None /\ file.owner = "sleep" /\ parentOp = None /\ pc = "idle"
  /\ MayAppend(file, <<"recovery_started", "failed">>)
  /\ file' = WithKinds(file, <<"recovery_started", "failed">>)
  /\ UNCHANGED <<diskFails, parentOp, client, drawn, tokenVars, runVars, sent, deaths>>

ParentAcknowledged ==
  /\ file # None /\ file.owner = "sleep" /\ Ended(file)
  /\ file' = None
  /\ UNCHANGED <<diskFails, parentOp, client, drawn, tokenVars, runVars, sent, deaths>>

ParentActs ==
  \/ \E op \in Ops : ParentOpens(op)
  \/ ParentAdvances(<<"blocked">>, "releasing_clients")
  \/ ParentAdvances(<<"step_verified", "step_started">>, "awaiting_disconnect")
  \/ ParentRecovers
  \/ ParentAcknowledged

-----------------------------------------------------------------------------

Runner ==
  \/ Start \/ SaveRequested \/ SaveObserved \/ Revalidate \/ SaveValidated
  \/ SavePlanned \/ SaveBlocked \/ SaveFailed \/ TargetFails
  \/ \E i \in Instances : NextTarget(i)
  \/ AlreadyReleased \/ Signal \/ Rescan \/ SaveVerified \/ AllHandled
  \/ Finish

Player ==
  \/ \E parent \in Parents, op \in Ops : ApproveGraceful(parent, op)
  \/ \E parent \in Parents, op \in Ops, n \in DOMAIN receipts :
       ApproveForce(parent, n, op)
  \/ \E n \in DOMAIN approvals : Execute(n)
  \/ TokenExpires
  \/ AcknowledgeRelease

World == \E i \in Instances : ClientAppears(i) \/ ClientExits(i)

ReleaseNext ==
  \/ Runner \/ Player \/ World \/ PluginDies \/ RecoverRelease \/ ParentActs

ReleaseSpec == ReleaseInit /\ [][ReleaseNext]_releaseVars

\* The steps of the runner's thread and of the startup recovery, neither of which
\* is suspended for ever.
ReleaseWork == Runner \/ RecoverRelease

-----------------------------------------------------------------------------
(* Properties                                                              *)

\* Force is the second attempt: a process instance is asked for a forced
\* termination only after it was asked for a graceful one under the same
\* parent, whatever died, expired, was cancelled or re-approved in between
\* (_validate_candidate, GracefulReleaseReceiptStore).
ForceAfterGraceful ==
  \A i \in Instances : \A n \in DOMAIN sent[i] :
    sent[i][n].phase = "force" =>
      \E m \in 1 .. n - 1 : /\ sent[i][m].phase = "graceful"
                            /\ sent[i][m].parent = sent[i][n].parent

\* One consent signals one process at most once: neither a second execution of
\* the same approval nor the recovery after a death repeats a signal
\* (ProcessReleaseJournalRecovery, "without ever repeating a signal").
OneSignalPerConsent ==
  \A i \in Instances : \A m, n \in DOMAIN sent[i] :
    m # n => sent[i][m].op # sent[i][n].op

\* No signal without its durable announcement: when a signal goes out, the file
\* holds the incomplete journal of that release or of its parent, and its last
\* event is the start of a step (ProcessReleaseRunner.run).
SignalIsAnnounced ==
  [][sent' # sent =>
       /\ file # None
       /\ file.op = IF Standalone THEN approval.op ELSE approval.parent
       /\ file.kind \in {"step_started", "substep_started"}]_releaseVars

\* Only what the player saw is signalled: when a signal goes out, every client
\* of the runner's last scan was in the approved one, and so was the target
\* (revalidate_process_release_target).
SignalIsWithinConsent ==
  [][sent' # sent =>
       target \in approval.targets \cap scan /\ scan \subseteq approval.seen]_releaseVars

\* While the disk works, a release that began comes to an end that can be
\* acknowledged: its journal never stays incomplete, whatever interrupted the
\* runner (ProcessReleaseJournalRecovery.recover).
ReleaseEnds ==
  (OwnJournal /\ ~Ended(file) /\ ~diskFails) ~> (file = None \/ Ended(file))
=============================================================================
