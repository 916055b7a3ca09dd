---------------------------- MODULE CanonicalSleep ----------------------------
(***************************************************************************)
(* The canonical sleep service: one session in memory, its operation in    *)
(* the shared journal, the facade that turns a player's answer into an     *)
(* event, expiry, failure by changed evidence, restart recovery and the    *)
(* two ways to acknowledge.                                                *)
(*                                                                         *)
(* The release of the eGPU's clients is a child of module ProcessRelease;  *)
(* here it is the writer that carries the journal in memory from its start *)
(* to its end.  The other children are in module GameChildren.             *)
(*                                                                         *)
(* An observation is one of those the world allows (Observed): evidence    *)
(* may always be missing.  Sample identities are left out: an event whose  *)
(* evidence is not fresh is refused and changes nothing.  `exact` stands   *)
(* for the host and eGPU identities the session is bound to.               *)
(***************************************************************************)
EXTENDS OwnedJournal, SleepFlow, FiniteSets

CONSTANTS
  SleepOps,    \* operations a run may start; a request has one identity with it
  Games,       \* identities a running game may have
  Removals,    \* removal behaviours a session may be bound to
  ReleaseLen,  \* bound on the journal's length when a release child is at work
  MaxCalls,    \* bound on facade calls at a time
  SleepDeaths  \* bound on deaths of the plugin

ASSUME SleepAssumption ==
  /\ SleepOps \subseteq Ops /\ None \notin Ops \cup Games
  /\ Removals \subseteq {"live", "shutdown", "unknown"}
  /\ ReleaseLen \in Nat /\ MaxCalls \in Nat /\ SleepDeaths \in Nat

VARIABLES
  egpu,        \* "present" or "absent": the world
  game,        \* the running game or None: the world
  session,     \* CanonicalSleepSession or None
  calls,       \* facade calls between their status check and advance
  childMem,    \* the journal the release child carries, or None
  restarted,   \* whether startup recovery is due
  unobserved,  \* whether the last recovery had no observation to go by
  used,        \* operation identities drawn
  consented,   \* history: operations whose close the player agreed to
  continued,   \* history: operations whose sleep was continued, in order
  interrupted, \* history: operations a death found incomplete
  outlived,    \* history: operations acknowledged while their release child worked
  sleepDeaths

serviceVars == <<session, calls, childMem, restarted, unobserved, used, consented,
                 continued, interrupted, outlived, sleepDeaths>>
sleepVars == <<file, diskFails, egpu, game, serviceVars>>

Running == IF game = None THEN "idle" ELSE "running"

\* What may be observed of a world.
Observed(presence, running, removal) ==
  {c \in Contexts : /\ c.egpu \in {presence, "unknown"}
                    /\ c.game \in {running, "unknown"}
                    /\ c.removal = removal}

RemovalOrLater == {"egpu_removal_verified", "portable_recovery_verified",
                   "original_sleep_continued"}

\* _context_error.
ContextError(event, c) ==
  IF event \in RemovalOrLater THEN c.egpu # "absent"
  ELSE ~(c.egpu = "present" /\ c.exact)

Worlds == [egpu : {"present", "absent"}, running : {"idle", "running"},
           removal : Removals]

\* The function itself; the comparison has TLC tabulate it once.
Tabulated(f) == IF f = f THEN f ELSE <<>>

\* The stages an event may lead to in a world, or "context_error".
Outcomes ==
  Tabulated(
    [stage \in IntermediateStages |-> [event \in FlowEvents |->
       [w \in Worlds |-> [expired \in BOOLEAN |->
          {IF ContextError(event, c) THEN "context_error"
           ELSE NextStage(stage, event, c, expired) :
             c \in Observed(w.egpu, w.running, w.removal)}]]]])

StartStages ==
  Tabulated([w \in Worlds |-> {StartStage(c) : c \in Observed(w.egpu, w.running, w.removal)}])

WorldNow(removal) == [egpu |-> egpu, running |-> Running, removal |-> removal]

SleepInit ==
  /\ file = None /\ diskFails \in BOOLEAN
  /\ egpu \in {"present", "absent"} /\ game \in Games \cup {None}
  /\ session = None /\ calls = {} /\ childMem = None
  /\ restarted = FALSE /\ unobserved = FALSE
  /\ used = {} /\ consented = {} /\ continued = <<>> /\ interrupted = {} /\ outlived = {}
  /\ sleepDeaths = 0

\* The player unplugs, a game exits or is replaced.  An eGPU or a game that
\* comes back is only another way for evidence to be missing, which Observed
\* always allows.
WorldChanges ==
  /\ \/ egpu = "present" /\ egpu' = "absent" /\ UNCHANGED game
     \/ game # None /\ game' \in (Games \cup {None}) \ {game} /\ UNCHANGED egpu
  /\ UNCHANGED <<file, diskFails, serviceVars>>

-----------------------------------------------------------------------------

\* start_sleep_journal: the last event and the number of events it writes.
StartKinds(stage) ==
  IF stage = "action_required" THEN <<"observed", "blocked">>
  ELSE <<"observed", "validated", "planned">> \o
       (IF stage \in BlockedStages THEN <<"blocked">>
        ELSE IF stage = "normal_sleep_allowed" THEN <<"committed">>
        ELSE <<"step_started">>)

StartedJournal(op, stage) ==
  LET j == WithKinds(OpenedJournal(op, "sleep"), StartKinds(stage))
  IN  IF stage \in IntermediateStages THEN [j EXCEPT !.step = stage] ELSE j

\* A session at its end: its stage is all that is read again.
Settled(s) ==
  IF s.stage \in SessionTerminal
  THEN [s EXCEPT !.removal = "unknown", !.save = FALSE, !.saved = FALSE,
                 !.expired = FALSE]
  ELSE s

\* _start_locked: nothing is started on a journal, whoever owns it; the session
\* exists only once its journal is durable.  Startup recovery comes first.
Request(op) ==
  /\ ~restarted
  /\ op \in SleepOps \ used /\ op = CHOOSE o \in SleepOps : o \notin used
  /\ file = None
  /\ \E removal \in Removals, save \in BOOLEAN :
       \E stage \in StartStages[WorldNow(removal)] :
         /\ file' = StartedJournal(op, stage)
         /\ session' = Settled([op |-> op, stage |-> stage, removal |-> removal,
                                save |-> save, saved |-> FALSE, expired |-> FALSE])
  /\ used' = used \cup {op}
  /\ UNCHANGED <<diskFails, egpu, game, calls, childMem, restarted, unobserved,
                 consented, continued, interrupted, outlived, sleepDeaths>>

InSession == session # None /\ session.stage \notin SessionTerminal

\* now_ms reaches expires_at_ms.
RequestExpires ==
  /\ IF InSession THEN ~session.expired ELSE FALSE
  /\ session' = [session EXCEPT !.expired = TRUE]
  /\ UNCHANGED <<file, diskFails, egpu, game, calls, childMem, restarted, unobserved,
                 used, consented, continued, interrupted, outlived, sleepDeaths>>

\* _validate_active_sleep_journal: the flow's step is the journal's, and no
\* child is under way.
ActiveStep(stage) ==
  /\ file.kind \in {"step_started", "substep_verified"}
  /\ file.step = stage

\* advance_sleep_journal.
AdvanceKinds(stage) ==
  IF stage \in BlockedStages THEN <<"blocked">>
  ELSE <<"step_verified", IF stage = "completed" THEN "committed" ELSE "step_started">>

\* _fail_session: whatever the last event is, the operation fails.
FailSession ==
  /\ MayAppend(file, <<"failed">>)
  /\ file' = WithKinds(file, <<"failed">>)
  /\ session' = None
  /\ UNCHANGED <<consented, continued>>

\* Fault: the session moves on although its journal was not written.
MoveToUnsaved(stage) ==
  /\ ActiveStep(session.stage)
  /\ MayAppend(file, AdvanceKinds(stage))
  /\ \/ file' = [WithKinds(file, AdvanceKinds(stage)) EXCEPT
                   !.step = IF stage \in IntermediateStages THEN stage ELSE @]
     \/ diskFails /\ UNCHANGED file
  /\ session' = Settled([session EXCEPT !.stage = stage])
  /\ consented' = IF stage = "closing_game" THEN consented \cup {session.op}
                  ELSE consented
  /\ continued' = IF stage = "completed" THEN Append(continued, session.op)
                  ELSE continued

MoveTo(stage) ==
  /\ ActiveStep(session.stage)
  /\ MayAppend(file, AdvanceKinds(stage))
  /\ file' = [WithKinds(file, AdvanceKinds(stage)) EXCEPT
                !.step = IF stage \in IntermediateStages THEN stage ELSE @]
  /\ session' = Settled([session EXCEPT !.stage = stage])
  /\ consented' = IF stage = "closing_game" THEN consented \cup {session.op}
                  ELSE consented
  /\ continued' = IF stage = "completed" THEN Append(continued, session.op)
                  ELSE continued

\* _advance_locked, one critical section.  When the journal is another's, is not
\* in the step or cannot be written, the caller is told and nothing changes.
Advances(event) ==
  /\ InSession /\ file # None
  /\ IF file = None THEN FALSE ELSE file.op = session.op
  /\ \E stage \in Outcomes[session.stage][event][WorldNow(session.removal)]
                         [session.expired] :
       IF stage = "context_error" THEN FailSession ELSE MoveTo(stage)

Advance(event) ==
  /\ Advances(event)
  /\ UNCHANGED <<diskFails, egpu, game, calls, childMem, restarted, unobserved, used,
                 interrupted, outlived, sleepDeaths>>

-----------------------------------------------------------------------------
(* The facade reads the status, then advances: another call may come       *)
(* between.                                                                *)

Answers == {"game_consent_granted", "game_consent_denied", "cancel"}

AnswerBegins(event) ==
  /\ InSession /\ file # None /\ Cardinality(calls) < MaxCalls
  /\ IF file = None \/ session = None THEN FALSE
     ELSE file.op = session.op /\ ~Ended(file)
  /\ event # "cancel" => session.stage = "awaiting_game_consent"
  /\ calls' = calls \cup {<<session.op, event>>}
  /\ UNCHANGED <<file, diskFails, egpu, game, session, childMem, restarted, unobserved,
                 used, consented, continued, interrupted, outlived, sleepDeaths>>

AnswerIsRefused(call) ==
  /\ calls' = calls \ {call}
  /\ UNCHANGED <<file, diskFails, egpu, game, session, childMem, restarted, unobserved,
                 used, consented, continued, interrupted, outlived, sleepDeaths>>

AnswerArrives(call) ==
  /\ IF session = None THEN FALSE ELSE session.op = call[1]
  /\ Advances(call[2])
  /\ calls' = calls \ {call}
  /\ UNCHANGED <<diskFails, egpu, game, childMem, restarted, unobserved, used,
                 interrupted, outlived, sleepDeaths>>

-----------------------------------------------------------------------------
(* The release child, which carries the journal.                           *)

\* release_parent_operation_id, then the runner's own check of the journal.
ReleaseChildBegins ==
  /\ InSession /\ childMem = None
  /\ IF file = None \/ session = None THEN FALSE
     ELSE /\ file.op = session.op /\ session.stage = "releasing_clients"
          /\ ActiveStep("releasing_clients") /\ file.len <= ReleaseLen
  /\ childMem' = file
  /\ UNCHANGED <<file, diskFails, egpu, game, session, calls, restarted, unobserved,
                 used, consented, continued, interrupted, outlived, sleepDeaths>>

ReleaseChildSaves(kind) ==
  /\ IF childMem = None THEN FALSE ELSE kind \in AllowedNext[childMem.kind]
                                   /\ kind = "substep_started" => childMem.len <= ReleaseLen
  /\ \/ /\ MayAppend(childMem, <<kind>>) /\ Accepts(file, childMem)
        /\ file' = WithKinds(childMem, <<kind>>)
        /\ childMem' = IF kind \in TerminalKinds THEN None ELSE file'
     \/ /\ diskFails \/ ~MayAppend(childMem, <<kind>>) \/ ~Accepts(file, childMem)
        /\ childMem' = None /\ UNCHANGED file
  /\ UNCHANGED <<diskFails, egpu, game, session, calls, restarted, unobserved, used,
                 consented, continued, interrupted, outlived, sleepDeaths>>

\* The runner returns after a verified substep; when everything is released the
\* coordinator advances.
ReleaseChildReturns ==
  /\ IF childMem = None THEN FALSE ELSE childMem.kind # "substep_started"
  /\ childMem' = None
  /\ \/ Advances("software_clients_released")
     \/ UNCHANGED <<file, session, consented, continued>>
  /\ UNCHANGED <<diskFails, egpu, game, calls, restarted, unobserved, used, interrupted,
                 outlived, sleepDeaths>>

-----------------------------------------------------------------------------
(* Restart                                                                 *)

\* (A death without a journal only empties the token stores.)
SleepPluginDies ==
  /\ sleepDeaths < SleepDeaths /\ file # None
  /\ sleepDeaths' = sleepDeaths + 1
  /\ session' = None /\ calls' = {} /\ childMem' = None
  /\ restarted' = TRUE /\ unobserved' = FALSE
  /\ interrupted' = IF Ended(file) THEN interrupted ELSE interrupted \cup {file.op}
  /\ UNCHANGED <<file, diskFails, egpu, game, used, consented, continued, outlived>>

\* recover_interrupted_sleep_journal: what it appends.  A journal found before
\* its first step does not occur: the opening is one save.
RecoveryKinds(verified) ==
  <<"recovery_started", IF verified THEN "recovery_verified" ELSE "failed">>

\* Fault: the session is rebuilt from the journal.
RecoverSleepResuming ==
  /\ restarted
  /\ restarted' = FALSE /\ unobserved' = FALSE
  /\ session' = IF file = None THEN None
                ELSE IF Ended(file) THEN None
                ELSE [op |-> file.op, stage |-> file.step, removal |-> "live",
                      save |-> TRUE, saved |-> FALSE, expired |-> FALSE]
  /\ UNCHANGED <<file, diskFails, egpu, game, calls, childMem, used, consented,
                 continued, interrupted, outlived, sleepDeaths>>

\* Fault: a child under way is left to itself.
RecoverSleepBetweenChildren ==
  /\ restarted \/ unobserved
  /\ restarted' = FALSE /\ unobserved' = FALSE /\ session' = None
  /\ IF file = None THEN UNCHANGED file
     ELSE IF Ended(file) \/ file.kind = "substep_started" THEN UNCHANGED file
     ELSE /\ MayAppend(file, RecoveryKinds(FALSE))
          /\ \E verified \in {FALSE, egpu = "absent"} :
               file' = WithKinds(file, RecoveryKinds(verified))
  /\ UNCHANGED <<diskFails, egpu, game, calls, childMem, used, consented, continued,
                 interrupted, outlived, sleepDeaths>>

\* The operation ends in a recovery, which is verified only by an observation of
\* exact absence and the Portable placement.
RecoveryEnds ==
  /\ MayAppend(file, RecoveryKinds(FALSE))
  /\ \E verified \in {FALSE, egpu = "absent"} :
       file' = WithKinds(file, RecoveryKinds(verified))
  /\ session' = None /\ unobserved' = FALSE

\* recover_interrupted: the original request is never resumed.  Without an
\* observation the operation stays as it is, for whoever asks again; when its
\* end cannot be written, too.
RecoverSleep ==
  /\ restarted \/ unobserved
  /\ restarted' = FALSE
  /\ IF file = None THEN session' = None /\ unobserved' = FALSE /\ UNCHANGED file
     ELSE IF Ended(file) THEN unobserved' = FALSE /\ UNCHANGED <<file, session>>
     ELSE \/ RecoveryEnds
          \/ /\ diskFails \/ ~MayAppend(file, RecoveryKinds(FALSE))
             /\ unobserved' = FALSE /\ UNCHANGED <<file, session>>
          \/ unobserved' = TRUE /\ UNCHANGED <<file, session>>
  /\ UNCHANGED <<diskFails, egpu, game, calls, childMem, used, consented, continued,
                 interrupted, outlived, sleepDeaths>>

\* acknowledge forgets the session; acknowledge_sleep of the shared journal
\* service knows nothing of it; neither waits for a child still at work.
AcknowledgeSleep ==
  /\ file # None
  /\ IF file = None THEN FALSE ELSE Ended(file)
  /\ file' = None
  /\ outlived' = IF childMem = None THEN outlived
                 ELSE IF childMem.op = file.op THEN outlived \cup {file.op} ELSE outlived
  /\ \/ session' = IF session = None THEN None
                   ELSE IF session.op = file.op THEN None ELSE session
     \/ UNCHANGED session
  /\ UNCHANGED <<diskFails, egpu, game, calls, childMem, restarted, unobserved, used,
                 consented, continued, interrupted, sleepDeaths>>

ChildKinds == {"substep_started", "substep_verified", "failed", "blocked"}

SleepServiceNext ==
  \/ WorldChanges
  \/ \E op \in SleepOps : Request(op)
  \/ RequestExpires
  \/ \E event \in RemovalOrLater : Advance(event)
  \/ \E event \in Answers : AnswerBegins(event)
  \/ \E call \in calls : AnswerArrives(call) \/ AnswerIsRefused(call)
  \/ ReleaseChildBegins \/ \E kind \in ChildKinds : ReleaseChildSaves(kind)
  \/ ReleaseChildReturns
  \/ SleepPluginDies \/ RecoverSleep \/ AcknowledgeSleep
=============================================================================
