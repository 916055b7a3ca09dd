----------------------------- MODULE Preparation -----------------------------
(***************************************************************************)
(* The preparation of HDM's Gamescope integration: one slot for a player's *)
(* approval, and the calls that use an approval to install the drop-in,    *)
(* look again at what was approved, reload the user manager and undo what  *)
(* they did.  Every call builds its own service and store objects, so      *)
(* their locks order nothing; calls share the slot and the files.          *)
(*                                                                         *)
(* A call is named by the token it presents.  A preview, a status and an   *)
(* activation's checks each read at one instant.                           *)
(***************************************************************************)

CONSTANTS Tokens, NoToken,
          Shims, NoShim,    \* contents of the packaged shim; NoShim: not usable
          Evidence          \* generations of a Portable, idle, undocked snapshot

ASSUME PreparationAssumption == NoToken \notin Tokens /\ NoShim \notin Shims

VARIABLES
  seen,        \* the world: the snapshot's generation, or "unfit"
  userThere,   \* the world: the Gamescope user resolves to the user of the files
  shim,        \* the packaged shim
  dropin,      \* "none", "ours" or "edited"
  stateRoot,   \* the shim's state directory exists
  override,    \* another drop-in sets PATH
  permit,      \* PresentationActivationApprovalStore._approval: [token, live]
  prep         \* for each token: what it approves and where its call is

prepVars == <<seen, userThere, shim, dropin, stateRoot, override, permit, prep>>
prepFiles == <<shim, dropin, stateRoot, override>>

NoPermit == [token |-> NoToken, live |-> FALSE]

\* wrote and changed: the call created the drop-in, activate() said that it changed
\* something; up and down: since then, the drop-in was in place, or was not (no
\* code keeps these two, nor wrote).
Unused == [at |-> "unused", evidence |-> "unfit", shim |-> NoShim, changed |-> FALSE,
           wrote |-> FALSE, up |-> FALSE, down |-> FALSE]

PrepInit ==
  /\ seen \in Evidence /\ userThere = TRUE /\ shim \in Shims
  /\ dropin \in {"none", "ours"} /\ stateRoot = (dropin = "ours")
  /\ override = FALSE
  /\ permit = NoPermit /\ prep = [t \in Tokens |-> Unused]

-----------------------------------------------------------------------------
(* The world: games, docks and users, an update of the plugin, another hand *)
(* in the drop-in directory.                                                *)

Watching == {"installed", "remove", "reload", "verify", "undo", "undone", "rolled_back"}

Watched(calls) ==
  [t \in Tokens |-> IF calls[t].at \notin Watching THEN calls[t]
                    ELSE [calls[t] EXCEPT !.up = @ \/ dropin' = "ours",
                                          !.down = @ \/ dropin' = "none"]]

\* A call that has returned keeps nothing of what was approved.
Ended(c) == IF c.at \in {"refused", "install_failed", "failed", "prepared", "rolled_back",
                         "rollback_failed"}
            THEN [c EXCEPT !.evidence = "unfit", !.shim = NoShim, !.changed = FALSE]
            ELSE c

PrepWorldMoves ==
  /\ \/ seen' \in (Evidence \cup {"unfit"}) \ {seen} /\ UNCHANGED <<userThere, prepFiles>>
     \/ userThere' = ~userThere /\ UNCHANGED <<seen, prepFiles>>
     \/ shim' \in (Shims \cup {NoShim}) \ {shim}
          /\ UNCHANGED <<seen, userThere, dropin, stateRoot, override>>
     \/ override' = ~override /\ UNCHANGED <<seen, userThere, shim, dropin, stateRoot>>
     \/ dropin = "ours" /\ dropin' = "edited"
          /\ UNCHANGED <<seen, userThere, shim, stateRoot, override>>
  /\ prep' = Watched(prep) /\ UNCHANGED permit

-----------------------------------------------------------------------------
(* GamescopeIntegrationStore.status                                         *)

ShimReady == shim # NoShim
Conflicts == override
Modified == dropin = "edited"    \* not HDM's own text
StatusError == Modified \/ Conflicts
Ready == dropin = "ours" /\ ShimReady /\ stateRoot /\ ~Conflicts

\* _preflight finds no blocker.
Preflight == /\ seen \in Evidence /\ userThere
             /\ ~StatusError /\ ShimReady

-----------------------------------------------------------------------------
(* The approval                                                             *)

\* The newest approval takes the slot.
IssuePermit(t) == permit' = [token |-> t, live |-> TRUE]

\* preview(user_confirmed=True)
ApprovePreparation(t) ==
  /\ prep[t].at = "unused" /\ Preflight
  /\ IssuePermit(t)
  /\ prep' = [prep EXCEPT ![t] = [Unused EXCEPT !.at = "approved", !.evidence = seen,
                                                !.shim = shim]]
  /\ UNCHANGED <<seen, userThere, prepFiles>>

PermitExpires ==
  /\ permit.live /\ permit' = [permit EXCEPT !.live = FALSE]
  /\ UNCHANGED <<seen, userThere, prepFiles, prep>>

\* Moves the call of t on; the files stay.
PrepGoes(t, c) == /\ UNCHANGED <<seen, userThere, prepFiles>>
                  /\ prep' = Watched([prep EXCEPT ![t] = Ended(c)])
PrepGoesTo(t, at) == PrepGoes(t, [prep[t] EXCEPT !.at = at]) /\ UNCHANGED permit

\* consume: a token that is not the slot's own is absent or used, and stays so.
ConsumePermit(t) ==
  /\ prep[t].at = "approved"
  /\ IF permit.token = t
     THEN /\ permit' = NoPermit
          /\ PrepGoes(t, [prep[t] EXCEPT !.at = IF permit.live THEN "consumed" ELSE "refused"])
     ELSE PrepGoes(t, [prep[t] EXCEPT !.at = "refused"]) /\ UNCHANGED permit

-----------------------------------------------------------------------------
(* PresentationActivationService._execute_locked                            *)

RevalidatePreparation(t) ==
  /\ prep[t].at = "consumed"
  /\ \/ PrepGoesTo(t, "refused")       \* the observation fails
     \/ PrepGoesTo(t, IF Preflight /\ seen = prep[t].evidence /\ shim = prep[t].shim
                      THEN "observed" ELSE "refused")

\* activate(): its first status.
CheckInstall(t) ==
  /\ prep[t].at = "observed"
  /\ PrepGoesTo(t, IF Ready THEN "installed"
                   ELSE IF StatusError \/ ~ShimReady THEN "install_failed"
                   ELSE IF dropin = "none" THEN "install" ELSE "complete")

EnsureDirectories == stateRoot' = TRUE
WriteDropin == dropin' = "ours"

\* The directories, then the drop-in unless that status saw one.  A write that
\* fails may have replaced the file already (the directory's sync comes last).
Install(t) ==
  /\ prep[t].at \in {"install", "complete"}
  /\ \/ PrepGoesTo(t, "install_failed")
     \/ LET writes == prep[t].at = "install"
        IN /\ EnsureDirectories
           /\ IF writes THEN WriteDropin ELSE UNCHANGED dropin
           /\ \E at \in {"check", "install_failed"} :
                prep' = Watched([prep EXCEPT ![t].at = at, ![t].wrote = writes])
           /\ UNCHANGED <<seen, userThere, shim, override, permit>>

\* activate() answers that it changed something, whatever its last status says.
CheckInstalled(t) ==
  /\ prep[t].at = "check"
  /\ PrepGoes(t, [prep[t] EXCEPT !.at = IF Ready THEN "installed" ELSE "install_failed",
                                 !.changed = TRUE, !.up = Ready, !.down = FALSE])
  /\ UNCHANGED permit

\* The fingerprint and the user are read again; a change undoes a new install
\* without a reload.
Recheck(t) ==
  /\ prep[t].at = "installed"
  /\ \/ PrepGoesTo(t, IF prep[t].changed THEN "remove" ELSE "failed")
     \/ shim = prep[t].shim /\ userThere /\ PrepGoesTo(t, "reload")

\* daemon-reload and the check of the unit, in the order of the code.
DaemonReload(t) ==
  /\ prep[t].at = "reload"
  /\ \E at \in {"verify", IF prep[t].changed THEN "undo" ELSE "failed"} : PrepGoesTo(t, at)

VerifyUnit(t) ==
  /\ prep[t].at = "verify"
  /\ \E at \in {"prepared", IF prep[t].changed THEN "undo" ELSE "failed"} : PrepGoesTo(t, at)

\* deactivate(): only a drop-in with HDM's own text is removed.
Deactivate(t, removed) ==
  \/ PrepGoesTo(t, "rollback_failed")
  \/ /\ dropin = "ours" /\ dropin' = "none"
     /\ prep' = Watched([prep EXCEPT ![t].at = removed])
     /\ UNCHANGED <<seen, userThere, shim, stateRoot, override, permit>>

Remove(t) == prep[t].at = "remove" /\ Deactivate(t, "rolled_back")

\* Fault: the manager is reloaded again, the drop-in stays.
UndoWithoutRemoving(t) == prep[t].at = "undo" /\ PrepGoesTo(t, "undone")

Undo(t) == prep[t].at = "undo" /\ Deactivate(t, "undone")

ReloadUndone(t) ==
  /\ prep[t].at = "undone"
  /\ \E at \in {"rolled_back", "rollback_failed"} : PrepGoesTo(t, at)

Execute(t) ==
  \/ ConsumePermit(t) \/ RevalidatePreparation(t)
  \/ CheckInstall(t) \/ Install(t) \/ CheckInstalled(t) \/ Recheck(t)
  \/ DaemonReload(t) \/ VerifyUnit(t) \/ Remove(t) \/ Undo(t) \/ ReloadUndone(t)

PrepNext ==
  \/ PrepWorldMoves \/ PermitExpires
  \/ \E t \in Tokens : ApprovePreparation(t) \/ Execute(t)

PrepSpec == PrepInit /\ [][PrepNext]_prepVars

-----------------------------------------------------------------------------
(* Properties                                                               *)

\* Beside another call, a player and an update: an answer "prepared" means that the
\* drop-in was in place during the call, "rolled back" that it was gone at some
\* instant after the call had found or installed it.
PreparationIsTrue ==
  \A t \in Tokens :
    /\ prep[t].at = "prepared" => prep[t].up
    /\ prep[t].at = "rolled_back" => prep[t].down

\* docs/EXPERIMENTAL_TRANSITIONS.md: "A failure after a new install removes the HDM
\* file and reloads the user manager; failure to complete that rollback is Action
\* Required."  So a call that wrote the drop-in and failed has seen it gone, unless
\* it reports that its rollback failed.
FailureUndoesInstall ==
  \A t \in Tokens :
    prep[t].at \in {"refused", "install_failed", "failed"} /\ prep[t].wrote => prep[t].down
==============================================================================
