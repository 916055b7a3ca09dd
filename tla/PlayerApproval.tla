---------------------------- MODULE PlayerApproval ----------------------------
(***************************************************************************)
(* What the player approves by two presses: a switch of the presentation,  *)
(* or a shutdown before the eGPU is unplugged.  The first press previews   *)
(* the snapshot and issues a token into the slot of its store; the second  *)
(* presents a token, which is consumed before a fresh snapshot is compared *)
(* with the approved one.  Every RPC builds its own service, whose lock    *)
(* orders nothing; RPCs share the slot.                                    *)
(*                                                                         *)
(* A behaviour has one of the two stores.  A preview is one step: what it  *)
(* read may be stale by the time its token is out, as it may just after.   *)
(* The host, the panel and the profiles are exact; the G1 is there with    *)
(* its TV, exact, or it is not.  The plan's transition itself is           *)
(* PresentationTransition's.                                               *)
(***************************************************************************)
EXTENDS Naturals

CONSTANTS Approvals, NoApproval,   \* tokens
          Rpcs                     \* the RPCs that execute

ASSUME ApprovalAssumption == NoApproval \notin Approvals

VARIABLES
  stands,    \* the world: the snapshot
  flow,      \* what this behaviour's tokens approve: "shutdown" or "switch"
  prepared,  \* the Gamescope integration is ready
  entry,     \* the presentation journal: "none", "open" or "terminal"
  slot,      \* the store's permit: [token, live]
  consent,   \* for each token: what it approves, and how often it was acted on
  rpc        \* for each RPC: where it is, its token, and whether the approved
             \* snapshot was there since it consumed it (no code keeps that)

approvalVars == <<stands, flow, prepared, entry, slot, consent, rpc>>

Targets == {"portable", "docked_egpu"}

\* detail: the rest of what the snapshot's generation covers.
Snapshots ==
  {s \in [shows : Targets \cup {"unknown"}, g1 : BOOLEAN, game : {"idle", "running"},
          detail : {1, 2}] :
     /\ s.shows = "docked_egpu" => s.g1
     /\ s.shows = "unknown" => s.game = "idle" /\ ~s.g1
     /\ s.detail = 2 => s.shows = "portable" /\ s.g1 /\ s.game = "idle"}

EmptySlot == [token |-> NoApproval, live |-> FALSE]
Resting == [at |-> "off", token |-> NoApproval, met |-> FALSE]
NotGiven == [given |-> FALSE, target |-> "portable",
             saw |-> CHOOSE s \in Snapshots : s.shows = "unknown", acts |-> 0]

ApprovalInit ==
  /\ stands \in Snapshots /\ flow \in {"shutdown", "switch"}
  /\ prepared \in BOOLEAN /\ (flow = "shutdown" => prepared)
  /\ entry = "none"
  /\ slot = EmptySlot
  /\ consent = [a \in Approvals |-> NotGiven] /\ rpc = [r \in Rpcs |-> Resting]

\* What was approved matters no more, once its token is out of the slot and of
\* every RPC.
Forget(consents, a) ==
  IF a = NoApproval THEN consents
  ELSE [consents EXCEPT ![a].target = "portable", ![a].saw = NotGiven.saw]

-----------------------------------------------------------------------------
(* What a snapshot permits                                                  *)

\* SafeDisconnectShutdownService._blockers finds none.
ShutdownFits(s) == s.g1 /\ s.game = "idle" /\ s.shows = "portable"

\* plan_manual_transition answers a plan: a no-op, or one step with every identity
\* exact and no game running.
PlanFits(s, target) ==
  /\ s.shows \in Targets
  /\ s.shows = target \/ (s.game = "idle" /\ s.g1)

Fits(s, target) == IF flow = "shutdown" THEN ShutdownFits(s) ELSE PlanFits(s, target)

-----------------------------------------------------------------------------
(* The world                                                                *)

Met(calls, s) ==
  [r \in Rpcs |-> IF calls[r].at = "consumed"
                  THEN [calls[r] EXCEPT !.met = @ \/ s = consent[calls[r].token].saw]
                  ELSE calls[r]]

ApprovalWorldMoves ==
  /\ \/ stands' \in Snapshots \ {stands} /\ UNCHANGED prepared
     \/ flow = "switch" /\ prepared' = ~prepared /\ UNCHANGED stands
  /\ rpc' = Met(rpc, stands')
  /\ UNCHANGED <<flow, entry, slot, consent>>

SlotExpires ==
  /\ slot.live /\ slot' = [slot EXCEPT !.live = FALSE]
  /\ UNCHANGED <<stands, flow, prepared, entry, consent, rpc>>

-----------------------------------------------------------------------------
(* preview(user_confirmed=True)                                             *)

Approve(a) ==
  /\ ~consent[a].given
  /\ \E target \in IF flow = "shutdown" THEN {"portable"} ELSE Targets :
       /\ Fits(stands, target)
       /\ flow = "switch" => prepared /\ entry = "none"
       /\ consent' = [Forget(consent, slot.token) EXCEPT
                        ![a] = [given |-> TRUE, target |-> target, saw |-> stands, acts |-> 0]]
  /\ slot' = [token |-> a, live |-> TRUE]
  /\ UNCHANGED <<stands, flow, prepared, entry, rpc>>

-----------------------------------------------------------------------------
(* execute(approval_token)                                                  *)

RpcIs(r, call) == /\ rpc' = Met([rpc EXCEPT ![r] = call], stands)
                  /\ UNCHANGED <<stands, flow, prepared>>
Refused(r) == /\ RpcIs(r, Resting) /\ consent' = Forget(consent, rpc[r].token)
              /\ UNCHANGED <<entry, slot>>

\* Fault: the slot is read, and emptied only when the action is taken.
ReadWithoutTaking(r, a) ==
  /\ rpc[r].at = "off" /\ slot.token = a /\ slot.live
  /\ RpcIs(r, [at |-> "consumed", token |-> a, met |-> FALSE])
  /\ UNCHANGED <<entry, slot, consent>>

\* consume: under the store's lock the slot is compared and emptied; a token that is
\* not in it changes nothing.
TakeApproval(r, a) ==
  /\ rpc[r].at = "off" /\ slot.token = a
  /\ slot' = EmptySlot
  /\ IF slot.live
     THEN /\ RpcIs(r, [at |-> "consumed", token |-> a, met |-> FALSE])
          /\ UNCHANGED consent
     ELSE RpcIs(r, Resting) /\ consent' = Forget(consent, a)
  /\ UNCHANGED entry

\* The fresh snapshot is the approved one and still fits.
Confirm(r) ==
  /\ rpc[r].at = "consumed"
  /\ LET given == consent[rpc[r].token] IN
     IF /\ stands = given.saw /\ Fits(stands, given.target)
        /\ flow = "switch" => prepared
     THEN RpcIs(r, [rpc[r] EXCEPT !.at = "confirmed"]) /\ UNCHANGED <<entry, slot, consent>>
     ELSE Refused(r)

\* An observation that fails, or a command that cannot be run.
Fails(r) == rpc[r].at \in {"consumed", "confirmed"} /\ Refused(r)

Acted(a) == consent' = [consent EXCEPT ![a].acts = IF @ < 2 THEN @ + 1 ELSE 2]

RequestPoweroff(r) ==
  /\ flow = "shutdown" /\ rpc[r].at = "confirmed"
  /\ Acted(rpc[r].token) /\ RpcIs(r, [rpc[r] EXCEPT !.at = "done"])
  /\ UNCHANGED <<entry, slot>>

\* The orchestrator refuses while the journal has an operation.
RunPlan(r) ==
  /\ flow = "switch" /\ rpc[r].at = "confirmed"
  /\ IF entry = "none"
     THEN /\ entry' = "open" /\ Acted(rpc[r].token)
          /\ RpcIs(r, [rpc[r] EXCEPT !.at = "running"]) /\ UNCHANGED slot
     ELSE Refused(r)

\* The transition ends where it may, and its result is returned.
RunEnds(r) ==
  /\ rpc[r].at = "running" /\ entry' = "terminal"
  /\ stands' \in {s \in Snapshots : s.game = stands.game}
  /\ rpc' = Met([rpc EXCEPT ![r].at = "done"], stands')
  /\ UNCHANGED <<flow, prepared, slot, consent>>

RpcReturns(r) == rpc[r].at = "done" /\ Refused(r)

AcknowledgeSwitch ==
  /\ entry = "terminal" /\ entry' = "none"
  /\ UNCHANGED <<stands, flow, prepared, slot, consent, rpc>>

ApprovalNext ==
  \/ ApprovalWorldMoves \/ SlotExpires \/ AcknowledgeSwitch
  \/ \E a \in Approvals : Approve(a)
  \/ \E r \in Rpcs :
       \/ \E a \in Approvals : TakeApproval(r, a)
       \/ Confirm(r) \/ Fails(r) \/ RequestPoweroff(r) \/ RunPlan(r) \/ RunEnds(r)
       \/ RpcReturns(r)

ApprovalSpec == ApprovalInit /\ [][ApprovalNext]_approvalVars

-----------------------------------------------------------------------------
(* Properties                                                               *)

\* However often a token is presented, in whatever RPCs, beside other approvals and
\* a changing system: one approval is acted on at most once, and only if after the
\* second press the system was just as the player had approved it, in a state the
\* action fits.
OneActPerApproval ==
  /\ \A a \in Approvals : consent[a].acts <= 1
  /\ \A r \in Rpcs : rpc[r].at \in {"confirmed", "running", "done"} =>
       rpc[r].met /\ Fits(consent[rpc[r].token].saw, consent[rpc[r].token].target)
==============================================================================
