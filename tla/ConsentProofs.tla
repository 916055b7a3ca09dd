----------------------------- MODULE ConsentProofs -----------------------------
(***************************************************************************)
(* What the two-press approvals and the preparation promise for any number *)
(* of tokens, RPCs and calls.                                              *)
(***************************************************************************)
EXTENDS PlayerApproval, Preparation, SupportBundle, TLAPS

-----------------------------------------------------------------------------
(* A switch or a shutdown approved by the player (PlayerApproval)           *)

RpcPlaces == {"off", "consumed", "confirmed", "running", "done"}

RpcStates == [at : RpcPlaces, token : Approvals \cup {NoApproval}, met : BOOLEAN]

Consents == [given : BOOLEAN, target : Targets, saw : Snapshots, acts : 0 .. 2]

ApprovalTyped ==
  /\ stands \in Snapshots
  /\ entry \in {"none", "open", "terminal"}
  /\ slot \in [token : Approvals \cup {NoApproval}, live : BOOLEAN]
  /\ consent \in [Approvals -> Consents]
  /\ rpc \in [Rpcs -> RpcStates]

\* A token is in the slot, or in one RPC, or in neither; and it was given.
OneHolder ==
  /\ slot.token # NoApproval => consent[slot.token].given /\ consent[slot.token].acts = 0
  /\ \A r \in Rpcs : rpc[r].at # "off" =>
       /\ rpc[r].token \in Approvals /\ rpc[r].token # slot.token
       /\ consent[rpc[r].token].given
  /\ \A r, s \in Rpcs :
       rpc[r].at # "off" /\ rpc[s].at # "off" /\ rpc[r].token = rpc[s].token => r = s

\* An RPC that has not acted yet holds a token that was never acted on.
NotYetActed ==
  \A r \in Rpcs : rpc[r].at \in {"consumed", "confirmed"} => consent[rpc[r].token].acts = 0

\* An RPC that consumed its token has noticed the approved snapshot if it stands.
NoticesWhatStands ==
  \A r \in Rpcs : rpc[r].at = "consumed" /\ stands = consent[rpc[r].token].saw => rpc[r].met

ApprovalInv ==
  ApprovalTyped /\ OneHolder /\ NotYetActed /\ NoticesWhatStands /\ OneActPerApproval

\* What Met does to the RPCs: it sets a flag.
LEMMA MetCalls ==
  ASSUME NEW calls \in [Rpcs -> RpcStates], NEW s
  PROVE  /\ Met(calls, s) \in [Rpcs -> RpcStates]
         /\ \A r \in Rpcs :
              /\ Met(calls, s)[r].at = calls[r].at
              /\ Met(calls, s)[r].token = calls[r].token
              /\ calls[r].met => Met(calls, s)[r].met
              /\ calls[r].at = "consumed" /\ s = consent[calls[r].token].saw
                   => Met(calls, s)[r].met
BY DEF Met, RpcStates

\* There is a snapshot to start from.
LEMMA UnknownSnapshot == NotGiven \in Consents
<1>1. [shows |-> "unknown", g1 |-> FALSE, game |-> "idle", detail |-> 1]
        \in {s \in Snapshots : s.shows = "unknown"}
  BY DEF Snapshots, Targets
<1>2. (CHOOSE s \in Snapshots : s.shows = "unknown") \in Snapshots
  BY <1>1
<1> QED
  BY <1>2 DEF NotGiven, Consents, Targets

\* Forgetting keeps what was given and how often it was acted on.
LEMMA ForgetConsents ==
  ASSUME consent \in [Approvals -> Consents], NEW a \in Approvals \cup {NoApproval}
  PROVE  /\ Forget(consent, a) \in [Approvals -> Consents]
         /\ \A b \in Approvals :
              /\ Forget(consent, a)[b].given = consent[b].given
              /\ Forget(consent, a)[b].acts = consent[b].acts
              /\ b # a => Forget(consent, a)[b] = consent[b]
<1>1. NotGiven.saw \in Snapshots /\ "portable" \in Targets
  BY UnknownSnapshot DEF Consents, Targets
<1> QED
  BY <1>1, ApprovalAssumption DEF Forget, Consents

\* Nothing is approved where the plugin starts.
LEMMA ApprovalStarts == ApprovalInit => ApprovalInv
<1> SUFFICES ASSUME ApprovalInit PROVE ApprovalInv
  OBVIOUS
<1>1. ApprovalTyped
  BY UnknownSnapshot DEF ApprovalInit, ApprovalTyped, EmptySlot, Resting, RpcStates, RpcPlaces
<1>2. OneHolder /\ NotYetActed /\ NoticesWhatStands
  BY DEF ApprovalInit, OneHolder, NotYetActed, NoticesWhatStands, EmptySlot, Resting
<1>3. NotGiven.acts = 0
  BY DEF NotGiven
<1>4. OneActPerApproval
  BY <1>3 DEF ApprovalInit, OneActPerApproval, Resting
<1> QED
  BY <1>1, <1>2, <1>4 DEF ApprovalInv

\* An RPC that ends forgets its token; the others keep theirs.
LEMMA RpcEnds ==
  ASSUME ApprovalInv, NEW r \in Rpcs, rpc[r].at # "off", Refused(r)
  PROVE  ApprovalInv'
<1>0. Resting \in RpcStates
  BY DEF Resting, RpcStates, RpcPlaces
<1>1. /\ rpc' = Met([rpc EXCEPT ![r] = Resting], stands)
      /\ [rpc EXCEPT ![r] = Resting] \in [Rpcs -> RpcStates]
      /\ rpc[r].token \in Approvals
  BY <1>0 DEF Refused, RpcIs, ApprovalInv, ApprovalTyped, OneHolder
<1>2. /\ rpc' \in [Rpcs -> RpcStates]
      /\ rpc'[r].at = "off"
      /\ \A q \in Rpcs \ {r} : /\ rpc'[q].at = rpc[q].at /\ rpc'[q].token = rpc[q].token
                               /\ rpc[q].met => rpc'[q].met
  BY <1>1, MetCalls DEF Resting
<1>3. /\ consent' \in [Approvals -> Consents]
      /\ \A b \in Approvals : /\ consent'[b].given = consent[b].given
                              /\ consent'[b].acts = consent[b].acts
                              /\ b # rpc[r].token => consent'[b] = consent[b]
  BY <1>1, ForgetConsents DEF Refused, ApprovalInv, ApprovalTyped
<1>4. UNCHANGED <<stands, flow, prepared, entry, slot>>
  BY DEF Refused, RpcIs
<1>5. \A q \in Rpcs \ {r} : rpc[q].at # "off" => rpc[q].token # rpc[r].token
  BY DEF ApprovalInv, OneHolder
<1>6. ASSUME NEW q \in Rpcs, rpc'[q].at # "off"
      PROVE  /\ q # r /\ rpc[q].at = rpc'[q].at /\ rpc[q].token = rpc'[q].token
             /\ rpc[q].token \in Approvals /\ rpc[q].token # slot.token
             /\ consent'[rpc[q].token] = consent[rpc[q].token]
             /\ rpc[q].met => rpc'[q].met
  BY <1>2, <1>3, <1>5, <1>6 DEF ApprovalInv, OneHolder
<1>7. ApprovalTyped'
  BY <1>2, <1>3, <1>4 DEF ApprovalInv, ApprovalTyped
<1>8. OneHolder'
  BY <1>2, <1>3, <1>4, <1>6 DEF ApprovalInv, ApprovalTyped, OneHolder
<1>9. NotYetActed'
  BY <1>6 DEF ApprovalInv, NotYetActed
<1>10. NoticesWhatStands'
  BY <1>4, <1>6 DEF ApprovalInv, NoticesWhatStands
<1>11. OneActPerApproval'
  BY <1>3, <1>4, <1>6
  DEF ApprovalInv, OneActPerApproval, Fits, ShutdownFits, PlanFits
<1> QED
  BY <1>7, <1>8, <1>9, <1>10, <1>11 DEF ApprovalInv

\* The second press takes the token out of the slot.
LEMMA ApprovalTaken ==
  ASSUME ApprovalInv, NEW r \in Rpcs, NEW a \in Approvals, TakeApproval(r, a)
  PROVE  ApprovalInv'
<1>1. slot' = EmptySlot /\ UNCHANGED <<stands, flow, prepared, entry>>
  BY DEF TakeApproval, RpcIs
<1>2. /\ rpc[r].at = "off" /\ slot.token = a /\ a # NoApproval
      /\ consent[a].given /\ consent[a].acts = 0
  BY ApprovalAssumption DEF TakeApproval, ApprovalInv, OneHolder
<1>3. slot' \in [token : Approvals \cup {NoApproval}, live : BOOLEAN]
  BY <1>1 DEF EmptySlot
<1>4. CASE slot.live
  <2> DEFINE call == [at |-> "consumed", token |-> a, met |-> FALSE]
  <2>1. call \in RpcStates /\ [rpc EXCEPT ![r] = call] \in [Rpcs -> RpcStates]
    BY DEF RpcStates, RpcPlaces, ApprovalInv, ApprovalTyped
  <2>2. rpc' = Met([rpc EXCEPT ![r] = call], stands) /\ consent' = consent
    BY <1>4 DEF TakeApproval, RpcIs
  <2>3. /\ rpc' \in [Rpcs -> RpcStates]
        /\ rpc'[r].at = "consumed" /\ rpc'[r].token = a
        /\ stands = consent[a].saw => rpc'[r].met
        /\ \A q \in Rpcs \ {r} :
             /\ rpc'[q].at = rpc[q].at /\ rpc'[q].token = rpc[q].token
             /\ rpc[q].met => rpc'[q].met
    BY <2>1, <2>2, MetCalls DEF ApprovalInv, ApprovalTyped
  <2>4. ApprovalTyped'
    BY <1>1, <1>3, <2>2, <2>3 DEF ApprovalInv, ApprovalTyped
  <2> HIDE DEF call
  <2>5. ASSUME NEW q \in Rpcs, rpc'[q].at # "off", q # r
        PROVE  /\ rpc[q].at = rpc'[q].at /\ rpc[q].token = rpc'[q].token
               /\ rpc[q].token \in Approvals /\ rpc[q].token # a
               /\ rpc[q].met => rpc'[q].met
    BY <1>2, <2>3, <2>5 DEF ApprovalInv, OneHolder
  <2>6. OneHolder'
    <3>1. ASSUME NEW q \in Rpcs, rpc'[q].at # "off"
          PROVE  /\ rpc'[q].token \in Approvals /\ rpc'[q].token # slot'.token
                 /\ consent'[rpc'[q].token].given
      BY <1>1, <1>2, <2>2, <2>3, <2>5, <3>1, ApprovalAssumption
      DEF ApprovalInv, OneHolder, EmptySlot
    <3>2. ASSUME NEW q \in Rpcs, NEW s \in Rpcs, rpc'[q].at # "off", rpc'[s].at # "off",
                 rpc'[q].token = rpc'[s].token
          PROVE  q = s
      BY <2>3, <2>5, <3>2 DEF ApprovalInv, OneHolder
    <3> QED
      BY <1>1, <3>1, <3>2 DEF OneHolder, EmptySlot
  <2>7. NotYetActed'
    BY <1>2, <2>2, <2>3, <2>5 DEF ApprovalInv, NotYetActed
  <2>8. NoticesWhatStands'
    BY <1>1, <2>2, <2>3, <2>5 DEF ApprovalInv, NoticesWhatStands
  <2>9. OneActPerApproval'
    BY <1>1, <2>2, <2>3, <2>5
    DEF ApprovalInv, OneActPerApproval, Fits, ShutdownFits, PlanFits
  <2> QED
    BY <2>4, <2>6, <2>7, <2>8, <2>9 DEF ApprovalInv
<1>5. CASE ~slot.live
  <2>1. Resting \in RpcStates /\ [rpc EXCEPT ![r] = Resting] \in [Rpcs -> RpcStates]
    BY DEF Resting, RpcStates, RpcPlaces, ApprovalInv, ApprovalTyped
  <2>2. /\ rpc' = Met([rpc EXCEPT ![r] = Resting], stands)
        /\ consent' = Forget(consent, a)
    BY <1>5 DEF TakeApproval, RpcIs
  <2>3. /\ rpc' \in [Rpcs -> RpcStates]
        /\ rpc'[r].at = "off"
        /\ \A q \in Rpcs \ {r} :
             /\ rpc'[q].at = rpc[q].at /\ rpc'[q].token = rpc[q].token
             /\ rpc[q].met => rpc'[q].met
    BY <2>1, <2>2, MetCalls DEF ApprovalInv, ApprovalTyped, Resting
  <2>4. /\ consent' \in [Approvals -> Consents]
        /\ \A b \in Approvals :
             /\ consent'[b].given = consent[b].given
             /\ consent'[b].acts = consent[b].acts
             /\ b # a => consent'[b] = consent[b]
    BY <2>2, ForgetConsents DEF ApprovalInv, ApprovalTyped
  <2>5. ASSUME NEW q \in Rpcs, rpc'[q].at # "off"
        PROVE  /\ q # r /\ rpc[q].at = rpc'[q].at /\ rpc[q].token = rpc'[q].token
               /\ rpc[q].token \in Approvals
               /\ consent'[rpc[q].token] = consent[rpc[q].token]
               /\ rpc[q].met => rpc'[q].met
    BY <1>2, <2>3, <2>4, <2>5 DEF ApprovalInv, OneHolder
  <2>6. ApprovalTyped'
    BY <1>1, <1>3, <2>3, <2>4 DEF ApprovalInv, ApprovalTyped
  <2>7. OneHolder'
    BY <1>1, <2>4, <2>5, ApprovalAssumption DEF ApprovalInv, OneHolder, EmptySlot
  <2>8. NotYetActed' /\ NoticesWhatStands'
    BY <1>1, <2>5 DEF ApprovalInv, NotYetActed, NoticesWhatStands
  <2>9. OneActPerApproval'
    BY <1>1, <2>4, <2>5
    DEF ApprovalInv, OneActPerApproval, Fits, ShutdownFits, PlanFits
  <2> QED
    BY <2>6, <2>7, <2>8, <2>9 DEF ApprovalInv
<1> QED
  BY <1>4, <1>5

\* The first press issues a fresh token; what the slot held is forgotten.
LEMMA ApprovalGiven ==
  ASSUME ApprovalInv, NEW a \in Approvals, Approve(a)
  PROVE  ApprovalInv'
<1>1. UNCHANGED <<stands, flow, prepared, entry, rpc>>
  BY DEF Approve
<1>2. slot' = [token |-> a, live |-> TRUE] /\ ~consent[a].given
  BY DEF Approve
<1>3. PICK target \in Targets :
        consent' = [Forget(consent, slot.token) EXCEPT
                      ![a] = [given |-> TRUE, target |-> target, saw |-> stands, acts |-> 0]]
  BY DEF Approve, Targets
<1>4. slot.token \in Approvals \cup {NoApproval} /\ stands \in Snapshots
  BY DEF ApprovalInv, ApprovalTyped
<1>5. /\ consent' \in [Approvals -> Consents]
      /\ consent'[a].given /\ consent'[a].acts = 0
      /\ \A b \in Approvals \ {a} :
           /\ consent'[b].given = consent[b].given
           /\ consent'[b].acts = consent[b].acts
           /\ b # slot.token => consent'[b] = consent[b]
  <2>1. /\ Forget(consent, slot.token) \in [Approvals -> Consents]
        /\ \A b \in Approvals :
             /\ Forget(consent, slot.token)[b].given = consent[b].given
             /\ Forget(consent, slot.token)[b].acts = consent[b].acts
             /\ b # slot.token => Forget(consent, slot.token)[b] = consent[b]
    BY <1>4, ForgetConsents DEF ApprovalInv, ApprovalTyped
  <2>2. [given |-> TRUE, target |-> target, saw |-> stands, acts |-> 0] \in Consents
    BY <1>4 DEF Consents
  <2> QED
    BY <1>3, <2>1, <2>2
<1>6. ASSUME NEW q \in Rpcs, rpc[q].at # "off"
      PROVE  /\ rpc[q].token \in Approvals /\ rpc[q].token # a
             /\ consent'[rpc[q].token] = consent[rpc[q].token]
  BY <1>2, <1>5, <1>6 DEF ApprovalInv, OneHolder
<1>7. ApprovalTyped'
  BY <1>1, <1>2, <1>5 DEF ApprovalInv, ApprovalTyped
<1>8. OneHolder'
  BY <1>1, <1>2, <1>5, <1>6 DEF ApprovalInv, OneHolder
<1>9. NotYetActed' /\ NoticesWhatStands'
  BY <1>1, <1>6 DEF ApprovalInv, NotYetActed, NoticesWhatStands
<1>10. OneActPerApproval'
  BY <1>1, <1>5, <1>6
  DEF ApprovalInv, OneActPerApproval, Fits, ShutdownFits, PlanFits
<1> QED
  BY <1>7, <1>8, <1>9, <1>10 DEF ApprovalInv

\* Moving an RPC on leaves it a typed record that differs in its place.
LEMMA Relabelled ==
  ASSUME NEW r \in Rpcs, rpc \in [Rpcs -> RpcStates], NEW place \in RpcPlaces
  PROVE  /\ [rpc[r] EXCEPT !.at = place] \in RpcStates
         /\ [rpc[r] EXCEPT !.at = place].at = place
         /\ [rpc[r] EXCEPT !.at = place].token = rpc[r].token
         /\ rpc[r].met => [rpc[r] EXCEPT !.at = place].met
         /\ [rpc EXCEPT ![r].at = place] = [rpc EXCEPT ![r] = [rpc[r] EXCEPT !.at = place]]
BY DEF RpcStates

\* An RPC that goes on keeps its token; the others stay.  What it is to act on
\* must have been met, and must not have been acted on.
LEMMA RpcGoesOn ==
  ASSUME NEW r \in Rpcs, NEW call \in RpcStates,
         rpc \in [Rpcs -> RpcStates], consent \in [Approvals -> Consents],
         rpc[r].token \in Approvals, call.token = rpc[r].token, call.met,
         call.at \in {"confirmed", "running", "done"},
         rpc' = Met([rpc EXCEPT ![r] = call], stands')
  PROVE  /\ rpc' \in [Rpcs -> RpcStates]
         /\ rpc'[r].at = call.at /\ rpc'[r].token = rpc[r].token /\ rpc'[r].met
         /\ \A q \in Rpcs \ {r} :
              /\ rpc'[q].at = rpc[q].at /\ rpc'[q].token = rpc[q].token
              /\ rpc[q].met => rpc'[q].met
              /\ rpc[q].at = "consumed" /\ stands' = consent[rpc[q].token].saw
                   => rpc'[q].met
<1> DEFINE calls == [rpc EXCEPT ![r] = call]
<1>1. /\ calls \in [Rpcs -> RpcStates] /\ calls[r] = call
      /\ \A q \in Rpcs \ {r} : calls[q] = rpc[q]
  OBVIOUS
<1>2. rpc' = Met(calls, stands')
  OBVIOUS
<1> HIDE DEF calls
<1>3. /\ rpc' \in [Rpcs -> RpcStates]
      /\ \A q \in Rpcs : rpc'[q].at = calls[q].at /\ rpc'[q].token = calls[q].token
  BY <1>1, <1>2 DEF Met, RpcStates
<1>4. \A q \in Rpcs : /\ calls[q].met => rpc'[q].met
                      /\ calls[q].at = "consumed" /\ stands' = consent[calls[q].token].saw
                           => rpc'[q].met
  BY <1>1, <1>2 DEF Met, RpcStates
<1>5. rpc'[r].met
  BY <1>1, <1>4
<1> QED
  BY <1>1, <1>3, <1>4, <1>5


\* An RPC that goes on keeps the invariant, if its token was not acted on before,
\* the approved snapshot was met, and that snapshot fits the action.
LEMMA ApprovalGoesOn ==
  ASSUME ApprovalInv, NEW r \in Rpcs, NEW place \in {"confirmed", "running", "done"},
         rpc[r].at # "off",
         /\ rpc' \in [Rpcs -> RpcStates]
         /\ rpc'[r].at = place /\ rpc'[r].token = rpc[r].token /\ rpc'[r].met
         /\ \A q \in Rpcs \ {r} :
              /\ rpc'[q].at = rpc[q].at /\ rpc'[q].token = rpc[q].token
              /\ rpc[q].met => rpc'[q].met
              /\ rpc[q].at = "consumed" /\ stands' = consent[rpc[q].token].saw
                   => rpc'[q].met,
         /\ consent' \in [Approvals -> Consents]
         /\ \A b \in Approvals \ {rpc[r].token} : consent'[b] = consent[b]
         /\ consent'[rpc[r].token].given
         /\ consent'[rpc[r].token].saw = consent[rpc[r].token].saw
         /\ consent'[rpc[r].token].target = consent[rpc[r].token].target
         /\ consent'[rpc[r].token].acts <= 1
         /\ place = "confirmed" => consent'[rpc[r].token].acts = 0,
         Fits(consent[rpc[r].token].saw, consent[rpc[r].token].target),
         stands' \in Snapshots, entry' \in {"none", "open", "terminal"},
         UNCHANGED <<flow, slot>>
  PROVE  ApprovalInv'
<1>1. /\ rpc \in [Rpcs -> RpcStates] /\ consent \in [Approvals -> Consents]
      /\ rpc[r].token \in Approvals /\ rpc[r].token # slot.token
      /\ \A q \in Rpcs \ {r} : rpc[q].at # "off" => rpc[q].token # rpc[r].token
  BY DEF ApprovalInv, ApprovalTyped, OneHolder
<1>5. ASSUME NEW q \in Rpcs, rpc'[q].at # "off", q # r
      PROVE  /\ rpc[q].at = rpc'[q].at /\ rpc[q].token = rpc'[q].token
             /\ rpc[q].token \in Approvals /\ rpc[q].token # rpc[r].token
             /\ rpc[q].token # slot.token
             /\ consent'[rpc[q].token] = consent[rpc[q].token]
             /\ consent[rpc[q].token].given
             /\ rpc[q].met => rpc'[q].met
  BY <1>1, <1>5 DEF ApprovalInv, OneHolder
<1>6. ApprovalTyped'
  BY DEF ApprovalInv, ApprovalTyped
<1>7. OneHolder'
  <2>1. slot.token # NoApproval => consent'[slot.token].given /\ consent'[slot.token].acts = 0
    BY <1>1 DEF ApprovalInv, ApprovalTyped, OneHolder
  <2>2. ASSUME NEW q \in Rpcs, rpc'[q].at # "off"
        PROVE  /\ rpc'[q].token \in Approvals /\ rpc'[q].token # slot.token
               /\ consent'[rpc'[q].token].given
    BY <1>1, <1>5, <2>2
  <2>3. ASSUME NEW q \in Rpcs, NEW s \in Rpcs, rpc'[q].at # "off", rpc'[s].at # "off",
               rpc'[q].token = rpc'[s].token
        PROVE  q = s
    BY <1>5, <2>3 DEF ApprovalInv, OneHolder
  <2> QED
    BY <2>1, <2>2, <2>3 DEF OneHolder
<1>8. NotYetActed'
  BY <1>5 DEF ApprovalInv, NotYetActed
<1>9. NoticesWhatStands'
  BY <1>5 DEF NoticesWhatStands
<1>10. OneActPerApproval'
  <2>1. \A b \in Approvals : consent'[b].acts <= 1
    BY DEF ApprovalInv, OneActPerApproval
  <2>2. ASSUME NEW q \in Rpcs, rpc'[q].at \in {"confirmed", "running", "done"}
        PROVE  /\ rpc'[q].met
               /\ Fits(consent'[rpc'[q].token].saw, consent'[rpc'[q].token].target)
    BY <1>5, <2>2 DEF ApprovalInv, OneActPerApproval
  <2> QED
    BY <2>1, <2>2 DEF OneActPerApproval, Fits, ShutdownFits, PlanFits
<1> QED
  BY <1>6, <1>7, <1>8, <1>9, <1>10 DEF ApprovalInv

\* The world moves, and the RPCs whose token is consumed notice; the slot's permit
\* may expire meanwhile, and the journal may be acknowledged.
LEMMA ApprovalWaits ==
  ASSUME ApprovalInv, stands' \in Snapshots,
         /\ rpc' \in [Rpcs -> RpcStates]
         /\ \A q \in Rpcs :
              /\ rpc'[q].at = rpc[q].at /\ rpc'[q].token = rpc[q].token
              /\ rpc[q].met => rpc'[q].met
              /\ rpc[q].at = "consumed" /\ stands' = consent[rpc[q].token].saw
                   => rpc'[q].met,
         slot' \in [token : Approvals \cup {NoApproval}, live : BOOLEAN],
         slot'.token = slot.token,
         entry' \in {"none", "open", "terminal"}, UNCHANGED <<flow, consent>>
  PROVE  ApprovalInv'
<1>1. ApprovalTyped'
  BY DEF ApprovalInv, ApprovalTyped
<1>2. OneHolder' /\ NotYetActed'
  BY DEF ApprovalInv, OneHolder, NotYetActed
<1>3. NoticesWhatStands'
  BY DEF NoticesWhatStands
<1>4. OneActPerApproval'
  BY DEF ApprovalInv, OneActPerApproval, Fits, ShutdownFits, PlanFits
<1> QED
  BY <1>1, <1>2, <1>3, <1>4 DEF ApprovalInv


\* The RPC confirms: the approved snapshot stands now, so it was noticed.
LEMMA ApprovalConfirmed ==
  ASSUME ApprovalInv, NEW r \in Rpcs, Confirm(r)
  PROVE  ApprovalInv'
<1>1. rpc[r].at = "consumed" /\ rpc[r].token \in Approvals
  BY DEF Confirm, ApprovalInv, OneHolder
<1>2. CASE Refused(r)
  BY <1>1, <1>2, RpcEnds
<1>3. CASE ~Refused(r)
  <2>1. /\ stands = consent[rpc[r].token].saw
        /\ Fits(consent[rpc[r].token].saw, consent[rpc[r].token].target)
        /\ RpcIs(r, [rpc[r] EXCEPT !.at = "confirmed"])
        /\ UNCHANGED <<entry, slot, consent>>
    BY <1>3 DEF Confirm
  <2>2. rpc[r].met /\ consent[rpc[r].token].acts = 0
    BY <1>1, <2>1 DEF ApprovalInv, NoticesWhatStands, NotYetActed
  <2>3. rpc \in [Rpcs -> RpcStates] /\ consent \in [Approvals -> Consents]
    BY DEF ApprovalInv, ApprovalTyped
  <2> DEFINE call == [rpc[r] EXCEPT !.at = "confirmed"]
  <2>4. call \in RpcStates /\ call.token = rpc[r].token /\ call.met /\ call.at = "confirmed"
    BY <2>2, <2>3, Relabelled DEF RpcPlaces
  <2>5. rpc' = Met([rpc EXCEPT ![r] = call], stands') /\ UNCHANGED <<stands, flow>>
    BY <2>1 DEF RpcIs
  <2> HIDE DEF call
  <2>6. /\ rpc' \in [Rpcs -> RpcStates]
        /\ rpc'[r].at = "confirmed" /\ rpc'[r].token = rpc[r].token /\ rpc'[r].met
        /\ \A q \in Rpcs \ {r} :
             /\ rpc'[q].at = rpc[q].at /\ rpc'[q].token = rpc[q].token
             /\ rpc[q].met => rpc'[q].met
             /\ rpc[q].at = "consumed" /\ stands' = consent[rpc[q].token].saw => rpc'[q].met
    BY <1>1, <2>3, <2>4, <2>5, RpcGoesOn
  <2>7. /\ consent' = consent /\ consent[rpc[r].token].given
        /\ slot' = slot /\ stands' \in Snapshots /\ entry' \in {"none", "open", "terminal"}
    BY <1>1, <2>1, <2>5 DEF ApprovalInv, ApprovalTyped, OneHolder
  <2>8. /\ consent' \in [Approvals -> Consents]
        /\ \A b \in Approvals \ {rpc[r].token} : consent'[b] = consent[b]
        /\ consent'[rpc[r].token].given
        /\ consent'[rpc[r].token].saw = consent[rpc[r].token].saw
        /\ consent'[rpc[r].token].target = consent[rpc[r].token].target
        /\ consent'[rpc[r].token].acts <= 1 /\ consent'[rpc[r].token].acts = 0
    BY <2>2, <2>3, <2>7
  <2>9. Fits(consent[rpc[r].token].saw, consent[rpc[r].token].target)
    BY <2>1
  <2>10. rpc[r].at # "off" /\ UNCHANGED <<flow, slot>>
    BY <1>1, <2>5, <2>7
  <2> QED
    BY <2>6, <2>7, <2>8, <2>9, <2>10, ApprovalGoesOn
<1> QED
  BY <1>2, <1>3

\* A confirmed RPC acts: it is the first time for its token.
LEMMA ApprovalActedOn ==
  ASSUME ApprovalInv, NEW r \in Rpcs, rpc[r].at = "confirmed", Acted(rpc[r].token),
         NEW place \in {"running", "done"}, RpcIs(r, [rpc[r] EXCEPT !.at = place]),
         entry' \in {"none", "open", "terminal"}, UNCHANGED slot
  PROVE  ApprovalInv'
<1> DEFINE a == rpc[r].token
           call == [rpc[r] EXCEPT !.at = place]
<1>1. /\ rpc \in [Rpcs -> RpcStates] /\ consent \in [Approvals -> Consents]
      /\ a \in Approvals /\ consent[a].given /\ consent[a].acts = 0
      /\ rpc[r].met /\ Fits(consent[a].saw, consent[a].target)
      /\ rpc[r].at # "off"
  BY DEF ApprovalInv, ApprovalTyped, OneHolder, NotYetActed, OneActPerApproval
<1>2. rpc' = Met([rpc EXCEPT ![r] = call], stands') /\ UNCHANGED <<stands, flow, slot>>
  BY DEF RpcIs
<1>3. call \in RpcStates /\ call.token = a /\ call.met /\ call.at = place
  BY <1>1, Relabelled DEF RpcPlaces
<1> HIDE DEF call
<1>4. /\ rpc' \in [Rpcs -> RpcStates]
      /\ rpc'[r].at = place /\ rpc'[r].token = a /\ rpc'[r].met
      /\ \A q \in Rpcs \ {r} :
           /\ rpc'[q].at = rpc[q].at /\ rpc'[q].token = rpc[q].token
           /\ rpc[q].met => rpc'[q].met
           /\ rpc[q].at = "consumed" /\ stands' = consent[rpc[q].token].saw => rpc'[q].met
  BY <1>1, <1>2, <1>3, RpcGoesOn
<1>5. /\ consent' \in [Approvals -> Consents]
      /\ \A b \in Approvals \ {a} : consent'[b] = consent[b]
      /\ consent'[a].given
      /\ consent'[a].saw = consent[a].saw /\ consent'[a].target = consent[a].target
      /\ consent'[a].acts = 1
  BY <1>1 DEF Acted, Consents
<1>6. stands' \in Snapshots /\ entry' \in {"none", "open", "terminal"}
  BY <1>2 DEF ApprovalInv, ApprovalTyped
<1> HIDE DEF a
<1>7. place # "confirmed" /\ consent'[a].acts <= 1
  BY <1>5
<1> QED
  BY <1>1, <1>2, <1>4, <1>5, <1>6, <1>7, ApprovalGoesOn DEF a

\* The transition of an RPC's plan ends, and with it the system has moved.
LEMMA ApprovalRunEnds ==
  ASSUME ApprovalInv, NEW r \in Rpcs, RunEnds(r)
  PROVE  ApprovalInv'
<1> DEFINE a == rpc[r].token
           call == [rpc[r] EXCEPT !.at = "done"]
<1>1. /\ rpc \in [Rpcs -> RpcStates] /\ consent \in [Approvals -> Consents]
      /\ a \in Approvals /\ consent[a].given /\ consent[a].acts <= 1
      /\ rpc[r].at # "off" /\ rpc[r].met /\ Fits(consent[a].saw, consent[a].target)
  BY DEF RunEnds, ApprovalInv, ApprovalTyped, OneHolder, OneActPerApproval
<1>2. /\ call \in RpcStates /\ call.token = a /\ call.met /\ call.at = "done"
      /\ [rpc EXCEPT ![r].at = "done"] = [rpc EXCEPT ![r] = call]
  BY <1>1, Relabelled DEF RpcPlaces
<1>3. /\ rpc' = Met([rpc EXCEPT ![r] = call], stands')
      /\ stands' \in Snapshots /\ entry' = "terminal" /\ UNCHANGED <<flow, slot, consent>>
  BY <1>2 DEF RunEnds
<1> HIDE DEF call
<1>4. /\ rpc' \in [Rpcs -> RpcStates]
      /\ rpc'[r].at = "done" /\ rpc'[r].token = a /\ rpc'[r].met
      /\ \A q \in Rpcs \ {r} :
           /\ rpc'[q].at = rpc[q].at /\ rpc'[q].token = rpc[q].token
           /\ rpc[q].met => rpc'[q].met
           /\ rpc[q].at = "consumed" /\ stands' = consent[rpc[q].token].saw => rpc'[q].met
  BY <1>1, <1>2, <1>3, RpcGoesOn
<1> QED
  BY <1>1, <1>3, <1>4, ApprovalGoesOn

\* The invariant that OneActPerApproval needs: a token is held in one place only.
THEOREM ApprovalInvariant == ApprovalSpec => []ApprovalInv
<1>1. ApprovalInit => ApprovalInv
  BY ApprovalStarts
<1>2. ApprovalInv /\ [ApprovalNext]_approvalVars => ApprovalInv'
  <2> SUFFICES ASSUME ApprovalInv, [ApprovalNext]_approvalVars PROVE ApprovalInv'
    OBVIOUS
  <2>1. rpc \in [Rpcs -> RpcStates]
    BY DEF ApprovalInv, ApprovalTyped
  <2>2. ASSUME UNCHANGED <<stands, rpc>> \/ (stands' \in Snapshots /\ rpc' = Met(rpc, stands'))
        PROVE  /\ rpc' \in [Rpcs -> RpcStates] /\ stands' \in Snapshots
               /\ \A q \in Rpcs :
                    /\ rpc'[q].at = rpc[q].at /\ rpc'[q].token = rpc[q].token
                    /\ rpc[q].met => rpc'[q].met
                    /\ rpc[q].at = "consumed" /\ stands' = consent[rpc[q].token].saw
                         => rpc'[q].met
    <3>1. CASE UNCHANGED <<stands, rpc>>
      BY <2>1, <3>1 DEF ApprovalInv, ApprovalTyped, NoticesWhatStands
    <3>2. CASE stands' \in Snapshots /\ rpc' = Met(rpc, stands')
      BY <2>1, <3>2 DEF Met, RpcStates
    <3> QED
      BY <2>2, <3>1, <3>2
  <2>3. /\ slot \in [token : Approvals \cup {NoApproval}, live : BOOLEAN]
        /\ entry \in {"none", "open", "terminal"} /\ stands \in Snapshots
    BY DEF ApprovalInv, ApprovalTyped
  <2>4. CASE ApprovalWorldMoves
    <3>1. /\ UNCHANGED <<flow, entry, slot, consent>> /\ rpc' = Met(rpc, stands')
          /\ stands' \in Snapshots
      BY <2>3, <2>4 DEF ApprovalWorldMoves
    <3> QED
      BY <2>2, <2>3, <3>1, ApprovalWaits
  <2>5. CASE SlotExpires
    <3>1. /\ UNCHANGED <<stands, flow, entry, consent, rpc>>
          /\ slot' \in [token : Approvals \cup {NoApproval}, live : BOOLEAN]
          /\ slot'.token = slot.token
      BY <2>3, <2>5 DEF SlotExpires
    <3> QED
      BY <2>2, <2>3, <3>1, ApprovalWaits
  <2>6. CASE AcknowledgeSwitch
    <3>1. UNCHANGED <<stands, flow, slot, consent, rpc>> /\ entry' = "none"
      BY <2>6 DEF AcknowledgeSwitch
    <3> QED
      BY <2>2, <2>3, <3>1, ApprovalWaits
  <2>7. CASE UNCHANGED approvalVars
    <3>1. UNCHANGED <<stands, flow, entry, slot, consent, rpc>>
      BY <2>7 DEF approvalVars
    <3> QED
      BY <2>2, <2>3, <3>1, ApprovalWaits
  <2>8. ASSUME NEW a \in Approvals, Approve(a) PROVE ApprovalInv'
    BY <2>8, ApprovalGiven
  <2>9. ASSUME NEW r \in Rpcs, NEW a \in Approvals, TakeApproval(r, a) PROVE ApprovalInv'
    BY <2>9, ApprovalTaken
  <2>10. ASSUME NEW r \in Rpcs, Confirm(r) PROVE ApprovalInv'
    BY <2>10, ApprovalConfirmed
  <2>11. ASSUME NEW r \in Rpcs, Fails(r) \/ RpcReturns(r) PROVE ApprovalInv'
    <3>1. rpc[r].at # "off" /\ Refused(r)
      BY <2>11 DEF Fails, RpcReturns
    <3> QED
      BY <3>1, RpcEnds
  <2>12. ASSUME NEW r \in Rpcs, RequestPoweroff(r) PROVE ApprovalInv'
    <3>1. /\ rpc[r].at = "confirmed" /\ Acted(rpc[r].token)
          /\ RpcIs(r, [rpc[r] EXCEPT !.at = "done"]) /\ UNCHANGED <<entry, slot>>
      BY <2>12 DEF RequestPoweroff
    <3>2. entry' \in {"none", "open", "terminal"} /\ slot' = slot
      BY <2>3, <3>1
    <3> QED
      BY <3>1, <3>2, ApprovalActedOn
  <2>13. ASSUME NEW r \in Rpcs, RunPlan(r) PROVE ApprovalInv'
    <3>1. CASE entry = "none"
      <4>1. /\ rpc[r].at = "confirmed" /\ Acted(rpc[r].token)
            /\ RpcIs(r, [rpc[r] EXCEPT !.at = "running"]) /\ entry' = "open" /\ slot' = slot
        BY <2>13, <3>1 DEF RunPlan
      <4> QED
        BY <4>1, ApprovalActedOn
    <3>2. CASE entry # "none"
      <4>1. rpc[r].at # "off" /\ Refused(r)
        BY <2>13, <3>2 DEF RunPlan
      <4> QED
        BY <4>1, RpcEnds
    <3> QED
      BY <3>1, <3>2
  <2>14. ASSUME NEW r \in Rpcs, RunEnds(r) PROVE ApprovalInv'
    BY <2>14, ApprovalRunEnds
  <2> QED
    BY <2>4, <2>5, <2>6, <2>7, <2>8, <2>9, <2>10, <2>11, <2>12, <2>13, <2>14
    DEF ApprovalNext
<1> QED
  BY <1>1, <1>2, PTL DEF ApprovalSpec

\* However many tokens are given and however many RPCs present them, at once or one
\* after the other: one approval is acted on at most once, and only when the system
\* had been, after the second press, just as it was approved
\* (ExperimentalTransitionApprovalStore.consume and the services' execute).
THEOREM ApprovalActsOnce == ApprovalSpec => []OneActPerApproval
<1>1. ApprovalInv => OneActPerApproval
  BY DEF ApprovalInv
<1> QED
  BY <1>1, ApprovalInvariant, PTL


-----------------------------------------------------------------------------
(* Verbose logging (DiagnosticLogging)                                      *)

\* What the controller has on is what the player last asked for; the deadlines are
\* instants of the clock.
LoggingInv ==
  /\ now \in Nat /\ word.until \in Nat
  /\ DOMAIN worker = Workers /\ worker = [w \in Workers |-> worker[w]]
  /\ \A w \in Workers : worker[w].now \in Nat
  /\ logging = LoggingOff \/ logging = word

\* What the controller has on is what the player last asked for, however the calls
\* fall around its lock: turned off by a deadline or by an unreadable boot identity,
\* it never comes back by itself (DiagnosticLoggingController).
THEOREM LoggingInvariant == LoggingSpec => []LoggingInv
<1>1. LoggingInit => LoggingInv
  BY DEF LoggingInit, LoggingInv, LoggingOff, NoRpc
<1>2. LoggingInv /\ [LoggingNext]_loggingVars => LoggingInv'
  <2> SUFFICES ASSUME LoggingInv, [LoggingNext]_loggingVars PROVE LoggingInv'
    OBVIOUS
  <2>1. CASE ClockTicks \/ UNCHANGED loggingVars
    BY <2>1 DEF LoggingInv, LoggingOff, ClockTicks, loggingVars
  <2>2. ASSUME NEW w \in Workers, Reads(w) PROVE LoggingInv'
    BY <2>2 DEF LoggingInv, Reads
  <2>3. ASSUME NEW w \in Workers, Decides(w) PROVE LoggingInv'
    BY <2>3 DEF LoggingInv, NoRpc, Decides, StatusLocked
  <2>4. ASSUME NEW w \in Workers, EnablesLogging(w) PROVE LoggingInv'
    <3>1. \A grant \in Grants : grant.until \in Nat
      BY DiagnosticAssumption DEF LoggingInv, Grants, OnFor, UntilReboot
    <3> QED
      BY <2>4, <3>1 DEF LoggingInv, NoRpc, EnablesLogging, Enable
  <2>5. ASSUME NEW w \in Workers, DisablesLogging(w) PROVE LoggingInv'
    BY <2>5 DEF LoggingInv, LoggingOff, NoRpc, DisablesLogging, Disable
  <2> QED
    BY <2>1, <2>2, <2>3, <2>4, <2>5 DEF LoggingNext
<1> QED
  BY <1>1, <1>2, PTL DEF LoggingSpec

\* A verbose event is kept only while the player's last word is a consent to it, and
\* only by a call that read the clock before that consent ran out, for any number of
\* threads and any durations (DiagnosticLoggingController.append).
THEOREM VerboseNeedsConsent == LoggingSpec => VerboseHasConsent
<1>1. LoggingInv /\ [LoggingNext]_loggingVars =>
        [\A w \in Workers : worker[w].at = "verbose" /\ worker'[w].at = "recorded"
                              => word.on /\ worker[w].now < word.until]_loggingVars
  <2> SUFFICES ASSUME LoggingInv, LoggingNext,
                      NEW w \in Workers, worker[w].at = "verbose", worker'[w].at = "recorded"
               PROVE  word.on /\ worker[w].now < word.until
    BY DEF loggingVars
  <2>1. Decides(w)
    BY DEF LoggingInv, LoggingNext, ClockTicks, Reads, Decides, EnablesLogging, Enable,
           DisablesLogging, Answered, NoRpc
  <2>2. logging'.on /\ logging' = StatusLocked(worker[w].now, worker[w].boot)
    BY <2>1 DEF Decides, Kept, LoggingInv, NoRpc
  <2>3. logging.on /\ ~(worker[w].now >= logging.until)
    BY <2>2 DEF StatusLocked, LoggingOff
  <2>4. word.on /\ ~(worker[w].now >= word.until)
    BY <2>3 DEF LoggingInv, LoggingOff
  <2>5. worker[w].now \in Nat /\ word.until \in Nat
    BY DEF LoggingInv
  <2> QED
    BY <2>4, <2>5
<1> QED
  BY <1>1, LoggingInvariant, PTL DEF LoggingSpec, VerboseHasConsent


-----------------------------------------------------------------------------
(* A support bundle (SupportBundle)                                         *)

\* A token that was drawn is in the store, in one request that saves, in one file,
\* or in none of them, with the bundle the player was shown.
StoreHolds ==
  \A t \in DOMAIN previews : t \in DOMAIN displayed /\ previews[t].bundle = displayed[t]

SavingHolds ==
  \A r \in Requests : request[r].at = "saving" =>
    /\ request[r].token \in DOMAIN displayed /\ request[r].token \notin DOMAIN previews
    /\ request[r].bundle = displayed[request[r].token]
    /\ \A f \in files : f.token # request[r].token
    /\ \A q \in Requests :
         request[q].at = "saving" /\ request[q].token = request[r].token => q = r

FilesHold == \A f \in files : f.token \in DOMAIN displayed /\ f.token \notin DOMAIN previews

BundleInv ==
  /\ request = [r \in Requests |-> request[r]]
  /\ StoreHolds /\ SavingHolds /\ FilesHold /\ SavedIsPreviewed

\* The store loses previews by their age and by their number; it gains none, and
\* changes none.
LEMMA RoomIsLive ==
  /\ DOMAIN Live \subseteq DOMAIN previews
  /\ DOMAIN Room \subseteq DOMAIN previews
  /\ \A t \in DOMAIN Live : Live[t] = previews[t]
  /\ \A t \in DOMAIN Room : Room[t] = previews[t]
<1>1. DOMAIN Live \subseteq DOMAIN previews /\ \A t \in DOMAIN Live : Live[t] = previews[t]
  BY DEF Live, Without
<1>2. DOMAIN Room \subseteq DOMAIN Live /\ \A t \in DOMAIN Room : Room[t] = Live[t]
  BY DEF Room, Without
<1> QED
  BY <1>1, <1>2

\* A fresh token's bundle is shown and kept.
LEMMA BundleIssued ==
  ASSUME BundleInv, NEW r \in Requests, IssuesPreview(r)
  PROVE  BundleInv'
<1>1. PICK token \in PreviewTokens \ DOMAIN displayed :
        /\ previews' = With(Room, token, [created |-> now, bundle |-> request[r].bundle])
        /\ displayed' = With(displayed, token, request[r].bundle)
  BY DEF IssuesPreview
<1>2. /\ DOMAIN previews' = DOMAIN Room \cup {token}
      /\ previews'[token].bundle = request[r].bundle
      /\ \A t \in DOMAIN Room \ {token} : previews'[t] = Room[t]
  BY <1>1 DEF With
<1>3. /\ DOMAIN displayed' = DOMAIN displayed \cup {token}
      /\ displayed'[token] = request[r].bundle
      /\ \A t \in DOMAIN displayed : displayed'[t] = displayed[t]
  BY <1>1 DEF With
<1>4. /\ files' = files /\ request' = [q \in Requests |-> request'[q]]
      /\ request'[r].at = "idle" /\ \A q \in Requests \ {r} : request'[q] = request[q]
  BY DEF IssuesPreview, RequestGoes, NoRequest, BundleInv
<1>5. StoreHolds'
  BY <1>1, <1>2, <1>3, RoomIsLive DEF BundleInv, StoreHolds
<1>6. SavingHolds'
  BY <1>1, <1>2, <1>3, <1>4, RoomIsLive DEF BundleInv, SavingHolds
<1>7. FilesHold'
  BY <1>1, <1>2, <1>3, <1>4, RoomIsLive DEF BundleInv, FilesHold
<1>8. SavedIsPreviewed'
  BY <1>1, <1>3, <1>4 DEF BundleInv, FilesHold, SavedIsPreviewed
<1> QED
  BY <1>4, <1>5, <1>6, <1>7, <1>8 DEF BundleInv

\* A save takes its preview out of the store.
LEMMA BundleConsumed ==
  ASSUME BundleInv, NEW r \in Requests, ConsumesPreview(r)
  PROVE  BundleInv'
<1>1. PICK token \in DOMAIN displayed :
        /\ previews' = Taken(token)
        /\ IF token \in DOMAIN Live
           THEN RequestGoes(r, [at |-> "saving", token |-> token,
                                bundle |-> Live[token].bundle])
           ELSE UNCHANGED request
  BY DEF ConsumesPreview
<1>2. UNCHANGED <<displayed, files>> /\ request[r].at = "idle"
  BY DEF ConsumesPreview
<1>3. /\ DOMAIN previews' \subseteq DOMAIN previews /\ token \notin DOMAIN previews'
      /\ \A t \in DOMAIN previews' : previews'[t] = previews[t]
  BY <1>1, RoomIsLive DEF Taken, Without
<1>4. StoreHolds' /\ FilesHold' /\ SavedIsPreviewed'
  BY <1>2, <1>3 DEF BundleInv, StoreHolds, FilesHold, SavedIsPreviewed
<1>5. CASE token \notin DOMAIN Live
  <2>1. request' = request
    BY <1>1, <1>5
  <2>2. SavingHolds'
    BY <1>2, <1>3, <2>1 DEF BundleInv, SavingHolds
  <2> QED
    BY <1>4, <2>1, <2>2 DEF BundleInv
<1>6. CASE token \in DOMAIN Live
  <2>1. /\ request' = [q \in Requests |-> request'[q]]
        /\ request'[r].at = "saving" /\ request'[r].token = token
        /\ request'[r].bundle = Live[token].bundle
        /\ \A q \in Requests \ {r} : request'[q] = request[q]
    BY <1>1, <1>6 DEF RequestGoes, BundleInv
  <2>2. token \in DOMAIN previews /\ Live[token].bundle = displayed[token]
    BY <1>6, RoomIsLive DEF BundleInv, StoreHolds
  <2>3. ASSUME NEW q \in Requests \ {r}, request[q].at = "saving"
        PROVE  request[q].token # token
    BY <2>2, <2>3 DEF BundleInv, SavingHolds
  <2>4. \A f \in files : f.token # token
    BY <2>2 DEF BundleInv, FilesHold
  <2>5. SavingHolds'
    BY <1>2, <1>3, <2>1, <2>2, <2>3, <2>4 DEF BundleInv, SavingHolds
  <2> QED
    BY <1>4, <2>1, <2>5 DEF BundleInv
<1> QED
  BY <1>5, <1>6

\* The file is written, whole or not, or it is not.
LEMMA BundleSaved ==
  ASSUME BundleInv, NEW r \in Requests, SavesFile(r)
  PROVE  BundleInv'
<1>1. /\ request[r].at = "saving" /\ UNCHANGED <<previews, displayed>>
      /\ request' = [q \in Requests |-> request'[q]]
      /\ request'[r].at = "idle" /\ \A q \in Requests \ {r} : request'[q] = request[q]
  BY DEF SavesFile, RequestGoes, NoRequest, BundleInv
<1>2. StoreHolds'
  BY <1>1 DEF BundleInv, StoreHolds
<1>3. CASE files' = files
  BY <1>1, <1>2, <1>3 DEF BundleInv, SavingHolds, FilesHold, SavedIsPreviewed
<1>4. CASE files' # files
  <2>1. PICK file : /\ files' = files \cup {file} /\ file.token = request[r].token
                    /\ file.whole => file.bundle = request[r].bundle
    <3> DEFINE torn == [token |-> request[r].token, by |-> r, whole |-> FALSE,
                        bundle |-> <<>>]
               full == [token |-> request[r].token, by |-> r, whole |-> TRUE,
                        bundle |-> request[r].bundle]
    <3>1. files' = files \cup {torn} \/ files' = files \cup {full}
      BY <1>4 DEF SavesFile
    <3>2. torn.token = request[r].token /\ ~torn.whole
      OBVIOUS
    <3>3. full.token = request[r].token /\ full.bundle = request[r].bundle
      OBVIOUS
    <3> HIDE DEF torn, full
    <3> QED
      BY <3>1, <3>2, <3>3
  <2>2. SavingHolds'
    BY <1>1, <2>1 DEF BundleInv, SavingHolds
  <2>3. FilesHold' /\ SavedIsPreviewed'
    BY <1>1, <2>1 DEF BundleInv, SavingHolds, FilesHold, SavedIsPreviewed
  <2> QED
    BY <1>1, <1>2, <2>2, <2>3 DEF BundleInv
<1> QED
  BY <1>3, <1>4

\* Where a token of a preview is, and with which bundle.
THEOREM BundleInvariant == BundleSpec => []BundleInv
<1>1. BundleInit => BundleInv
  BY DEF BundleInit, BundleInv, StoreHolds, SavingHolds, FilesHold, SavedIsPreviewed, NoRequest
<1>2. BundleInv /\ [BundleNext]_bundleVars => BundleInv'
  <2> SUFFICES ASSUME BundleInv, [BundleNext]_bundleVars PROVE BundleInv'
    OBVIOUS
  <2>1. CASE UNCHANGED <<previews, displayed, request, files>>
    BY <2>1 DEF BundleInv, StoreHolds, SavingHolds, FilesHold, SavedIsPreviewed
  <2>2. ASSUME NEW r \in Requests, BuildsBundle(r) PROVE BundleInv'
    <3>1. /\ UNCHANGED <<previews, displayed, files>>
          /\ request' = [q \in Requests |-> request'[q]]
          /\ request'[r].at # "saving" /\ \A q \in Requests \ {r} : request'[q] = request[q]
      BY <2>2 DEF BuildsBundle, RequestGoes, NoRequest, BundleInv
    <3> QED
      BY <3>1 DEF BundleInv, StoreHolds, SavingHolds, FilesHold, SavedIsPreviewed
  <2>3. ASSUME NEW r \in Requests, IssuesPreview(r) PROVE BundleInv'
    BY <2>3, BundleIssued
  <2>4. ASSUME NEW r \in Requests, ConsumesPreview(r) PROVE BundleInv'
    BY <2>4, BundleConsumed
  <2>5. ASSUME NEW r \in Requests, SavesFile(r) PROVE BundleInv'
    BY <2>5, BundleSaved
  <2> QED
    BY <2>1, <2>2, <2>3, <2>4, <2>5
    DEF BundleNext, EventArrives, BundleClockTicks, bundleVars
<1> QED
  BY <1>1, <1>2, PTL DEF BundleSpec

\* Whatever the log becomes and however many requests overlap: a whole file holds
\* what the player was shown under its token, and one preview gives at most one file
\* (SupportBundlePreviewStore, save_support_bundle).
THEOREM BundleSavesWhatWasShown == BundleSpec => []SavedIsPreviewed
<1>1. BundleInv => SavedIsPreviewed
  BY DEF BundleInv
<1> QED
  BY <1>1, BundleInvariant, PTL


-----------------------------------------------------------------------------
(* The preparation of the Gamescope integration (Preparation)               *)

PrepPlaces == {"unused", "approved", "consumed", "refused", "observed", "installed",
               "install_failed", "install", "complete", "check", "remove", "failed",
               "reload", "verify", "undo", "undone", "prepared", "rolled_back",
               "rollback_failed"}

PrepCalls == [at : PrepPlaces, evidence : Evidence \cup {"unfit"}, shim : Shims \cup {NoShim},
              changed : BOOLEAN, wrote : BOOLEAN, up : BOOLEAN, down : BOOLEAN]

\* From where a call counts the drop-in as installed, and as removed.
SaysUp == {"installed", "reload", "verify", "prepared"}
SaysDown == {"undone", "rolled_back"}

PrepInv ==
  /\ seen \in Evidence \cup {"unfit"} /\ shim \in Shims \cup {NoShim}
  /\ prep \in [Tokens -> PrepCalls]
  /\ \A t \in Tokens : /\ prep[t].at \in SaysUp => prep[t].up
                       /\ prep[t].at \in SaysDown => prep[t].down

\* What a call has noticed it keeps, and a call that watches notices what is so.
LEMMA WatchedCalls ==
  ASSUME NEW calls \in [Tokens -> PrepCalls], prep' = Watched(calls)
  PROVE  /\ prep' \in [Tokens -> PrepCalls]
         /\ \A t \in Tokens :
              /\ prep'[t].at = calls[t].at
              /\ calls[t].up => prep'[t].up
              /\ calls[t].down => prep'[t].down
              /\ calls[t].at \in Watching /\ dropin' = "ours" => prep'[t].up
              /\ calls[t].at \in Watching /\ dropin' = "none" => prep'[t].down
BY DEF Watched, PrepCalls

\* One call goes on, having noticed what its place says.
LEMMA PrepMoves ==
  ASSUME PrepInv, NEW t \in Tokens, NEW c \in PrepCalls,
         c.at \in SaysUp => c.up \/ (c.at \in Watching /\ dropin' = "ours"),
         c.at \in SaysDown => c.down \/ dropin' = "none",
         prep' = Watched([prep EXCEPT ![t] = c]), UNCHANGED <<seen, shim>>
  PROVE  PrepInv'
<1> DEFINE calls == [prep EXCEPT ![t] = c]
<1>1. /\ calls \in [Tokens -> PrepCalls] /\ calls[t] = c
      /\ \A u \in Tokens \ {t} : calls[u] = prep[u]
  BY DEF PrepInv
<1>2. prep' = Watched(calls)
  OBVIOUS
<1> HIDE DEF calls
<1>3. /\ prep' \in [Tokens -> PrepCalls]
      /\ \A u \in Tokens :
           /\ prep'[u].at = calls[u].at
           /\ calls[u].up => prep'[u].up
           /\ calls[u].down => prep'[u].down
           /\ calls[u].at \in Watching /\ dropin' = "ours" => prep'[u].up
           /\ calls[u].at \in Watching /\ dropin' = "none" => prep'[u].down
  BY <1>1, <1>2, WatchedCalls
<1>4. prep'[t].at \in SaysUp => prep'[t].up
  BY <1>1, <1>3
<1>5. prep'[t].at \in SaysDown => prep'[t].down
  BY <1>1, <1>3 DEF SaysDown, Watching
<1>6. \A u \in Tokens \ {t} : /\ prep'[u].at \in SaysUp => prep'[u].up
                              /\ prep'[u].at \in SaysDown => prep'[u].down
  BY <1>1, <1>3 DEF PrepInv
<1>7. seen' \in Evidence \cup {"unfit"} /\ shim' \in Shims \cup {NoShim}
  BY DEF PrepInv
<1> QED
  BY <1>3, <1>4, <1>5, <1>6, <1>7 DEF PrepInv

\* A call that returns keeps what it noticed.
LEMMA EndedCall ==
  ASSUME NEW c \in PrepCalls
  PROVE  /\ Ended(c) \in PrepCalls
         /\ Ended(c).at = c.at /\ (c.up => Ended(c).up) /\ (c.down => Ended(c).down)
BY DEF Ended, PrepCalls

\* The same of a step that leaves the files alone.
LEMMA PrepKeeps ==
  ASSUME PrepInv, NEW t \in Tokens, NEW c \in PrepCalls, PrepGoes(t, c),
         c.at \in SaysUp => c.up \/ (c.at \in Watching /\ dropin = "ours"),
         c.at \in SaysDown => c.down
  PROVE  PrepInv'
<1>1. prep' = Watched([prep EXCEPT ![t] = Ended(c)]) /\ UNCHANGED <<seen, shim, dropin>>
  BY DEF PrepGoes, prepFiles
<1>2. /\ Ended(c) \in PrepCalls
      /\ Ended(c).at = c.at /\ (c.up => Ended(c).up) /\ (c.down => Ended(c).down)
  BY EndedCall
<1>3. /\ Ended(c).at \in SaysUp => Ended(c).up \/ (Ended(c).at \in Watching /\ dropin' = "ours")
      /\ Ended(c).at \in SaysDown => Ended(c).down \/ dropin' = "none"
  BY <1>1, <1>2
<1> HIDE DEF Ended
<1> QED
  BY <1>1, <1>2, <1>3, PrepMoves

\* A call that only changes its place says of the drop-in no more than before, or what
\* it has just seen.
LEMMA PrepPlaced ==
  ASSUME PrepInv, NEW t \in Tokens, NEW at \in PrepPlaces, PrepGoesTo(t, at),
         at \in SaysUp => prep[t].at \in SaysUp \/ (at \in Watching /\ dropin = "ours"),
         at \in SaysDown => prep[t].at \in SaysDown
  PROVE  PrepInv'
<1> DEFINE c == [prep[t] EXCEPT !.at = at]
<1>1. prep[t] \in PrepCalls
  BY DEF PrepInv
<1>2. c \in PrepCalls /\ c.at = at /\ (prep[t].up => c.up) /\ (prep[t].down => c.down)
  BY <1>1 DEF PrepCalls
<1>3. PrepGoes(t, c)
  BY DEF PrepGoesTo
<1>4. c.at \in SaysUp => c.up \/ (c.at \in Watching /\ dropin = "ours")
  BY <1>2 DEF PrepInv
<1>5. c.at \in SaysDown => c.down
  BY <1>2 DEF PrepInv
<1> HIDE DEF c
<1> QED
  BY <1>2, <1>3, <1>4, <1>5, PrepKeeps


\* The world moves under the calls, and those that watch the drop-in notice.
LEMMA PrepWorld ==
  ASSUME PrepInv, PrepWorldMoves
  PROVE  PrepInv'
<1>1. prep \in [Tokens -> PrepCalls] /\ prep' = Watched(prep)
  BY DEF PrepInv, PrepWorldMoves
<1>2. /\ prep' \in [Tokens -> PrepCalls]
      /\ \A t \in Tokens : /\ prep'[t].at = prep[t].at
                           /\ prep[t].up => prep'[t].up
                           /\ prep[t].down => prep'[t].down
  BY <1>1, WatchedCalls
<1>3. seen' \in Evidence \cup {"unfit"} /\ shim' \in Shims \cup {NoShim}
  BY DEF PrepInv, PrepWorldMoves, prepFiles
<1> QED
  BY <1>2, <1>3 DEF PrepInv

\* The steps between the token and the last check before the answer.
LEMMA PrepSteps ==
  ASSUME PrepInv, NEW t \in Tokens,
         \/ RevalidatePreparation(t) \/ CheckInstall(t) \/ Recheck(t)
         \/ DaemonReload(t) \/ VerifyUnit(t) \/ ReloadUndone(t)
  PROVE  PrepInv'
<1>1. CASE RevalidatePreparation(t)
  <2>1. PICK at \in {"refused", "observed"} : PrepGoesTo(t, at)
    BY <1>1 DEF RevalidatePreparation
  <2>2. at \in PrepPlaces /\ at \notin SaysUp /\ at \notin SaysDown
    BY DEF PrepPlaces, SaysUp, SaysDown
  <2> QED
    BY <2>1, <2>2, PrepPlaced
<1>2. CASE CheckInstall(t)
  <2>1. PICK at \in {"installed", "install_failed", "install", "complete"} :
          PrepGoesTo(t, at) /\ (at = "installed" => dropin = "ours")
    BY <1>2 DEF CheckInstall, Ready
  <2>2. /\ at \in PrepPlaces /\ at \notin SaysDown
        /\ at \in SaysUp => at \in Watching /\ dropin = "ours"
    BY <2>1 DEF PrepPlaces, SaysUp, SaysDown, Watching
  <2> QED
    BY <2>1, <2>2, PrepPlaced
<1>3. CASE Recheck(t)
  <2>1. PICK at \in {"remove", "failed", "reload"} : PrepGoesTo(t, at)
    BY <1>3 DEF Recheck
  <2>2. at \in PrepPlaces /\ at \notin SaysDown /\ prep[t].at \in SaysUp
    BY <1>3 DEF Recheck, PrepPlaces, SaysUp, SaysDown
  <2> QED
    BY <2>1, <2>2, PrepPlaced
<1>4. CASE DaemonReload(t) \/ VerifyUnit(t)
  <2>1. PICK at \in {"verify", "prepared", "undo", "failed"} : PrepGoesTo(t, at)
    BY <1>4 DEF DaemonReload, VerifyUnit
  <2>2. at \in PrepPlaces /\ at \notin SaysDown /\ prep[t].at \in SaysUp
    BY <1>4 DEF DaemonReload, VerifyUnit, PrepPlaces, SaysUp, SaysDown
  <2> QED
    BY <2>1, <2>2, PrepPlaced
<1>5. CASE ReloadUndone(t)
  <2>1. PICK at \in {"rolled_back", "rollback_failed"} : PrepGoesTo(t, at)
    BY <1>5 DEF ReloadUndone
  <2>2. at \in PrepPlaces /\ at \notin SaysUp /\ prep[t].at \in SaysDown
    BY <1>5 DEF ReloadUndone, PrepPlaces, SaysUp, SaysDown
  <2> QED
    BY <2>1, <2>2, PrepPlaced
<1> QED
  BY <1>1, <1>2, <1>3, <1>4, <1>5

\* A token is given, and consumed: nothing is said of the drop-in.
LEMMA PrepApproved ==
  ASSUME PrepInv, NEW t \in Tokens, ApprovePreparation(t) \/ ConsumePermit(t)
  PROVE  PrepInv'
<1>1. CASE ApprovePreparation(t)
  <2> DEFINE c == [Unused EXCEPT !.at = "approved", !.evidence = seen, !.shim = shim]
  <2>1. c \in PrepCalls /\ c.at = "approved" /\ prep' = [prep EXCEPT ![t] = c]
    BY <1>1 DEF ApprovePreparation, Unused, PrepCalls, PrepPlaces, PrepInv
  <2>2. "approved" \notin SaysUp /\ "approved" \notin SaysDown
    BY DEF SaysUp, SaysDown
  <2> HIDE DEF c
  <2>3. UNCHANGED <<seen, shim>>
    BY <1>1 DEF ApprovePreparation, prepFiles
  <2> QED
    BY <2>1, <2>2, <2>3 DEF PrepInv
<1>2. CASE ConsumePermit(t)
  <2>1. PICK at \in {"consumed", "refused"} : PrepGoes(t, [prep[t] EXCEPT !.at = at])
    BY <1>2 DEF ConsumePermit
  <2> DEFINE c == [prep[t] EXCEPT !.at = at]
  <2>2. c \in PrepCalls /\ c.at = at
    BY DEF PrepInv, PrepCalls, PrepPlaces
  <2>3. PrepGoes(t, c)
    BY <2>1
  <2>4. at \notin SaysUp /\ at \notin SaysDown
    BY DEF SaysUp, SaysDown
  <2> HIDE DEF c
  <2> QED
    BY <2>2, <2>3, <2>4, PrepKeeps
<1> QED
  BY <1>1, <1>2

\* The drop-in is written, and looked at.
LEMMA PrepInstalls ==
  ASSUME PrepInv, NEW t \in Tokens, Install(t) \/ CheckInstalled(t)
  PROVE  PrepInv'
<1>1. CASE PrepGoesTo(t, "install_failed")
  <2>1. /\ "install_failed" \in PrepPlaces
        /\ "install_failed" \notin SaysUp /\ "install_failed" \notin SaysDown
    BY DEF PrepPlaces, SaysUp, SaysDown
  <2> QED
    BY <1>1, <2>1, PrepPlaced
<1>2. CASE Install(t) /\ ~PrepGoesTo(t, "install_failed")
  <2>1. PICK at \in {"check", "install_failed"}, writes \in BOOLEAN :
          prep' = Watched([prep EXCEPT ![t].at = at, ![t].wrote = writes])
    BY <1>2 DEF Install
  <2> DEFINE c == [prep[t] EXCEPT !.at = at, !.wrote = writes]
  <2>2. c \in PrepCalls /\ c.at = at
    BY DEF PrepInv, PrepCalls, PrepPlaces
  <2>3. [prep EXCEPT ![t].at = at, ![t].wrote = writes] = [prep EXCEPT ![t] = c]
    BY DEF PrepInv, PrepCalls
  <2>4. at \notin SaysUp /\ at \notin SaysDown
    BY DEF SaysUp, SaysDown
  <2>5. UNCHANGED <<seen, shim>>
    BY <1>2 DEF Install
  <2> HIDE DEF c
  <2> QED
    BY <2>1, <2>2, <2>3, <2>4, <2>5, PrepMoves
<1>3. CASE CheckInstalled(t)
  <2> DEFINE c == [prep[t] EXCEPT !.at = IF Ready THEN "installed" ELSE "install_failed",
                                  !.changed = TRUE, !.up = Ready, !.down = FALSE]
  <2>1. Ready \in BOOLEAN
    BY DEF Ready
  <2>2. /\ c \in PrepCalls /\ c.at \in {"installed", "install_failed"}
        /\ c.at = "installed" => Ready
    BY <2>1 DEF PrepInv, PrepCalls, PrepPlaces
  <2>3. PrepGoes(t, c)
    BY <1>3 DEF CheckInstalled
  <2> HIDE DEF c
  <2>4. /\ c.at \in SaysUp => c.at \in Watching /\ dropin = "ours"
        /\ c.at \notin SaysDown
    BY <2>2 DEF SaysUp, SaysDown, Watching, Ready
  <2> QED
    BY <2>2, <2>3, <2>4, PrepKeeps
<1> QED
  BY <1>1, <1>2, <1>3

\* The drop-in is removed, and what removed it has seen it gone.
LEMMA PrepRemoves ==
  ASSUME PrepInv, NEW t \in Tokens, Remove(t) \/ Undo(t)
  PROVE  PrepInv'
<1>1. PICK removed \in {"rolled_back", "undone"} : Deactivate(t, removed)
  BY DEF Remove, Undo
<1>2. CASE PrepGoesTo(t, "rollback_failed")
  <2>1. /\ "rollback_failed" \in PrepPlaces
        /\ "rollback_failed" \notin SaysUp /\ "rollback_failed" \notin SaysDown
    BY DEF PrepPlaces, SaysUp, SaysDown
  <2> QED
    BY <1>2, <2>1, PrepPlaced
<1>3. CASE ~PrepGoesTo(t, "rollback_failed")
  <2>1. /\ dropin' = "none" /\ prep' = Watched([prep EXCEPT ![t].at = removed])
        /\ UNCHANGED <<seen, shim>>
    BY <1>1, <1>3 DEF Deactivate
  <2> DEFINE c == [prep[t] EXCEPT !.at = removed]
  <2>2. c \in PrepCalls /\ c.at = removed
    BY DEF PrepInv, PrepCalls, PrepPlaces
  <2>3. [prep EXCEPT ![t].at = removed] = [prep EXCEPT ![t] = c]
    BY DEF PrepInv, PrepCalls
  <2>4. removed \notin SaysUp
    BY DEF SaysUp
  <2> HIDE DEF c
  <2> QED
    BY <2>1, <2>2, <2>3, <2>4, PrepMoves
<1> QED
  BY <1>2, <1>3

\* What each call has noticed of the drop-in by the place it has come to.
THEOREM PreparationInvariant == PrepSpec => []PrepInv
<1>1. PrepInit => PrepInv
  BY DEF PrepInit, PrepInv, PrepCalls, PrepPlaces, Unused, SaysUp, SaysDown
<1>2. PrepInv /\ [PrepNext]_prepVars => PrepInv'
  <2> SUFFICES ASSUME PrepInv, [PrepNext]_prepVars PROVE PrepInv'
    OBVIOUS
  <2>1. CASE PermitExpires \/ UNCHANGED prepVars
    BY <2>1 DEF PermitExpires, prepVars, prepFiles, PrepInv
  <2>2. CASE PrepWorldMoves
    BY <2>2, PrepWorld
  <2>3. ASSUME NEW t \in Tokens, ApprovePreparation(t) \/ Execute(t) PROVE PrepInv'
    BY <2>3, PrepApproved, PrepSteps, PrepInstalls, PrepRemoves DEF Execute
  <2> QED
    BY <2>1, <2>2, <2>3 DEF PrepNext
<1> QED
  BY <1>1, <1>2, PTL DEF PrepSpec

\* Beside any number of other calls, a player and an update: an answer "prepared"
\* means that the drop-in was in place during the call, "rolled back" that it was gone
\* (PresentationActivationService._execute_locked).
THEOREM PreparationTellsTheTruth == PrepSpec => []PreparationIsTrue
<1>1. PrepInv => PreparationIsTrue
  BY DEF PrepInv, PreparationIsTrue, SaysUp, SaysDown
<1> QED
  BY <1>1, PreparationInvariant, PTL

================================================================================
