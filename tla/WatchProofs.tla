------------------------------ MODULE WatchProofs ------------------------------
(***************************************************************************)
(* Two components that watch a game: the docked iGPU lifecycle, whose      *)
(* watch always has its owner and becomes ready on evidence, and the       *)
(* compatibility test, whose results are what its collectors saw and whose *)
(* end leaves no logging of its own; for any number of games, sessions,    *)
(* watches and threads.                                                    *)
(***************************************************************************)
EXTENDS DockedIgpu, CompatibilityTest, TLAPS

-----------------------------------------------------------------------------
(* The docked iGPU watch                                                   *)

ArmSteps == {"arm", "armSession", "armSnapshot", "armGameAgain", "armSessionAgain"}
PollSteps == {"poll", "pollGame", "pollSnapshot", "pollGameAgain", "pollSessionAgain"}
FreeSteps == {"off", "queued", "returned"}

Lifecycles == [stage : Stages, watch : WatchIds \cup {NoWatch}]
Scenes == IgpuGames \cup {"idle"}
Instants == {<<>>} \cup (Scenes \X BOOLEAN \X Nat)
Ticks == [at : ArmSteps \cup PollSteps \cup FreeSteps, game : Scenes, session : Nat,
          fit : BOOLEAN, instant : Instants, stage : Stages]

IgpuTyped ==
  /\ igame \in Scenes /\ onTv \in BOOLEAN /\ gamescope \in Nat
  /\ current \in Watches \cup {NoWatch} /\ lifecycle \in Lifecycles
  /\ tick \in Ticks

\* The lifecycle and the facade agree on the watch at every step of a tick, and
\* what only a watch can lead to has one.
OwnerHolds ==
  /\ IF lifecycle.watch = NoWatch THEN current = NoWatch ELSE MayCancel
  /\ lifecycle.stage \in {"action_required", "promotion_ready"} => MayCancel
  /\ lifecycle.stage = "closed" => current = NoWatch
  /\ tick.at \in ArmSteps => current = NoWatch
  /\ tick.at \in PollSteps => current # NoWatch

\* What the tick has read so far, and when: sessions only grow.
EvidenceHolds ==
  /\ tick.at \in ArmSteps \ {"arm"} => tick.game \in IgpuGames
  /\ tick.at \in {"pollGame", "pollSnapshot"} => current.session <= gamescope
  /\ tick.at \in {"pollGameAgain", "pollSessionAgain"} =>
       \E g \in 0 .. gamescope : tick.instant = <<"idle", TRUE, g>> /\ current.session <= g

IgpuInv == IgpuTyped /\ OwnerHolds /\ EvidenceHolds
\* Where a tick that ends, and everything outside a tick, leaves the watch.
Owned(life, kept) ==
  /\ IF life.watch = NoWatch THEN kept = NoWatch ELSE kept # NoWatch /\ kept.id = life.watch
  /\ life.stage \in {"action_required", "promotion_ready"} => kept # NoWatch
  /\ life.stage = "closed" => kept = NoWatch

\* Everywhere in the invariant lifecycle and facade agree on the watch.
LEMMA OwnedHere ==
  ASSUME IgpuInv
  PROVE  Owned(lifecycle, current)
  BY DEF IgpuInv, OwnerHolds, Owned, MayCancel

\* A step outside a tick, or the last one of it.
LEMMA FreeKeeps ==
  ASSUME IgpuInv, igame' \in Scenes, onTv' \in BOOLEAN, gamescope' \in Nat,
         tick' \in Ticks, tick'.at \in FreeSteps,
         current' \in Watches \cup {NoWatch}, lifecycle' \in Lifecycles,
         Owned(lifecycle', current')
  PROVE  IgpuInv'
<1>1. IgpuTyped'
  BY DEF IgpuTyped
<1>2. tick'.at \notin ArmSteps \cup PollSteps
  BY DEF FreeSteps, ArmSteps, PollSteps
<1>3. OwnerHolds'
  BY <1>2 DEF OwnerHolds, Owned, MayCancel
<1>4. EvidenceHolds'
  BY <1>2 DEF EvidenceHolds, ArmSteps, PollSteps
<1> QED
  BY <1>1, <1>3, <1>4 DEF IgpuInv

\* A tick that returns a lifecycle which owns what the facade keeps.
LEMMA ReturnKeeps ==
  ASSUME IgpuInv, UNCHANGED worldVars, NEW life \in Lifecycles, Returns(life),
         current' \in Watches \cup {NoWatch}, Owned(life, current')
  PROVE  IgpuInv'
<1>1. Nothing \in Ticks
  BY DEF Nothing, Ticks, Scenes, Instants, Stages, FreeSteps
<1>2. ASSUME NEW s \in Stages
      PROVE  /\ [Nothing EXCEPT !.at = "returned", !.stage = s] \in Ticks
             /\ [Nothing EXCEPT !.at = "returned", !.stage = s].at = "returned"
  BY <1>1 DEF Ticks, FreeSteps
<1>3. tick' \in Ticks /\ tick'.at \in FreeSteps
  BY <1>2 DEF Returns, Lifecycles, FreeSteps
<1> QED
  BY <1>3, FreeKeeps DEF Returns, IgpuInv, IgpuTyped, worldVars

\* A cancel drops the watch on both sides.
LEMMA CancelKeeps ==
  ASSUME IgpuInv, UNCHANGED worldVars, CancelThenIdle
  PROVE  IgpuInv' /\ lifecycle'.stage # "promotion_ready"
<1>1. lifecycle.watch = NoWatch \/ MayCancel
  BY DEF IgpuInv, OwnerHolds
<1> DEFINE life == [stage |-> "idle", watch |-> NoWatch]
<1>2. current' = NoWatch /\ Returns(life)
  BY <1>1 DEF CancelThenIdle
<1>3. life \in Lifecycles /\ Owned(life, NoWatch) /\ life.stage = "idle"
  BY DEF Lifecycles, Stages, Owned
<1>4. lifecycle' = life
  BY <1>2 DEF Returns
<1> HIDE DEF life
<1> QED
  BY <1>2, <1>3, <1>4, ReturnKeeps

\* The end of a poll makes a watch ready only when the poll says so.
LEMMA PollKeeps ==
  ASSUME IgpuInv, UNCHANGED worldVars, tick.at \in PollSteps,
         NEW stage \in {"watching", "action_required", "cancelled", "promotion_ready"},
         PollEnds(stage)
  PROVE  IgpuInv' /\ (lifecycle'.stage = "promotion_ready" => stage = "promotion_ready")
<1>1. CASE stage = "cancelled"
  BY <1>1, CancelKeeps DEF PollEnds
<1>2. CASE stage # "cancelled"
  <2> DEFINE kept == [current EXCEPT !.stage = stage]
             life == [lifecycle EXCEPT !.stage = stage]
  <2>1. /\ current \in Watches /\ current # NoWatch /\ lifecycle \in Lifecycles
        /\ lifecycle.watch # NoWatch /\ current.id = lifecycle.watch
        /\ stage \in Stages /\ stage # "closed"
    BY <1>2 DEF IgpuInv, IgpuTyped, OwnerHolds, MayCancel, Stages
  <2>2. kept \in Watches /\ kept.id = current.id
    BY <2>1 DEF Watches
  <2>3. life \in Lifecycles /\ life.watch = lifecycle.watch /\ life.stage = stage
    BY <2>1 DEF Lifecycles
  <2>4. current' = kept /\ Returns(life)
    BY <1>2 DEF PollEnds
  <2> HIDE DEF kept, life
  <2>5. kept # NoWatch
    BY <2>2, DockedIgpuAssumption
  <2>6. Owned(life, kept)
    BY <2>1, <2>2, <2>3, <2>5 DEF Owned
  <2>7. lifecycle' = life
    BY <2>4 DEF Returns
  <2> QED
    BY <2>2, <2>3, <2>4, <2>6, <2>7, ReturnKeeps
<1> QED
  BY <1>1, <1>2

\* A rejected arm leaves no watch.
LEMMA RejectKeeps ==
  ASSUME IgpuInv, UNCHANGED worldVars, tick.at \in ArmSteps, ArmRejected
  PROVE  IgpuInv' /\ lifecycle'.stage # "promotion_ready"
<1> DEFINE life == [lifecycle EXCEPT !.stage = "idle"]
<1>1. /\ current = NoWatch /\ lifecycle.watch = NoWatch /\ lifecycle \in Lifecycles
  BY DEF IgpuInv, IgpuTyped, OwnerHolds, MayCancel
<1>2. life \in Lifecycles /\ life.watch = NoWatch /\ life.stage = "idle"
  BY <1>1 DEF Lifecycles, Stages
<1>3. Returns(life) /\ current' = NoWatch
  BY <1>1 DEF ArmRejected
<1> HIDE DEF life
<1>4. Owned(life, NoWatch) /\ lifecycle' = life
  BY <1>2, <1>3 DEF Owned, Returns
<1> QED
  BY <1>2, <1>3, <1>4, ReturnKeeps

\* A reading that goes on to the next one.
LEMMA ReadingKeeps ==
  ASSUME IgpuInv, UNCHANGED <<worldVars, current, lifecycle>>, tick' \in Ticks,
         \/ tick.at \in ArmSteps /\ tick'.at \in ArmSteps /\ tick'.game \in IgpuGames
         \/ tick.at \in PollSteps /\ tick'.at \in PollSteps /\ EvidenceHolds'
  PROVE  IgpuInv'
<1>1. IgpuTyped'
  BY DEF IgpuInv, IgpuTyped, worldVars
<1>2. OwnerHolds'
  <2>1. ~(tick'.at \in ArmSteps /\ tick'.at \in PollSteps)
    BY DEF ArmSteps, PollSteps
  <2> QED
    BY <2>1 DEF IgpuInv, OwnerHolds, MayCancel
<1>3. EvidenceHolds'
  BY DEF EvidenceHolds, ArmSteps, PollSteps
<1> QED
  BY <1>1, <1>2, <1>3 DEF IgpuInv

\* Arming makes a watch for the game it read, never a ready one.
LEMMA ArmKeeps ==
  ASSUME IgpuInv, UNCHANGED worldVars,
         \/ ArmReadsGame \/ ArmReadsSession \/ ArmReadsSnapshot \/ ArmReadsGameAgain
         \/ ArmReadsSessionAgain
  PROVE  IgpuInv' /\ lifecycle'.stage # "promotion_ready"
<1>0. /\ tick \in Ticks /\ tick.at \in ArmSteps /\ current = NoWatch /\ lifecycle \in Lifecycles
      /\ lifecycle.watch = NoWatch /\ lifecycle.stage # "promotion_ready"
      /\ gamescope \in Nat /\ igame \in Scenes
  BY DEF IgpuInv, IgpuTyped, OwnerHolds, MayCancel, ArmReadsGame, ArmReadsSession,
         ArmReadsSnapshot, ArmReadsGameAgain, ArmReadsSessionAgain, Reading, ArmSteps
<1>1. CASE ArmRejected
  BY <1>0, <1>1, RejectKeeps
<1>2. ASSUME UNCHANGED <<current, lifecycle>>, tick' \in Ticks, tick'.at \in ArmSteps,
             tick'.game \in IgpuGames
      PROVE  IgpuInv' /\ lifecycle'.stage # "promotion_ready"
  BY <1>0, <1>2, ReadingKeeps
<1>3. ASSUME NEW at \in ArmSteps, tick' = [tick EXCEPT !.at = at]
      PROVE  tick' \in Ticks /\ tick'.at = at /\ tick'.game = tick.game
  BY <1>0, <1>3 DEF Ticks
<1>4. {"armSession", "armSnapshot", "armGameAgain", "armSessionAgain"} \subseteq ArmSteps \ {"arm"}
  BY DEF ArmSteps
<1>5. tick.at # "arm" => tick.game \in IgpuGames
  BY <1>0 DEF IgpuInv, EvidenceHolds
<1>6. CASE ArmReadsGame
  <2>1. ASSUME NEW g \in IgpuGames, GoesOnWith([tick EXCEPT !.at = "armSession", !.game = g])
        PROVE  IgpuInv' /\ lifecycle'.stage # "promotion_ready"
    <3>1. tick' \in Ticks /\ tick'.at = "armSession" /\ tick'.game = g
      BY <1>0, <1>4, <2>1 DEF GoesOnWith, Ticks, Scenes
    <3> QED
      BY <1>2, <1>4, <2>1, <3>1 DEF GoesOnWith
  <2> QED
    BY <1>1, <1>6, <2>1 DEF ArmReadsGame
<1>7. CASE ArmReadsSession
  <2>1. ASSUME GoesOnWith([tick EXCEPT !.at = "armSnapshot", !.session = gamescope])
        PROVE  IgpuInv' /\ lifecycle'.stage # "promotion_ready"
    <3>1. tick' \in Ticks /\ tick'.at = "armSnapshot" /\ tick'.game = tick.game
      BY <1>0, <1>4, <2>1 DEF GoesOnWith, Ticks
    <3>2. tick.at = "armSession"
      BY <1>7 DEF ArmReadsSession, Reading
    <3> QED
      BY <1>2, <1>4, <1>5, <2>1, <3>1, <3>2 DEF GoesOnWith
  <2> QED
    BY <1>1, <1>7, <2>1 DEF ArmReadsSession, SessionAnswers
<1>8. CASE ArmReadsSnapshot
  <2>1. CASE GoesOnWith([tick EXCEPT !.at = "armGameAgain"])
    BY <1>2, <1>3, <1>4, <1>5, <1>8, <2>1 DEF GoesOnWith, ArmReadsSnapshot, Reading
  <2> QED
    BY <1>1, <1>8, <2>1 DEF ArmReadsSnapshot
<1>9. CASE ArmReadsGameAgain
  <2>1. CASE GoesOnWith([tick EXCEPT !.at = "armSessionAgain"])
    BY <1>2, <1>3, <1>4, <1>5, <1>9, <2>1 DEF GoesOnWith, ArmReadsGameAgain, Reading
  <2> QED
    BY <1>1, <1>9, <2>1 DEF ArmReadsGameAgain
<1>10. CASE ArmReadsSessionAgain
  <2>1. ASSUME NEW id \in WatchIds,
               current' = [id |-> id, stage |-> "watching", game |-> tick.game,
                           session |-> tick.session],
               Returns([stage |-> "watching", watch |-> id])
        PROVE  IgpuInv' /\ lifecycle'.stage # "promotion_ready"
    <3> DEFINE life == [stage |-> "watching", watch |-> id]
    <3>1. tick.game \in IgpuGames /\ tick.session \in Nat
      BY <1>0, <1>5, <1>10 DEF ArmReadsSessionAgain, Reading, Ticks
    <3>2. current' \in Watches /\ current'.id = id
      BY <2>1, <3>1 DEF Watches, Stages
    <3>3. life \in Lifecycles /\ life.stage = "watching" /\ life.watch = id
      BY DEF Lifecycles, Stages
    <3>4. lifecycle' = life /\ Returns(life)
      BY <2>1 DEF Returns
    <3> HIDE DEF life
    <3>5. Owned(life, current')
      BY <3>2, <3>3, DockedIgpuAssumption DEF Owned
    <3> QED
      BY <3>2, <3>3, <3>4, <3>5, ReturnKeeps
  <2> QED
    BY <1>1, <1>10, <2>1 DEF ArmReadsSessionAgain
<1> QED
  BY <1>6, <1>7, <1>8, <1>9, <1>10

\* Ready only from the last reading, when the session that runs is still the one
\* the watch was armed on; the snapshot lies between two of its readings.
LEMMA PollStepKeeps ==
  ASSUME IgpuInv, UNCHANGED worldVars,
         \/ PollReadsSession \/ PollReadsGame \/ PollReadsSnapshot \/ PollReadsGameAgain
         \/ PollReadsSessionAgain
  PROVE  /\ IgpuInv'
         /\ lifecycle'.stage = "promotion_ready" /\ lifecycle.stage # "promotion_ready" =>
              tick.instant = <<"idle", TRUE, current.session>>
<1>0. /\ tick \in Ticks /\ tick.at \in PollSteps /\ current \in Watches
      /\ gamescope \in Nat /\ igame \in Scenes /\ onTv \in BOOLEAN /\ current.session \in Nat
  BY DEF IgpuInv, IgpuTyped, OwnerHolds, PollReadsSession, PollReadsGame, PollReadsSnapshot,
         PollReadsGameAgain, PollReadsSessionAgain, Reading, PollSteps, Watches
<1>1. ASSUME NEW stage \in {"watching", "action_required", "cancelled"}, PollEnds(stage)
      PROVE  IgpuInv' /\ lifecycle'.stage # "promotion_ready"
  BY <1>0, <1>1, PollKeeps
<1>2. ASSUME NEW t \in Ticks, GoesOnWith(t), t.at \in PollSteps,
             t.at \in {"pollGame", "pollSnapshot"} => current.session <= gamescope,
             t.at \in {"pollGameAgain", "pollSessionAgain"} =>
               \E g \in 0 .. gamescope : t.instant = <<"idle", TRUE, g>> /\ current.session <= g
      PROVE  IgpuInv' /\ lifecycle' = lifecycle
  <2>1. UNCHANGED <<current, lifecycle, gamescope>> /\ tick' = t /\ t.at \notin ArmSteps
    BY <1>2 DEF GoesOnWith, worldVars, ArmSteps, PollSteps
  <2>2. EvidenceHolds'
    BY <1>2, <2>1 DEF EvidenceHolds
  <2> QED
    BY <1>0, <1>2, <2>1, <2>2, ReadingKeeps
<1>3. ASSUME NEW at \in PollSteps
      PROVE  /\ [tick EXCEPT !.at = at] \in Ticks /\ [tick EXCEPT !.at = at].at = at
             /\ [tick EXCEPT !.at = at].instant = tick.instant
  BY <1>0, <1>3 DEF Ticks
<1>4. {"pollGame", "pollSnapshot", "pollGameAgain", "pollSessionAgain"} \subseteq PollSteps
  BY DEF PollSteps
<1>5. CASE PollReadsSession
  <2>1. CASE GoesOnWith([tick EXCEPT !.at = "pollGame"]) /\ current.session = gamescope
    <3> DEFINE t == [tick EXCEPT !.at = "pollGame"]
    <3>1. t \in Ticks /\ t.at = "pollGame" /\ GoesOnWith(t)
      BY <1>3, <1>4, <2>1
    <3> HIDE DEF t
    <3>2. current.session <= gamescope
      BY <1>0, <2>1
    <3> QED
      BY <1>2, <1>4, <3>1, <3>2
  <2> QED
    BY <1>1, <1>5, <2>1 DEF PollReadsSession, SessionAnswers
<1>6. CASE PollReadsGame
  <2>1. CASE GoesOnWith([tick EXCEPT !.at = "pollSnapshot"])
    <3>1. current.session <= gamescope
      BY <1>6 DEF IgpuInv, EvidenceHolds, PollReadsGame, Reading
    <3> QED
      BY <1>2, <1>3, <1>4, <2>1, <3>1
  <2> QED
    BY <1>1, <1>6, <2>1 DEF PollReadsGame
<1>7. CASE PollReadsSnapshot
  <2>1. ASSUME NEW fit \in BOOLEAN, igame = "idle", onTv = TRUE,
               GoesOnWith([tick EXCEPT !.at = "pollGameAgain", !.fit = fit,
                                       !.instant = <<igame, onTv, gamescope>>])
        PROVE  IgpuInv' /\ lifecycle' = lifecycle
    <3> DEFINE t == [tick EXCEPT !.at = "pollGameAgain", !.fit = fit,
                                 !.instant = <<igame, onTv, gamescope>>]
    <3>1. t \in Ticks /\ t.at = "pollGameAgain" /\ t.instant = <<"idle", TRUE, gamescope>>
      BY <1>0, <1>4, <2>1 DEF Ticks, Instants
    <3>2. current.session <= gamescope
      BY <1>7 DEF IgpuInv, EvidenceHolds, PollReadsSnapshot, Reading
    <3>3. GoesOnWith(t)
      BY <2>1
    <3> HIDE DEF t
    <3>4. \E g \in 0 .. gamescope : t.instant = <<"idle", TRUE, g>> /\ current.session <= g
      BY <1>0, <3>1, <3>2
    <3>5. t.at \in PollSteps /\ t.at \notin {"pollGame", "pollSnapshot"}
      BY <1>4, <3>1
    <3> QED
      BY <1>2, <3>1, <3>3, <3>4, <3>5
  <2> QED
    BY <1>0, <1>1, <1>7, <2>1 DEF PollReadsSnapshot
<1>8. CASE PollReadsGameAgain
  <2>1. CASE GoesOnWith([tick EXCEPT !.at = "pollSessionAgain"])
    <3>1. \E g \in 0 .. gamescope : tick.instant = <<"idle", TRUE, g>> /\ current.session <= g
      BY <1>8 DEF IgpuInv, EvidenceHolds, PollReadsGameAgain, Reading
    <3> QED
      BY <1>2, <1>3, <1>4, <2>1, <3>1
  <2> QED
    BY <1>1, <1>8, <2>1 DEF PollReadsGameAgain
<1>9. CASE PollReadsSessionAgain
  <2>1. PICK g \in 0 .. gamescope : tick.instant = <<"idle", TRUE, g>> /\ current.session <= g
    BY <1>9 DEF IgpuInv, EvidenceHolds, PollReadsSessionAgain, Reading
  <2>2. CASE PollEnds("promotion_ready") /\ current.session = gamescope
    <3>1. g = current.session
      BY <1>0, <2>1, <2>2
    <3> QED
      BY <1>0, <2>1, <2>2, <3>1, PollKeeps
  <2> QED
    BY <1>1, <1>9, <2>2 DEF PollReadsSessionAgain, SessionAnswers
<1> QED
  BY <1>5, <1>6, <1>7, <1>8, <1>9

\* The start of a tick makes nothing ready.
LEMMA TickKeeps ==
  ASSUME IgpuInv, UNCHANGED worldVars, TickBegins
  PROVE  IgpuInv' /\ (lifecycle'.stage = "promotion_ready" => lifecycle.stage = "promotion_ready")
<1>0. /\ tick \in Ticks /\ current \in Watches \cup {NoWatch} /\ lifecycle \in Lifecycles
      /\ Owned(lifecycle, current)
  BY OwnedHere DEF IgpuInv, IgpuTyped
<1>1. CASE Rests
  BY <1>0, <1>1, ReturnKeeps DEF TickBegins, Returns
<1>2. CASE ~Rests /\ lifecycle.stage = "promotion_ready"
  BY <1>2, CancelKeeps DEF TickBegins
<1>3. CASE ~Rests /\ lifecycle.stage # "promotion_ready"
  <2>1. ~IF lifecycle.watch = NoWatch THEN current # NoWatch ELSE ~MayCancel
    BY DEF IgpuInv, OwnerHolds
  <2> DEFINE t == [Nothing EXCEPT !.at = IF current = NoWatch THEN "arm" ELSE "poll"]
  <2>2. tick' = t /\ UNCHANGED <<current, lifecycle>>
    BY <1>3, <2>1 DEF TickBegins
  <2>3. t \in Ticks /\ t.at = IF current = NoWatch THEN "arm" ELSE "poll"
    BY DEF Nothing, Ticks, Scenes, Instants, Stages, ArmSteps, PollSteps
  <2> HIDE DEF t
  <2>4. IgpuTyped'
    BY <2>2, <2>3 DEF IgpuInv, IgpuTyped, worldVars
  <2>5. OwnerHolds'
    BY <2>2, <2>3 DEF IgpuInv, OwnerHolds, MayCancel, ArmSteps, PollSteps
  <2>6. EvidenceHolds'
    BY <2>2, <2>3 DEF EvidenceHolds, ArmSteps
  <2> QED
    BY <2>2, <2>4, <2>5, <2>6 DEF IgpuInv
<1> QED
  BY <1>1, <1>2, <1>3

\* Games and sessions move: what a reading found stays as long ago as it was.
LEMMA WorldKeeps ==
  ASSUME IgpuInv, UNCHANGED threadVars,
         igame' \in Scenes, onTv' \in BOOLEAN, gamescope' \in Nat, gamescope <= gamescope'
  PROVE  IgpuInv'
<1>1. IgpuTyped' /\ OwnerHolds'
  BY DEF IgpuInv, IgpuTyped, OwnerHolds, MayCancel, threadVars
<1>2. EvidenceHolds'
  <2>1. tick.at \in PollSteps => current.session \in Nat
    BY DEF IgpuInv, IgpuTyped, OwnerHolds, Watches
  <2>2. tick.at \in {"pollGame", "pollSnapshot"} => current.session <= gamescope'
    BY <2>1 DEF IgpuInv, IgpuTyped, EvidenceHolds, PollSteps
  <2>3. 0 .. gamescope \subseteq 0 .. gamescope'
    BY DEF IgpuInv, IgpuTyped
  <2> QED
    BY <2>2, <2>3 DEF IgpuInv, EvidenceHolds, threadVars
<1> QED
  BY <1>1, <1>2 DEF IgpuInv

\* The other threads: the inspection, the scheduler, the player.
LEMMA OutsideKeeps ==
  ASSUME IgpuInv, UNCHANGED worldVars,
         \/ InspectReady \/ SchedulerRuns \/ StopLifecycle \/ AskAcknowledge \/ AcknowledgeRuns
  PROVE  IgpuInv' /\ (lifecycle'.stage = "promotion_ready" => lifecycle.stage = "promotion_ready")
<1>0. /\ tick \in Ticks /\ current \in Watches \cup {NoWatch} /\ lifecycle \in Lifecycles
      /\ Owned(lifecycle, current)
      /\ igame \in Scenes /\ onTv \in BOOLEAN /\ gamescope \in Nat
  BY OwnedHere DEF IgpuInv, IgpuTyped
<1>1. CASE UNCHANGED threadVars
  BY <1>0, <1>1, WorldKeeps DEF worldVars, threadVars
<1>2. CASE Loop
  <2>1. /\ [Nothing EXCEPT !.at = "queued"] \in Ticks /\ Nothing \in Ticks
        /\ [Nothing EXCEPT !.at = "queued"].at \in FreeSteps /\ Nothing.at \in FreeSteps
    BY DEF Nothing, Ticks, Scenes, Instants, Stages, FreeSteps
  <2>2. tick' \in Ticks /\ tick'.at \in FreeSteps /\ UNCHANGED <<current, lifecycle>>
    BY <1>2, <2>1 DEF Loop
  <2> QED
    BY <1>0, <2>2, FreeKeeps DEF worldVars
<1>3. ASSUME Unlocked, tick' = tick, current' \in Watches \cup {NoWatch},
             lifecycle' \in Lifecycles, Owned(lifecycle', current')
      PROVE  IgpuInv'
  BY <1>0, <1>3, FreeKeeps DEF worldVars, Unlocked, FreeSteps
<1>4. CASE InspectReady
  <2> DEFINE life == [lifecycle EXCEPT !.stage = "action_required"]
  <2>1. life \in Lifecycles /\ life.stage = "action_required" /\ life.watch = lifecycle.watch
    BY <1>0 DEF Lifecycles, Stages
  <2>2. lifecycle' = life /\ current' = current /\ tick' = tick /\ Unlocked
        /\ lifecycle.stage = "promotion_ready"
    BY <1>4 DEF InspectReady
  <2> HIDE DEF life
  <2> QED
    BY <1>0, <1>3, <2>1, <2>2 DEF Owned
<1>5. CASE CloseLifecycle
  <2> DEFINE life == [stage |-> "closed", watch |-> NoWatch]
  <2>1. lifecycle.watch = NoWatch \/ MayCancel
    BY DEF IgpuInv, OwnerHolds
  <2>2. lifecycle' = life /\ current' = NoWatch /\ tick' = tick /\ Unlocked
    BY <1>0, <1>5, <2>1 DEF CloseLifecycle, Owned
  <2>3. life \in Lifecycles /\ life.stage = "closed" /\ life.watch = NoWatch
    BY DEF Lifecycles, Stages
  <2> HIDE DEF life
  <2> QED
    BY <1>3, <2>2, <2>3 DEF Owned
<1>6. CASE AcknowledgeAction
  <2> DEFINE life == [stage |-> "idle", watch |-> NoWatch]
  <2>1. /\ Unlocked /\ tick' = tick
        /\ \/ lifecycle' = life /\ current' = NoWatch
           \/ UNCHANGED <<current, lifecycle>>
    BY <1>6 DEF AcknowledgeAction
  <2>2. life \in Lifecycles /\ life.stage = "idle" /\ life.watch = NoWatch
    BY DEF Lifecycles, Stages
  <2> HIDE DEF life
  <2> QED
    BY <1>0, <1>3, <2>1, <2>2 DEF Owned
<1> QED
  BY <1>1, <1>2, <1>4, <1>5, <1>6
     DEF SchedulerRuns, BuildScheduler, WaitEnds, StopLifecycle, AskAcknowledge, AcknowledgeRuns,
         AcknowledgeReads, AcknowledgeShows, AcknowledgeWakes

\* Every step keeps the invariant, and makes a watch ready only on the evidence.
LEMMA IgpuStep ==
  ASSUME IgpuInv, [IgpuNext]_igpuVars
  PROVE  /\ IgpuInv'
         /\ lifecycle'.stage = "promotion_ready" /\ lifecycle.stage # "promotion_ready" =>
              tick.instant = <<"idle", TRUE, current.session>>
<1>1. CASE WorldMoves
  <2>1. /\ igame' \in Scenes /\ onTv' \in BOOLEAN /\ gamescope' \in Nat /\ gamescope <= gamescope'
    <3>0. igame \in Scenes /\ onTv \in BOOLEAN /\ gamescope \in Nat
      BY DEF IgpuInv, IgpuTyped
    <3>1. onTv' = onTv \/ onTv' = ~onTv
      BY <1>1 DEF WorldMoves
    <3>2. onTv' \in BOOLEAN
      BY <3>0, <3>1
    <3>3. igame' \in Scenes /\ gamescope' \in {gamescope, gamescope + 1}
      BY <1>1, <3>0 DEF WorldMoves, Scenes
    <3> QED
      BY <3>0, <3>2, <3>3
  <2> QED
    BY <1>1, <2>1, WorldKeeps DEF WorldMoves, threadVars, IgpuInv
<1>2. CASE UNCHANGED igpuVars
  <2>1. /\ igame \in Scenes /\ onTv \in BOOLEAN /\ gamescope \in Nat /\ gamescope <= gamescope
    BY DEF IgpuInv, IgpuTyped
  <2>2. UNCHANGED <<igame, onTv, gamescope, threadVars, lifecycle>>
    BY <1>2 DEF igpuVars, worldVars, threadVars
  <2> QED
    BY <2>1, <2>2, WorldKeeps
<1>3. CASE TickRuns
  BY <1>3, TickKeeps, ArmKeeps, PollStepKeeps DEF TickRuns, WatcherReads
<1>4. CASE InspectReady \/ SchedulerRuns \/ StopLifecycle \/ AskAcknowledge \/ AcknowledgeRuns
  <2>1. UNCHANGED worldVars
    BY <1>4 DEF InspectReady, SchedulerRuns, BuildScheduler, Loop, WaitEnds, CloseLifecycle,
                StopLifecycle, AskAcknowledge, AcknowledgeRuns, AcknowledgeAction,
                AcknowledgeReads, AcknowledgeShows, AcknowledgeWakes
  <2> QED
    BY <1>4, <2>1, OutsideKeeps
<1> QED
  BY <1>1, <1>2, <1>3, <1>4 DEF IgpuNext

\* The inductive invariant of the watch, its lifecycle and its scheduler.
THEOREM IgpuInvariant == IgpuSpec => []IgpuInv
<1>1. IgpuInit => IgpuInv
  <2> SUFFICES ASSUME IgpuInit PROVE IgpuInv
    OBVIOUS
  <2>1. IgpuTyped
    BY DEF IgpuInit, IgpuTyped, Lifecycles, Stages, Nothing, Ticks, Scenes, Instants, FreeSteps
  <2>2. OwnerHolds /\ EvidenceHolds
    BY DEF IgpuInit, OwnerHolds, EvidenceHolds, MayCancel, Nothing, ArmSteps, PollSteps
  <2> QED
    BY <2>1, <2>2 DEF IgpuInv
<1>2. IgpuInv /\ [IgpuNext]_igpuVars => IgpuInv'
  BY IgpuStep
<1> QED
  BY <1>1, <1>2, PTL DEF IgpuSpec

\* The lifecycle owns exactly the watch the facade keeps, so a required action can
\* be acknowledged and unload leaves no watch (DockedIgpuWatchLifecycle).
THEOREM IgpuWatchHasOwner == IgpuSpec => []WatchHasOwner
<1>1. IgpuInv => WatchHasOwner
  BY DEF IgpuInv, OwnerHolds, WatchHasOwner
<1> QED
  BY <1>1, IgpuInvariant, PTL

\* A watch becomes ready only on an instant of its poll without a game, on the TV
\* and in the session it was armed on (DockedIgpuGameExitWatcher.poll).
THEOREM IgpuReadyHasEvidence == IgpuSpec => ReadyHasEvidence
<1>1. IgpuInv /\ [IgpuNext]_igpuVars =>
        [lifecycle'.stage = "promotion_ready" /\ lifecycle.stage # "promotion_ready"
         => tick.instant = <<"idle", TRUE, current.session>>]_igpuVars
  BY IgpuStep
<1> QED
  BY <1>1, IgpuInvariant, PTL DEF IgpuSpec, ReadyHasEvidence
-----------------------------------------------------------------------------
(* The compatibility test                                                  *)

SomeApp == Apps \cup {NoApp}
TestSessions ==
  [stage : LiveStages \cup TestEnded \cup {"none"}, id : Nat, tests : SUBSET Tests,
   expires : Nat, app : SomeApp, gpu : {"unknown", "internal", "external"},
   results : SUBSET Tests, captured : SUBSET Tests, observed : SUBSET Tests]
ExitWatches == [run : Nat, app : SomeApp, session : Nat]
Captures ==
  [at : {"off", "before", "snapshot", "counters", "after"},
   of : {"none", "baseline", "handoff"}, run : Nat, app : SomeApp, now : Nat,
   docked : BOOLEAN, rendered : BOOLEAN]
Gamings == [run : Nat, app : SomeApp, starts : Nat, external : BOOLEAN, docked : BOOLEAN]

TestTyped ==
  /\ now \in Nat /\ gaming \in Gamings
  /\ session \in TestSessions /\ watch \in ExitWatches /\ capture \in Captures

\* A watch for the game's exit is of the session that armed it.
ExitWatchHolds == watch = NoWatchYet \/ watch.session = session.id

\* What the handoff's collector has read was so at some instant of the capture.
SeenHolds ==
  capture.of = "handoff" =>
    /\ capture.at \in {"counters", "after"} => capture.docked = TRUE
    /\ capture.at = "after" => capture.rendered = TRUE

TestInv == /\ TestTyped /\ ExitWatchHolds /\ SeenHolds
           /\ ResultsAreObserved /\ EndedTestLeavesNoLogging

\* A step that keeps session, watch and capture apart typed and true keeps the invariant.
LEMMA TestKeeps ==
  ASSUME TestInv, now' \in Nat, gaming' \in Gamings, capture' \in Captures, SeenHolds',
         session' \in TestSessions, session'.captured \subseteq session'.observed,
         watch' \in ExitWatches, watch' = NoWatchYet \/ watch'.session = session'.id,
         session'.stage \in TestEnded /\ capture'.at = "off" /\ logging'.on => logging' = word'
  PROVE  TestInv'
<1>1. TestTyped' /\ ExitWatchHolds'
  BY DEF TestTyped, ExitWatchHolds, NoWatchYet
<1>2. ResultsAreObserved' /\ EndedTestLeavesNoLogging'
  BY DEF ResultsAreObserved, EndedTestLeavesNoLogging, NoLock
<1> QED
  BY <1>1, <1>2 DEF TestInv

\* The session stays the same one, with the same captured results.
Follows(s, t) ==
  t \in TestSessions /\ t.id = s.id /\ t.captured = s.captured /\ t.observed = s.observed

\* Every function of the session policy keeps the identity of the session and marks
\* nothing captured.
LEMMA Policy ==
  ASSUME NEW s \in TestSessions, NEW at \in Nat, now \in Nat
  PROVE  /\ Follows(s, s) /\ Follows(s, Cancelled(s)) /\ Follows(s, ActionRequiredIn(s))
         /\ Follows(s, Reconciled(s)) /\ Follows(s, RequireAction(s, at))
         /\ \A fresh : Follows(s, WithSave(s, fresh, at))
         /\ Follows(s, FinishedTest(s, at))
         /\ \A status, gpu, fresh : Follows(s, WithHandoff(s, status, gpu, fresh, at))
         /\ \A app \in SomeApp, gpu \in {"internal", "external"}, sound \in BOOLEAN :
              Follows(s, WithBaseline(s, app, gpu, sound, at))
<1>1. ASSUME NEW x \in {"cancelled", "action_required", "awaiting_review"}
      PROVE  Follows(s, [s EXCEPT !.stage = x])
  <2>1. x \in TestEnded
    BY DEF TestEnded
  <2> QED
    BY <2>1 DEF Follows, TestSessions
<1>2. Follows(s, s) /\ Follows(s, Cancelled(s)) /\ Follows(s, ActionRequiredIn(s))
  BY <1>1 DEF Follows, Cancelled, ActionRequiredIn
<1>3. Follows(s, Reconciled(s)) /\ Follows(s, RequireAction(s, at))
  BY <1>2 DEF Reconciled, RequireAction
<1>4. ASSUME NEW t \in Tests PROVE Follows(s, [s EXCEPT !.results = @ \cup {t}])
  <2>1. s.results \cup {t} \in SUBSET Tests
    BY DEF TestSessions
  <2> QED
    BY <2>1 DEF Follows, TestSessions
<1>5. "handoff" \in Tests /\ "save" \in Tests
  BY DEF Tests
<1>6. \A fresh : Follows(s, WithSave(s, fresh, at))
  BY <1>2, <1>4, <1>5 DEF WithSave
<1>7. \A status, gpu, fresh : Follows(s, WithHandoff(s, status, gpu, fresh, at))
  BY <1>2, <1>4, <1>5 DEF WithHandoff
<1>8. Follows(s, FinishedTest(s, at))
  BY <1>1, <1>2 DEF FinishedTest
<1>9. ASSUME NEW app \in SomeApp, NEW gpu \in {"internal", "external"}, NEW sound \in BOOLEAN
      PROVE  Follows(s, WithBaseline(s, app, gpu, sound, at))
  <2>1. Follows(s, [s EXCEPT !.stage = "active", !.app = app, !.gpu = gpu])
    BY DEF Follows, TestSessions, LiveStages
  <2> QED
    BY <1>2, <2>1 DEF WithBaseline
<1> QED
  BY <1>2, <1>3, <1>6, <1>7, <1>8, <1>9

\* A session that has ended leaves the call with the logging off.
LEMMA CallEnds ==
  ASSUME NEW s, NEW boot, NEW to, CallOf(s, boot, to)
  PROVE  /\ session' \in {s, to}
         /\ session'.stage \in TestEnded => ~logging'.on
<1>1. CASE Raises(s, boot) \/ Raises(to, boot)
  BY <1>1 DEF CallOf, LoggingOff
<1>2. CASE ~Raises(s, boot) /\ ~Raises(to, boot)
  <2>1. session' = to /\ \E once : logging' = Directed(once, to)
    BY <1>2 DEF CallOf
  <2>2. to.stage \in TestEnded => to.stage # "awaiting_baseline"
    BY DEF TestEnded
  <2> QED
    BY <2>1, <2>2 DEF Directed, LoggingOff
<1>3. session' \in {s, to}
  BY DEF CallOf
<1> QED
  BY <1>1, <1>2, <1>3

\* A session that ends takes its directed logging along.
LEMMA DirectedEnds ==
  ASSUME NEW on, NEW to, to.stage \in TestEnded
  PROVE  ~Directed(on, to).on
<1>1. to.stage # "awaiting_baseline"
  BY DEF TestEnded
<1> QED
  BY <1>1 DEF Directed, LoggingOff

\* A call that only advances the session.
LEMMA CallKeeps ==
  ASSUME TestInv, OnlySession,
         \/ capture' = capture
         \/ capture' \in Captures /\ capture'.at = "before",
         NEW boot, NEW to \in TestSessions, CallOf(Now, boot, to),
         to.id = session.id, to.captured \subseteq to.observed,
         watch' \in ExitWatches, watch' = NoWatchYet \/ watch'.session = session.id
  PROVE  TestInv'
<1>1. /\ Now \in TestSessions /\ Now.id = session.id /\ Now.captured \subseteq Now.observed
  BY Policy DEF Now, Follows, TestInv, TestTyped, ResultsAreObserved
<1>2. session' \in {Now, to} /\ (session'.stage \in TestEnded => ~logging'.on)
  BY CallEnds
<1>3. capture' \in Captures /\ SeenHolds'
  BY DEF TestInv, TestTyped, SeenHolds
<1> QED
  BY <1>1, <1>2, <1>3, TestKeeps DEF OnlySession, TestInv, TestTyped

\* The calls that record results the player or a status brings.
LEMMA StatusKeeps ==
  ASSUME TestInv,
         \/ ReadsStatus \/ RecordsBaseline \/ RecordsHandoff \/ RecordsSave \/ FinishesTest
         \/ CancelsTest
  PROVE  TestInv'
<1>0. /\ session \in TestSessions /\ now \in Nat /\ watch \in ExitWatches
      /\ watch = NoWatchYet \/ watch.session = session.id
      /\ session.captured \subseteq session.observed
  BY DEF TestInv, TestTyped, ExitWatchHolds, ResultsAreObserved
<1>1. Now \in TestSessions /\ Follows(session, Now)
  BY <1>0, Policy DEF Now, Follows
<1>2. ASSUME NEW to, Follows(Now, to), NEW boot, CallOf(Now, boot, to),
             OnlySession, UNCHANGED <<watch, capture>>
      PROVE  TestInv'
  BY <1>0, <1>1, <1>2, CallKeeps DEF Follows
<1>3. ASSUME NEW outcomes, \A to \in outcomes : Follows(Now, to), Advances(outcomes)
      PROVE  TestInv'
  BY <1>2, <1>3 DEF Advances
<1>4. CASE ReadsStatus
  BY <1>0, <1>1, <1>2, <1>4, Policy DEF ReadsStatus
<1>5. CASE RecordsBaseline
  <2>1. \A to \in {WithBaseline(Now, app, gpu, sound, now) :
                     app \in Apps \cup {NoApp}, gpu \in {"internal", "external"}, sound \in BOOLEAN} :
          Follows(Now, to)
    BY <1>0, <1>1, Policy DEF SomeApp
  <2> QED
    BY <1>3, <1>5, <2>1 DEF RecordsBaseline
<1>6. CASE RecordsHandoff
  <2>1. \A to \in {WithHandoff(Now, status, gpu, fresh, now) :
                     status \in Handoffs, gpu \in {"internal", "external"}, fresh \in BOOLEAN} :
          Follows(Now, to)
    BY <1>0, <1>1, Policy
  <2> QED
    BY <1>3, <1>6, <2>1 DEF RecordsHandoff
<1>7. CASE RecordsSave
  <2>1. \A to \in {WithSave(Now, fresh, now) : fresh \in BOOLEAN} : Follows(Now, to)
    BY <1>0, <1>1, Policy
  <2> QED
    BY <1>3, <1>7, <2>1 DEF RecordsSave
<1>8. CASE FinishesTest
  <2>1. \A to \in {FinishedTest(Now, now)} : Follows(Now, to)
    BY <1>0, <1>1, Policy
  <2> QED
    BY <1>3, <1>8, <2>1 DEF FinishesTest
<1>9. CASE CancelsTest
  <2>1. \A to \in {Cancelled(Now)} : Follows(Now, to)
    BY <1>0, <1>1, Policy
  <2> QED
    BY <1>3, <1>9, <2>1 DEF CancelsTest
<1> QED
  BY <1>4, <1>5, <1>6, <1>7, <1>8, <1>9

\* A new session forgets the watch of the one before.
LEMMA StartKeeps ==
  ASSUME TestInv, StartsTest
  PROVE  TestInv'
<1>0. session \in TestSessions /\ now \in Nat /\ capture \in Captures /\ gaming \in Gamings
  BY DEF TestInv, TestTyped
<1>1. Follows(session, Now)
  BY <1>0, Policy DEF Now
<1>2. PICK tests \in SUBSET Tests \ {{}}, boot \in BOOLEAN :
        CallOf(Now, boot, Started(session.id + 1, tests))
  BY DEF StartsTest
<1>3. /\ Started(session.id + 1, tests) \in TestSessions
      /\ Started(session.id + 1, tests).captured = {}
  <2>1. NoSession \in TestSessions /\ NoSession.captured = {}
    BY DEF NoSession, TestSessions, SomeApp
  <2>2. ASSUME NEW id \in Nat, NEW ends \in Nat, NEW what \in SUBSET Tests
        PROVE  /\ [NoSession EXCEPT !.stage = "awaiting_baseline", !.id = id,
                                    !.tests = what, !.expires = ends] \in TestSessions
               /\ [NoSession EXCEPT !.stage = "awaiting_baseline", !.id = id,
                                    !.tests = what, !.expires = ends].captured = {}
    BY <2>1 DEF TestSessions, LiveStages
  <2>3. session.id + 1 \in Nat /\ now + TestTtl \in Nat
    BY <1>0, CompatibilityAssumption DEF TestSessions
  <2> QED
    BY <2>2, <2>3 DEF Started
<1>4. /\ session' \in {Now, Started(session.id + 1, tests)}
      /\ session'.stage \in TestEnded => ~logging'.on
  BY <1>2, CallEnds
<1>5. session' \in TestSessions /\ session'.captured \subseteq session'.observed
  BY <1>1, <1>3, <1>4 DEF Follows, TestInv, ResultsAreObserved
<1>6. watch' = NoWatchYet /\ watch' \in ExitWatches
  BY DEF StartsTest, FreshWatch, NoWatchYet, ExitWatches, SomeApp
<1>7. UNCHANGED <<now, gaming, capture>>
  BY DEF StartsTest, OnlySession
<1>8. SeenHolds'
  BY <1>7 DEF TestInv, SeenHolds
<1> QED
  BY <1>0, <1>4, <1>5, <1>6, <1>7, <1>8, TestKeeps

\* The exit of the game: a result is captured only with the watch of this session.
LEMMA ExitKeeps ==
  ASSUME TestInv, ArmsExit \/ CapturesExit
  PROVE  TestInv'
<1>0. /\ session \in TestSessions /\ now \in Nat /\ watch \in ExitWatches
      /\ watch = NoWatchYet \/ watch.session = session.id
      /\ session.captured \subseteq session.observed /\ gaming \in Gamings
  BY DEF TestInv, TestTyped, ExitWatchHolds, ResultsAreObserved
<1>1. Now \in TestSessions /\ Follows(session, Now)
  BY <1>0, Policy DEF Now, Follows
<1>2. /\ Follows(Now, Now) /\ Follows(Now, RequireAction(Now, now))
      /\ Follows(Now, WithSave(Now, TRUE, now))
  BY <1>0, <1>1, Policy
<1>3. NoWatchYet \in ExitWatches
  BY DEF NoWatchYet, ExitWatches, SomeApp
<1>4. CASE ArmsExit
  <2>1. PICK exact \in BOOLEAN, boot \in Boots :
          IF ArmSeen(exact)
          THEN /\ watch' = [run |-> gaming.run, app |-> gaming.app, session |-> Now.id]
               /\ CallOf(Now, boot, Now)
          ELSE watch' = NoWatchYet /\ CallOf(Now, boot, RequireAction(Now, now))
    BY <1>4 DEF ArmsExit
  <2>2. OnlySession /\ UNCHANGED capture
    BY <1>4 DEF ArmsExit
  <2>3. /\ [run |-> gaming.run, app |-> gaming.app, session |-> Now.id] \in ExitWatches
        /\ [run |-> gaming.run, app |-> gaming.app, session |-> Now.id].session = session.id
    BY <1>0, <1>1 DEF Follows, TestSessions, ExitWatches, Gamings
  <2>4. CASE ArmSeen(exact)
    BY <1>0, <1>1, <1>2, <2>1, <2>2, <2>3, <2>4, CallKeeps DEF Follows
  <2>5. CASE ~ArmSeen(exact)
    BY <1>0, <1>1, <1>2, <1>3, <2>1, <2>2, <2>5, CallKeeps DEF Follows
  <2> QED
    BY <2>4, <2>5
<1>5. CASE CapturesExit
  <2> DEFINE to == WithSave(Now, TRUE, now)
             saved == [to EXCEPT !.captured = @ \cup {"save"},
                         !.observed = IF watch.session = Now.id THEN @ \cup {"save"} ELSE @]
  <2>1. PICK exact \in BOOLEAN, boot \in Boots :
          IF watch # NoWatchYet /\ ExitSeen(exact)
          THEN CallOf(Now, boot, IF to.stage # "active" THEN to ELSE saved)
          ELSE CallOf(Now, boot, RequireAction(Now, now))
    BY <1>5 DEF CapturesExit
  <2>2. OnlySession /\ UNCHANGED capture /\ watch' = NoWatchYet
    BY <1>5 DEF CapturesExit
  <2>3. to \in TestSessions /\ Follows(session, to) /\ to.captured \subseteq to.observed
    BY <1>0, <1>1, <1>2 DEF Follows
  <2>4. watch # NoWatchYet => watch.session = Now.id
    BY <1>0, <1>1 DEF Follows
  <2>5. watch # NoWatchYet => /\ saved \in TestSessions /\ saved.id = session.id
                              /\ saved.captured \subseteq saved.observed
    <3> HIDE DEF to
    <3>1. to.captured \cup {"save"} \in SUBSET Tests /\ to.observed \cup {"save"} \in SUBSET Tests
      BY <2>3 DEF TestSessions, Tests
    <3>2. ASSUME NEW c \in SUBSET Tests, NEW o \in SUBSET Tests
          PROVE  /\ [to EXCEPT !.captured = c, !.observed = o] \in TestSessions
                 /\ [to EXCEPT !.captured = c, !.observed = o].id = to.id
                 /\ [to EXCEPT !.captured = c, !.observed = o].captured = c
                 /\ [to EXCEPT !.captured = c, !.observed = o].observed = o
      BY <2>3 DEF TestSessions
    <3> DEFINE c == to.captured \cup {"save"}
               o == to.observed \cup {"save"}
    <3>3. watch # NoWatchYet => saved = [to EXCEPT !.captured = c, !.observed = o]
      BY <2>4
    <3>4. c \in SUBSET Tests /\ o \in SUBSET Tests /\ c \subseteq o
      BY <2>3, <3>1
    <3> HIDE DEF c, o, saved
    <3> DEFINE new == [to EXCEPT !.captured = c, !.observed = o]
    <3>5. new \in TestSessions /\ new.id = to.id /\ new.captured = c /\ new.observed = o
      BY <3>2, <3>4
    <3> HIDE DEF new
    <3> QED
      BY <2>3, <3>3, <3>4, <3>5 DEF Follows, new
  <2> HIDE DEF to, saved
  <2>6. CASE watch # NoWatchYet /\ ExitSeen(exact)
    <3> DEFINE into == IF to.stage # "active" THEN to ELSE saved
    <3>1. into \in TestSessions /\ into.id = session.id /\ into.captured \subseteq into.observed
      BY <2>3, <2>5, <2>6 DEF Follows
    <3>2. CallOf(Now, boot, into)
      BY <2>1, <2>6
    <3> HIDE DEF into
    <3> QED
      BY <1>3, <2>2, <3>1, <3>2, CallKeeps
  <2>7. CASE ~(watch # NoWatchYet /\ ExitSeen(exact))
    BY <1>0, <1>1, <1>2, <1>3, <2>1, <2>2, <2>7, CallKeeps DEF Follows
  <2> QED
    BY <2>6, <2>7
<1> QED
  BY <1>4, <1>5
-----------------------------------------------------------------------------
(* The collectors                                                          *)

\* What a capture notices of a scene.
LEMMA NoticedTyped ==
  ASSUME NEW c \in Captures, NEW scene \in Gamings
  PROVE  /\ Noticed(c, scene) \in Captures
         /\ Noticed(c, scene).at = c.at /\ Noticed(c, scene).of = c.of
         /\ c.docked = TRUE => Noticed(c, scene).docked = TRUE
         /\ c.rendered = TRUE => Noticed(c, scene).rendered = TRUE
         /\ c.at # "off" /\ scene.docked = TRUE => Noticed(c, scene).docked = TRUE
         /\ c.at # "off" /\ scene.external = TRUE /\ scene.run = c.run =>
              Noticed(c, scene).rendered = TRUE
<1> DEFINE d == c.docked \/ scene.docked
           r == c.rendered \/ (scene.external /\ scene.run = c.run)
<1>1. /\ d \in BOOLEAN /\ r \in BOOLEAN
      /\ (d <=> c.docked \/ scene.docked)
      /\ (r <=> c.rendered \/ (scene.external /\ scene.run = c.run))
  BY DEF Captures, Gamings
<1>2. ASSUME NEW x \in BOOLEAN, NEW y \in BOOLEAN
      PROVE  /\ [c EXCEPT !.docked = x, !.rendered = y] \in Captures
             /\ [c EXCEPT !.docked = x, !.rendered = y].at = c.at
             /\ [c EXCEPT !.docked = x, !.rendered = y].of = c.of
             /\ [c EXCEPT !.docked = x, !.rendered = y].docked = x
             /\ [c EXCEPT !.docked = x, !.rendered = y].rendered = y
  BY DEF Captures
<1>3. Noticed(c, scene) = IF c.at = "off" THEN c ELSE [c EXCEPT !.docked = d, !.rendered = r]
  BY DEF Noticed
<1> HIDE DEF d, r
<1>4. c.docked \in BOOLEAN /\ c.rendered \in BOOLEAN
  BY DEF Captures
<1>5. CASE c.at = "off"
  BY <1>3, <1>5
<1>6. CASE c.at # "off"
  <2>1. /\ Noticed(c, scene) \in Captures
        /\ Noticed(c, scene).at = c.at /\ Noticed(c, scene).of = c.of
        /\ Noticed(c, scene).docked = d /\ Noticed(c, scene).rendered = r
    <3> DEFINE new == [c EXCEPT !.docked = d, !.rendered = r]
    <3>1. /\ new \in Captures /\ new.at = c.at /\ new.of = c.of
          /\ new.docked = d /\ new.rendered = r
      BY <1>1, <1>2
    <3>2. Noticed(c, scene) = new
      BY <1>3, <1>6
    <3> HIDE DEF new
    <3> QED
      BY <3>1, <3>2
  <2> QED
    BY <1>1, <2>1
<1> QED
  BY <1>5, <1>6

\* Games, dock, clock and the player's switch move under the calls.
LEMMA WorldMovesKeep ==
  ASSUME TestInv, WorldMovesOn \/ TimePasses \/ PlayerSwitches
  PROVE  TestInv'
<1>0. /\ session \in TestSessions /\ now \in Nat /\ watch \in ExitWatches
      /\ watch = NoWatchYet \/ watch.session = session.id
      /\ capture \in Captures
      /\ session.captured \subseteq session.observed /\ gaming \in Gamings
      /\ (session.stage \in TestEnded /\ capture.at = "off" /\ logging.on => logging = word)
  BY DEF TestInv, TestTyped, ExitWatchHolds, ResultsAreObserved, EndedTestLeavesNoLogging, NoLock
<1>1. CASE WorldMovesOn
  <2>1. gaming' \in Gamings
    <3>1. /\ gaming.run \in Nat /\ gaming.starts + 1 \in Nat /\ NoApp \in SomeApp /\ Apps \subseteq SomeApp
      BY <1>0 DEF Gamings, SomeApp
    <3>2. ASSUME NEW run \in Nat, NEW app \in SomeApp, NEW n \in Nat
          PROVE  /\ [gaming EXCEPT !.run = run, !.app = app, !.starts = n] \in Gamings
                 /\ [gaming EXCEPT !.run = run, !.app = app] \in Gamings
      BY <1>0 DEF Gamings
    <3>3. \A b \in BOOLEAN : /\ [gaming EXCEPT !.external = b] \in Gamings
                             /\ [gaming EXCEPT !.docked = b] \in Gamings
      BY <1>0 DEF Gamings
    <3>4. (~gaming.external) \in BOOLEAN /\ (~gaming.docked) \in BOOLEAN /\ 0 \in Nat
      OBVIOUS
    <3>5. ASSUME NEW app \in Apps,
                 gaming' = [gaming EXCEPT !.run = gaming.starts + 1, !.app = app,
                                          !.starts = @ + 1]
          PROVE  gaming' \in Gamings
      BY <3>1, <3>2, <3>5
    <3>6. CASE gaming' = [gaming EXCEPT !.run = 0, !.app = NoApp]
      BY <3>1, <3>2, <3>4, <3>6
    <3>7. CASE gaming' = [gaming EXCEPT !.external = ~@]
      <4> DEFINE b == ~gaming.external
      <4>1. b \in BOOLEAN
        BY <3>4
      <4>2. gaming' = [gaming EXCEPT !.external = b]
        BY <3>7, Zenon
      <4> HIDE DEF b
      <4> QED
        BY <3>3, <4>1, <4>2
    <3>8. CASE gaming' = [gaming EXCEPT !.docked = ~@]
      <4> DEFINE b == ~gaming.docked
      <4>1. b \in BOOLEAN
        BY <3>4
      <4>2. gaming' = [gaming EXCEPT !.docked = b]
        BY <3>8, Zenon
      <4> HIDE DEF b
      <4> QED
        BY <3>3, <4>1, <4>2
    <3> QED
      BY <1>1, <3>5, <3>6, <3>7, <3>8 DEF WorldMovesOn
  <2>2. capture' = Noticed(capture, gaming')
    BY <1>1 DEF WorldMovesOn
  <2>3. /\ capture' \in Captures /\ capture'.at = capture.at /\ capture'.of = capture.of
        /\ capture.docked = TRUE => capture'.docked = TRUE
        /\ capture.rendered = TRUE => capture'.rendered = TRUE
    BY <1>0, <2>1, <2>2, NoticedTyped
  <2>4. SeenHolds'
    BY <2>3 DEF TestInv, SeenHolds
  <2>5. UNCHANGED <<now, logging, word, session, watch>>
    BY <1>1 DEF WorldMovesOn, loggingVars
  <2> QED
    BY <1>0, <2>1, <2>3, <2>4, <2>5, TestKeeps
<1>2. CASE TimePasses
  <2>1. now' \in Nat /\ UNCHANGED <<logging, word, gaming, session, watch, capture>>
    BY <1>0, <1>2 DEF TimePasses, ClockTicks
  <2> QED
    BY <1>0, <2>1, TestKeeps DEF TestInv, SeenHolds
<1>3. CASE PlayerSwitches
  <2>1. logging' = word' /\ UNCHANGED <<now, gaming, session, watch, capture>>
    BY <1>3 DEF PlayerSwitches, Enable, Disable
  <2> QED
    BY <1>0, <2>1, TestKeeps DEF TestInv, SeenHolds
<1> QED
  BY <1>1, <1>2, <1>3

\* A collector begins with nothing read.
LEMMA BeginKeeps ==
  ASSUME TestInv, CapturesBaseline \/ CapturesHandoff
  PROVE  TestInv'
<1>0. /\ session \in TestSessions /\ now \in Nat /\ watch \in ExitWatches
      /\ watch = NoWatchYet \/ watch.session = session.id
      /\ session.captured \subseteq session.observed
  BY DEF TestInv, TestTyped, ExitWatchHolds, ResultsAreObserved
<1>1. Now \in TestSessions /\ Follows(session, Now)
  BY <1>0, Policy DEF Now, Follows
<1>2. ASSUME NEW of \in {"baseline", "handoff"}, CaptureBegins(of) PROVE TestInv'
  <2>1. PICK boot \in Boots : CallOf(Now, boot, Now)
    BY <1>2 DEF CaptureBegins
  <2>2. capture' = [NoCapture EXCEPT !.at = "before", !.of = of, !.now = now]
        /\ OnlySession /\ UNCHANGED watch
    BY <1>2 DEF CaptureBegins
  <2>3. NoCapture \in Captures
    BY DEF NoCapture, Captures, SomeApp
  <2>4. capture' \in Captures /\ capture'.at = "before"
    BY <1>0, <2>2, <2>3 DEF Captures
  <2> QED
    BY <1>0, <1>1, <2>1, <2>2, <2>4, CallKeeps DEF Follows
<1> QED
  BY <1>2 DEF CapturesBaseline, CapturesHandoff

\* A reading that goes on notices what it saw.
LEMMA GoesOnKeeps ==
  ASSUME TestInv, OnlySession, capture.at # "off", NEW c \in Captures, c.at # "off",
         CaptureGoesOn(c),
         c.of = "handoff" /\ c.at \in {"counters", "after"} => c.docked = TRUE \/ gaming.docked = TRUE,
         c.of = "handoff" /\ c.at = "after" =>
           \/ c.rendered = TRUE
           \/ gaming.external = TRUE /\ gaming.run = c.run
  PROVE  TestInv'
<1>0. /\ session \in TestSessions /\ now \in Nat /\ watch \in ExitWatches
      /\ watch = NoWatchYet \/ watch.session = session.id
      /\ session.captured \subseteq session.observed /\ gaming \in Gamings
  BY DEF TestInv, TestTyped, ExitWatchHolds, ResultsAreObserved
<1>1. capture' = Noticed(c, gaming) /\ UNCHANGED <<logging, session, watch>>
  BY DEF CaptureGoesOn
<1>2. /\ capture' \in Captures /\ capture'.at = c.at /\ capture'.of = c.of
      /\ c.docked = TRUE => capture'.docked = TRUE
      /\ c.rendered = TRUE => capture'.rendered = TRUE
      /\ gaming.docked = TRUE => capture'.docked = TRUE
      /\ gaming.external = TRUE /\ gaming.run = c.run => capture'.rendered = TRUE
  BY <1>0, <1>1, NoticedTyped
<1>3. SeenHolds'
  BY <1>2 DEF SeenHolds
<1> QED
  BY <1>0, <1>1, <1>2, <1>3, TestKeeps DEF OnlySession

\* A collector's reads, each at an instant of the capture.
LEMMA ReadKeeps ==
  ASSUME TestInv, ReadsGameBefore \/ ReadsSnapshot \/ ReadsCounters
  PROVE  TestInv'
<1>0. capture \in Captures /\ gaming \in Gamings /\ OnlySession /\ SeenHolds
  BY DEF TestInv, TestTyped, ReadsGameBefore, ReadsSnapshot, ReadsCounters
<1>1. ASSUME NEW at \in {"snapshot", "counters", "after"}
      PROVE  /\ [capture EXCEPT !.at = at] \in Captures
             /\ [capture EXCEPT !.at = at].at = at
             /\ [capture EXCEPT !.at = at].of = capture.of
             /\ [capture EXCEPT !.at = at].run = capture.run
             /\ [capture EXCEPT !.at = at].docked = capture.docked
             /\ [capture EXCEPT !.at = at].rendered = capture.rendered
  BY <1>0 DEF Captures
<1>2. CASE ReadsGameBefore
  <2> DEFINE c == [capture EXCEPT !.at = "snapshot", !.run = gaming.run, !.app = gaming.app]
  <2>1. c \in Captures /\ c.at = "snapshot"
    BY <1>0 DEF Captures, Gamings
  <2>2. capture.at # "off" /\ CaptureGoesOn(c)
    BY <1>2 DEF ReadsGameBefore
  <2> HIDE DEF c
  <2> QED
    BY <1>0, <2>1, <2>2, GoesOnKeeps
<1>3. CASE ReadsSnapshot
  <2> DEFINE c == [capture EXCEPT !.at = "counters"]
  <2>1. /\ c \in Captures /\ c.at = "counters" /\ c.of = capture.of
    BY <1>1
  <2>2. capture.at # "off" /\ CaptureGoesOn(c)
    BY <1>3 DEF ReadsSnapshot
  <2>3. capture.of = "handoff" => gaming.docked = TRUE
    BY <1>0, <1>3 DEF ReadsSnapshot, Placed, Gamings
  <2> HIDE DEF c
  <2> QED
    BY <1>0, <2>1, <2>2, <2>3, GoesOnKeeps
<1>4. CASE ReadsCounters
  <2> DEFINE c == [capture EXCEPT !.at = "after"]
  <2>1. /\ c \in Captures /\ c.at = "after" /\ c.of = capture.of /\ c.run = capture.run
        /\ c.docked = capture.docked
    BY <1>1
  <2>2. capture.at = "counters" /\ CaptureGoesOn(c) /\ gaming.run = capture.run
    BY <1>4 DEF ReadsCounters, SameGame
  <2>3. capture.of = "handoff" => gaming.external = TRUE /\ capture.docked = TRUE
    BY <1>0, <1>4 DEF ReadsCounters, CountersGrew, Gamings, SeenHolds
  <2> HIDE DEF c
  <2> QED
    BY <1>0, <2>1, <2>2, <2>3, GoesOnKeeps
<1> QED
  BY <1>2, <1>3, <1>4

\* The collector answers and the lock is released.
LEMMA EndKeeps ==
  ASSUME TestInv, NEW to \in TestSessions, to.id = session.id, to.captured \subseteq to.observed,
         CaptureEnds(to)
  PROVE  TestInv'
<1>1. /\ session' = to /\ logging' = Directed(logging, to) /\ capture' = NoCapture
      /\ UNCHANGED <<now, word, gaming, watch>>
  BY DEF CaptureEnds, OnlySession
<1>2. to.stage \in TestEnded => ~logging'.on
  BY <1>1, DirectedEnds
<1>3. NoCapture \in Captures /\ NoCapture.of = "none"
  BY DEF NoCapture, Captures, SomeApp
<1>4. SeenHolds'
  BY <1>1, <1>3 DEF SeenHolds
<1> QED
  BY <1>1, <1>2, <1>3, <1>4, TestKeeps DEF TestInv, TestTyped, ExitWatchHolds

\* A collector that answers records what it has read of the capture.
LEMMA AnswerKeeps ==
  ASSUME TestInv, CaptureRejected \/ BaselineCaptured \/ HandoffCaptured
  PROVE  TestInv'
<1>0. /\ session \in TestSessions /\ now \in Nat /\ capture \in Captures
      /\ session.captured \subseteq session.observed /\ capture.now \in Nat
      /\ capture.app \in SomeApp
  BY DEF TestInv, TestTyped, ResultsAreObserved, Captures
<1>1. ASSUME NEW to, Follows(session, to), CaptureEnds(to) PROVE TestInv'
  BY <1>0, <1>1, EndKeeps DEF Follows
<1>2. CASE CaptureRejected
  <2>1. (IF capture.of = "baseline" THEN now ELSE capture.now) \in Nat
    BY <1>0
  <2> QED
    BY <1>0, <1>1, <1>2, <2>1, Policy DEF CaptureRejected
<1>3. CASE BaselineCaptured
  BY <1>0, <1>1, <1>3, Policy DEF BaselineCaptured
<1>4. CASE HandoffCaptured
  <2>1. PICK fresh \in BOOLEAN :
          LET to == WithHandoff(session, "verified", "external", fresh, capture.now) IN
            CaptureEnds(IF to.stage # "active" THEN to
                        ELSE [to EXCEPT !.captured = @ \cup {"handoff"},
                               !.observed = IF capture.docked /\ capture.rendered
                                            THEN @ \cup {"handoff"} ELSE @])
    BY <1>4 DEF HandoffCaptured
  <2> DEFINE to == WithHandoff(session, "verified", "external", fresh, capture.now)
             seen == [to EXCEPT !.captured = @ \cup {"handoff"},
                        !.observed = IF capture.docked /\ capture.rendered
                                     THEN @ \cup {"handoff"} ELSE @]
  <2>2. to \in TestSessions /\ Follows(session, to) /\ to.captured \subseteq to.observed
    BY <1>0, Policy DEF Follows
  <2>3. CaptureEnds(IF to.stage # "active" THEN to ELSE seen)
    BY <2>1
  <2>4. capture.docked = TRUE /\ capture.rendered = TRUE
    BY <1>4 DEF TestInv, SeenHolds, HandoffCaptured
  <2> HIDE DEF to
  <2>5. seen \in TestSessions /\ seen.id = session.id /\ seen.captured \subseteq seen.observed
    <3> DEFINE c == to.captured \cup {"handoff"}
               o == to.observed \cup {"handoff"}
    <3>1. c \in SUBSET Tests /\ o \in SUBSET Tests /\ c \subseteq o
      BY <2>2 DEF TestSessions, Tests
    <3>2. seen = [to EXCEPT !.captured = c, !.observed = o]
      BY <2>4
    <3> HIDE DEF c, o, seen
    <3> DEFINE new == [to EXCEPT !.captured = c, !.observed = o]
    <3>3. new \in TestSessions /\ new.id = to.id /\ new.captured = c /\ new.observed = o
      BY <2>2, <3>1 DEF TestSessions
    <3> HIDE DEF new
    <3> QED
      BY <2>2, <3>1, <3>2, <3>3 DEF Follows, new
  <2> HIDE DEF seen
  <2> QED
    BY <2>2, <2>3, <2>5, EndKeeps DEF Follows
<1> QED
  BY <1>2, <1>3, <1>4

-----------------------------------------------------------------------------
(* The theorems                                                            *)

\* The inductive invariant of the compatibility test and its logging.
THEOREM TestInvariant == TestSpec => []TestInv
<1>1. TestInit => TestInv
  <2> SUFFICES ASSUME TestInit PROVE TestInv
    OBVIOUS
  <2>1. /\ NoSession \in TestSessions /\ NoWatchYet \in ExitWatches /\ NoCapture \in Captures
    BY DEF NoSession, TestSessions, SomeApp, NoWatchYet, ExitWatches, NoCapture, Captures
  <2>2. /\ NoSession.captured = {} /\ NoSession.stage = "none" /\ NoCapture.of = "none"
    BY DEF NoSession, NoCapture
  <2>3. TestTyped
    BY <2>1 DEF TestInit, LoggingInit, TestTyped, Gamings, SomeApp
  <2> QED
    BY <2>2, <2>3 DEF TestInit, TestInv, ExitWatchHolds, SeenHolds, ResultsAreObserved,
                      EndedTestLeavesNoLogging, TestEnded
<1>2. TestInv /\ [TestNext]_testVars => TestInv'
  <2> SUFFICES ASSUME TestInv, [TestNext]_testVars PROVE TestInv'
    OBVIOUS
  <2>1. CASE UNCHANGED testVars
    BY <2>1 DEF testVars, loggingVars, TestInv, TestTyped, ExitWatchHolds, SeenHolds,
                ResultsAreObserved, EndedTestLeavesNoLogging, NoLock
  <2>2. CASE TestNext
    BY <2>2, WorldMovesKeep, StatusKeeps, StartKeeps, BeginKeeps, ReadKeeps, AnswerKeeps, ExitKeeps
       DEF TestNext
  <2> QED
    BY <2>1, <2>2
<1> QED
  BY <1>1, <1>2, PTL DEF TestSpec

\* A result a collector recorded was so at some instant of its capture
\* (capture_egpu_handoff, capture_save_exit).
THEOREM TestResultsAreObserved == TestSpec => []ResultsAreObserved
<1>1. TestInv => ResultsAreObserved
  BY DEF TestInv
<1> QED
  BY <1>1, TestInvariant, PTL

\* Once a test has ended, the only verbose logging that may be on is one the
\* player asked for (_apply_logging_directives_locked).
THEOREM TestEndLeavesNoLogging == TestSpec => []EndedTestLeavesNoLogging
<1>1. TestInv => EndedTestLeavesNoLogging
  BY DEF TestInv
<1> QED
  BY <1>1, TestInvariant, PTL
================================================================================
