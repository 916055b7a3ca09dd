----------------------------- MODULE HandoffProofs -----------------------------
(***************************************************************************)
(* What the handoffs and the recoveries promise of the world, which moves  *)
(* between any two of their steps, for any sinks, devices and samples.     *)
(***************************************************************************)
EXTENDS AudioHandoff, UndockRecovery, PeripheralHandoff, NativeRecovery, Integers, TLAPS

-----------------------------------------------------------------------------
(* The return to Portable by SteamOS itself (NativeRecovery)                *)

\* An incident began with a loss that was observed.
NativeInv == native.incident => lossSeen

\* A verified return needs a loss that the opted-in loop observed after the dock, and
\* answers it once (NativePortableRecoverySupervisor.update and its loop).
THEOREM NativeRestoresALoss == NativeSpec => RestoreFollowsLoss
<1>1. NativeInit => NativeInv
  BY DEF NativeInit, NativeInv, Supervisor
<1>2. ASSUME NativeInv, Supervise
      PROVE  /\ NativeInv'
             /\ native'.stage = "recovered" => native.incident
  <2>1. ASSUME native' = Reset \/ native' = ActionRequired
        PROVE  ~native'.incident /\ native'.stage # "recovered"
    BY <2>1 DEF Reset, ActionRequired, Supervisor
  <2>2. ASSUME native' = Recovered PROVE ~native'.incident
    BY <2>2 DEF Recovered, Supervisor
  <2>3. ASSUME native' = Waiting PROVE native'.stage # "recovered"
    BY <2>3 DEF Waiting, Supervisor
  <2>4. ASSUME native' = Supervisor(TRUE, FALSE, "armed")
        PROVE  ~native'.incident /\ native'.stage # "recovered"
    BY <2>4 DEF Supervisor
  <2>5. CASE ~nativeLoop.enabled
    BY <1>2, <2>1, <2>5 DEF Supervise, NativeInv
  <2>6. CASE nativeLoop.enabled
    <3>1. native' \in Updated(nativeLoop.saw)
      BY <1>2, <2>6 DEF Supervise
    <3>2. native' = Recovered => native.incident
      BY <3>1, <2>1, <2>3, <2>4, <2>2 DEF Updated, Recovered, Reset, ActionRequired, Waiting,
                                    Supervisor
    <3>3. native' = Waiting => /\ nativeLoop.saw # "docked"
                               /\ native.incident \/ nativeLoop.saw = "lost"
      BY <3>1 DEF Updated, Recovered, Reset, ActionRequired, Waiting, Supervisor
    <3>4. native' = Waiting => lossSeen'
      BY <1>2, <2>3, <2>6, <3>3 DEF Supervise, NativeInv
    <3>5. \/ native' \in {Recovered, Waiting, Reset, ActionRequired}
          \/ native' = Supervisor(TRUE, FALSE, "armed")
      BY <3>1 DEF Updated
    <3> QED
      BY <2>1, <2>2, <2>3, <2>4, <3>2, <3>4, <3>5 DEF NativeInv
  <2> QED
    BY <2>5, <2>6
<1>3. ASSUME NativeInv, [NativeNext]_nativeVars, ~Supervise
      PROVE  /\ NativeInv'
             /\ native'.stage = "recovered" => native.stage = "recovered"
  BY <1>3 DEF NativeInv, NativeNext, SceneChanges, LoadOptIn, ObserveScene, RestoreReturns,
         NativeReloads, nativeVars, Reset, Supervisor
<1>4. NativeInv /\ [NativeNext]_nativeVars => NativeInv'
  BY <1>2, <1>3
<1>5. NativeInv /\ [NativeNext]_nativeVars =>
        [native'.stage = "recovered" /\ native.stage # "recovered" => lossSeen]_nativeVars
  BY <1>2, <1>3 DEF NativeInv
<1> QED
  BY <1>1, <1>4, <1>5, PTL DEF NativeSpec, RestoreFollowsLoss

-----------------------------------------------------------------------------
(* The sound (AudioHandoff)                                                 *)

CallPlaces == {"off", "dock", "panel", "capture", "save", "replace", "set", "verify", "ok",
               "failed", "back"}

AudioCalls == [at : CallPlaces, to : Sinks \cup {NoSink}, before : Sinks \cup {NoSink},
               changed : BOOLEAN, created : BOOLEAN, seen : BOOLEAN]

AudioInv ==
  /\ sinks \in {PanelSinks, Sinks} /\ default \in Sinks
  /\ stored \in Sinks \cup {NoSink} /\ temporary \in Sinks \cup {NoSink}
  /\ call \in [Threads -> AudioCalls]
  /\ AnswersAreSeen

\* What a call has seen stays seen, and it sees its sink be the default.
LEMMA WitnessedCalls ==
  ASSUME NEW calls \in [Threads -> AudioCalls], call' = Witnessed(calls)
  PROVE  /\ call' \in [Threads -> AudioCalls]
         /\ \A t \in Threads :
              /\ call'[t].at = calls[t].at /\ call'[t].to = calls[t].to
              /\ calls[t].seen => call'[t].seen
              /\ calls[t].to = default' => call'[t].seen
BY DEF Witnessed, AudioCalls

\* One call goes on: it may answer success if its sink is the default now, or if it
\* has seen that.
LEMMA AudioGoesOn ==
  ASSUME AudioInv, NEW t \in Threads, NEW c \in AudioCalls,
         c.at = "ok" /\ c.to # NoSink => c.seen \/ c.to = default',
         call' = Witnessed([call EXCEPT ![t] = c]),
         sinks' \in {PanelSinks, Sinks}, default' \in Sinks,
         stored' \in Sinks \cup {NoSink}, temporary' \in Sinks \cup {NoSink}
  PROVE  AudioInv'
<1> DEFINE calls == [call EXCEPT ![t] = c]
<1>1. /\ calls \in [Threads -> AudioCalls] /\ calls[t] = c
      /\ \A u \in Threads \ {t} : calls[u] = call[u]
  BY DEF AudioInv
<1>2. call' = Witnessed(calls)
  OBVIOUS
<1> HIDE DEF calls
<1>3. /\ call' \in [Threads -> AudioCalls]
      /\ \A u \in Threads :
           /\ call'[u].at = calls[u].at /\ call'[u].to = calls[u].to
           /\ calls[u].seen => call'[u].seen
           /\ calls[u].to = default' => call'[u].seen
  BY <1>1, <1>2, WitnessedCalls
<1>4. call'[t].at = "ok" /\ call'[t].to # NoSink => call'[t].seen
  BY <1>1, <1>3
<1>5. \A u \in Threads \ {t} : call'[u].at = "ok" /\ call'[u].to # NoSink => call'[u].seen
  BY <1>1, <1>3 DEF AudioInv, AnswersAreSeen
<1>6. AnswersAreSeen'
  BY <1>4, <1>5 DEF AnswersAreSeen
<1> QED
  BY <1>3, <1>6 DEF AudioInv


\* The same of a step that leaves the default alone.
LEMMA AudioKeeps ==
  ASSUME AudioInv, NEW t \in Threads, NEW c \in AudioCalls, GoOn(t, c),
         c.at = "ok" /\ c.to # NoSink => c.seen \/ c.to = default,
         stored' \in Sinks \cup {NoSink}, temporary' \in Sinks \cup {NoSink}
  PROVE  AudioInv'
<1>1. call' = Witnessed([call EXCEPT ![t] = c]) /\ UNCHANGED <<sinks, default>>
  BY DEF GoOn
<1>2. /\ sinks' \in {PanelSinks, Sinks} /\ default' \in Sinks
      /\ c.at = "ok" /\ c.to # NoSink => c.seen \/ c.to = default'
  BY <1>1 DEF AudioInv
<1> QED
  BY <1>1, <1>2, AudioGoesOn

\* A call that answers, and anything but success unless it selects no sink.
LEMMA AudioAnswered ==
  ASSUME AudioInv, NEW t \in Threads, NEW answer \in CallPlaces, Answers(t, answer),
         answer # "ok" \/ call[t].to = NoSink,
         stored' \in Sinks \cup {NoSink}, temporary' \in Sinks \cup {NoSink}
  PROVE  AudioInv'
<1> DEFINE c == [call[t] EXCEPT !.at = answer]
<1>1. c \in AudioCalls /\ c.at = answer /\ c.to = call[t].to
  BY DEF AudioInv, AudioCalls
<1>2. GoOn(t, c)
  BY DEF Answers
<1> HIDE DEF c
<1> QED
  BY <1>1, <1>2, AudioKeeps

\* switch observes: it selects a sink, or answers at once what it sees.
LEMMA AudioSwitches ==
  ASSUME AudioInv, NEW t \in Threads, SwitchToG1(t) \/ SwitchToPanel(t) \/ RememberPortable(t)
  PROVE  AudioInv'
<1>1. /\ stored' \in Sinks \cup {NoSink} /\ temporary' \in Sinks \cup {NoSink}
      /\ stored \in Sinks \cup {NoSink} /\ default \in Sinks /\ call[t] \in AudioCalls
      /\ G1Sink \in Sinks
  BY DEF SwitchToG1, SwitchToPanel, RememberPortable, FilesStay, AudioInv, Sinks
<1>2. CASE Answers(t, "failed")
  BY <1>1, <1>2, AudioAnswered DEF CallPlaces
<1>3. CASE \E at \in {"ok", "failed"} :
             default = G1Sink /\ GoOn(t, [call[t] EXCEPT !.at = at, !.to = G1Sink])
  <2>1. PICK at \in {"ok", "failed"} :
          default = G1Sink /\ GoOn(t, [call[t] EXCEPT !.at = at, !.to = G1Sink])
    BY <1>3
  <2> DEFINE c == [call[t] EXCEPT !.at = at, !.to = G1Sink]
  <2>2. c \in AudioCalls /\ c.to = default /\ GoOn(t, c)
    BY <1>1, <2>1 DEF AudioCalls, CallPlaces
  <2> HIDE DEF c
  <2> QED
    BY <1>1, <2>2, AudioKeeps
<1>4. CASE \E created \in BOOLEAN :
             GoOn(t, [call[t] EXCEPT !.at = "save", !.to = G1Sink, !.before = default,
                                     !.created = created])
  <2>1. PICK created \in BOOLEAN :
          GoOn(t, [call[t] EXCEPT !.at = "save", !.to = G1Sink, !.before = default,
                                  !.created = created])
    BY <1>4
  <2> DEFINE c == [call[t] EXCEPT !.at = "save", !.to = G1Sink, !.before = default,
                                  !.created = created]
  <2>2. c \in AudioCalls /\ c.at = "save" /\ GoOn(t, c)
    BY <1>1, <2>1 DEF AudioCalls, CallPlaces
  <2> HIDE DEF c
  <2> QED
    BY <1>1, <2>2, AudioKeeps
<1>5. CASE \E at \in {"ok", "set"} :
             /\ at = "ok" => default = stored
             /\ GoOn(t, [call[t] EXCEPT !.at = at, !.to = stored, !.before = default])
  <2>1. PICK at \in {"ok", "set"} :
             /\ at = "ok" => default = stored
             /\ GoOn(t, [call[t] EXCEPT !.at = at, !.to = stored, !.before = default])
    BY <1>5
  <2> DEFINE c == [call[t] EXCEPT !.at = at, !.to = stored, !.before = default]
  <2>2. c \in AudioCalls /\ (c.at = "ok" => c.to = default) /\ GoOn(t, c)
    BY <1>1, <2>1 DEF AudioCalls, CallPlaces
  <2> HIDE DEF c
  <2> QED
    BY <1>1, <2>2, AudioKeeps
<1>6. CASE GoOn(t, [call[t] EXCEPT !.at = "save", !.before = default])
  <2> DEFINE c == [call[t] EXCEPT !.at = "save", !.before = default]
  <2>1. c \in AudioCalls /\ c.at = "save" /\ GoOn(t, c)
    BY <1>1, <1>6 DEF AudioCalls, CallPlaces
  <2> HIDE DEF c
  <2> QED
    BY <1>1, <2>1, AudioKeeps
<1> QED
  BY <1>2, <1>3, <1>4, <1>5, <1>6 DEF SwitchToG1, SwitchToPanel, RememberPortable

\* The file is saved, through the shared temporary one.
LEMMA AudioSaves ==
  ASSUME AudioInv, NEW t \in Threads, SaveBegins(t) \/ SaveReplaces(t)
  PROVE  AudioInv'
<1>1. PICK answer \in CallPlaces :
        Answers(t, answer) /\ (answer # "ok" \/ call[t].to = NoSink)
  BY DEF SaveBegins, SaveReplaces, Answers, Saved, CallPlaces
<1>2. call[t].before \in Sinks \cup {NoSink}
  BY DEF AudioInv, AudioCalls
<1>3. stored' \in Sinks \cup {NoSink} /\ temporary' \in Sinks \cup {NoSink}
  BY <1>2 DEF SaveBegins, SaveReplaces, FilesStay, AudioInv
<1> QED
  BY <1>1, <1>3, AudioAnswered

\* wpctl is called, and the default looked at.
LEMMA AudioSets ==
  ASSUME AudioInv, NEW t \in Threads, SetDefault(t) \/ VerifyDefault(t)
  PROVE  AudioInv'
<1>1. /\ stored' \in Sinks \cup {NoSink} /\ temporary' \in Sinks \cup {NoSink}
      /\ call[t] \in AudioCalls
  BY DEF SetDefault, VerifyDefault, FilesStay, AudioInv
<1>2. CASE \E answer \in {"failed", "verify"} : Answers(t, answer)
  BY <1>1, <1>2, AudioAnswered DEF CallPlaces
<1>3. CASE SetDefault(t) /\ ~\E answer \in {"failed", "verify"} : Answers(t, answer)
  <2>1. PICK answer \in {"failed", "verify"} :
          /\ call[t].to \in sinks /\ default' = call[t].to /\ UNCHANGED sinks
          /\ call' = Witnessed([call EXCEPT ![t].at = answer])
    BY <1>3 DEF SetDefault
  <2> DEFINE c == [call[t] EXCEPT !.at = answer]
  <2>2. c \in AudioCalls /\ c.at = answer
    BY <1>1 DEF AudioCalls, CallPlaces
  <2>3. [call EXCEPT ![t].at = answer] = [call EXCEPT ![t] = c]
    BY DEF AudioInv, AudioCalls
  <2>4. default' \in Sinks /\ sinks' \in {PanelSinks, Sinks}
    BY <2>1 DEF AudioInv, Sinks
  <2> HIDE DEF c
  <2>5. call' = Witnessed([call EXCEPT ![t] = c])
    BY <2>1, <2>3
  <2> QED
    BY <1>1, <2>2, <2>4, <2>5, AudioGoesOn
<1>4. CASE VerifyDefault(t) /\ ~Answers(t, "failed")
  <2> DEFINE c == [call[t] EXCEPT !.at = "ok", !.changed = TRUE]
  <2>1. GoOn(t, c) /\ default = call[t].to
    BY <1>4 DEF VerifyDefault
  <2>2. c \in AudioCalls /\ c.to = default
    BY <1>1, <2>1 DEF AudioCalls, CallPlaces
  <2> HIDE DEF c
  <2> QED
    BY <1>1, <2>1, <2>2, AudioKeeps
<1> QED
  BY <1>2, <1>3, <1>4

\* A rollback selects the sink the switch had found.
LEMMA AudioRollsBack ==
  ASSUME AudioInv, RollBack \/ ClearCreated
  PROVE  AudioInv'
<1>1. "handoff" \in Threads /\ call["handoff"] \in AudioCalls
  BY DEF Threads, AudioInv
<1>2. CASE Answers("handoff", "failed") /\ FilesStay
  <2>1. stored' \in Sinks \cup {NoSink} /\ temporary' \in Sinks \cup {NoSink}
    BY <1>2 DEF FilesStay, AudioInv
  <2> QED
    BY <1>1, <1>2, <2>1, AudioAnswered DEF CallPlaces
<1>3. CASE RollBack /\ ~Answers("handoff", "failed")
  <2> DEFINE c == [call["handoff"] EXCEPT !.at = "set", !.to = call["handoff"].before,
                                          !.before = NoSink, !.seen = FALSE]
  <2>1. GoOn("handoff", c) /\ FilesStay
    BY <1>3 DEF RollBack
  <2>2. c \in AudioCalls /\ c.at = "set"
    BY <1>1 DEF AudioCalls, CallPlaces
  <2>3. stored' \in Sinks \cup {NoSink} /\ temporary' \in Sinks \cup {NoSink}
    BY <2>1 DEF FilesStay, AudioInv
  <2> HIDE DEF c
  <2> QED
    BY <1>1, <2>1, <2>2, <2>3, AudioKeeps
<1>4. CASE ClearCreated
  <2> DEFINE c == [call["handoff"] EXCEPT !.created = FALSE]
  <2>1. GoOn("handoff", c) /\ stored' = NoSink /\ UNCHANGED temporary
    BY <1>4 DEF ClearCreated
  <2>2. c \in AudioCalls /\ c.at = call["handoff"].at /\ c.to = call["handoff"].to
        /\ (call["handoff"].seen => c.seen)
    BY <1>1 DEF AudioCalls
  <2> HIDE DEF c
  <2>3. c.at = "ok" /\ c.to # NoSink => c.seen
    BY <1>1, <2>2 DEF AudioInv, AnswersAreSeen
  <2>4. stored' \in Sinks \cup {NoSink} /\ temporary' \in Sinks \cup {NoSink}
    BY <2>1 DEF AudioInv
  <2> QED
    BY <1>1, <2>1, <2>2, <2>3, <2>4, AudioKeeps
<1> QED
  BY <1>2, <1>3, <1>4 DEF RollBack

\* A call begins, or is asked to go back, or its thread is free again.
LEMMA AudioCallers ==
  ASSUME AudioInv,
         \/ HandoffSwitches \/ RestoreBegins \/ RememberBegins \/ HandoffRollsBack
         \/ \E t \in Threads : Ends(t)
  PROVE  AudioInv'
<1>1. CASE HandoffSwitches \/ RestoreBegins \/ RememberBegins
  <2>1. PICK t \in Threads, what \in {"dock", "panel", "capture"} : Call(t, what)
    BY <1>1 DEF HandoffSwitches, RestoreBegins, RememberBegins, Threads
  <2> DEFINE c == [Free EXCEPT !.at = what]
  <2>2. c \in AudioCalls /\ c.at = what
    BY DEF Free, AudioCalls, CallPlaces
  <2>3. GoOn(t, c)
    BY <2>1 DEF Call
  <2>4. stored' \in Sinks \cup {NoSink} /\ temporary' \in Sinks \cup {NoSink}
    BY <2>1 DEF Call, FilesStay, AudioInv
  <2> HIDE DEF c
  <2> QED
    BY <2>2, <2>3, <2>4, AudioKeeps
<1>2. CASE HandoffRollsBack
  <2>1. Answers("handoff", "back") /\ FilesStay /\ "handoff" \in Threads
    BY <1>2 DEF HandoffRollsBack, Threads
  <2>2. stored' \in Sinks \cup {NoSink} /\ temporary' \in Sinks \cup {NoSink}
    BY <2>1 DEF FilesStay, AudioInv
  <2> QED
    BY <2>1, <2>2, AudioAnswered DEF CallPlaces
<1>3. ASSUME NEW t \in Threads, Ends(t) PROVE AudioInv'
  <2>1. Free \in AudioCalls /\ Free.at # "ok"
    BY DEF Free, AudioCalls, CallPlaces
  <2>2. call' = [call EXCEPT ![t] = Free] /\ UNCHANGED <<sinks, default, stored, temporary>>
    BY <1>3 DEF Ends
  <2> QED
    BY <2>1, <2>2 DEF AudioInv, AnswersAreSeen
<1> QED
  BY <1>1, <1>2, <1>3

\* The sinks and the files have their types, and the answers have been seen.
THEOREM AudioInvariant == AudioSpec => []AudioInv
<1>1. AudioInit => AudioInv
  BY DEF AudioInit, AudioInv, AudioCalls, CallPlaces, Free, Sinks, AnswersAreSeen
<1>2. AudioInv /\ [AudioNext]_audioVars => AudioInv'
  <2> SUFFICES ASSUME AudioInv, [AudioNext]_audioVars PROVE AudioInv'
    OBVIOUS
  <2>1. CASE SinksChange
    <3>1. /\ call \in [Threads -> AudioCalls] /\ call' = Witnessed(call)
      BY <2>1 DEF SinksChange, AudioInv
    <3>2. /\ call' \in [Threads -> AudioCalls]
          /\ \A t \in Threads : /\ call'[t].at = call[t].at /\ call'[t].to = call[t].to
                                /\ call[t].seen => call'[t].seen
      BY <3>1, WitnessedCalls
    <3>3. AnswersAreSeen'
      BY <3>2 DEF AudioInv, AnswersAreSeen
    <3>4. sinks' \in {PanelSinks, Sinks} /\ default' \in Sinks /\ UNCHANGED <<stored, temporary>>
      BY <2>1 DEF SinksChange, Sinks
    <3> QED
      BY <3>2, <3>3, <3>4 DEF AudioInv
  <2>2. ASSUME NEW t \in Threads, CallRuns(t) PROVE AudioInv'
    BY <2>2, AudioSwitches, AudioSaves, AudioSets DEF CallRuns
  <2>3. CASE RollBack \/ ClearCreated
    BY <2>3, AudioRollsBack
  <2>4. CASE \/ HandoffSwitches \/ RestoreBegins \/ RememberBegins \/ HandoffRollsBack
             \/ \E t \in Threads : Ends(t)
    BY <2>4, AudioCallers
  <2>5. CASE UNCHANGED audioVars
    BY <2>5 DEF audioVars, AudioInv, AnswersAreSeen
  <2> QED
    BY <2>1, <2>2, <2>3, <2>4, <2>5 DEF AudioNext
<1> QED
  BY <1>1, <1>2, PTL DEF AudioSpec

\* Whatever WirePlumber, the player and the other calls do meanwhile: a switch or a
\* rollback that answers success has had its sink as the default during the call
\* (G1AudioHandoff.switch and rollback).
THEOREM AudioAnswersAreSeen == AudioSpec => []AnswersAreSeen
<1>1. AudioInv => AnswersAreSeen
  BY DEF AudioInv
<1> QED
  BY <1>1, AudioInvariant, PTL


-----------------------------------------------------------------------------
(* The loss of the eGPU or of the TV (UndockRecovery)                       *)

RunPlaces == {"off", "trigger", "stable", "fresh", "restore", "verify", "fallback",
              "preserved", "done"}
RunResults == {"none", "blocked", "no_op", "succeeded", "failed", "recovered"}

UndockInv ==
  /\ held \in [loss : BOOLEAN, portable : BOOLEAN]
  /\ DOMAIN recovery = DOMAIN NoRecovery
  /\ recovery.at \in RunPlaces /\ recovery.result \in RunResults
  /\ recovery.at # "done" => recovery.result = "none"
  /\ recovery.at \in {"stable", "fresh", "restore", "verify", "fallback", "preserved"}
       => recovery.event \in LossEvents
  /\ RecoveryIsProved

\* What an instant adds to what the run has been shown.
LEMMA UndockObserved ==
  ASSUME UndockInv, NEW w, Observer(w)
  PROVE  /\ held' \in [loss : BOOLEAN, portable : BOOLEAN]
         /\ held.loss => held'.loss
         /\ held.portable => held'.portable
         /\ recovery'.event \in LossEvents /\ LossProved(recovery'.event, w) /\ ~w.game
              => held'.loss
         /\ ~w.game /\ w.shows = "portable" => held'.portable
<1>1. held'.loss \in BOOLEAN /\ held'.portable \in BOOLEAN
  BY DEF Observer
<1> QED
  BY DEF Observer

\* A run that only changes its place.
LEMMA UndockGoesTo ==
  ASSUME UndockInv, NEW at \in RunPlaces \ {"done"}, GoesTo(at), recovery.at # "done",
         at \in {"stable", "fresh", "restore", "verify", "fallback", "preserved"}
           => recovery.event \in LossEvents,
         at \in {"restore", "verify", "fallback", "preserved"} =>
           \/ held.loss
           \/ recovery.event \in LossEvents /\ LossProved(recovery.event, world) /\ ~world.game
  PROVE  UndockInv'
<1>1. /\ DOMAIN recovery' = DOMAIN NoRecovery /\ recovery'.at = at
      /\ recovery'.result = recovery.result /\ recovery'.event = recovery.event
  BY DEF GoesTo, Goes, UndockInv, NoRecovery
<1>2. Observer(world)
  BY DEF GoesTo, Goes
<1>3. /\ held' \in [loss : BOOLEAN, portable : BOOLEAN]
      /\ at \in {"restore", "verify", "fallback", "preserved"} => held'.loss
  BY <1>1, <1>2, UndockObserved
<1> QED
  BY <1>1, <1>3 DEF UndockInv, RecoveryIsProved

\* A run that ends with a result.
LEMMA UndockResult ==
  ASSUME UndockInv, NEW kind \in RunResults, Result(kind),
         kind \in {"succeeded", "recovered"} => ~world.game /\ world.shows = "portable"
  PROVE  UndockInv'
<1>1. /\ DOMAIN recovery' = DOMAIN NoRecovery /\ recovery'.at = "done"
      /\ recovery'.result = kind
  BY DEF Result, Goes, UndockInv, NoRecovery
<1>2. Observer(world)
  BY DEF Result, Goes
<1>3. /\ held' \in [loss : BOOLEAN, portable : BOOLEAN]
      /\ kind \in {"succeeded", "recovered"} => held'.portable
  BY <1>2, UndockObserved
<1> QED
  BY <1>1, <1>3 DEF UndockInv, RecoveryIsProved, RunPlaces

\* The mechanism is called: the loss stays shown, Portable starts anew.
LEMMA UndockMechanism ==
  ASSUME UndockInv, recovery.at \in {"restore", "fallback"}, Mechanism,
         NEW at \in {"verify", "fallback", "preserved"},
         \/ recovery' = [recovery EXCEPT !.at = at]
         \/ recovery' = [recovery EXCEPT !.at = "done", !.result = "failed"]
  PROVE  UndockInv'
<1>1. /\ held.loss /\ recovery.event \in LossEvents /\ recovery.result = "none"
      /\ DOMAIN recovery = DOMAIN NoRecovery
  BY DEF UndockInv, RecoveryIsProved
<1>2. /\ DOMAIN recovery' = DOMAIN NoRecovery /\ recovery'.event = recovery.event
      /\ \/ recovery'.at = at /\ recovery'.result = "none"
         \/ recovery'.at = "done" /\ recovery'.result = "failed"
  BY <1>1 DEF NoRecovery
<1>3. held' \in [loss : BOOLEAN, portable : BOOLEAN]
  BY DEF Mechanism, UndockInv
<1>4. held'.loss
  BY <1>1 DEF Mechanism, UndockInv
<1> QED
  BY <1>1, <1>2, <1>3, <1>4 DEF UndockInv, RecoveryIsProved, RunPlaces, RunResults

\* The trigger lets the run wait for a stable loss only after an event of one.
LEMMA UndockTrigger ==
  ASSUME UndockInv, ObserveTrigger
  PROVE  UndockInv'
<1>1. CASE Result("blocked")
  BY <1>1, UndockResult DEF RunResults
<1>2. CASE GoesTo("stable") /\ recovery.event \in LossEvents /\ recovery.at = "trigger"
  BY <1>2, UndockGoesTo DEF RunPlaces
<1>3. CASE GoesTo("fresh") /\ recovery.event \in LossEvents /\ recovery.at = "trigger"
  BY <1>3, UndockGoesTo DEF RunPlaces
<1>4. recovery.at = "trigger"
  BY DEF ObserveTrigger
<1>5. ASSUME recovery.event \in LossEvents
      PROVE  Result("blocked") \/ GoesTo("stable") \/ GoesTo("fresh")
  BY <1>5 DEF ObserveTrigger
<1>6. recovery.event \notin LossEvents => Result("blocked")
  BY DEF ObserveTrigger
<1> QED
  BY <1>1, <1>2, <1>3, <1>4, <1>5, <1>6

\* What the run has been shown by the place it has come to.
THEOREM UndockInvariant == UndockSpec => []UndockInv
<1>1. UndockInit => UndockInv
  BY DEF UndockInit, UndockInv, NoRecovery, RunPlaces, RunResults, RecoveryIsProved
<1>2. UndockInv /\ [UndockNext]_undockVars => UndockInv'
  <2> SUFFICES ASSUME UndockInv, [UndockNext]_undockVars PROVE UndockInv'
    OBVIOUS
  <2>1. CASE UndockWorldMoves
    <3>1. recovery' = recovery /\ Observer(world')
      BY <2>1 DEF UndockWorldMoves
    <3>2. /\ held' \in [loss : BOOLEAN, portable : BOOLEAN]
          /\ held.loss => held'.loss
          /\ held.portable => held'.portable
      BY <3>1 DEF Observer, UndockInv
    <3> QED
      BY <3>1, <3>2 DEF UndockInv, RecoveryIsProved
  <2>2. CASE UndockRequest
    <3>1. /\ DOMAIN recovery' = DOMAIN NoRecovery /\ recovery'.at = "trigger"
          /\ recovery'.result = "none" /\ held' = [loss |-> FALSE, portable |-> FALSE]
      BY <2>2 DEF UndockRequest, NoRecovery
    <3> QED
      BY <3>1 DEF UndockInv, RecoveryIsProved, RunPlaces, RunResults
  <2>3. CASE ObserveTrigger
    BY <2>3, UndockTrigger
  <2>4. CASE VerifyNoOp
    <3>1. PICK kind \in {"blocked", "no_op"} : Result(kind)
      BY <2>4 DEF VerifyNoOp
    <3> QED
      BY <3>1, UndockResult DEF RunResults
  <2>5. CASE ValidateLoss
    <3>1. CASE Result("blocked")
      BY <3>1, UndockResult DEF RunResults
    <3>2. CASE ~Result("blocked")
      <4>1. /\ recovery.at = "fresh" /\ GoesTo("restore")
            /\ LossProved(recovery.event, world) /\ ~world.game
        BY <2>5, <3>2 DEF ValidateLoss, Recoverable
      <4>2. recovery.event \in LossEvents
        BY <4>1 DEF UndockInv
      <4> QED
        BY <4>1, <4>2, UndockGoesTo DEF RunPlaces
    <3> QED
      BY <3>1, <3>2
  <2>6. CASE RestorePortable \/ PreservePortable
    <3>1. PICK at \in {"verify", "fallback", "preserved"} :
            \/ recovery' = [recovery EXCEPT !.at = at]
            \/ recovery' = [recovery EXCEPT !.at = "done", !.result = "failed"]
      BY <2>6 DEF RestorePortable, PreservePortable
    <3>2. recovery.at \in {"restore", "fallback"} /\ Mechanism
      BY <2>6 DEF RestorePortable, PreservePortable
    <3> QED
      BY <3>1, <3>2, UndockMechanism
  <2>7. CASE VerifyPortable /\ GoesTo("fallback")
    <3>1. /\ recovery.at = "verify" /\ held.loss /\ recovery.event \in LossEvents
          /\ "fallback" \in RunPlaces \ {"done"}
      BY <2>7 DEF VerifyPortable, UndockInv, RecoveryIsProved, RunPlaces
    <3> QED
      BY <2>7, <3>1, UndockGoesTo
  <2>8. CASE (VerifyPortable \/ VerifyFallback) /\ ~GoesTo("fallback")
    <3>1. PICK kind \in {"succeeded", "recovered", "failed"} :
            Result(kind) /\ (kind # "failed" => PortableProved(recovery.event, world))
      BY <2>8 DEF VerifyPortable, VerifyFallback
    <3>2. kind # "failed" => ~world.game /\ world.shows = "portable"
      BY <3>1 DEF PortableProved
    <3> QED
      BY <3>1, <3>2, UndockResult DEF RunResults
  <2>9. CASE VerifyFallback
    <3>1. PICK kind \in {"recovered", "failed"} :
            Result(kind) /\ (kind # "failed" => PortableProved(recovery.event, world))
      BY <2>9 DEF VerifyFallback
    <3>2. kind # "failed" => ~world.game /\ world.shows = "portable"
      BY <3>1 DEF PortableProved
    <3> QED
      BY <3>1, <3>2, UndockResult DEF RunResults
  <2>10. CASE UndockReturns
    <3>1. recovery' = NoRecovery /\ Observer(world)
      BY <2>10 DEF UndockReturns, Goes
    <3>2. held' \in [loss : BOOLEAN, portable : BOOLEAN]
      BY <3>1, UndockObserved
    <3> QED
      BY <3>1, <3>2 DEF UndockInv, NoRecovery, RunPlaces, RunResults, RecoveryIsProved
  <2>11. CASE UNCHANGED undockVars
    BY <2>11 DEF undockVars, UndockInv, RecoveryIsProved
  <2> QED
    BY <2>1, <2>2, <2>3, <2>4, <2>5, <2>6, <2>7, <2>8, <2>9, <2>10, <2>11 DEF UndockNext
<1> QED
  BY <1>1, <1>2, PTL DEF UndockSpec

\* However the devices and the games move between two steps: the mechanism is called
\* only for a loss that was real with no game running, and success means that the
\* panel was presented after the mechanism last acted (UnexpectedUndockRecoveryCoordinator).
THEOREM UndockRecoveryIsProved == UndockSpec => []RecoveryIsProved
<1>1. UndockInv => RecoveryIsProved
  BY DEF UndockInv
<1> QED
  BY <1>1, UndockInvariant, PTL


-----------------------------------------------------------------------------
(* Controllers and sound (PeripheralHandoff)                                *)

RunnerPlaces == {"off", "check", "apply", "verify", "recheck", "undo", "verify_undo",
                 "completed", "recovered", "action_required"}

RunnerTyped ==
  /\ DOMAIN handoff = {"at", "steps", "n", "applied"}
  /\ handoff.at \in RunnerPlaces /\ handoff.n \in Int /\ handoff.applied \in Int
  /\ witness \in [fits : BOOLEAN, met : BOOLEAN]

\* What stands has been seen: the plan that fits, the step in effect, the step undone.
SeesWhatStands ==
  /\ handoff.at \in {"check", "recheck"} /\ Fitting(handoff.steps, devices) => witness.fits
  /\ handoff.at = "verify" /\ Done(Current, devices) => witness.met
  /\ handoff.at = "verify_undo" /\ Undone(Current, devices) => witness.met

HandoffInv == RunnerTyped /\ SeesWhatStands /\ HandoffIsVerified

\* The plan that fits depends on the setting, which a run never changes.
LEMMA SameFitting ==
  ASSUME setting' = setting, NEW steps, NEW d
  PROVE  Fitting(steps, d)' <=> Fitting(steps, d)
<1>1. DockControllers(d)' = DockControllers(d)
  BY DEF DockControllers
<1>2. UndockControllers(d)' = UndockControllers(d)
  BY DEF UndockControllers
<1>3. ExternalEnds(d)' = ExternalEnds(d)
  BY DEF ExternalEnds
<1>4. Audio(d)' = Audio(d)
  BY DEF Audio, AudioStep
<1>5. Planned(d)' = Planned(d)
  BY <1>1, <1>2, <1>3, <1>4 DEF Planned
<1> QED
  BY <1>5 DEF Fitting, ReadyPlan

\* What an instant adds to what the run has seen.
LEMMA SeenByRun ==
  ASSUME RunnerTyped, NEW w \in [fits : BOOLEAN, met : BOOLEAN], Seen(w), setting' = setting
  PROVE  /\ witness' \in [fits : BOOLEAN, met : BOOLEAN]
         /\ w.fits => witness'.fits
         /\ w.met => witness'.met
         /\ handoff'.at \in {"check", "recheck"} /\ Fitting(handoff.steps, devices)'
              => witness'.fits
         /\ handoff'.at = "verify" /\ Done(Current, devices)' => witness'.met
         /\ handoff'.at = "verify_undo" /\ Undone(Current, devices)' => witness'.met
<1>1. /\ witness'.fits = (w.fits \/ (/\ handoff'.at \in {"check", "recheck"}
                                     /\ Fitting(handoff'.steps, devices')))
      /\ witness'.met = (w.met \/ (/\ handoff'.at \in {"verify", "verify_undo"}
                                   /\ LET step == handoff'.steps[handoff'.n] IN
                                      IF handoff'.at = "verify" THEN Done(step, devices')
                                      ELSE Undone(step, devices')))
      /\ DOMAIN witness' = {"fits", "met"}
      /\ witness' = [fits |-> witness'.fits, met |-> witness'.met]
  BY DEF Seen
<1>2. witness'.fits \in BOOLEAN /\ witness'.met \in BOOLEAN
  BY <1>1
<1>3. witness' \in [fits : BOOLEAN, met : BOOLEAN]
  BY <1>1, <1>2
<1>4. Fitting(handoff.steps, devices)' <=> Fitting(handoff'.steps, devices')
  BY SameFitting
<1>5. handoff'.at = "verify" /\ Done(Current, devices)' => witness'.met
  BY <1>1 DEF Current
<1>6. handoff'.at = "verify_undo" /\ Undone(Current, devices)' => witness'.met
  BY <1>1 DEF Current
<1> QED
  BY <1>1, <1>3, <1>4, <1>5, <1>6


\* A step keeps the invariant, if what its new place needs had been seen.
LEMMA RunnerGoes ==
  ASSUME RunnerTyped, NEW w \in [fits : BOOLEAN, met : BOOLEAN], Seen(w), setting' = setting,
         DOMAIN handoff' = {"at", "steps", "n", "applied"}, handoff'.at \in RunnerPlaces,
         handoff'.n \in Int, handoff'.applied \in Int,
         handoff'.at \in {"apply", "undo"} => w.fits,
         handoff'.at \in {"check", "apply"} /\ handoff'.n > 1 => w.met,
         handoff'.at \in {"completed", "recovered"} => w.met,
         handoff'.at \in {"recheck", "undo"} /\ handoff'.n < handoff'.applied => w.met
  PROVE  HandoffInv'
<1>1. /\ witness' \in [fits : BOOLEAN, met : BOOLEAN]
      /\ w.fits => witness'.fits
      /\ w.met => witness'.met
      /\ handoff'.at \in {"check", "recheck"} /\ Fitting(handoff.steps, devices)'
           => witness'.fits
      /\ handoff'.at = "verify" /\ Done(Current, devices)' => witness'.met
      /\ handoff'.at = "verify_undo" /\ Undone(Current, devices)' => witness'.met
  BY SeenByRun
<1>2. RunnerTyped'
  BY <1>1 DEF RunnerTyped
<1>3. SeesWhatStands'
  BY <1>1 DEF SeesWhatStands
<1>4. HandoffIsVerified'
  BY <1>1 DEF HandoffIsVerified
<1> QED
  BY <1>2, <1>3, <1>4 DEF HandoffInv

\* A run ends: with Completed or Recovered only when its last step was met.
LEMMA RunnerEnded ==
  ASSUME RunnerTyped, NEW outcome \in {"completed", "recovered", "action_required"},
         RunnerEnds(outcome), outcome # "action_required" => witness.met = TRUE
  PROVE  HandoffInv'
<1> DEFINE w == [witness EXCEPT !.fits = FALSE]
<1>1. w \in [fits : BOOLEAN, met : BOOLEAN] /\ (witness.met => w.met)
  BY DEF RunnerTyped
<1>2. Seen(w) /\ setting' = setting
  BY DEF RunnerEnds, To
<1>3. /\ DOMAIN handoff' = {"at", "steps", "n", "applied"}
      /\ handoff'.at = outcome /\ handoff'.n = 0 /\ handoff'.applied = 0
  BY DEF RunnerEnds, To, NoHandoff
<1>4. /\ handoff'.n \in Int /\ handoff'.applied \in Int
      /\ ~(handoff'.n > 1) /\ ~(handoff'.n < handoff'.applied)
  <2>1. 0 \in Int
    OBVIOUS
  <2>2. ~(0 > 1)
    OBVIOUS
  <2>3. ~(0 < 0)
    OBVIOUS
  <2> QED
    BY <1>3, <2>1, <2>2, <2>3
<1>5. handoff'.at \in RunnerPlaces
  BY <1>3 DEF RunnerPlaces
<1>6. /\ handoff'.at \in {"completed", "recovered"} => w.met
      /\ handoff'.at \notin {"apply", "undo"}
  BY <1>1, <1>3
<1> HIDE DEF w
<1> QED
  BY <1>1, <1>2, <1>3, <1>4, <1>5, <1>6, RunnerGoes

\* A failure turns to the last accepted step, or ends the run without one.
LEMMA RunnerRecovers ==
  ASSUME RunnerTyped, Recover
  PROVE  HandoffInv'
<1>1. CASE handoff.applied = 0
  BY <1>1, RunnerEnded DEF Recover
<1>2. CASE handoff.applied # 0
  <2>1. Unseen \in [fits : BOOLEAN, met : BOOLEAN]
    BY DEF Unseen
  <2>2. Seen(Unseen) /\ setting' = setting
    BY <1>2 DEF Recover, To
  <2>3. /\ DOMAIN handoff' = {"at", "steps", "n", "applied"} /\ handoff'.at = "recheck"
        /\ handoff'.n = handoff.applied /\ handoff'.applied = handoff.applied
        /\ handoff.applied \in Int
    BY <1>2 DEF Recover, To, RunnerTyped
  <2>4. ~(handoff'.n < handoff'.applied)
    BY <2>3
  <2> QED
    BY <2>1, <2>2, <2>3, <2>4, RunnerGoes DEF RunnerPlaces
<1> QED
  BY <1>1, <1>2

\* The mechanism is called: what was seen before it counts no more.
LEMMA RunnerActs ==
  ASSUME HandoffInv, ApplyStep \/ UndoStep
  PROVE  HandoffInv'
<1>1. /\ Unseen \in [fits : BOOLEAN, met : BOOLEAN] /\ Seen(Unseen) /\ setting' = setting
      /\ RunnerTyped
  BY DEF Unseen, ApplyStep, UndoStep, HandoffInv
<1>2. handoff.n \in Int /\ handoff.applied \in Int
  BY DEF HandoffInv, RunnerTyped
<1>3. /\ DOMAIN handoff' = {"at", "steps", "n", "applied"}
      /\ handoff'.at \in {"verify", "verify_undo", "action_required", "recheck"}
      /\ handoff'.n \in Int /\ handoff'.applied \in Int
      /\ handoff'.at = "recheck" => handoff'.n = handoff'.applied
  <2>1. DOMAIN handoff = {"at", "steps", "n", "applied"}
    BY DEF HandoffInv, RunnerTyped
  <2>2. CASE handoff' = [handoff EXCEPT !.at = "verify", !.applied = handoff.n]
    BY <1>2, <2>1, <2>2
  <2>3. CASE handoff' = [NoHandoff EXCEPT !.at = "action_required"]
    <3>1. handoff' = [at |-> "action_required", steps |-> <<>>, n |-> 0, applied |-> 0]
      BY <2>3 DEF NoHandoff
    <3>2. DOMAIN handoff' = {"at", "steps", "n", "applied"}
      BY <3>1
    <3>3. handoff'.at = "action_required" /\ handoff'.n = 0 /\ handoff'.applied = 0
      BY <3>1
    <3> QED
      BY <3>2, <3>3
  <2>4. CASE handoff' = [handoff EXCEPT !.at = "recheck", !.n = handoff.applied]
    BY <1>2, <2>1, <2>4
  <2>5. CASE handoff' = [handoff EXCEPT !.at = "verify_undo"]
    BY <1>2, <2>1, <2>5
  <2> QED
    BY <2>2, <2>3, <2>4, <2>5 DEF ApplyStep, UndoStep
<1>4. handoff'.at = "recheck" => ~(handoff'.n < handoff'.applied)
  BY <1>3
<1>5. handoff'.at \in RunnerPlaces
  BY <1>3 DEF RunnerPlaces
<1> QED
  BY <1>1, <1>3, <1>4, <1>5, RunnerGoes

\* A sample that shows what it should lets the run go on.
LEMMA RunnerProceeds ==
  ASSUME HandoffInv, NEW place \in {"apply", "undo"},
         handoff.at = (IF place = "apply" THEN "check" ELSE "recheck"),
         Fitting(handoff.steps, devices), To([handoff EXCEPT !.at = place], witness)
  PROVE  HandoffInv'
<1>1. /\ witness \in [fits : BOOLEAN, met : BOOLEAN] /\ witness.fits /\ RunnerTyped
      /\ place = "apply" /\ handoff.n > 1 => witness.met
      /\ place = "undo" /\ handoff.n < handoff.applied => witness.met
  BY DEF HandoffInv, RunnerTyped, SeesWhatStands, HandoffIsVerified
<1>2. /\ DOMAIN handoff' = {"at", "steps", "n", "applied"} /\ handoff'.at = place
      /\ handoff'.n = handoff.n /\ handoff'.applied = handoff.applied
      /\ handoff.n \in Int /\ handoff.applied \in Int
      /\ Seen(witness) /\ setting' = setting
  BY DEF To, HandoffInv, RunnerTyped
<1> QED
  BY <1>1, <1>2, RunnerGoes DEF RunnerPlaces

\* A verification goes on only on devices that show the step done, or undone.
LEMMA RunnerVerifies ==
  ASSUME HandoffInv, VerifyStep \/ VerifyUndo
  PROVE  HandoffInv'
<1> DEFINE w == [witness EXCEPT !.fits = FALSE]
<1>1. /\ RunnerTyped /\ w \in [fits : BOOLEAN, met : BOOLEAN] /\ (witness.met => w.met)
      /\ handoff.n \in Int /\ handoff.applied \in Int
  BY DEF HandoffInv, RunnerTyped
<1>2. CASE Recover \/ RunnerEnds("action_required")
  BY <1>1, <1>2, RunnerRecovers, RunnerEnded
<1>3. CASE ~(Recover \/ RunnerEnds("action_required"))
  <2>1. \/ handoff.at = "verify" /\ Done(Current, devices)
        \/ handoff.at = "verify_undo" /\ Undone(Current, devices)
    BY <1>3 DEF VerifyStep, VerifyUndo
  <2>2. witness.met
    BY <2>1 DEF HandoffInv, SeesWhatStands
  <2>3. CASE RunnerEnds("completed") \/ RunnerEnds("recovered")
    BY <1>1, <2>2, <2>3, RunnerEnded
  <2>4. CASE ~(RunnerEnds("completed") \/ RunnerEnds("recovered"))
    <3>1. \/ To([handoff EXCEPT !.at = "check", !.n = handoff.n + 1], w)
          \/ To([handoff EXCEPT !.at = "recheck", !.n = handoff.n - 1], w)
      BY <1>3, <2>4 DEF VerifyStep, VerifyUndo, Advance
    <3>2. Seen(w) /\ setting' = setting
      BY <3>1 DEF To
    <3>3. /\ DOMAIN handoff' = {"at", "steps", "n", "applied"}
          /\ handoff'.at \in {"check", "recheck"}
          /\ handoff'.n \in Int /\ handoff'.applied \in Int
      <4> HIDE DEF w
      <4>1. PICK at \in {"check", "recheck"}, n \in {handoff.n + 1, handoff.n - 1} :
              handoff' = [handoff EXCEPT !.at = at, !.n = n]
        BY <3>1 DEF To
      <4>2. n \in Int
        BY <1>1
      <4> QED
        BY <1>1, <4>1, <4>2 DEF RunnerTyped
    <3>4. handoff'.at \in RunnerPlaces
      BY <3>3 DEF RunnerPlaces
    <3> HIDE DEF w
    <3> QED
      BY <1>1, <2>2, <3>2, <3>3, <3>4, RunnerGoes
  <2> QED
    BY <2>3, <2>4
<1> QED
  BY <1>2, <1>3

\* A run is planned, and its result is returned.
LEMMA RunnerBegins ==
  ASSUME HandoffInv, RunPlanned \/ RunnerReturns
  PROVE  HandoffInv'
<1>1. /\ Unseen \in [fits : BOOLEAN, met : BOOLEAN] /\ Seen(Unseen) /\ setting' = setting
      /\ RunnerTyped
  BY DEF Unseen, RunPlanned, RunnerReturns, To, HandoffInv
<1>3. /\ DOMAIN handoff' = {"at", "steps", "n", "applied"}
      /\ handoff'.at \in {"off", "check"} /\ handoff'.n \in Int /\ handoff'.applied \in Int
      /\ ~(handoff'.n > 1)
  <2>1. CASE RunPlanned
    <3> DEFINE steps == Planned(devices).steps
    <3>1. handoff' = [at |-> "check", steps |-> steps, n |-> 1, applied |-> 0]
      BY <2>1 DEF RunPlanned, To
    <3> HIDE DEF steps
    <3> QED
      BY <3>1
  <2>2. CASE RunnerReturns
    <3>1. handoff' = [at |-> "off", steps |-> <<>>, n |-> 0, applied |-> 0]
      BY <2>2 DEF RunnerReturns, To, NoHandoff
    <3> QED
      BY <3>1
  <2> QED
    BY <2>1, <2>2
<1>4. handoff'.at \in RunnerPlaces
  BY <1>3 DEF RunnerPlaces
<1> QED
  BY <1>1, <1>3, <1>4, RunnerGoes

\* The runner has seen what stands, and what its place needs.
THEOREM HandoffInvariant == HandoffSpec => []HandoffInv
<1>1. HandoffInit => HandoffInv
  <2> SUFFICES ASSUME handoff = NoHandoff, witness = Unseen PROVE HandoffInv
    BY DEF HandoffInit
  <2>1. handoff.at = "off" /\ handoff.n = 0 /\ handoff.applied = 0
    BY DEF NoHandoff
  <2>2. DOMAIN handoff = {"at", "steps", "n", "applied"}
    BY DEF NoHandoff
  <2>3. witness \in [fits : BOOLEAN, met : BOOLEAN]
    BY DEF Unseen
  <2> QED
    BY <2>1, <2>2, <2>3
    DEF HandoffInv, RunnerTyped, RunnerPlaces, SeesWhatStands, HandoffIsVerified
<1>2. HandoffInv /\ [HandoffNext]_handoffVars => HandoffInv'
  <2> SUFFICES ASSUME HandoffInv, [HandoffNext]_handoffVars PROVE HandoffInv'
    OBVIOUS
  <2>1. CASE DevicesChange
    <3>1. /\ handoff' = handoff /\ setting' = setting /\ Seen(witness) /\ RunnerTyped
          /\ HandoffIsVerified /\ witness \in [fits : BOOLEAN, met : BOOLEAN]
      BY <2>1 DEF DevicesChange, HandoffInv, RunnerTyped
    <3>2. /\ handoff.at \in {"apply", "undo"} => witness.fits
          /\ handoff.at \in {"check", "apply"} /\ handoff.n > 1 => witness.met
          /\ handoff.at \in {"completed", "recovered"} => witness.met
          /\ handoff.at \in {"recheck", "undo"} /\ handoff.n < handoff.applied => witness.met
      BY <3>1 DEF HandoffIsVerified
    <3>3. /\ DOMAIN handoff = {"at", "steps", "n", "applied"} /\ handoff.at \in RunnerPlaces
          /\ handoff.n \in Int /\ handoff.applied \in Int
      BY <3>1 DEF RunnerTyped
    <3> QED
      BY <3>1, <3>2, <3>3, RunnerGoes
  <2>2. CASE RunPlanned \/ RunnerReturns
    BY <2>2, RunnerBegins
  <2>3. CASE RevalidateStep
    BY <2>3, RunnerRecovers, RunnerProceeds DEF RevalidateStep, HandoffInv
  <2>4. CASE RevalidateUndo
    BY <2>4, RunnerEnded, RunnerProceeds DEF RevalidateUndo, HandoffInv
  <2>5. CASE ApplyStep \/ UndoStep
    BY <2>5, RunnerActs
  <2>6. CASE VerifyStep \/ VerifyUndo
    BY <2>6, RunnerVerifies
  <2>7. CASE UNCHANGED handoffVars
    <3>1. UNCHANGED <<devices, setting, handoff, witness>>
      BY <2>7 DEF handoffVars
    <3>2. Fitting(handoff.steps, devices)' <=> Fitting(handoff.steps, devices)
      BY <3>1, SameFitting
    <3>3. RunnerTyped' /\ HandoffIsVerified'
      BY <3>1 DEF HandoffInv, RunnerTyped, HandoffIsVerified
    <3>4. SeesWhatStands'
      BY <3>1, <3>2 DEF HandoffInv, SeesWhatStands, Current
    <3> QED
      BY <3>3, <3>4 DEF HandoffInv
  <2> QED
    BY <2>1, <2>2, <2>3, <2>4, <2>5, <2>6, <2>7 DEF HandoffNext
<1> QED
  BY <1>1, <1>2, PTL DEF HandoffSpec

\* For any plan, and however the mechanism and the devices behave: a step or its
\* rollback is called only after the whole plan fitted, and what follows it waits for
\* an instant that showed it in effect, or undone (PeripheralHandoffRunner.run).
THEOREM HandoffVerifiesEachStep == HandoffSpec => []HandoffIsVerified
<1>1. HandoffInv => HandoffIsVerified
  BY DEF HandoffInv
<1> QED
  BY <1>1, HandoffInvariant, PTL

================================================================================
