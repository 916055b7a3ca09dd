----------------------------- MODULE AudioHandoff -----------------------------
(***************************************************************************)
(* The audio part of a handoff: PipeWire's sinks and default, the private  *)
(* file that remembers the Portable sink, and the calls that use both from *)
(* threads of their own: the dock loop remembering the Portable sink, the  *)
(* presentation transition switching (and, as the tests do, rolling back), *)
(* the native recovery loop restoring.  Each call builds its own objects,  *)
(* so nothing orders them; they share one temporary file.                  *)
(*                                                                         *)
(* Opening and writing the temporary file is one step.  A dump that fails  *)
(* or is ambiguous is an observation that failed.                          *)
(***************************************************************************)
EXTENDS Naturals

CONSTANTS PanelSinks, G1Sink, NoSink   \* sinks by name, and "" of the code

ASSUME AudioAssumption ==
  PanelSinks # {} /\ G1Sink \notin PanelSinks /\ NoSink \notin PanelSinks \cup {G1Sink}

VARIABLES
  sinks,     \* the world: the sinks PipeWire knows
  default,   \* the world: its default sink
  stored,    \* the file portable-audio.json: a sink, or NoSink without it
  temporary, \* the file .portable-audio.tmp, likewise
  call       \* for each thread, the call it is in

audioVars == <<sinks, default, stored, temporary, call>>

Threads == {"remember", "handoff", "restore"}
Sinks == PanelSinks \cup {G1Sink}

\* Where a call is, the sink it selects, the default it found, whether it changed
\* the default or created the file, what it answers, and whether the default has
\* been its sink at some instant of the call (no code keeps that).
Free == [at |-> "off", to |-> NoSink, before |-> NoSink, changed |-> FALSE,
         created |-> FALSE, seen |-> FALSE]

AudioInit ==
  /\ sinks = PanelSinks /\ default \in PanelSinks
  /\ stored = NoSink /\ temporary = NoSink /\ call = [t \in Threads |-> Free]

\* Every thread that waits for its sink sees the default pass by.
Witnessed(calls) ==
  [t \in Threads |-> [calls[t] EXCEPT !.seen = @ \/ calls[t].to = default']]

-----------------------------------------------------------------------------
(* The world: the G1's sink comes and goes, WirePlumber or the player picks *)
(* another default.                                                         *)

SinksChange ==
  /\ sinks' \in {PanelSinks, Sinks}
  /\ default' \in sinks'
  /\ <<sinks', default'>> # <<sinks, default>>
  /\ call' = Witnessed(call)
  /\ UNCHANGED <<stored, temporary>>

-----------------------------------------------------------------------------
(* One call                                                                 *)

\* t goes on with call c; the default stays.
GoOn(t, c) == /\ UNCHANGED <<sinks, default>>
              /\ call' = Witnessed([call EXCEPT ![t] = c])

Answers(t, answer) == GoOn(t, [call[t] EXCEPT !.at = answer])
FilesStay == UNCHANGED <<stored, temporary>>

\* switch(DOCKED_EGPU) or switch(DOCKED_IGPU) observes and decides.
SwitchToG1(t) ==
  /\ call[t].at = "dock"
  /\ \/ Answers(t, "failed")                   \* no verified BDF, no dump
     \/ IF G1Sink \notin sinks THEN Answers(t, "failed")
        ELSE IF default = G1Sink
        THEN GoOn(t, [call[t] EXCEPT !.at = IF stored = NoSink THEN "failed" ELSE "ok",
                                     !.to = G1Sink])
        ELSE GoOn(t, [call[t] EXCEPT !.at = "save", !.to = G1Sink, !.before = default,
                                     !.created = stored = NoSink])
  /\ FilesStay

\* switch(PORTABLE): the sink that is remembered, if PipeWire has it.
SwitchToPanel(t) ==
  /\ call[t].at = "panel"
  /\ \/ Answers(t, "failed")
     \/ IF stored \notin sinks THEN Answers(t, "failed")
        ELSE GoOn(t, [call[t] EXCEPT !.at = IF default = stored THEN "ok" ELSE "set",
                                     !.to = stored, !.before = default])
  /\ FilesStay

\* remember_portable: the default sink, whatever it is.
RememberPortable(t) ==
  /\ call[t].at = "capture"
  /\ \/ Answers(t, "failed")
     \/ GoOn(t, [call[t] EXCEPT !.at = "save", !.before = default])
  /\ FilesStay

\* PortableAudioStateStore.save, after it: select, or the end of remember_portable.
Saved(t) == IF call[t].to = NoSink THEN "ok" ELSE "set"

SaveBegins(t) ==
  /\ call[t].at = "save"
  /\ IF stored = call[t].before
     THEN Answers(t, Saved(t)) /\ FilesStay
     ELSE \/ Answers(t, "failed") /\ FilesStay
          \/ /\ temporary' = call[t].before
             /\ GoOn(t, [call[t] EXCEPT !.at = "replace"]) /\ UNCHANGED stored

SaveReplaces(t) ==
  /\ call[t].at = "replace"
  /\ \/ /\ temporary # NoSink
        /\ stored' = temporary /\ temporary' = NoSink /\ Answers(t, Saved(t))
     \/ Answers(t, "failed") /\ FilesStay

\* wpctl: refused, or accepted, although it may time out all the same; PipeWire
\* may ignore a sink that is gone, or take its time.
SetDefault(t) ==
  /\ call[t].at = "set"
  /\ \E answer \in {"failed", "verify"} :
       \/ Answers(t, answer)
       \/ /\ call[t].to \in sinks /\ default' = call[t].to
          /\ call' = Witnessed([call EXCEPT ![t].at = answer])
          /\ UNCHANGED sinks
  /\ FilesStay

\* Fault: the command's exit status is proof enough.
TrustCommand(t) ==
  /\ call[t].at = "verify"
  /\ GoOn(t, [call[t] EXCEPT !.at = "ok", !.changed = TRUE])
  /\ FilesStay

VerifyDefault(t) ==
  /\ call[t].at = "verify"
  /\ \/ Answers(t, "failed")
     \/ default = call[t].to /\ GoOn(t, [call[t] EXCEPT !.at = "ok", !.changed = TRUE])
  /\ FilesStay

\* rollback(receipt): back to the default the switch had found.
RollBack ==
  /\ call["handoff"].at = "back"
  /\ \/ Answers("handoff", "failed")
     \/ /\ call["handoff"].before \in sinks
        /\ GoOn("handoff", [call["handoff"] EXCEPT !.at = "set", !.to = call["handoff"].before,
                                                   !.before = NoSink, !.seen = FALSE])
  /\ FilesStay

ClearCreated ==
  /\ call["handoff"].at = "ok" /\ call["handoff"].created /\ call["handoff"].before = NoSink
  /\ stored' = NoSink /\ GoOn("handoff", [call["handoff"] EXCEPT !.created = FALSE])
  /\ UNCHANGED temporary

CallRuns(t) ==
  \/ SwitchToG1(t) \/ SwitchToPanel(t) \/ RememberPortable(t)
  \/ SaveBegins(t) \/ SaveReplaces(t) \/ SetDefault(t) \/ VerifyDefault(t)

-----------------------------------------------------------------------------
(* The callers                                                              *)

Call(t, what) == call[t].at = "off" /\ GoOn(t, [Free EXCEPT !.at = what]) /\ FilesStay

\* The presentation mechanism switches with the target of its attempt; the native
\* recovery loop restores; the dock loop remembers, when it saw Portable before.
HandoffSwitches == \E what \in {"dock", "panel"} : Call("handoff", what)
RestoreBegins == Call("restore", "panel")
RememberBegins == Call("remember", "capture")

\* A switch that changed the default may be rolled back.
HandoffRollsBack ==
  /\ call["handoff"].at = "ok" /\ call["handoff"].changed
  /\ call["handoff"].before # NoSink
  /\ Answers("handoff", "back") /\ FilesStay

Ends(t) == /\ call[t].at \in {"ok", "failed"}
           /\ call' = [call EXCEPT ![t] = Free]
           /\ UNCHANGED <<sinks, default, stored, temporary>>

AudioNext ==
  \/ SinksChange
  \/ \E t \in Threads : CallRuns(t) \/ Ends(t)
  \/ HandoffSwitches \/ RestoreBegins \/ RememberBegins
  \/ HandoffRollsBack \/ RollBack \/ ClearCreated

AudioSpec == AudioInit /\ [][AudioNext]_audioVars

-----------------------------------------------------------------------------
(* Properties                                                               *)

\* Whatever the player, WirePlumber and the other calls do meanwhile: a switch or
\* a rollback that answers success has had its sink as the default during the
\* call.
AnswersAreSeen ==
  \A t \in Threads : call[t].at = "ok" /\ call[t].to # NoSink => call[t].seen

==============================================================================
