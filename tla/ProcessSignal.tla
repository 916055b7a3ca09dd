---------------------------- MODULE ProcessSignal ----------------------------
(***************************************************************************)
(* The signal adapter of process release: open a pidfd for the target's    *)
(* PID, read the start time of whatever the PID names, compare, signal     *)
(* through the descriptor.  Between any two of these calls the process may *)
(* exit and the kernel may give its PID to another one.  The model follows *)
(* one PID: its successive owners stand for their start times.             *)
(***************************************************************************)
EXTENDS FiniteSets

CONSTANTS
  Starts,   \* processes that own the PID in turn, named by their start time
  Nobody

ASSUME SignalAssumption == Nobody \notin Starts

VARIABLES
  owner,       \* the process the PID names now, or Nobody
  past,        \* processes that owned it and are gone
  wanted,      \* target.process_start_time
  descriptor,  \* the process the pidfd refers to, or Nobody when not open
  at,          \* the adapter's next call
  answer,      \* the result's code, "" while it works
  hit          \* history: processes that got the signal

kernelVars == <<owner, past>>
signalVars == <<kernelVars, wanted, descriptor, at, answer, hit>>

AcceptedAnswers == {"accepted", "absent"}

SignalInit ==
  /\ owner \in Starts /\ past = {} /\ wanted = owner
  /\ descriptor = Nobody /\ at = "open" /\ answer = "" /\ hit = {}

OwnerExits ==
  /\ owner # Nobody
  /\ owner' = Nobody /\ past' = past \cup {owner}
  /\ UNCHANGED <<wanted, descriptor, at, answer, hit>>

PidReused(p) ==
  /\ owner = Nobody /\ p \notin past
  /\ owner' = p
  /\ UNCHANGED <<past, wanted, descriptor, at, answer, hit>>

\* Every return closes the descriptor.
Answer(code) ==
  /\ answer' = code /\ at' = "done" /\ descriptor' = Nobody

OpenPidfd ==
  /\ at = "open"
  /\ \/ owner = Nobody /\ Answer("absent")
     \/ owner # Nobody /\ descriptor' = owner /\ at' = "read" /\ UNCHANGED answer
     \/ \E code \in {"denied", "error"} : Answer(code)
  /\ UNCHANGED <<kernelVars, wanted, hit>>

\* Fault: the start time is read before the pidfd is opened.
ReadThenOpen ==
  /\ at \in {"read", "reopen"}
  /\ IF at = "read"
     THEN owner = wanted /\ at' = "reopen" /\ UNCHANGED <<answer, descriptor>>
     ELSE descriptor' = owner /\ at' = "send" /\ UNCHANGED answer
  /\ UNCHANGED <<kernelVars, wanted, hit>>

\* _read_process_start_time reads /proc/PID, not the descriptor.
ReadStartTime ==
  /\ at = "read"
  /\ \/ owner = Nobody /\ Answer("absent")
     \/ Answer("error")
     \/ owner \notin {Nobody, wanted} /\ Answer("identity_changed")
     \/ owner = wanted /\ at' = "send" /\ UNCHANGED <<answer, descriptor>>
  /\ UNCHANGED <<kernelVars, wanted, hit>>

\* A descriptor keeps naming the process it was opened for.
SendSignal ==
  /\ at = "send"
  /\ \/ /\ owner = descriptor /\ owner # Nobody
        /\ hit' = hit \cup {descriptor} /\ Answer("accepted")
     \/ /\ descriptor \in past \cup {Nobody}
        /\ UNCHANGED hit /\ Answer("absent")
     \/ UNCHANGED hit /\ \E code \in {"denied", "error"} : Answer(code)
  /\ UNCHANGED <<kernelVars, wanted>>

SignalNext ==
  \/ OwnerExits \/ \E p \in Starts : PidReused(p)
  \/ OpenPidfd \/ ReadStartTime \/ SendSignal

SignalSpec == SignalInit /\ [][SignalNext]_signalVars

-----------------------------------------------------------------------------

\* However often the PID is reused while the adapter works, only the process
\* the approval names is ever signalled (PosixProcessSignalAdapter.signal).
OnlyTheTargetIsHit == hit \subseteq {wanted}

=============================================================================
