------------------------- MODULE DiagnosticLogging -------------------------
(***************************************************************************)
(* The verbose logging a player may switch on for a while, and the bounded *)
(* event log it writes to.  status() and append() read the clock and the   *)
(* boot identity before they take the controller's lock, so what they know *)
(* may be old when they decide; enable() and disable() read them under it. *)
(* The boot identity cannot change while the process lives: it can only be *)
(* unreadable.                                                             *)
(***************************************************************************)
EXTENDS Naturals, Sequences

CONSTANTS Workers,    \* the worker threads of the RPCs
          Ttls,       \* the durations that end by the clock
          LastTick,   \* bound: the last tick of a behaviour
          MaxEvents   \* the length the event log rotates at

ASSUME DiagnosticAssumption == Ttls \subseteq Nat \ {0} /\ LastTick \in Nat /\ MaxEvents \in Nat

VARIABLES
  now,      \* the monotonic clock
  logging,  \* DiagnosticLoggingController: whether it is on, and until when
  log,      \* BoundedEventLog: what kind each event kept is of
  worker,   \* a thread: the call it is in, and what it read before the lock
  word      \* what the player last asked for, and until when

loggingVars == <<now, logging, log, worker, word>>

UntilReboot == LastTick + 1
LoggingOff == [on |-> FALSE, until |-> 0]
OnFor(ttl) == [on |-> TRUE, until |-> now + ttl]
Grants == {OnFor(ttl) : ttl \in Ttls} \cup {[on |-> TRUE, until |-> UntilReboot]}

NoRpc == [at |-> "idle", now |-> 0, boot |-> TRUE]

LoggingInit ==
  /\ now = 0 /\ logging = LoggingOff /\ log = <<>> /\ word = LoggingOff
  /\ worker = [w \in Workers |-> NoRpc]

ClockTicks == now < LastTick /\ now' = now + 1 /\ UNCHANGED <<logging, log, worker, word>>

-----------------------------------------------------------------------------
(* Under the controller's lock                                             *)

\* Fault: an append does not look at the deadline.
StatusWithoutDeadline(read, boot) == IF logging.on /\ ~boot THEN LoggingOff ELSE logging

\* _status_locked, with the clock and the boot identity its caller read.
StatusLocked(read, boot) ==
  IF logging.on /\ (~boot \/ read >= logging.until) THEN LoggingOff ELSE logging

\* deque(maxlen): the oldest event makes room.
Pushed(kind) == LET all == Append(log, kind) IN
  IF Len(all) > MaxEvents THEN Tail(all) ELSE all

Enable(grant, boot) == IF boot THEN logging' = grant ELSE UNCHANGED logging

Disable == logging' = LoggingOff

-----------------------------------------------------------------------------
(* The RPCs                                                                *)

Answered(w) == worker[w].at \in {"idle", "recorded"}

\* status(), or append() of a normal or a verbose event: the reads.
Reads(w) ==
  \E call \in {"status", "normal", "verbose"}, boot \in BOOLEAN :
    /\ \/ Answered(w)
       \/ worker[w].at = "consent" /\ call = "normal"
    /\ worker' = [worker EXCEPT ![w] = [at |-> call, now |-> now, boot |-> boot]]
    /\ UNCHANGED <<now, logging, log, word>>

\* Under the lock: what the answer is, and whether the event is kept.
Kept(w) == worker[w].at = "normal" \/ (worker[w].at = "verbose" /\ logging'.on)

Decides(w) ==
  /\ worker[w].at \in {"status", "normal", "verbose"}
  /\ logging' = StatusLocked(worker[w].now, worker[w].boot)
  /\ log' = IF Kept(w) THEN Pushed(worker[w].at) ELSE log
  /\ worker' = [worker EXCEPT ![w] = [NoRpc EXCEPT !.at = IF Kept(w) THEN "recorded" ELSE "idle"]]
  /\ UNCHANGED <<now, word>>

\* enable_diagnostic_logging: rejected without a confirmation, or when the
\* boot identity cannot be read.  Its own event is appended after the lock.
EnablesLogging(w) ==
  /\ Answered(w)
  /\ \E grant \in Grants, boot \in BOOLEAN :
       /\ Enable(grant, boot)
       /\ IF boot THEN word' = grant /\ worker' = [worker EXCEPT ![w] = [NoRpc EXCEPT !.at = "consent"]]
                  ELSE UNCHANGED <<word, worker>>
  /\ UNCHANGED <<now, log>>

DisablesLogging(w) ==
  /\ Answered(w) /\ Disable /\ word' = LoggingOff
  /\ worker' = [worker EXCEPT ![w] = [NoRpc EXCEPT !.at = "consent"]]
  /\ UNCHANGED <<now, log>>

LoggingNext ==
  \/ ClockTicks
  \/ \E w \in Workers : Reads(w) \/ Decides(w) \/ EnablesLogging(w) \/ DisablesLogging(w)

LoggingSpec == LoggingInit /\ [][LoggingNext]_loggingVars

-----------------------------------------------------------------------------
(* A verbose event is kept only while the player's last word is a consent   *)
(* to it, and only by a call that read the clock before that consent ran    *)
(* out, however the calls of several threads fall around the lock.          *)
VerboseHasConsent ==
  [][\A w \in Workers :
       worker[w].at = "verbose" /\ worker'[w].at = "recorded"
         => word.on /\ worker[w].now < word.until]_loggingVars
=============================================================================
