-------------------------- MODULE TransitionJournal --------------------------
(***************************************************************************)
(* The transition journal as a value: an operation identity and the        *)
(* sequence of its event kinds.  Timestamps, codes and details are left    *)
(* out; the owner marker (the first entry's code) is a field of its own in *)
(* the modules that tell owners apart.                                     *)
(***************************************************************************)
EXTENDS Naturals, Sequences

CONSTANT MaxEntries    \* MAX_JOURNAL_ENTRIES, 128 in the code

ASSUME MaxEntriesAssumption == MaxEntries \in Nat \ {0}

Kinds == {"requested", "observed", "validated", "planned", "step_started",
          "substep_started", "substep_verified", "step_verified", "committed",
          "blocked", "recovery_started", "recovery_verified", "failed"}

TerminalKinds == {"committed", "blocked", "recovery_verified", "failed"}

FirstKinds == {"requested"}

\* Fault: a verified step may no longer be recovered.
AllowedNextWithoutRecovery ==
  [requested         |-> {"observed", "blocked", "failed"},
   observed          |-> {"validated", "blocked", "failed"},
   validated         |-> {"planned", "blocked", "failed"},
   planned           |-> {"step_started", "committed", "blocked", "failed"},
   step_started      |-> {"substep_started", "step_verified", "blocked",
                          "recovery_started", "failed"},
   substep_started   |-> {"substep_verified", "recovery_started", "failed"},
   substep_verified  |-> {"substep_started", "step_verified", "failed"},
   step_verified     |-> {"step_started", "committed", "blocked", "failed"},
   recovery_started  |-> {"recovery_verified", "failed"},
   committed         |-> {},
   blocked           |-> {},
   recovery_verified |-> {},
   failed            |-> {}]

\* ALLOWED_NEXT, as a function of the last event of the journal.
AllowedNext ==
  [requested         |-> {"observed", "blocked", "failed"},
   observed          |-> {"validated", "blocked", "failed"},
   validated         |-> {"planned", "blocked", "failed"},
   planned           |-> {"step_started", "committed", "blocked",
                          "recovery_started", "failed"},
   step_started      |-> {"substep_started", "step_verified", "blocked",
                          "recovery_started", "failed"},
   substep_started   |-> {"substep_verified", "blocked", "recovery_started",
                          "failed"},
   substep_verified  |-> {"substep_started", "step_verified", "blocked",
                          "recovery_started", "failed"},
   step_verified     |-> {"step_started", "committed", "blocked",
                          "recovery_started", "failed"},
   recovery_started  |-> {"recovery_verified", "failed"},
   committed         |-> {},
   blocked           |-> {},
   recovery_verified |-> {},
   failed            |-> {}]

-----------------------------------------------------------------------------

\* What TransitionJournal.__post_init__ accepts.  An empty entry tuple is
\* legal for the class and never saved by any caller.
LegalHistory(kinds) ==
  /\ Len(kinds) <= MaxEntries
  /\ \A i \in 1 .. Len(kinds) :
       kinds[i] \in IF i = 1 THEN FirstKinds ELSE AllowedNext[kinds[i - 1]]

LastKind(j) == j.kinds[Len(j.kinds)]

Terminal(j) == Len(j.kinds) > 0 /\ LastKind(j) \in TerminalKinds

\* The journal every runner builds first: one "requested" entry.
Opened(op) == [op |-> op, kinds |-> <<"requested">>]

\* Fault: the capacity test is off by one.
CanAppendToFull(j, kind) ==
  /\ ~Terminal(j)
  /\ Len(j.kinds) <= MaxEntries
  /\ kind \in AllowedNext[LastKind(j)]

\* append_journal_entry: refused on a terminal or a full journal, and the
\* constructor refuses a kind that does not follow the last one.
CanAppend(j, kind) ==
  /\ ~Terminal(j)
  /\ Len(j.kinds) < MaxEntries
  /\ kind \in AllowedNext[LastKind(j)]

Appended(j, kind) == [j EXCEPT !.kinds = Append(@, kind)]

\* FileTransitionJournalStore._validate_progress: the replacement is the same
\* operation and the stored history is a prefix of it.
Progress(old, new) ==
  /\ old.op = new.op
  /\ ~Terminal(old)
  /\ Len(old.kinds) <= Len(new.kinds)
  /\ \A i \in 1 .. Len(old.kinds) : new.kinds[i] = old.kinds[i]
=============================================================================
