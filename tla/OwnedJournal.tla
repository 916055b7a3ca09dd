----------------------------- MODULE OwnedJournal -----------------------------
(***************************************************************************)
(* The journal on file as process release and canonical sleep read it: who *)
(* opened it (the code of its first entry), its last event and the step it *)
(* is in (step_code of the last STEP_STARTED).  The length stands for the  *)
(* history: every save of an operation appends, so two histories of one    *)
(* operation and of the same length are the same history exactly when one  *)
(* writer wrote both.                                                      *)
(***************************************************************************)
EXTENDS TransitionJournal

CONSTANTS
  Ops,     \* operation identities; random in the code, so never reused
  None     \* no journal, no operation

VARIABLES
  file,        \* active-transition.json
  diskFails    \* whether writes of it may fail in this behaviour

Owners == {"process_release", "sleep"}

\* "" before a sleep operation's first step, and in a release, whose targets are
\* told apart elsewhere.
JournalSteps == {"", "awaiting_game_consent", "closing_game", "releasing_clients",
                 "awaiting_disconnect", "restoring_portable", "ready_to_continue_sleep"}

Journals == [op : Ops, owner : Owners, kind : Kinds, step : JournalSteps, len : Nat]

ASSUME NoneAssumption == None \notin Journals

OpenedJournal(op, owner) ==
  [op |-> op, owner |-> owner, kind |-> "requested", step |-> "", len |-> 1]

Ended(j) == j.kind \in TerminalKinds

\* append_journal_entry once for each kind, each checked by the constructor.
MayAppend(j, kinds) ==
  /\ ~Ended(j)
  /\ j.len + Len(kinds) <= MaxEntries
  /\ \A i \in 1 .. Len(kinds) :
       kinds[i] \in AllowedNext[IF i = 1 THEN j.kind ELSE kinds[i - 1]]

WithKinds(j, kinds) ==
  [j EXCEPT !.kind = kinds[Len(kinds)], !.len = @ + Len(kinds)]

\* Fault: the stored history is not compared.
AcceptsAnything(stored, base) == TRUE

\* FileTransitionJournalStore.save: without a file everything is accepted;
\* otherwise the stored history must be the one the writer extended.
Accepts(stored, base) == stored = None \/ stored = base
=============================================================================
