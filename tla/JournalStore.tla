----------------------------- MODULE JournalStore -----------------------------
(***************************************************************************)
(* FileTransitionJournalStore under concurrent callers.  Every save and    *)
(* clear is a critical section of ONE store object: load and validate the  *)
(* file, then replace or unlink it.  Callers with different store objects  *)
(* (main.py builds one per call) share the file and not the lock, so the   *)
(* two halves of their critical sections may interleave.                   *)
(*                                                                         *)
(* A replace is atomic (temporary file, fsync, os.replace) and so is a     *)
(* load; a failure of either half leaves the file as it was.  The process  *)
(* may die between any two steps; locks and memory die with it.            *)
(***************************************************************************)
EXTENDS TransitionJournal

CONSTANTS
  Clients,       \* threads that hold a reference to some store object
  Operations,    \* operation identities; random in the code, so never reused
  Stores,        \* store objects
  StoreOf,       \* the store object each client calls
  None

ASSUME StoreAssumption ==
  /\ StoreOf \in [Clients -> Stores]
  /\ None \notin [op : Operations, kinds : Seq(Kinds)]
  /\ None \notin Operations
  /\ None \notin Clients

VARIABLES
  file,    \* active-transition.json: None or the last replaced journal
  lock,    \* holder of each store object's threading.Lock
  pc,      \* where each client is in save or clear_terminal
  job,     \* the argument of the call in progress
  mem,     \* the journal a running operation carries between saves
  used     \* operation identities already drawn

vars == <<file, lock, pc, job, mem, used>>

Journals == [op : Operations, kinds : Seq(Kinds)]

StoreInit ==
  /\ file = None
  /\ lock = [s \in Stores |-> None]
  /\ pc = [c \in Clients |-> "idle"]
  /\ job = [c \in Clients |-> None]
  /\ mem = [c \in Clients |-> None]
  /\ used = {}

-----------------------------------------------------------------------------
(* Calls made by the runners                                               *)

\* A runner opens its operation: save(REQUESTED) of a fresh identity.
BeginOperation(c, op) ==
  /\ pc[c] = "idle" /\ mem[c] = None
  /\ op \notin used
  /\ used' = used \cup {op}
  /\ pc' = [pc EXCEPT ![c] = "save"]
  /\ job' = [job EXCEPT ![c] = Opened(op)]
  /\ UNCHANGED <<file, lock, mem>>

\* A runner appends the next event to the journal it carries and saves it.
RecordEvent(c, kind) ==
  /\ pc[c] = "idle" /\ mem[c] # None
  /\ CanAppend(mem[c], kind)
  /\ pc' = [pc EXCEPT ![c] = "save"]
  /\ job' = [job EXCEPT ![c] = Appended(mem[c], kind)]
  /\ UNCHANGED <<file, lock, mem, used>>

\* The run returns to its caller: terminal, blocked, or given up after a
\* failed save.
ReturnFromRun(c) ==
  /\ pc[c] = "idle" /\ mem[c] # None
  /\ mem' = [mem EXCEPT ![c] = None]
  /\ UNCHANGED <<file, lock, pc, job, used>>

\* Recovery after a restart loads the incomplete journal and carries it on.
\* It runs from _main, before any other operation of the new process.
Resume(c) ==
  /\ \A d \in Clients : pc[d] = "idle" /\ mem[d] = None
  /\ file # None
  /\ ~Terminal(file)
  /\ mem' = [mem EXCEPT ![c] = file]
  /\ UNCHANGED <<file, lock, pc, job, used>>

\* An acknowledgement names an operation the player was shown.
BeginClear(c, op) ==
  /\ pc[c] = "idle" /\ mem[c] = None
  /\ op \in used
  /\ pc' = [pc EXCEPT ![c] = "clear"]
  /\ job' = [job EXCEPT ![c] = op]
  /\ UNCHANGED <<file, lock, mem, used>>

-----------------------------------------------------------------------------
(* save(journal)                                                           *)

Leave(c) ==
  /\ pc' = [pc EXCEPT ![c] = "idle"]
  /\ job' = [job EXCEPT ![c] = None]

\* Faults of a save: no validation against the file, a lock released between
\* validation and write, memory that moves on although nothing was written.
SaveWithoutValidation(c) ==
  /\ pc[c] = "save"
  /\ lock[StoreOf[c]] = None
  /\ lock' = [lock EXCEPT ![StoreOf[c]] = c]
  /\ pc' = [pc EXCEPT ![c] = "replace"]
  /\ UNCHANGED <<file, job, mem, used>>

SaveWithoutLock(c) ==
  /\ pc[c] = "save"
  /\ lock[StoreOf[c]] = None
  /\ file # None => Progress(file, job[c])
  /\ pc' = [pc EXCEPT ![c] = "replace"]
  /\ UNCHANGED <<file, lock, job, mem, used>>

ReplaceFailsUnnoticed(c) ==
  /\ pc[c] = "replace"
  /\ mem' = [mem EXCEPT ![c] = job[c]]
  /\ lock' = [lock EXCEPT ![StoreOf[c]] = None]
  /\ Leave(c)
  /\ UNCHANGED <<file, used>>

\* Acquire the lock, load the file and validate: go on to the replace.  (A
\* save of the very journal on file returns early; entries carry timestamps,
\* so no caller makes one, and replacing a file by itself changes nothing.)
SaveValidates(c) ==
  /\ pc[c] = "save"
  /\ lock[StoreOf[c]] = None
  /\ file # None => Progress(file, job[c])
  /\ lock' = [lock EXCEPT ![StoreOf[c]] = c]
  /\ pc' = [pc EXCEPT ![c] = "replace"]
  /\ UNCHANGED <<file, job, mem, used>>

\* _validate_progress raises; the caller keeps the journal it had.
SaveRefused(c) ==
  /\ pc[c] = "save"
  /\ lock[StoreOf[c]] = None
  /\ file # None
  /\ ~Progress(file, job[c])
  /\ Leave(c)
  /\ UNCHANGED <<file, lock, mem, used>>

Replace(c) ==
  /\ pc[c] = "replace"
  /\ file' = job[c]
  /\ mem' = [mem EXCEPT ![c] = job[c]]
  /\ lock' = [lock EXCEPT ![StoreOf[c]] = None]
  /\ Leave(c)
  /\ UNCHANGED used

\* Creating, writing, syncing or renaming the temporary file fails.
ReplaceFails(c) ==
  /\ pc[c] = "replace"
  /\ lock' = [lock EXCEPT ![StoreOf[c]] = None]
  /\ Leave(c)
  /\ UNCHANGED <<file, mem, used>>

-----------------------------------------------------------------------------
(* clear_terminal(operation_id)                                            *)

ClearValidates(c) ==
  /\ pc[c] = "clear"
  /\ lock[StoreOf[c]] = None
  /\ file # None
  /\ file.op = job[c]
  /\ Terminal(file)
  /\ lock' = [lock EXCEPT ![StoreOf[c]] = c]
  /\ pc' = [pc EXCEPT ![c] = "unlink"]
  /\ UNCHANGED <<file, job, mem, used>>

\* No journal, another operation, or an incomplete one.
ClearRefused(c) ==
  /\ pc[c] = "clear"
  /\ lock[StoreOf[c]] = None
  /\ file # None => file.op # job[c] \/ ~Terminal(file)
  /\ Leave(c)
  /\ UNCHANGED <<file, lock, mem, used>>

\* The unlink removes whatever the path names by now.
Unlink(c) ==
  /\ pc[c] = "unlink"
  /\ file' = None
  /\ lock' = [lock EXCEPT ![StoreOf[c]] = None]
  /\ Leave(c)
  /\ UNCHANGED <<mem, used>>

-----------------------------------------------------------------------------

\* The plugin process dies or is reloaded: only the file survives.
Crash ==
  /\ \E c \in Clients : pc[c] # "idle" \/ mem[c] # None
  /\ lock' = [s \in Stores |-> None]
  /\ pc' = [c \in Clients |-> "idle"]
  /\ job' = [c \in Clients |-> None]
  /\ mem' = [c \in Clients |-> None]
  /\ UNCHANGED <<file, used>>

ClientStep(c) ==
  \/ \E op \in Operations : BeginOperation(c, op) \/ BeginClear(c, op)
  \/ \E kind \in Kinds : RecordEvent(c, kind)
  \/ ReturnFromRun(c) \/ Resume(c)
  \/ SaveValidates(c) \/ SaveRefused(c)
  \/ Replace(c) \/ ReplaceFails(c)
  \/ ClearValidates(c) \/ ClearRefused(c) \/ Unlink(c)

StoreNext == Crash \/ \E c \in Clients : ClientStep(c)

StoreSpec == StoreInit /\ [][StoreNext]_vars

-----------------------------------------------------------------------------
(* Properties                                                              *)

\* Every client calls through one store object, as the tests of the store do.
OneStore == \A c, d \in Clients : StoreOf[c] = StoreOf[d]

\* The type of the state, with every journal in it a history the journal
\* class would construct.
StoreTypeOK ==
  /\ file \in Journals \cup {None}
  /\ file # None => Len(file.kinds) > 0 /\ LegalHistory(file.kinds)
  /\ lock \in [Stores -> Clients \cup {None}]
  /\ pc \in [Clients -> {"idle", "save", "replace", "clear", "unlink"}]
  /\ job \in [Clients -> Journals \cup Operations \cup {None}]
  /\ mem \in [Clients -> Journals \cup {None}]
  /\ used \subseteq Operations

\* The stored history never regresses, diverges, outlives its terminal event
\* or turns into another operation's: the docstring's "refuses
\* cross-operation overwrite or history regression", of concurrent saves.
HistoryOnlyGrows ==
  [][file # None /\ file' # None => file' = file \/ Progress(file, file')]_vars

\* Incomplete state cannot be discarded through the store, whatever saves
\* run beside the acknowledgement.
OnlyTerminalDiscarded ==
  [][file # None /\ file' = None => Terminal(file)]_vars

\* The journal is the crash-recovery authority: while an operation is
\* running, what it believes it has recorded is what a restart would load.
RunningOperationIsOnDisk ==
  \A c \in Clients : mem[c] # None /\ ~Terminal(mem[c]) => file = mem[c]

\* The store implements the register it promises to be.
Register == INSTANCE JournalRegister WITH journal <- file
RegisterBehaviour == Register!RegisterSpec
===============================================================================
