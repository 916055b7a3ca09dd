-------------------------- MODULE JournalStoreProofs --------------------------
(***************************************************************************)
(* What the journal store guarantees for any number of clients, operations *)
(* and entries, provided every client calls through ONE store object.      *)
(* OneMutator of PresentationTransition is what fails without the proviso. *)
(***************************************************************************)
EXTENDS JournalStore, TLAPS

\* A journal some runner built: opened, then appended to.
Recorded(j) ==
  /\ j \in Journals
  /\ Len(j.kinds) > 0
  /\ LegalHistory(j.kinds)

Saving(c) == pc[c] \in {"save", "replace"}

Shapes ==
  /\ file # None => Recorded(file) /\ file.op \in used
  /\ \A c \in Clients :
       /\ mem[c] # None => Recorded(mem[c]) /\ mem[c].op \in used
       /\ Saving(c) => job[c] # None /\ Recorded(job[c]) /\ job[c].op \in used

\* A client between the two halves of a critical section holds its lock.
HoldsLock ==
  \A c \in Clients : pc[c] \in {"replace", "unlink"} => lock[StoreOf[c]] = c

\* What a critical section validated still holds when it writes.
Validated ==
  \A c \in Clients :
    /\ pc[c] = "replace" /\ file # None => Progress(file, job[c])
    /\ pc[c] = "unlink" => file # None /\ Terminal(file)

\* The argument of a save is one step ahead of the memory of its caller, or
\* opens an operation nothing on disk knows of.
OneAhead ==
  \A c \in Clients : Saving(c) =>
    \/ /\ mem[c] = None
       /\ job[c] = Opened(job[c].op)
       /\ file # None => file.op # job[c].op
    \/ /\ mem[c] # None
       /\ \E kind \in Kinds : CanAppend(mem[c], kind)
                              /\ job[c] = Appended(mem[c], kind)

\* Two clients never carry the same operation.
Separate ==
  \A c, d \in Clients : c # d =>
    /\ mem[c] # None /\ mem[d] # None => mem[c].op # mem[d].op
    /\ mem[c] # None /\ Saving(d) => mem[c].op # job[d].op
    /\ Saving(c) /\ Saving(d) => job[c].op # job[d].op

StoreInv ==
  /\ StoreTypeOK /\ Shapes /\ HoldsLock /\ Validated /\ OneAhead /\ Separate
  /\ RunningOperationIsOnDisk

-----------------------------------------------------------------------------
(* Lemmas about journals                                                   *)

\* A journal as the runners open it is a legal history and not terminal.
LEMMA OpenedRecorded ==
  ASSUME NEW op \in Operations
  PROVE  /\ Recorded(Opened(op))
         /\ Opened(op).op = op
         /\ ~Terminal(Opened(op))
  BY MaxEntriesAssumption
  DEF Opened, Recorded, Journals, LegalHistory, FirstKinds, Kinds, Terminal,
      LastKind, TerminalKinds

\* append_journal_entry turns a legal history into a longer legal one of the
\* same operation, and the store accepts the step.
LEMMA AppendedRecorded ==
  ASSUME NEW j, Recorded(j), NEW kind \in Kinds, CanAppend(j, kind)
  PROVE  /\ Recorded(Appended(j, kind))
         /\ Appended(j, kind).op = j.op
         /\ Progress(j, Appended(j, kind))
         /\ Appended(j, kind) # j
<1> DEFINE k == Appended(j, kind)
<1>1. j.kinds \in Seq(Kinds) /\ j.op \in Operations
  BY DEF Recorded, Journals
<1>2. k = [j EXCEPT !.kinds = Append(j.kinds, kind)]
  BY DEF Appended
<1>3. k.kinds = Append(j.kinds, kind) /\ k.op = j.op /\ k \in Journals
  <2>1. Append(j.kinds, kind) \in Seq(Kinds)
    BY <1>1
  <2>2. j \in [op : Operations, kinds : Seq(Kinds)]
    BY DEF Recorded, Journals
  <2>3. k = [op |-> j.op, kinds |-> Append(j.kinds, kind)]
    BY <1>2, <2>2
  <2> QED
    BY <1>1, <2>1, <2>3 DEF Journals
<1>4. /\ Len(k.kinds) = Len(j.kinds) + 1
      /\ \A i \in 1 .. Len(j.kinds) : k.kinds[i] = j.kinds[i]
      /\ k.kinds[Len(j.kinds) + 1] = kind
      /\ Len(j.kinds) \in Nat
  BY <1>1, <1>3
<1>5. Len(k.kinds) <= MaxEntries
  BY <1>4, MaxEntriesAssumption DEF CanAppend
<1>6. ASSUME NEW i \in 1 .. Len(k.kinds)
      PROVE  k.kinds[i] \in IF i = 1 THEN FirstKinds
                                     ELSE AllowedNext[k.kinds[i - 1]]
  <2>1. CASE i \in 1 .. Len(j.kinds)
    <3>1. i # 1 => i - 1 \in 1 .. Len(j.kinds)
      BY <1>4, <2>1
    <3> QED
      BY <1>4, <2>1, <3>1 DEF Recorded, LegalHistory
  <2>2. CASE i = Len(j.kinds) + 1
    <3>1. i # 1 /\ i - 1 = Len(j.kinds) /\ Len(j.kinds) \in 1 .. Len(j.kinds)
      BY <1>4, <2>2 DEF Recorded
    <3>2. k.kinds[i - 1] = LastKind(j)
      BY <1>4, <3>1 DEF LastKind
    <3> QED
      BY <1>4, <2>2, <3>1, <3>2 DEF CanAppend
  <2> QED
    BY <1>4, <2>1, <2>2
<1>7. Recorded(k)
  BY <1>3, <1>4, <1>5, <1>6 DEF Recorded, LegalHistory
<1>8. Progress(j, k)
  BY <1>3, <1>4 DEF Progress, CanAppend
<1>9. k # j
  BY <1>4
<1> QED
  BY <1>3, <1>7, <1>8, <1>9

-----------------------------------------------------------------------------
(* The invariant is inductive                                              *)

\* StoreInv holds where the plugin starts with no journal.
LEMMA StoreInvInit == StoreInit => StoreInv
  BY DEF StoreInit, StoreInv, StoreTypeOK, Shapes, HoldsLock, Validated,
         OneAhead, Separate, Saving, RunningOperationIsOnDisk

\* Every step of a client, and a crash, preserve StoreInv.
LEMMA StoreInvNext ==
  ASSUME OneStore, StoreInv, [StoreNext]_vars
  PROVE  StoreInv'
<1> USE StoreAssumption DEF StoreInv
<1>t. StoreTypeOK
  OBVIOUS
<1>n. /\ \A c \in Clients : c # None
      /\ \A j \in Journals : j # None
      /\ \A j : Recorded(j) => j \in Journals
      /\ \A j : Recorded(j) => Len(j.kinds) > 0 /\ LegalHistory(j.kinds)
  BY DEF Journals, Recorded
<1>1. CASE UNCHANGED vars
  BY <1>1 DEF vars, StoreTypeOK, Shapes, HoldsLock, Validated, OneAhead,
              Separate, Saving, RunningOperationIsOnDisk
<1>2. CASE Crash
  BY <1>2 DEF Crash, StoreTypeOK, Shapes, HoldsLock, Validated, OneAhead,
              Separate, Saving, RunningOperationIsOnDisk
<1>3. ASSUME NEW c \in Clients, NEW op \in Operations, BeginOperation(c, op)
      PROVE  StoreInv'
  <2>1. /\ Recorded(Opened(op)) /\ Opened(op).op = op
        /\ Opened(op) # None /\ Opened(op) \in Journals
    BY OpenedRecorded, <1>n
  <2>2. StoreTypeOK'
    BY <1>3, <1>t, <2>1 DEF BeginOperation, StoreTypeOK
  <2>3. Shapes'
    BY <1>3, <1>t, <2>1 DEF BeginOperation, StoreTypeOK, Shapes, Saving
  <2>4. HoldsLock' /\ Validated'
    BY <1>3, <1>t DEF BeginOperation, StoreTypeOK, HoldsLock, Validated
  <2>5. OneAhead'
    BY <1>3, <1>t, <2>1
    DEF BeginOperation, StoreTypeOK, OneAhead, Shapes, Saving
  <2>6. Separate'
    BY <1>3, <1>t, <2>1
    DEF BeginOperation, StoreTypeOK, Separate, Shapes, Saving
  <2>7. RunningOperationIsOnDisk'
    BY <1>3 DEF BeginOperation, RunningOperationIsOnDisk
  <2> QED
    BY <2>2, <2>3, <2>4, <2>5, <2>6, <2>7
<1>4. ASSUME NEW c \in Clients, NEW kind \in Kinds, RecordEvent(c, kind)
      PROVE  StoreInv'
  <2> DEFINE j == Appended(mem[c], kind)
  <2>1. Recorded(j) /\ j.op = mem[c].op /\ j # None /\ j \in Journals
    BY <1>4, <1>n, AppendedRecorded DEF RecordEvent, Shapes
  <2>2. CanAppend(mem[c], kind) /\ job' = [job EXCEPT ![c] = j]
    BY <1>4 DEF RecordEvent
  <2> HIDE DEF j
  <2>3. StoreTypeOK'
    BY <1>4, <1>t, <2>1, <2>2 DEF RecordEvent, StoreTypeOK
  <2>4. Shapes'
    BY <1>4, <1>t, <2>1, <2>2 DEF RecordEvent, StoreTypeOK, Shapes, Saving
  <2>5. HoldsLock' /\ Validated'
    BY <1>4, <1>t, <2>2 DEF RecordEvent, StoreTypeOK, HoldsLock, Validated
  <2>6. OneAhead'
    BY <1>4, <1>t, <2>1, <2>2
    DEF RecordEvent, StoreTypeOK, OneAhead, Saving, j
  <2>7. Separate'
    BY <1>4, <1>t, <2>1, <2>2 DEF RecordEvent, StoreTypeOK, Separate, Saving
  <2>8. RunningOperationIsOnDisk'
    BY <1>4 DEF RecordEvent, RunningOperationIsOnDisk
  <2> QED
    BY <2>3, <2>4, <2>5, <2>6, <2>7, <2>8
<1>5. ASSUME NEW c \in Clients, ReturnFromRun(c) \/ Resume(c)
      PROVE  StoreInv'
  BY <1>5, <1>t
  DEF ReturnFromRun, Resume, StoreTypeOK, Shapes, HoldsLock, Validated,
      OneAhead, Separate, Saving, RunningOperationIsOnDisk
<1>6. ASSUME NEW c \in Clients, NEW op \in Operations, BeginClear(c, op)
      PROVE  StoreInv'
  BY <1>6, <1>t
  DEF BeginClear, StoreTypeOK, Shapes, HoldsLock, Validated,
      OneAhead, Separate, Saving, RunningOperationIsOnDisk
<1>7. ASSUME NEW c \in Clients, SaveValidates(c) \/ ClearValidates(c)
      PROVE  StoreInv'
  <2>1. lock[StoreOf[c]] = None /\ lock' = [lock EXCEPT ![StoreOf[c]] = c]
    BY <1>7 DEF SaveValidates, ClearValidates
  <2>2. \A d \in Clients : pc[d] \notin {"replace", "unlink"}
    BY <2>1, <1>n DEF OneStore, HoldsLock
  <2>3. StoreTypeOK'
    BY <1>7, <1>t DEF SaveValidates, ClearValidates, StoreTypeOK
  <2>4. Shapes' /\ OneAhead' /\ Separate' /\ RunningOperationIsOnDisk'
    BY <1>7, <1>t
    DEF SaveValidates, ClearValidates, StoreTypeOK, Shapes, OneAhead,
        Separate, Saving, RunningOperationIsOnDisk
  <2>5. HoldsLock' /\ Validated'
    BY <1>7, <1>t, <2>1, <2>2
    DEF SaveValidates, ClearValidates, StoreTypeOK, HoldsLock, Validated
  <2> QED
    BY <2>3, <2>4, <2>5
<1>8. ASSUME NEW c \in Clients, SaveRefused(c) \/ ClearRefused(c)
      PROVE  StoreInv'
  BY <1>8, <1>t
  DEF SaveRefused, ClearRefused, Leave, StoreTypeOK, Shapes, HoldsLock,
      Validated, OneAhead, Separate, Saving, RunningOperationIsOnDisk
<1>9. ASSUME NEW c \in Clients, Replace(c) \/ ReplaceFails(c) \/ Unlink(c)
      PROVE  StoreInv'
  <2>1. pc[c] \in {"replace", "unlink"}
    BY <1>9 DEF Replace, ReplaceFails, Unlink
  <2>2. \A d \in Clients : d # c => pc[d] \notin {"replace", "unlink"}
    BY <2>1 DEF OneStore, HoldsLock
  <2>3. lock' = [lock EXCEPT ![StoreOf[c]] = None] /\ Leave(c)
    BY <1>9 DEF Replace, ReplaceFails, Unlink
  <2>4. HoldsLock' /\ Validated'
    BY <2>2, <2>3, <1>t DEF Leave, StoreTypeOK, HoldsLock, Validated
  <2>5. CASE Replace(c)
    <3>1. /\ Saving(c) /\ Recorded(job[c]) /\ job[c].op \in used
          /\ job[c] \in Journals /\ job[c] # None
      BY <2>5, <1>n DEF Replace, Saving, Shapes
    <3>2. StoreTypeOK'
      BY <2>5, <3>1, <1>t, <1>n DEF Replace, Leave, StoreTypeOK
    <3>3. Shapes'
      BY <2>5, <3>1, <1>t DEF Replace, Leave, StoreTypeOK, Shapes, Saving
    <3>4. OneAhead'
      BY <2>5, <3>1, <1>t
      DEF Replace, Leave, StoreTypeOK, OneAhead, Separate, Saving
    <3>5. Separate'
      BY <2>5, <3>1, <1>t DEF Replace, Leave, StoreTypeOK, Separate, Saving
    <3>6. RunningOperationIsOnDisk'
      BY <2>5, <3>1, <1>t
      DEF Replace, Leave, StoreTypeOK, RunningOperationIsOnDisk, Separate,
          Validated, Progress
    <3> QED
      BY <2>4, <3>2, <3>3, <3>4, <3>5, <3>6
  <2>6. CASE ReplaceFails(c)
    BY <2>4, <2>6, <1>t
    DEF ReplaceFails, Leave, StoreTypeOK, Shapes, OneAhead, Separate, Saving,
        RunningOperationIsOnDisk
  <2>7. CASE Unlink(c)
    <3>1. \A d \in Clients : mem[d] # None => Terminal(mem[d])
      BY <2>7 DEF Unlink, Validated, RunningOperationIsOnDisk
    <3> QED
      BY <2>4, <2>7, <3>1, <1>t
      DEF Unlink, Leave, StoreTypeOK, Shapes, OneAhead, Separate, Saving,
          RunningOperationIsOnDisk
  <2> QED
    BY <1>9, <2>5, <2>6, <2>7
<1> QED
  BY <1>1, <1>2, <1>3, <1>4, <1>5, <1>6, <1>7, <1>8, <1>9
  DEF StoreNext, ClientStep

-----------------------------------------------------------------------------
(* What a replace and an unlink do to the file                             *)

\* A replace opens an operation on an empty file or extends what is there by
\* one legal event: the lock makes validation and write one step.
LEMMA ReplaceExtends ==
  ASSUME StoreInv, NEW c \in Clients, Replace(c)
  PROVE  /\ file' # None
         /\ \/ file = None /\ \E op \in Operations : file' = Opened(op)
            \/ /\ file # None /\ ~Terminal(file) /\ Progress(file, file')
               /\ \E kind \in Kinds : CanAppend(file, kind)
                                      /\ file' = Appended(file, kind)
<1>1. /\ Saving(c) /\ file' = job[c] /\ job[c] # None
      /\ job[c].op \in Operations
      /\ file # None => Progress(file, job[c])
  BY DEF Replace, Saving, StoreInv, Shapes, Validated, Recorded, Journals
<1>2. CASE mem[c] = None
  <2>1. job[c] = Opened(job[c].op) /\ (file # None => file.op # job[c].op)
    BY <1>1, <1>2 DEF StoreInv, OneAhead
  <2>2. file = None
    BY <1>1, <2>1 DEF Progress
  <2> QED
    BY <1>1, <2>1, <2>2
<1>3. CASE mem[c] # None
  <2>1. PICK kind \in Kinds : CanAppend(mem[c], kind)
                              /\ job[c] = Appended(mem[c], kind)
    BY <1>1, <1>3 DEF StoreInv, OneAhead
  <2>2. file = mem[c] /\ ~Terminal(mem[c])
    BY <1>3, <2>1 DEF StoreInv, RunningOperationIsOnDisk, CanAppend
  <2> QED
    BY <1>1, <1>3, <2>1, <2>2
<1> QED
  BY <1>2, <1>3

\* No other step of a client writes the file, except an unlink, which finds a
\* terminal journal there.
LEMMA FileStep ==
  ASSUME StoreInv, [StoreNext]_vars
  PROVE  \/ file' = file
         \/ \E c \in Clients : Replace(c)
         \/ file # None /\ Terminal(file) /\ file' = None
<1>1. CASE UNCHANGED vars \/ Crash
  BY <1>1 DEF vars, Crash
<1>2. ASSUME NEW c \in Clients, Unlink(c)
      PROVE  file # None /\ Terminal(file) /\ file' = None
  BY <1>2 DEF Unlink, StoreInv, Validated
<1>3. ASSUME NEW c \in Clients, ClientStep(c), ~Replace(c), ~Unlink(c)
      PROVE  file' = file
  BY <1>3
  DEF ClientStep, BeginOperation, BeginClear, RecordEvent, ReturnFromRun,
      Resume, SaveValidates, SaveRefused, ReplaceFails, ClearValidates,
      ClearRefused
<1> QED
  BY <1>1, <1>2, <1>3 DEF StoreNext

-----------------------------------------------------------------------------
(* The theorems                                                            *)

\* With one store object the invariant holds in every reachable state,
\* whatever the callers do and wherever the process dies.
THEOREM StoreInvariant == ASSUME OneStore PROVE StoreSpec => []StoreInv
<1>1. StoreInit => StoreInv
  BY StoreInvInit
<1>2. StoreInv /\ [StoreNext]_vars => StoreInv'
  BY StoreInvNext
<1> QED
  BY <1>1, <1>2, PTL DEF StoreSpec

\* The file always holds a journal its class would construct, and every
\* variable keeps its type.
THEOREM StoreTyping == ASSUME OneStore PROVE StoreSpec => []StoreTypeOK
<1>1. StoreInv => StoreTypeOK
  BY DEF StoreInv
<1> QED
  BY <1>1, StoreInvariant, PTL

\* What a running operation believes it recorded is what a restart loads.
THEOREM StoreDurability ==
  ASSUME OneStore PROVE StoreSpec => []RunningOperationIsOnDisk
<1>1. StoreInv => RunningOperationIsOnDisk
  BY DEF StoreInv
<1> QED
  BY <1>1, StoreInvariant, PTL

\* The stored history is never overwritten, cut short or diverted.
THEOREM StoreHistory == ASSUME OneStore PROVE StoreSpec => HistoryOnlyGrows
<1>1. StoreInv /\ [StoreNext]_vars
        => [file # None /\ file' # None
              => file' = file \/ Progress(file, file')]_vars
  BY FileStep, ReplaceExtends
<1> QED
  BY <1>1, StoreInvariant, PTL DEF StoreSpec, HistoryOnlyGrows

\* An incomplete journal is never removed.
THEOREM StoreRetention ==
  ASSUME OneStore PROVE StoreSpec => OnlyTerminalDiscarded
<1>1. StoreInv /\ [StoreNext]_vars
        => [file # None /\ file' = None => Terminal(file)]_vars
  BY FileStep, ReplaceExtends
<1> QED
  BY <1>1, StoreInvariant, PTL DEF StoreSpec, OnlyTerminalDiscarded

\* The store with its lock, its two-phase writes, refusals, failures and
\* crashes implements the atomic register of JournalRegister.
THEOREM StoreImplementsRegister ==
  ASSUME OneStore PROVE StoreSpec => RegisterBehaviour
<1>1. StoreInit => Register!RegisterInit
  BY DEF StoreInit, Register!RegisterInit
<1>2. StoreInv /\ [StoreNext]_vars => [Register!RegisterNext]_file
  <2> SUFFICES ASSUME StoreInv, [StoreNext]_vars
               PROVE  [Register!RegisterNext]_file
    OBVIOUS
  <2>1. ASSUME NEW c \in Clients, Replace(c) PROVE Register!RegisterNext
    <3>1. CASE file = None /\ \E op \in Operations : file' = Opened(op)
      BY <3>1
      DEF Register!RegisterNext, Register!Open, Opened, Register!Opened
    <3>2. ASSUME NEW kind \in Kinds, file # None, ~Terminal(file),
                 CanAppend(file, kind), file' = Appended(file, kind)
          PROVE  Register!RegisterNext
      <4>1. kind \in Register!AllowedNext[Register!LastKind(file)]
        BY <3>2
        DEF CanAppend, AllowedNext, Register!AllowedNext, LastKind,
            Register!LastKind
      <4>2. Register!CanAppend(file, kind) /\ ~Register!Terminal(file)
        BY <3>2, <4>1
        DEF CanAppend, Register!CanAppend, Terminal, Register!Terminal,
            TerminalKinds, Register!TerminalKinds, LastKind,
            Register!LastKind
      <4>3. file' = Register!Appended(file, kind)
        BY <3>2 DEF Appended, Register!Appended
      <4> QED
        BY <3>2, <4>1, <4>2, <4>3 DEF Register!RegisterNext, Register!Grow
    <3> QED
      BY <2>1, <3>1, <3>2, ReplaceExtends
  <2>2. CASE file # None /\ Terminal(file) /\ file' = None
    BY <2>2
    DEF Register!RegisterNext, Register!Clear, Terminal, Register!Terminal,
        TerminalKinds, Register!TerminalKinds, LastKind, Register!LastKind
  <2> QED
    BY <2>1, <2>2, FileStep
<1> QED
  BY <1>1, <1>2, StoreInvariant, PTL
  DEF StoreSpec, RegisterBehaviour, Register!RegisterSpec
===============================================================================
