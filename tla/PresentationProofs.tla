-------------------------- MODULE PresentationProofs --------------------------
(***************************************************************************)
(* What holds of presentation transitions for any number of runners and    *)
(* requests, with or without startup recovery, whatever fails and wherever *)
(* the process dies.  RunInv is about a run and the journal it carries and *)
(* needs nothing of the file they share.  FileInv adds what ties the run,  *)
(* the file and the launch configuration together until an opening or an   *)
(* unlink hits a journal that its check had not read.                      *)
(***************************************************************************)
EXTENDS PresentationTransition, TLAPS

\* Labels of a run that has opened an operation.
Active == Labels \ {"idle", "planned", "opening"}

\* Labels of a run whose step may have started.
Stepped == {"apply", "configured", "audio", "rollback", "verify", "verified",
            "recover", "diagnose", "confirm", "conclude", "resume"}

\* The events of a request before its step.
Early == {"requested", "observed", "validated", "planned"}

\* The most entries a journal has when one of these events is its last.
Entries ==
  [requested |-> 1, observed |-> 2, validated |-> 3, planned |-> 4,
   step_started |-> 5, step_verified |-> 6, recovery_started |-> 7]

\* A journal as runs write it: short, and with step_started exactly when a
\* step that leads somewhere else may have begun.
GoodRecord(j) ==
  /\ j \in Records
  /\ Len(j.kinds) > 0
  /\ LastKind(j) \in DOMAIN Entries \cup TerminalKinds
  /\ LastKind(j) \in DOMAIN Entries => Len(j.kinds) <= Entries[LastKind(j)]
  /\ LastKind(j) \in Early => ~Happened(j, "step_started")
  /\ LastKind(j) \in MutationKinds =>
       Happened(j, "step_started") /\ j.from # j.target

\* The events a run appends to a journal.
Follows(j, kind) ==
  \/ kind \in TerminalKinds
  \/ LastKind(j) = "requested" /\ kind = "observed"
  \/ LastKind(j) = "observed" /\ kind = "validated"
  \/ LastKind(j) = "validated" /\ kind = "planned"
  \/ LastKind(j) = "planned" /\ kind = "step_started" /\ j.from # j.target
  \/ LastKind(j) = "step_started" /\ kind = "step_verified"
  \/ LastKind(j) \in {"step_started", "step_verified"} /\ kind = "recovery_started"

\* The last event of the journal a run carries, where the run stands.
StandsAt(label, last) ==
  /\ label = "opened" => last = "requested"
  /\ label = "accepted" => last = "observed"
  /\ label = "validated" => last = "validated"
  /\ label = "ready" => last = "planned"
  /\ label = "blocking" => last \in {"observed", "planned"}
  /\ label = "failing" => last \in Early
  /\ label = "verify" => last = "step_started"
  /\ label = "verified" => last = "step_verified"
  /\ label \in {"recover", "resume"} => last \in {"step_started", "step_verified"}

\* A run that takes the session back to the source.
Recovers(r) ==
  \/ pc[r] \in {"diagnose", "confirm", "conclude"}
  \/ pc[r] \in Mutating /\ ~Applying(r)

\* A run and the journal it carries agree.
RunStands(r) ==
  /\ GoodRecord(mem[r]) /\ ~Terminal(mem[r])
  /\ plan[r].op = mem[r].op
  /\ plan[r].from = mem[r].from /\ plan[r].target = mem[r].target
  /\ StandsAt(pc[r], LastKind(mem[r]))
  /\ pc[r] \in Stepped => LastKind(mem[r]) \in MutationKinds
  /\ pc[r] \in Mutating => aim[r] \in {plan[r].from, plan[r].target}
  /\ pc[r] \in Mutating /\ Applying(r) => LastKind(mem[r]) = "step_started"
  /\ Recovers(r) /\ sound[r] => LastKind(mem[r]) = "recovery_started"

\* Two runs never execute the same plan.
OwnPlans ==
  \A r, s \in Runners :
    plan[r] # None /\ plan[s] # None /\ plan[r].op = plan[s].op => r = s

RunInv ==
  /\ TypeOK
  /\ file # None => GoodRecord(file)
  /\ startup => \A r \in Runners : pc[r] = "idle"
  /\ \A r \in Runners : /\ pc[r] = "idle" <=> plan[r] = None
                        /\ pc[r] = "opening" => mem[r] = None
                        /\ pc[r] \in Active => RunStands(r)
  /\ OwnPlans

-----------------------------------------------------------------------------
(* Lemmas about journals                                                   *)

\* An appended event is the last one, and the history before it stays.
LEMMA AppendedKinds ==
  ASSUME NEW j \in Records, NEW kind \in Kinds
  PROVE  /\ Appended(j, kind) \in Records
         /\ Len(Appended(j, kind).kinds) = Len(j.kinds) + 1
         /\ Appended(j, kind).op = j.op
         /\ Appended(j, kind).from = j.from
         /\ Appended(j, kind).target = j.target
         /\ LastKind(Appended(j, kind)) = kind
         /\ \A e : Happened(Appended(j, kind), e) <=> Happened(j, e) \/ e = kind
<1> DEFINE k == Appended(j, kind)
<1>1. /\ j.kinds \in Seq(Kinds) /\ j.op \in Operations
      /\ j.from \in Placements /\ j.target \in Targets
  BY DEF Records
<1>2. k = [op |-> j.op, kinds |-> Append(j.kinds, kind),
           from |-> j.from, target |-> j.target]
  BY DEF Appended, Records
<1>3. /\ Append(j.kinds, kind) \in Seq(Kinds)
      /\ Len(Append(j.kinds, kind)) = Len(j.kinds) + 1
      /\ Append(j.kinds, kind)[Len(j.kinds) + 1] = kind
      /\ \A i \in 1 .. Len(j.kinds) : Append(j.kinds, kind)[i] = j.kinds[i]
      /\ Len(j.kinds) \in Nat
  BY <1>1
<1>4. k \in Records /\ k.kinds = Append(j.kinds, kind)
  BY <1>1, <1>2, <1>3 DEF Records
<1>5. ASSUME NEW e
      PROVE  Happened(k, e) <=> Happened(j, e) \/ e = kind
  <2>1. \A i : i \in 1 .. Len(k.kinds)
                 <=> i \in 1 .. Len(j.kinds) \/ i = Len(j.kinds) + 1
    BY <1>3, <1>4
  <2> QED
    BY <1>3, <1>4, <2>1 DEF Happened
<1>6. LastKind(k) = kind
  BY <1>3, <1>4 DEF LastKind
<1>7. Len(k.kinds) = Len(j.kinds) + 1
  BY <1>3, <1>4
<1>8. k.op = j.op /\ k.from = j.from /\ k.target = j.target
  BY <1>2
<1> QED
  BY <1>4, <1>5, <1>6, <1>7, <1>8

\* What a run appends keeps a journal as runs write it.
LEMMA GoodAppended ==
  ASSUME NEW j, GoodRecord(j), NEW kind \in Kinds, Follows(j, kind), ~Terminal(j)
  PROVE  /\ GoodRecord(Appended(j, kind))
         /\ Terminal(Appended(j, kind)) <=> kind \in TerminalKinds
         /\ Appended(j, kind).op = j.op
         /\ Appended(j, kind).from = j.from
         /\ Appended(j, kind).target = j.target
         /\ LastKind(Appended(j, kind)) = kind
         /\ Happened(Appended(j, kind), "step_started")
              <=> Happened(j, "step_started") \/ kind = "step_started"
<1> DEFINE k == Appended(j, kind)
<1>1. /\ k \in Records /\ Len(k.kinds) = Len(j.kinds) + 1 /\ LastKind(k) = kind
      /\ k.op = j.op /\ k.from = j.from /\ k.target = j.target
      /\ Happened(k, "step_started") <=> Happened(j, "step_started") \/ kind = "step_started"
  BY AppendedKinds DEF GoodRecord
<1>2. j \in Records /\ Len(j.kinds) \in Nat /\ Len(j.kinds) > 0
  BY DEF GoodRecord, Records
<1>3. DOMAIN Entries = {"requested", "observed", "validated", "planned",
                        "step_started", "step_verified", "recovery_started"}
  BY DEF Entries
<1>4. /\ Entries["requested"] = 1 /\ Entries["observed"] = 2 /\ Entries["validated"] = 3
      /\ Entries["planned"] = 4 /\ Entries["step_started"] = 5
      /\ Entries["step_verified"] = 6 /\ Entries["recovery_started"] = 7
  BY DEF Entries
<1>5. LastKind(j) \in DOMAIN Entries /\ Len(j.kinds) <= Entries[LastKind(j)]
  BY <1>2 DEF GoodRecord, Terminal
<1>6. kind \in TerminalKinds =>
        kind \notin DOMAIN Entries /\ kind \notin Early /\ kind \notin MutationKinds
  BY <1>3 DEF TerminalKinds, Early, MutationKinds
<1>7. kind \in DOMAIN Entries \cup TerminalKinds
  BY <1>3 DEF Follows
<1>8. kind \in DOMAIN Entries => Len(k.kinds) <= Entries[kind]
  <2> HIDE DEF k
  <2> QED
    BY <1>1, <1>2, <1>3, <1>4, <1>5, <1>6 DEF Follows
<1>9. kind \in Early => ~Happened(k, "step_started")
  BY <1>1, <1>6 DEF Follows, Early, GoodRecord
<1>10. kind \in MutationKinds => Happened(k, "step_started") /\ k.from # k.target
  BY <1>1, <1>6 DEF Follows, MutationKinds, GoodRecord
<1> HIDE DEF k
<1>11. GoodRecord(k)
  BY <1>1, <1>2, <1>7, <1>8, <1>9, <1>10 DEF GoodRecord
<1>12. Terminal(k) <=> kind \in TerminalKinds
  BY <1>1, <1>2 DEF Terminal
<1> QED
  BY <1>1, <1>11, <1>12 DEF k

\* A journal is not None.
LEMMA RecordIsSome ==
  ASSUME NEW j, GoodRecord(j)
  PROVE  j # None /\ j \in Records
BY PresentationAssumption DEF GoodRecord

-----------------------------------------------------------------------------
(* A run and the journal it carries                                        *)

\* The invariant holds where the plugin first starts.
LEMMA RunInvInit == Init => RunInv
<1> SUFFICES ASSUME Init PROVE RunInv
  OBVIOUS
<1>1. TypeOK
  BY DEF Init, TypeOK, Placements, Labels
<1> QED
  BY <1>1 DEF Init, RunInv, OwnPlans, Active

\* What a run carries is a record, whose events are extended to records.
LEMMA CarriedRecord ==
  ASSUME RunInv, NEW r \in Runners, pc[r] \in Active
  PROVE  /\ mem[r] \in Records /\ plan[r] \in Plans /\ RunStands(r)
         /\ plan[r].from \in Placements /\ plan[r].target \in Placements
         /\ \A kind \in Kinds : Appended(mem[r], kind) \in Records
<1>1. RunStands(r) /\ plan[r] # None
  BY DEF RunInv, Active
<1>2. plan[r] \in Plans /\ mem[r] \in Records
  BY <1>1 DEF RunInv, TypeOK, RunStands, GoodRecord
<1> QED
  BY <1>1, <1>2, AppendedKinds DEF Plans, Placements, Targets

\* Dropping the facts of a plan leaves a plan.
LEMMA FactsDropped ==
  ASSUME NEW p \in Plans
  PROVE  /\ [p EXCEPT !.facts = None] \in Plans
         /\ [p EXCEPT !.facts = None].op = p.op
         /\ [p EXCEPT !.facts = None].from = p.from
         /\ [p EXCEPT !.facts = None].target = p.target
BY DEF Plans

\* The journal a first save writes.
LEMMA FirstRecord ==
  ASSUME NEW p \in Plans, NEW j,
         j = [op |-> p.op, kinds |-> <<"requested">>,
              from |-> p.from, target |-> p.target]
  PROVE  /\ GoodRecord(j) /\ ~Terminal(j) /\ LastKind(j) = "requested"
         /\ j.op = p.op /\ j.from = p.from /\ j.target = p.target
         /\ ~Happened(j, "step_started")
<1>1. j \in Records
  BY DEF Plans, Records, Kinds
<1>2. j.kinds = <<"requested">> /\ j.op = p.op /\ j.from = p.from /\ j.target = p.target
  OBVIOUS
<1>3. Len(j.kinds) = 1 /\ LastKind(j) = "requested" /\ j.kinds[1] = "requested"
  BY <1>2 DEF LastKind
<1>4. ~Happened(j, "step_started")
  BY <1>3 DEF Happened
<1> QED
  BY <1>1, <1>2, <1>3, <1>4
  DEF GoodRecord, Entries, MutationKinds, Terminal, TerminalKinds

\* Every step of a runner keeps the types.
LEMMA RunnerTypes ==
  ASSUME RunInv, NEW r \in Runners, RunnerStep(r)
  PROVE  TypeOK'
<1>t. TypeOK
  BY DEF RunInv
<1>1. CASE pc[r] \in {"planned", "opening"}
  <2>1. RefusedByJournal(r) \/ Check(r) \/ Open(r)
    BY <1>1
    DEF RunnerStep, InitialObservation, InitialObservationFails, Validate,
        PlanReady, CommitNoOp, StartStep, StepBlocked, Block, Fail,
        MechanismRefuses, Configure, QueueRestart, SwitchAudio, RollBack,
        VerifyStep, VerifyTimesOut, Commit, BeginRecovery, AlreadySatisfied,
        RecoverSource, RecoverRefused, Confirm, Conclude, ResumeRecovery
  <2>2. plan[r] \in Plans
    BY <1>1 DEF RunInv, TypeOK
  <2>3. CASE RefusedByJournal(r)
    BY <2>3, <1>t
    DEF RefusedByJournal, Return, TypeOK, world, rest, Labels
  <2>4. CASE Check(r)
    BY <2>4, <1>t DEF Check, Goto, TypeOK, world, rest, Labels
  <2>5. CASE Open(r)
    <3>1. [op |-> plan[r].op, kinds |-> <<"requested">>,
           from |-> plan[r].from, target |-> plan[r].target] \in Records
      BY <2>2, FirstRecord, RecordIsSome
    <3>2. /\ file' \in Records \cup {None}
          /\ found' \in Placements \cup {None} /\ clobbered' \in BOOLEAN
          /\ UNCHANGED <<world, clearing, startup, deaths>>
      BY <3>1, <2>5, <1>t DEF Open, TypeOK
    <3>3. CASE Return(r)
      BY <3>2, <3>3, <1>t DEF Return, TypeOK, world, Labels
    <3>4. CASE /\ Carry(r) /\ Goto(r, "opened")
               /\ UNCHANGED <<plan, aim, seen, good, sound>>
      BY <3>2, <3>4, <1>t DEF Carry, Goto, TypeOK, world, Labels
    <3> QED
      BY <2>5, <3>3, <3>4 DEF Open
  <2> QED
    BY <2>1, <2>3, <2>4, <2>5
<1>2. CASE pc[r] \notin {"planned", "opening"}
  <2>1. pc[r] \in Active
    BY <1>2, <1>t
    DEF RunnerStep, RefusedByJournal, Check, Open, InitialObservation,
        InitialObservationFails, Validate, PlanReady, CommitNoOp, StartStep,
        StepBlocked, Block, Fail, MechanismRefuses, Configure, QueueRestart,
        SwitchAudio, RollBack, VerifyStep, VerifyTimesOut, Commit,
        BeginRecovery, AlreadySatisfied, RecoverSource, RecoverRefused,
        Confirm, Conclude, ResumeRecovery, Active, Labels
  <2>2. /\ plan[r] \in Plans
        /\ plan[r].from \in Placements /\ plan[r].target \in Placements
        /\ \A kind \in Kinds : Appended(mem[r], kind) \in Records
    BY <2>1, CarriedRecord
  <2>3. ASSUME NEW kind \in Kinds, Saved(r, kind) \/ SaveFails(r, kind)
        PROVE  /\ file' \in Records \cup {None}
               /\ UNCHANGED <<world, rest>>
    BY <2>2, <2>3, <1>t DEF Saved, SaveFails, rest, world, TypeOK
  <2>4. Placement \in Placements \cup {"degraded", "unknown"}
    BY <1>t DEF Placement, TypeOK
  <2>5. [plan[r] EXCEPT !.facts = None] \in Plans
    BY <2>2, FactsDropped
  <2>6. ASSUME /\ file' \in Records \cup {None}
               /\ UNCHANGED rest
               /\ UNCHANGED world,
               \/ Return(r)
               \/ /\ \E label \in Labels : Goto(r, label)
                  /\ Carry(r) \/ UNCHANGED mem
                  /\ \/ UNCHANGED <<aim, seen>>
                     \/ /\ \E a \in Placements \cup {None} : aim' = [aim EXCEPT ![r] = a]
                        /\ \E p \in {Placement, None} : seen' = [seen EXCEPT ![r] = p]
                  /\ UNCHANGED good
                     \/ \E b \in BOOLEAN : good' = [good EXCEPT ![r] = b]
                  /\ UNCHANGED sound \/ sound' = [sound EXCEPT ![r] = FALSE]
                  /\ UNCHANGED plan \/ plan' = [plan EXCEPT ![r].facts = None]
        PROVE  TypeOK'
    <3>1. CASE Return(r)
      BY <2>6, <3>1, <1>t DEF Return, TypeOK, world, rest, Labels
    <3>2. CASE ~Return(r)
      <4>1. pc' \in [Runners -> Labels] /\ plan' \in [Runners -> Plans \cup {None}]
        BY <2>5, <2>6, <3>2, <1>t DEF Goto, TypeOK
      <4>2. mem' \in [Runners -> Records \cup {None}]
        BY <2>6, <3>2, <1>t DEF Carry, TypeOK
      <4>3. /\ aim' \in [Runners -> Placements \cup {None}]
            /\ seen' \in [Runners -> Placements
                                     \cup {"degraded", "unknown", None}]
        BY <2>6, <3>2, <2>4, <1>t DEF TypeOK
      <4>4. good' \in [Runners -> BOOLEAN] /\ sound' \in [Runners -> BOOLEAN]
        BY <2>6, <3>2, <1>t DEF TypeOK
      <4> QED
        BY <2>6, <4>1, <4>2, <4>3, <4>4, <1>t DEF TypeOK, world, rest
    <3> QED
      BY <3>1, <3>2
  <2>7. CASE InitialObservation(r)
    BY <2>2, <2>3, <2>6, <2>7 DEF InitialObservation, rest, Labels, Kinds
  <2>8. CASE InitialObservationFails(r)
             \/ Validate(r) \/ PlanReady(r) \/ CommitNoOp(r)
    BY <2>2, <2>3, <2>6, <2>8, <1>t
    DEF InitialObservationFails, Validate,
        PlanReady, CommitNoOp, SaveThen, rest, Labels, Kinds, TypeOK
  <2>9. CASE StartStep(r) \/ StepBlocked(r) \/ Block(r) \/ Fail(r)
    BY <2>2, <2>3, <2>6, <2>9, <1>t
    DEF StartStep, StepBlocked, Block, Fail, SaveAndReturn, rest, Labels,
        Kinds, TypeOK
  <2>10. CASE MechanismRefuses(r) \/ Configure(r) \/ QueueRestart(r)
             \/ SwitchAudio(r) \/ RollBack(r)
    <3>1. /\ config' \in Placements \cup {None} /\ restart' \in BOOLEAN
          /\ UNCHANGED <<file, session, dock, game, mem, rest, sound, plan>>
      BY <2>10, <1>t
      DEF MechanismRefuses, Configure, QueueRestart, SwitchAudio, RollBack,
          Answer, Answered, TypeOK, world, rest
    <3>2. pc' \in [Runners -> Labels]
      BY <2>10, <1>t
      DEF MechanismRefuses, Configure, QueueRestart, SwitchAudio, RollBack,
          Answer, Goto, TypeOK, Labels
    <3>3. ASSUME NEW ok \in BOOLEAN, Answer(r, ok)
          PROVE  /\ good' \in [Runners -> BOOLEAN]
                 /\ aim' \in [Runners -> Placements \cup {None}]
                 /\ seen' \in [Runners -> Placements
                                          \cup {"degraded", "unknown", None}]
      <4>1. (ok /\ ~Applying(r)) \in BOOLEAN
        OBVIOUS
      <4> QED
        BY <3>3, <4>1, <1>t DEF Answer, Answered, TypeOK
    <3>4. UNCHANGED <<good, aim, seen>> \/ \E ok \in BOOLEAN : Answer(r, ok)
      BY <2>10
      DEF MechanismRefuses, Configure, QueueRestart, SwitchAudio, RollBack
    <3> QED
      BY <3>1, <3>2, <3>3, <3>4, <1>t DEF TypeOK, rest
  <2>11. CASE VerifyStep(r) \/ VerifyTimesOut(r) \/ Commit(r)
             \/ BeginRecovery(r) \/ ResumeRecovery(r)
    BY <2>2, <2>3, <2>6, <2>11, <1>t
    DEF VerifyStep, VerifyTimesOut, Commit, BeginRecovery, ResumeRecovery,
        rest, Labels, Kinds, TypeOK
  <2>12. CASE AlreadySatisfied(r) \/ RecoverSource(r) \/ RecoverRefused(r)
              \/ Confirm(r)
    BY <2>2, <2>6, <2>12, <1>t
    DEF AlreadySatisfied, RecoverSource, RecoverRefused, Confirm, rest,
        Labels, TypeOK
  <2>13. CASE Conclude(r)
    BY <2>2, <2>3, <2>6, <2>13, <1>t
    DEF Conclude, SaveAndReturn, rest, Labels, Kinds, TypeOK
  <2> QED
    BY <1>2, <2>7, <2>8, <2>9, <2>10, <2>11, <2>12, <2>13
    DEF RunnerStep, RefusedByJournal, Check, Open
<1> QED
  BY <1>1, <1>2

\* A step of one runner, of which the others see nothing but the file.
LEMMA OthersKeep ==
  ASSUME RunInv, TypeOK', NEW r \in Runners, pc[r] # "idle", UNCHANGED startup,
         file' # None => GoodRecord(file'),
         \A s \in Runners : s # r =>
           /\ pc'[s] = pc[s] /\ plan'[s] = plan[s] /\ mem'[s] = mem[s]
           /\ aim'[s] = aim[s] /\ sound'[s] = sound[s],
         pc'[r] = "idle" <=> plan'[r] = None,
         pc'[r] = "opening" => mem'[r] = None,
         pc'[r] \in Active => RunStands(r)',
         plan'[r] # None => plan[r] # None /\ plan'[r].op = plan[r].op
  PROVE  RunInv'
<1>1. \A s \in Runners : s # r => (RunStands(s) => RunStands(s)')
  BY DEF RunStands, Recovers, Applying
<1>2. startup' => \A s \in Runners : pc'[s] = "idle"
  BY DEF RunInv
<1>3. OwnPlans'
  BY DEF OwnPlans, RunInv
<1> QED
  BY <1>1, <1>2, <1>3 DEF RunInv

\* A run that saves an event which is not terminal and carries on.
LEMMA SavedRun ==
  ASSUME RunInv, TypeOK', NEW r \in Runners, pc[r] \in Active,
         NEW kind \in Kinds \ TerminalKinds, Saved(r, kind), Carry(r),
         Follows(mem[r], kind),
         NEW label \in Active, Goto(r, label), StandsAt(label, kind),
         label \in Stepped => kind \in MutationKinds,
         label \in Mutating => kind = "step_started" /\ aim'[r] = plan[r].target,
         label \in {"diagnose", "confirm", "conclude"} => kind = "recovery_started",
         \A s \in Runners : s # r => aim'[s] = aim[s] /\ sound'[s] = sound[s],
         UNCHANGED plan \/ plan' = [plan EXCEPT ![r].facts = None]
  PROVE  RunInv'
<1>1. /\ RunStands(r) /\ plan[r] \in Plans /\ TypeOK
  BY CarriedRecord DEF RunInv
<1>2. file' = Appended(mem[r], kind) /\ UNCHANGED startup /\ pc[r] # "idle"
  BY DEF Saved, rest, Active
<1>3. /\ GoodRecord(file') /\ ~Terminal(file') /\ LastKind(file') = kind
      /\ file'.op = mem[r].op /\ file'.from = mem[r].from
      /\ file'.target = mem[r].target
  BY <1>1, <1>2, GoodAppended DEF RunStands
<1>4. /\ \A s \in Runners : pc'[s] = IF s = r THEN label ELSE pc[s]
      /\ \A s \in Runners : mem'[s] = IF s = r THEN file' ELSE mem[s]
  BY <1>1 DEF Goto, Carry, TypeOK
<1>5. /\ plan'[r] \in Plans /\ plan'[r] # None /\ plan[r] # None
      /\ plan'[r].op = plan[r].op /\ plan'[r].from = plan[r].from
      /\ plan'[r].target = plan[r].target
      /\ \A s \in Runners : s # r => plan'[s] = plan[s]
  <2>1. plan[r] # None
    BY <1>1, PresentationAssumption
  <2>2. CASE UNCHANGED plan
    BY <1>1, <2>1, <2>2
  <2>3. CASE plan' = [plan EXCEPT ![r].facts = None]
    <3>1. plan'[r] = [plan[r] EXCEPT !.facts = None]
          /\ \A s \in Runners : s # r => plan'[s] = plan[s]
      BY <1>1, <2>3 DEF TypeOK
    <3> QED
      BY <1>1, <2>1, <3>1, FactsDropped, PresentationAssumption
  <2> QED
    BY <2>2, <2>3
<1>6. RunStands(r)'
  <2>1. Applying(r)' <=> aim'[r] = plan[r].target
    BY <1>5 DEF Applying
  <2>2. Recovers(r)' => label \in {"diagnose", "confirm", "conclude"}
    BY <1>4, <2>1 DEF Recovers
  <2> QED
    BY <1>1, <1>3, <1>4, <1>5, <2>1, <2>2 DEF RunStands
<1> QED
  BY <1>2, <1>3, <1>4, <1>5, <1>6, OthersKeep DEF Active

\* A run that carries on without a save.
LEMMA MovedRun ==
  ASSUME RunInv, TypeOK', NEW r \in Runners, pc[r] \in Active,
         NEW label \in Active, Goto(r, label),
         UNCHANGED <<file, plan, mem, startup>>,
         \A s \in Runners : s # r => aim'[s] = aim[s] /\ sound'[s] = sound[s],
         RunStands(r)'
  PROVE  RunInv'
<1>1. \A s \in Runners : pc'[s] = IF s = r THEN label ELSE pc[s]
  BY DEF Goto, RunInv, TypeOK
<1>2. pc[r] # "idle" /\ pc'[r] # "idle" /\ pc'[r] # "opening" /\ plan[r] # None
  BY <1>1 DEF Active, RunInv
<1> QED
  BY <1>1, <1>2, OthersKeep DEF RunInv

\* A run that returns, with or without a last event in the journal.
LEMMA ReturnedRun ==
  ASSUME RunInv, TypeOK', NEW r \in Runners, pc[r] # "idle", Return(r),
         UNCHANGED startup,
         \/ UNCHANGED file
         \/ /\ pc[r] \in Active
            /\ \E kind \in TerminalKinds : file' = Appended(mem[r], kind)
  PROVE  RunInv'
<1>1. /\ pc'[r] = "idle" /\ plan'[r] = None
      /\ \A s \in Runners : s # r =>
           /\ pc'[s] = pc[s] /\ plan'[s] = plan[s] /\ mem'[s] = mem[s]
           /\ aim'[s] = aim[s] /\ sound'[s] = sound[s]
  BY DEF Return, RunInv, TypeOK
<1>2. file' # None => GoodRecord(file')
  <2>1. ASSUME pc[r] \in Active, NEW kind \in TerminalKinds,
               file' = Appended(mem[r], kind)
        PROVE  GoodRecord(file')
    <3>1. RunStands(r) /\ kind \in Kinds /\ Follows(mem[r], kind)
      BY <2>1 DEF RunInv, TerminalKinds, Kinds, Follows
    <3> QED
      BY <2>1, <3>1, GoodAppended DEF RunStands
  <2> QED
    BY <2>1 DEF RunInv
<1> QED
  BY <1>1, <1>2, OthersKeep DEF Active

-----------------------------------------------------------------------------
(* One lemma for each part of a run                                        *)

\* A request that is opened, or refused.
LEMMA OpenRun ==
  ASSUME RunInv, TypeOK', NEW r \in Runners,
         RefusedByJournal(r) \/ Check(r) \/ Open(r)
  PROVE  RunInv'
<1>t. TypeOK
  BY DEF RunInv
<1>1. pc[r] # "idle" /\ plan[r] # None /\ plan[r] \in Plans /\ UNCHANGED startup
  BY <1>t DEF RefusedByJournal, Check, Open, RunInv, TypeOK, rest
<1>2. CASE UNCHANGED file /\ Return(r)
  BY <1>1, <1>2, ReturnedRun
<1>3. CASE Check(r)
  <2>1. /\ \A s \in Runners : pc'[s] = IF s = r THEN "opening" ELSE pc[s]
        /\ \A s \in Runners : mem'[s] = IF s = r THEN None ELSE mem[s]
        /\ UNCHANGED <<file, plan, aim, sound>>
    BY <1>3, <1>t DEF Check, Goto, TypeOK
  <2> QED
    BY <1>1, <2>1, OthersKeep DEF RunInv, Active
<1>4. CASE /\ file' = [op |-> plan[r].op, kinds |-> <<"requested">>,
                       from |-> plan[r].from, target |-> plan[r].target]
           /\ Carry(r) /\ Goto(r, "opened")
           /\ UNCHANGED <<plan, aim, seen, good, sound>>
  <2>1. /\ GoodRecord(file') /\ ~Terminal(file') /\ LastKind(file') = "requested"
        /\ file'.op = plan[r].op /\ file'.from = plan[r].from
        /\ file'.target = plan[r].target
    BY <1>1, <1>4, FirstRecord
  <2>2. /\ \A s \in Runners : pc'[s] = IF s = r THEN "opened" ELSE pc[s]
        /\ \A s \in Runners : mem'[s] = IF s = r THEN file' ELSE mem[s]
    BY <1>4, <1>t DEF Goto, Carry, TypeOK
  <2>3. RunStands(r)'
    BY <1>4, <2>1, <2>2
    DEF RunStands, StandsAt, Recovers, Mutating, Stepped
  <2> QED
    BY <1>1, <1>4, <2>1, <2>2, <2>3, OthersKeep
<1> QED
  BY <1>2, <1>3, <1>4 DEF RefusedByJournal, Open

\* Up to the step: one event after the other.
LEMMA RequestRun ==
  ASSUME RunInv, TypeOK', NEW r \in Runners,
         \/ InitialObservation(r) \/ InitialObservationFails(r) \/ Validate(r)
         \/ PlanReady(r) \/ CommitNoOp(r) \/ StartStep(r) \/ StepBlocked(r)
         \/ Block(r) \/ Fail(r)
  PROVE  RunInv'
<1>t. TypeOK
  BY DEF RunInv
<1>1. pc[r] \in {"opened", "accepted", "validated", "ready", "blocking", "failing"}
  BY DEF InitialObservation, InitialObservationFails, Validate, PlanReady, CommitNoOp,
         StartStep, StepBlocked, Block, Fail
<1>2. pc[r] \in Active /\ pc[r] # "idle"
  BY <1>1 DEF Active, Labels
<1>3. /\ RunStands(r) /\ StandsAt(pc[r], LastKind(mem[r]))
      /\ plan[r].from = mem[r].from /\ plan[r].target = mem[r].target
      /\ LastKind(mem[r]) \in Early
  BY <1>1, <1>2, CarriedRecord DEF RunStands, StandsAt, Early
<1>4. ASSUME NEW label \in {"blocking", "failing"}, Goto(r, label),
             UNCHANGED <<file, plan, mem, startup, aim, sound>>,
             label = "blocking" => LastKind(mem[r]) \in {"observed", "planned"}
      PROVE  RunInv'
  <2>1. pc'[r] = label /\ label \in Active
    BY <1>4, <1>t DEF Goto, TypeOK, Active, Labels
  <2>2. RunStands(r)'
    BY <1>3, <1>4, <2>1 DEF RunStands, StandsAt, Recovers, Mutating, Stepped
  <2> QED
    BY <1>2, <1>4, <2>1, <2>2, MovedRun
<1>5. ASSUME NEW kind \in TerminalKinds, Saved(r, kind) \/ SaveFails(r, kind), Return(r)
      PROVE  RunInv'
  BY <1>2, <1>5, ReturnedRun DEF Saved, SaveFails, rest
<1>6. ASSUME NEW kind \in Kinds, SaveFails(r, kind), Goto(r, "failing"),
             UNCHANGED <<plan, mem, aim, sound>>
      PROVE  RunInv'
  BY <1>4, <1>6 DEF SaveFails, rest
<1>7. /\ {"observed", "validated", "planned", "step_started"} \subseteq Kinds \ TerminalKinds
      /\ {"committed", "blocked", "failed"} \subseteq TerminalKinds
      /\ {"committed", "blocked", "failed"} \subseteq Kinds
      /\ {"accepted", "blocking", "validated", "ready", "apply"} \subseteq Active
  BY DEF Kinds, TerminalKinds, Active, Labels
<1>8. CASE InitialObservation(r)
  <2>1. Follows(mem[r], "observed")
    BY <1>3, <1>8 DEF InitialObservation, StandsAt, Follows
  <2>2. CASE SaveFails(r, "observed") /\ Return(r)
    BY <1>2, <2>2, ReturnedRun DEF SaveFails, rest
  <2>3. ASSUME NEW label \in {"accepted", "blocking"}, Goto(r, label),
               Saved(r, "observed"), Carry(r), UNCHANGED <<aim, sound>>,
               plan' = [plan EXCEPT ![r].facts = None]
        PROVE  RunInv'
    <3>1. /\ StandsAt(label, "observed") /\ label \notin Mutating
          /\ label \notin {"diagnose", "confirm", "conclude"} /\ label \notin Stepped
      BY DEF StandsAt, Mutating, Stepped
    <3> QED
      BY <1>2, <1>7, <2>1, <2>3, <3>1, SavedRun
  <2> QED
    BY <1>8, <2>2, <2>3 DEF InitialObservation
<1>9. CASE InitialObservationFails(r) \/ StepBlocked(r)
  BY <1>3, <1>4, <1>9 DEF InitialObservationFails, StepBlocked, StandsAt, rest
<1>10. CASE Validate(r)
  <2>1. CASE Saved(r, "validated") /\ Carry(r) /\ Goto(r, "validated")
             /\ UNCHANGED <<plan, aim, sound>>
    <3>1. /\ StandsAt("validated", "validated") /\ "validated" \notin Mutating
          /\ "validated" \notin Stepped
          /\ Follows(mem[r], "validated")
      BY <1>3, <1>10 DEF Validate, StandsAt, Mutating, Stepped, Follows
    <3> QED
      BY <1>2, <1>7, <2>1, <3>1, SavedRun
  <2> QED
    BY <1>6, <1>7, <1>10, <2>1 DEF Validate, SaveThen
<1>11. CASE PlanReady(r)
  <2>1. CASE Saved(r, "planned") /\ Carry(r) /\ Goto(r, "ready")
             /\ UNCHANGED <<plan, aim, sound>>
    <3>1. /\ StandsAt("ready", "planned") /\ "ready" \notin Mutating
          /\ "ready" \notin Stepped
          /\ Follows(mem[r], "planned")
      BY <1>3, <1>11 DEF PlanReady, StandsAt, Mutating, Stepped, Follows
    <3> QED
      BY <1>2, <1>7, <2>1, <3>1, SavedRun
  <2> QED
    BY <1>6, <1>7, <1>11, <2>1 DEF PlanReady, SaveThen
<1>12. CASE CommitNoOp(r)
  BY <1>5, <1>6, <1>7, <1>12 DEF CommitNoOp
<1>13. CASE StartStep(r)
  <2>1. CASE /\ Saved(r, "step_started") /\ Carry(r) /\ Goto(r, "apply")
             /\ UNCHANGED <<plan, sound>>
             /\ aim' = [aim EXCEPT ![r] = plan[r].target]
    <3>1. /\ StandsAt("apply", "step_started") /\ aim'[r] = plan[r].target
          /\ \A s \in Runners : s # r => aim'[s] = aim[s]
      BY <2>1, <1>t DEF StandsAt, TypeOK
    <3>2. Follows(mem[r], "step_started")
      BY <1>3, <1>13 DEF StartStep, StandsAt, Follows
    <3>3. "step_started" \in MutationKinds
      BY DEF MutationKinds
    <3> QED
      BY <1>2, <1>7, <2>1, <3>1, <3>2, <3>3, SavedRun
  <2> QED
    BY <1>6, <1>7, <1>13, <2>1 DEF StartStep
<1>14. CASE Block(r) \/ Fail(r)
  BY <1>5, <1>7, <1>14 DEF Block, Fail, SaveAndReturn
<1> QED
  BY <1>8, <1>9, <1>10, <1>11, <1>12, <1>13, <1>14

\* The mechanism works on what the run aims at, then answers.
LEMMA MechanismRun ==
  ASSUME RunInv, TypeOK', NEW r \in Runners,
         \/ MechanismRefuses(r) \/ Configure(r) \/ QueueRestart(r)
         \/ SwitchAudio(r) \/ RollBack(r)
  PROVE  RunInv'
<1>t. TypeOK
  BY DEF RunInv
<1>1. pc[r] \in Mutating /\ pc[r] \in Active /\ pc[r] \in Stepped
  BY DEF MechanismRefuses, Configure, QueueRestart, SwitchAudio, RollBack, Mutating,
         Active, Labels, Stepped
<1>2. /\ RunStands(r) /\ LastKind(mem[r]) \in MutationKinds
      /\ Applying(r) => LastKind(mem[r]) = "step_started"
      /\ ~Applying(r) /\ sound[r] => LastKind(mem[r]) = "recovery_started"
  BY <1>1, CarriedRecord DEF RunStands, Recovers
<1>3. UNCHANGED <<file, plan, mem, startup, sound>>
  BY DEF MechanismRefuses, Configure, QueueRestart, SwitchAudio, RollBack, Answer,
         Answered, rest
<1>4. ASSUME NEW ok \in BOOLEAN, Answer(r, ok)
      PROVE  RunInv'
  <2> DEFINE label == IF ~Applying(r) THEN "confirm" ELSE IF ok THEN "verify" ELSE "recover"
  <2>1. label \in {"confirm", "verify", "recover"} /\ Goto(r, label)
    BY <1>4 DEF Answer
  <2>2. /\ label = "confirm" => ~Applying(r)
        /\ label # "confirm" => Applying(r)
    OBVIOUS
  <2>3. \A s \in Runners : s # r => aim'[s] = aim[s]
    BY <1>4, <1>t DEF Answer, Answered, TypeOK
  <2> HIDE DEF label
  <2>4. label \in Active /\ label \notin Mutating
    BY <2>1 DEF Active, Labels, Mutating
  <2>5. pc'[r] = label
    BY <2>1, <1>t DEF Goto, TypeOK
  <2>6. StandsAt(label, LastKind(mem[r]))
    BY <1>2, <2>1, <2>2 DEF StandsAt
  <2>7. RunStands(r)'
    BY <1>2, <1>3, <2>1, <2>2, <2>4, <2>5, <2>6 DEF RunStands, Recovers
  <2> QED
    BY <1>1, <1>3, <2>1, <2>3, <2>4, <2>7, MovedRun
<1>5. ASSUME NEW label \in Mutating, Goto(r, label), UNCHANGED aim
      PROVE  RunInv'
  <2>1. /\ label \in Active
        /\ label \notin {"diagnose", "confirm", "conclude"}
        /\ StandsAt(label, LastKind(mem[r]))
    BY DEF Mutating, Active, Labels, StandsAt
  <2>2. pc'[r] = label
    BY <1>5, <1>t DEF Goto, TypeOK
  <2>3. Applying(r)' <=> Applying(r)
    BY <1>3, <1>5 DEF Applying
  <2>4. RunStands(r)'
    BY <1>1, <1>2, <1>3, <1>5, <2>1, <2>2, <2>3 DEF RunStands, Recovers
  <2> QED
    BY <1>1, <1>3, <1>5, <2>1, <2>4, MovedRun
<1>6. {"configured", "audio", "rollback"} \subseteq Mutating
  BY DEF Mutating
<1> QED
  BY <1>4, <1>5, <1>6
  DEF MechanismRefuses, Configure, QueueRestart, SwitchAudio, RollBack

\* Verification and commit.
LEMMA VerifyRun ==
  ASSUME RunInv, TypeOK', NEW r \in Runners,
         VerifyStep(r) \/ VerifyTimesOut(r) \/ Commit(r)
  PROVE  RunInv'
<1>t. TypeOK
  BY DEF RunInv
<1>1. pc[r] \in {"verify", "verified"} /\ pc[r] \in Active /\ pc[r] \in Stepped
  BY DEF VerifyStep, VerifyTimesOut, Commit, Active, Labels, Stepped
<1>2. /\ RunStands(r) /\ StandsAt(pc[r], LastKind(mem[r]))
      /\ LastKind(mem[r]) \in {"step_started", "step_verified"}
      /\ LastKind(mem[r]) \in MutationKinds
  BY <1>1, CarriedRecord DEF RunStands, StandsAt
<1>3. ASSUME Goto(r, "recover"), UNCHANGED <<file, plan, mem, startup, aim>>,
             \A s \in Runners : s # r => sound'[s] = sound[s]
      PROVE  RunInv'
  <2>1. pc'[r] = "recover"
    BY <1>3, <1>t DEF Goto, TypeOK
  <2>2. RunStands(r)'
    BY <1>2, <1>3, <2>1 DEF RunStands, StandsAt, Recovers, Mutating
  <2>3. "recover" \in Active
    BY DEF Active, Labels
  <2> QED
    BY <1>1, <1>3, <2>2, <2>3, MovedRun
<1>4. CASE VerifyTimesOut(r)
  BY <1>3, <1>4 DEF VerifyTimesOut, rest
<1>5. CASE VerifyStep(r)
  <2>1. CASE Saved(r, "step_verified") /\ Carry(r) /\ Goto(r, "verified")
             /\ UNCHANGED <<plan, aim, sound>>
    <3>1. /\ StandsAt("verified", "step_verified") /\ "verified" \notin Mutating
          /\ "verified" \in Active /\ "step_verified" \in MutationKinds
          /\ "step_verified" \in Kinds \ TerminalKinds
          /\ Follows(mem[r], "step_verified")
      BY <1>2, <1>5
      DEF VerifyStep, StandsAt, Mutating, Active, Labels, Kinds, TerminalKinds,
          MutationKinds, Follows
    <3> QED
      BY <1>1, <1>2, <2>1, <3>1, SavedRun
  <2>2. CASE SaveFails(r, "step_verified") /\ Goto(r, "recover")
             /\ sound' = [sound EXCEPT ![r] = FALSE]
             /\ UNCHANGED <<plan, mem, aim>>
    BY <1>3, <2>2, <1>t DEF SaveFails, rest, TypeOK
  <2> QED
    BY <1>5, <2>1, <2>2 DEF VerifyStep
<1>6. CASE Commit(r)
  <2>1. CASE Saved(r, "committed") /\ Return(r)
    <3>1. "committed" \in TerminalKinds /\ pc[r] # "idle"
      BY <1>1 DEF TerminalKinds
    <3> QED
      BY <1>1, <2>1, <3>1, ReturnedRun DEF Saved, rest
  <2>2. CASE SaveFails(r, "committed") /\ Goto(r, "recover")
             /\ sound' = [sound EXCEPT ![r] = FALSE]
             /\ UNCHANGED <<plan, mem, aim>>
    BY <1>3, <2>2, <1>t DEF SaveFails, rest, TypeOK
  <2> QED
    BY <1>6, <2>1, <2>2 DEF Commit
<1> QED
  BY <1>4, <1>5, <1>6

\* Recovery: a result is only recorded after a durable recovery_started.
LEMMA RecoveryRun ==
  ASSUME RunInv, TypeOK', NEW r \in Runners,
         \/ BeginRecovery(r) \/ ResumeRecovery(r) \/ AlreadySatisfied(r)
         \/ RecoverSource(r) \/ RecoverRefused(r) \/ Confirm(r) \/ Conclude(r)
  PROVE  RunInv'
<1>t. TypeOK
  BY DEF RunInv
<1>1. /\ pc[r] \in {"recover", "resume", "diagnose", "confirm", "conclude"}
      /\ pc[r] \in Active /\ pc[r] \in Stepped /\ pc[r] # "idle"
  BY DEF BeginRecovery, ResumeRecovery, AlreadySatisfied, RecoverSource, RecoverRefused,
         Confirm, Conclude, Active, Labels, Stepped
<1>2. /\ RunStands(r)
      /\ LastKind(mem[r]) \in MutationKinds /\ mem[r].from # mem[r].target
      /\ pc[r] \in {"recover", "resume"} => LastKind(mem[r]) \in {"step_started", "step_verified"}
      /\ pc[r] \in {"diagnose", "confirm", "conclude"} /\ sound[r] =>
           LastKind(mem[r]) = "recovery_started"
  BY <1>1, CarriedRecord DEF RunStands, GoodRecord, StandsAt, Recovers
<1>3. ASSUME NEW label \in {"diagnose", "confirm", "conclude", "apply"}, Goto(r, label),
             UNCHANGED <<file, plan, mem, startup>>,
             \A s \in Runners : s # r => aim'[s] = aim[s] /\ sound'[s] = sound[s],
             sound'[r] => LastKind(mem[r]) = "recovery_started",
             label = "apply" => aim'[r] = plan[r].from
      PROVE  RunInv'
  <2>1. pc'[r] = label /\ label \in Active
    BY <1>3, <1>t DEF Goto, TypeOK, Active, Labels
  <2>2. label = "apply" => ~Applying(r)'
    BY <1>2, <1>3 DEF Applying, RunStands
  <2>3. label # "apply" => label \notin Mutating
    BY DEF Mutating
  <2>4. StandsAt(label, LastKind(mem[r]))
    BY DEF StandsAt
  <2>5. RunStands(r)'
    BY <1>2, <1>3, <2>1, <2>2, <2>3, <2>4 DEF RunStands, Recovers
  <2> QED
    BY <1>1, <1>3, <2>1, <2>5, MovedRun
<1>4. ASSUME pc[r] \in {"recover", "resume"}, Saved(r, "recovery_started"), Carry(r),
             Goto(r, "diagnose"), UNCHANGED <<plan, aim, sound>>
      PROVE  RunInv'
  <2>1. /\ StandsAt("diagnose", "recovery_started") /\ "diagnose" \notin Mutating
        /\ "diagnose" \in Active /\ "recovery_started" \in MutationKinds
        /\ "recovery_started" \in Kinds \ TerminalKinds
        /\ Follows(mem[r], "recovery_started")
    BY <1>2, <1>4
    DEF StandsAt, Mutating, Active, Labels, Kinds, TerminalKinds, MutationKinds, Follows
  <2> QED
    BY <1>1, <1>4, <2>1, SavedRun
<1>5. CASE BeginRecovery(r)
  <2>1. CASE /\ SaveFails(r, "recovery_started") /\ Goto(r, "diagnose")
             /\ sound' = [sound EXCEPT ![r] = FALSE] /\ UNCHANGED <<plan, mem, aim>>
    <3>1. sound'[r] = FALSE /\ \A s \in Runners : s # r => sound'[s] = sound[s]
      BY <2>1, <1>t DEF TypeOK
    <3> QED
      BY <1>3, <2>1, <3>1 DEF SaveFails, rest
  <2> QED
    BY <1>4, <1>5, <2>1 DEF BeginRecovery
<1>6. CASE ResumeRecovery(r)
  <2>1. CASE SaveFails(r, "recovery_started") /\ Return(r)
    BY <1>1, <2>1, ReturnedRun DEF SaveFails, rest
  <2> QED
    BY <1>4, <1>6, <2>1 DEF ResumeRecovery
<1>7. CASE AlreadySatisfied(r) \/ RecoverRefused(r) \/ Confirm(r)
  BY <1>2, <1>3, <1>7 DEF AlreadySatisfied, RecoverRefused, Confirm, rest
<1>8. CASE RecoverSource(r)
  <2>1. aim'[r] = plan[r].from /\ \A s \in Runners : s # r => aim'[s] = aim[s]
    BY <1>8, <1>t DEF RecoverSource, TypeOK
  <2> QED
    BY <1>2, <1>3, <1>8, <2>1 DEF RecoverSource, rest
<1>9. CASE Conclude(r)
  <2>1. ASSUME NEW kind \in {"recovery_verified", "failed"},
               Saved(r, kind) \/ SaveFails(r, kind), Return(r)
        PROVE  RunInv'
    BY <1>1, <2>1, ReturnedRun DEF Saved, SaveFails, rest, TerminalKinds
  <2>2. CASE Return(r) /\ UNCHANGED <<file, rest>>
    BY <1>1, <2>2, ReturnedRun DEF rest
  <2> QED
    BY <1>9, <2>1, <2>2 DEF Conclude, SaveAndReturn
<1> QED
  BY <1>5, <1>6, <1>7, <1>8, <1>9

-----------------------------------------------------------------------------
(* The invariant of a run is inductive                                     *)

\* Every step of the system preserves it.
LEMMA RunInvNext ==
  ASSUME RunInv, [Next]_vars
  PROVE  RunInv'
<1>t. TypeOK
  BY DEF RunInv
<1>1. ASSUME UNCHANGED <<file, thread, startup>>, TypeOK' PROVE RunInv'
  BY <1>1 DEF RunInv, thread, OwnPlans, RunStands, Recovers, Applying
<1>2. CASE UNCHANGED vars \/ WorldStep
  <2>1. /\ session' \in Placements \cup {"down"}
        /\ restart' \in BOOLEAN
        /\ dock' \in {"absent", "present", "ready"}
        /\ game' \in {"idle", "running"}
    <3>1. Selected \in Placements
      BY DEF Selected, Placements
    <3> QED
      BY <1>2, <1>t, <3>1
      DEF vars, world, WorldStep, SessionStops, SessionStarts, DockChanges,
          GameChanges, TypeOK
  <2>2. UNCHANGED <<file, thread, rest, config>>
    BY <1>2
    DEF vars, world, WorldStep, SessionStops, SessionStarts, DockChanges,
        GameChanges
  <2>3. TypeOK'
    BY <2>1, <2>2, <1>t DEF thread, rest, TypeOK
  <2> QED
    BY <1>1, <2>2, <2>3 DEF rest
<1>3. ASSUME NEW r \in Runners, NEW target \in Targets, NEW op \in Operations,
             Request(r, target, op)
      PROVE  RunInv'
  <2> DEFINE p == [op |-> op, from |-> Placement, target |-> target,
                   facts |-> Facts]
  <2>1. p \in Plans /\ p.op = op
    BY <1>3, <1>t DEF Request, Plans, Facts, TypeOK
  <2>2. /\ pc' = [pc EXCEPT ![r] = "planned"] /\ pc[r] = "idle"
        /\ plan' = [plan EXCEPT ![r] = p]
        /\ UNCHANGED <<file, world, mem, aim, seen, good, sound>>
        /\ UNCHANGED <<clearing, startup, found, deaths>>
        /\ clobbered' = (clobbered /\ ~Quiet)
        /\ \A s \in Runners : plan[s] # None => plan[s].op # op
        /\ ~startup
    BY <1>3 DEF Request, Goto, Fresh
  <2>3. p # None
    BY <2>1, PresentationAssumption
  <2> HIDE DEF p
  <2>4. clobbered' \in BOOLEAN
    BY <2>2, <1>t DEF TypeOK
  <2>5. TypeOK'
    BY <2>1, <2>2, <2>4, <1>t DEF TypeOK, world, Labels
  <2>6. /\ \A s \in Runners : pc'[s] = IF s = r THEN "planned" ELSE pc[s]
        /\ \A s \in Runners : plan'[s] = IF s = r THEN p ELSE plan[s]
    BY <2>2, <1>t DEF TypeOK
  <2>7. OwnPlans'
    BY <2>1, <2>2, <2>6 DEF RunInv, OwnPlans
  <2>8. \A s \in Runners : pc'[s] \in Active => s # r /\ RunStands(s)'
    BY <2>2, <2>6 DEF RunInv, Active, RunStands, Recovers, Applying
  <2> QED
    BY <2>2, <2>3, <2>5, <2>6, <2>7, <2>8 DEF RunInv
<1>4. ASSUME NEW r \in Runners, RecoverInterrupted(r)
      PROVE  RunInv'
  <2> DEFINE p == [op |-> file.op, from |-> file.from, target |-> file.target,
                   facts |-> None]
             label == IF LastKind(file) \notin MutationKinds THEN "failing"
                      ELSE IF LastKind(file) = "recovery_started"
                        THEN "diagnose" ELSE "resume"
  <2>1. GoodRecord(file) /\ file # None /\ ~Terminal(file) /\ file \in Records
    BY <1>4, RecordIsSome DEF RecoverInterrupted, RunInv
  <2>2. p \in Plans /\ p.op = file.op /\ p.from = file.from /\ p.target = file.target
    BY <2>1 DEF Records, Plans
  <2>3. p # None
    BY <2>2, PresentationAssumption
  <2>4. /\ pc' = [pc EXCEPT ![r] = label]
        /\ plan' = [plan EXCEPT ![r] = p]
        /\ mem' = [mem EXCEPT ![r] = file]
        /\ UNCHANGED <<file, world, aim, seen, good, sound>>
        /\ UNCHANGED <<clearing, found, clobbered, deaths>>
        /\ startup' = FALSE /\ startup
    BY <1>4 DEF RecoverInterrupted, Goto
  <2>5. \A s \in Runners : pc[s] = "idle" /\ plan[s] = None
    BY <2>4 DEF RunInv
  <2>6. LastKind(file) \in Early \cup MutationKinds
    <3>1. LastKind(file) \in DOMAIN Entries
      BY <2>1 DEF GoodRecord, Terminal
    <3> QED
      BY <3>1 DEF Entries, Early, MutationKinds
  <2>7. /\ label \in Active /\ label \in Labels /\ label \notin Mutating
        /\ label \in Stepped => LastKind(file) \in MutationKinds
        /\ StandsAt(label, LastKind(file))
        /\ label \in {"failing", "diagnose", "resume"}
        /\ label = "diagnose" => LastKind(file) = "recovery_started"
    BY <2>6 DEF Active, Labels, Stepped, StandsAt, Mutating, MutationKinds, Early
  <2> HIDE DEF p, label
  <2>8. TypeOK'
    BY <2>1, <2>2, <2>4, <2>7, <1>t DEF TypeOK, world
  <2>9. /\ \A s \in Runners : pc'[s] = IF s = r THEN label ELSE pc[s]
        /\ \A s \in Runners : plan'[s] = IF s = r THEN p ELSE plan[s]
        /\ mem'[r] = file
    BY <2>4, <1>t DEF TypeOK
  <2>10. RunStands(r)'
    BY <2>1, <2>2, <2>7, <2>9 DEF RunStands, Recovers
  <2>11. OwnPlans'
    BY <2>5, <2>9 DEF OwnPlans
  <2> QED
    BY <2>1, <2>3, <2>4, <2>5, <2>7, <2>8, <2>9, <2>10, <2>11 DEF RunInv, Active
<1>5. CASE StartupEnds
  <2>1. UNCHANGED <<file, thread>> /\ TypeOK' /\ startup' = FALSE
    BY <1>5, <1>t DEF StartupEnds, TypeOK, world, thread
  <2> QED
    BY <2>1 DEF RunInv, thread, OwnPlans, RunStands, Recovers, Applying
<1>6. CASE BeginClear \/ \E op \in Operations : Unlink(op)
  <2>1. /\ file' = file \/ file' = None
        /\ UNCHANGED <<thread, startup, world, deaths>>
        /\ clearing' \subseteq Operations
        /\ found' \in Placements \cup {None} /\ clobbered' \in BOOLEAN
    <3>1. CASE BeginClear
      <4>1. file.op \in Operations
        BY <3>1, <1>t DEF BeginClear, TypeOK, Records
      <4> QED
        BY <3>1, <4>1, <1>t DEF BeginClear, TypeOK
    <3>2. ASSUME NEW op \in Operations, Unlink(op)
          PROVE  /\ file' = None
                 /\ UNCHANGED <<thread, startup, world, deaths>>
                 /\ clearing' \subseteq Operations
                 /\ found' \in Placements \cup {None} /\ clobbered' \in BOOLEAN
      BY <3>2, <1>t DEF Unlink, TypeOK
    <3> QED
      BY <1>6, <3>1, <3>2
  <2>2. TypeOK'
    BY <2>1, <1>t DEF TypeOK, world, thread
  <2> QED
    BY <2>1, <2>2 DEF RunInv, thread, OwnPlans, RunStands, Recovers, Applying
<1>7. CASE PluginDies \/ Reboot
  <2>1. /\ Forget /\ UNCHANGED <<file, found, clobbered>>
        /\ config' \in {config, None}
    BY <1>7 DEF PluginDies, Reboot, world
  <2>2. TypeOK'
    <3>1. /\ session' \in Placements \cup {"down"}
          /\ restart' \in BOOLEAN
          /\ dock' \in {"absent", "present", "ready"}
          /\ game' \in {"idle", "running"}
      BY <1>7, <1>t DEF PluginDies, Reboot, TypeOK, world, Placements
    <3>2. /\ pc' \in [Runners -> Labels]
          /\ plan' \in [Runners -> Plans \cup {None}]
          /\ mem' \in [Runners -> Records \cup {None}]
      BY <2>1 DEF Forget, Labels
    <3>3. /\ aim' \in [Runners -> Placements \cup {None}]
          /\ seen' \in [Runners -> Placements
                                   \cup {"degraded", "unknown", None}]
          /\ good' \in [Runners -> BOOLEAN]
          /\ sound' \in [Runners -> BOOLEAN]
      BY <2>1 DEF Forget
    <3>4. startup' \in BOOLEAN /\ deaths' \in Nat /\ clearing' \subseteq Operations
      BY <2>1, <1>t DEF Forget, TypeOK
    <3> QED
      BY <2>1, <3>1, <3>2, <3>3, <3>4, <1>t DEF TypeOK
  <2> QED
    BY <2>1, <2>2 DEF Forget, RunInv, OwnPlans, Active
<1>8. ASSUME NEW r \in Runners, RunnerStep(r) PROVE RunInv'
  BY <1>8, RunnerTypes, OpenRun, RequestRun, MechanismRun, VerifyRun, RecoveryRun
  DEF RunnerStep
<1> QED
  BY <1>2, <1>3, <1>4, <1>5, <1>6, <1>7, <1>8 DEF Next

\* Every event a run may have to record is one its journal accepts.
LEMMA RunIsLegal ==
  ASSUME RunInv
  PROVE  EventsAreLegal
<1> SUFFICES ASSUME NEW r \in Runners, pc[r] \in Active
             PROVE  EventsAreLegal!(r)
  BY DEF EventsAreLegal, Active, Labels
<1>1. RunStands(r) /\ ~Terminal(mem[r]) /\ GoodRecord(mem[r])
  BY CarriedRecord DEF RunStands
<1>2. LastKind(mem[r]) \in DOMAIN Entries /\ Len(mem[r].kinds) \in Nat
      /\ Len(mem[r].kinds) <= Entries[LastKind(mem[r])]
  BY <1>1 DEF Terminal, GoodRecord, Records
<1>3. Len(mem[r].kinds) < MaxEntries
  BY <1>2, PresentationAssumption, MaxEntriesAssumption DEF Entries
<1>4. ASSUME NEW kind, kind \in AllowedNext[LastKind(mem[r])]
      PROVE  CanAppend(mem[r], kind)
  BY <1>1, <1>3, <1>4 DEF CanAppend
<1>5. /\ AllowedNext["requested"] = {"observed", "blocked", "failed"}
      /\ AllowedNext["observed"] = {"validated", "blocked", "failed"}
      /\ AllowedNext["validated"] = {"planned", "blocked", "failed"}
      /\ AllowedNext["planned"] = {"step_started", "committed", "blocked",
                                   "recovery_started", "failed"}
      /\ AllowedNext["step_started"] = {"substep_started", "step_verified", "blocked",
                                        "recovery_started", "failed"}
      /\ AllowedNext["step_verified"] = {"step_started", "committed", "blocked",
                                         "recovery_started", "failed"}
      /\ AllowedNext["recovery_started"] = {"recovery_verified", "failed"}
  BY DEF AllowedNext
<1>6. StandsAt(pc[r], LastKind(mem[r]))
      /\ (pc[r] = "conclude" /\ sound[r] => LastKind(mem[r]) = "recovery_started")
  BY <1>1 DEF RunStands, Recovers
<1> QED
  BY <1>4, <1>5, <1>6 DEF StandsAt, Early

\* In every reachable state a run and the journal it carries agree, and what
\* is on file is a journal as runs write it, whoever wrote it last.
THEOREM RunInvariant == Spec => []RunInv
<1>1. RunInv /\ [Next]_vars => RunInv'
  BY RunInvNext
<1> QED
  BY <1>1, RunInvInit, PTL DEF Spec

\* Every variable keeps its type; what is on file is a record.
THEOREM TransitionTyping == Spec => []TypeOK
<1>1. RunInv => TypeOK
  BY DEF RunInv
<1> QED
  BY <1>1, RunInvariant, PTL

\* The journal's table and capacity have room for every event a run may have
\* to record, in overlapping runs too: a run never ends as if the disk had
\* failed when it has not.
THEOREM RunsStayLegal == Spec => []EventsAreLegal
<1>1. RunInv => EventsAreLegal
  BY RunIsLegal
<1> QED
  BY <1>1, RunInvariant, PTL

-----------------------------------------------------------------------------
(* The run, the file and the launch configuration                          *)

\* The configuration is the one the run wrote: the target from the write to
\* the commit, or what it recovers to.
ConfigStands(r) ==
  /\ pc[r] \in {"configured", "audio"} => config = aim[r]
  /\ pc[r] \in {"verify", "verified"} => config = plan[r].target

FileAgrees ==
  /\ \A r \in Runners : pc[r] \in Active => mem[r] = file /\ ConfigStands(r)
  /\ \A r \in Runners : pc[r] \in {"planned", "opening"} =>
       plan[r].op \notin clearing /\ (file # None => file.op # plan[r].op)
  /\ \A op \in clearing : file # None /\ file.op = op => Terminal(file)
  /\ UntouchedWithoutStep
  /\ CommittedIsConfigured

FileInv == RunInv /\ (~clobbered => FileAgrees)

\* What an active run finds on file.
LEMMA ActiveFinds ==
  ASSUME RunInv, FileAgrees, NEW r \in Runners, pc[r] \in Active
  PROVE  /\ mem[r] = file /\ file # None /\ GoodRecord(file) /\ ~Terminal(file)
         /\ file.op \notin clearing /\ ConfigStands(r) /\ RunStands(r)
         /\ plan[r] \in Plans /\ plan[r] # None /\ plan[r].op = file.op
         /\ plan[r].target = file.target
<1>1. mem[r] = file /\ RunStands(r) /\ plan[r] \in Plans
  BY CarriedRecord DEF FileAgrees
<1>2. file # None /\ GoodRecord(file) /\ ~Terminal(file)
  BY <1>1, RecordIsSome DEF RunStands
<1>3. file.op \notin clearing
  BY <1>2 DEF FileAgrees
<1> QED
  BY <1>1, <1>2, <1>3, PresentationAssumption DEF FileAgrees, RunStands

\* The file admits one run at a time.
LEMMA ActiveAlone ==
  ASSUME RunInv, FileAgrees, NEW r \in Runners, NEW s \in Runners,
         pc[r] \in Active, pc[s] \in Active
  PROVE  r = s
<1>1. /\ plan[r] # None /\ plan[s] # None /\ plan[r].op = plan[s].op
  BY ActiveFinds
<1> QED
  BY <1>1 DEF RunInv, OwnPlans

\* A step of the run at work on the file.
LEMMA FileKept ==
  ASSUME RunInv, FileAgrees, RunInv', NEW r \in Runners, pc[r] \in Active,
         UNCHANGED clearing,
         \A s \in Runners : s # r => pc'[s] = pc[s] /\ plan'[s] = plan[s],
         file' # None, file'.op = file.op,
         pc'[r] \in Active \cup {"idle"},
         pc'[r] \in Active => mem'[r] = file' /\ ConfigStands(r)',
         UntouchedWithoutStep', CommittedIsConfigured'
  PROVE  FileInv'
<1>1. \A s \in Runners : s # r => pc[s] \notin Active /\ pc'[s] \notin Active
  BY ActiveAlone
<1>2. \A s \in Runners : pc'[s] \in Active => mem'[s] = file' /\ ConfigStands(s)'
  BY <1>1
<1>3. \A s \in Runners : pc'[s] \in {"planned", "opening"} => s # r
  BY DEF Active
<1>4. file.op \notin clearing
  BY ActiveFinds
<1>5. file # None
  BY ActiveFinds
<1>6. \A s \in Runners : pc'[s] \in {"planned", "opening"} =>
        plan'[s].op \notin clearing' /\ (file' # None => file'.op # plan'[s].op)
  BY <1>3, <1>5 DEF FileAgrees
<1>7. \A op \in clearing' : file' # None /\ file'.op = op => Terminal(file')
  BY <1>4
<1> QED
  BY <1>2, <1>6, <1>7 DEF FileInv, FileAgrees

\* A run that saves an event which is not terminal and carries on.
LEMMA SavedFile ==
  ASSUME RunInv, FileAgrees, RunInv', NEW r \in Runners, pc[r] \in Active, ~clobbered,
         NEW kind \in Kinds \ TerminalKinds, Saved(r, kind), Carry(r),
         Follows(mem[r], kind),
         NEW label \in Active \ {"configured", "audio", "verify"}, Goto(r, label),
         label = "verified" => config = plan[r].target /\ UNCHANGED plan,
         UNCHANGED plan \/ plan' = [plan EXCEPT ![r].facts = None]
  PROVE  FileInv'
<1>1. /\ mem[r] = file /\ file # None /\ GoodRecord(file) /\ ~Terminal(file)
  BY ActiveFinds
<1>2. file' = Appended(file, kind) /\ UNCHANGED <<config, found, clearing, clobbered>>
  BY <1>1 DEF Saved, world, rest
<1>3. /\ GoodRecord(file') /\ file' # None /\ ~Terminal(file')
      /\ file'.op = file.op /\ LastKind(file') = kind
      /\ Happened(file', "step_started")
           <=> Happened(file, "step_started") \/ kind = "step_started"
  BY <1>1, <1>2, GoodAppended, RecordIsSome
<1>4. UntouchedWithoutStep' /\ CommittedIsConfigured'
  BY <1>1, <1>2, <1>3
  DEF FileAgrees, UntouchedWithoutStep, CommittedIsConfigured, TerminalKinds
<1>5. /\ \A s \in Runners : pc'[s] = IF s = r THEN label ELSE pc[s]
      /\ mem'[r] = file'
      /\ \A s \in Runners : s # r => plan'[s] = plan[s]
  BY DEF Goto, Carry, RunInv, TypeOK
<1>6. ConfigStands(r)'
  BY <1>2, <1>5 DEF ConfigStands
<1> QED
  BY <1>2, <1>3, <1>4, <1>5, <1>6, FileKept

\* A run that carries on without a save; only a run whose step may have
\* started writes the configuration.
LEMMA MovedFile ==
  ASSUME RunInv, FileAgrees, RunInv', NEW r \in Runners, pc[r] \in Active, ~clobbered,
         NEW label \in Active, Goto(r, label),
         UNCHANGED <<file, plan, mem, clearing, found, clobbered>>,
         config' = config \/ pc[r] \in Stepped,
         ConfigStands(r)'
  PROVE  FileInv'
<1>1. /\ mem[r] = file /\ file # None /\ GoodRecord(file) /\ ~Terminal(file)
      /\ RunStands(r)
  BY ActiveFinds
<1>2. pc[r] \in Stepped => Happened(file, "step_started")
  BY <1>1 DEF RunStands, GoodRecord
<1>3. Happened(file, "step_started")' <=> Happened(file, "step_started")
  BY DEF Happened
<1>4. UntouchedWithoutStep'
  BY <1>2, <1>3 DEF FileAgrees, UntouchedWithoutStep
<1>5. LastKind(file') # "committed"
  BY <1>1 DEF Terminal, TerminalKinds, GoodRecord
<1>6. CommittedIsConfigured'
  BY <1>5 DEF CommittedIsConfigured
<1>7. \A s \in Runners : pc'[s] = IF s = r THEN label ELSE pc[s]
  BY DEF Goto, RunInv, TypeOK
<1> QED
  BY <1>1, <1>4, <1>6, <1>7, FileKept

\* A run that returns, with or without a last event.
LEMMA ReturnedFile ==
  ASSUME RunInv, FileAgrees, RunInv', NEW r \in Runners, pc[r] \in Active, ~clobbered,
         Return(r), UNCHANGED <<config, found, clearing, clobbered>>,
         \/ UNCHANGED file
         \/ \E kind \in TerminalKinds :
              /\ file' = Appended(mem[r], kind)
              /\ kind = "committed" =>
                   \/ LastKind(mem[r]) \in Early
                   \/ LastKind(mem[r]) \in MutationKinds /\ config = plan[r].target
  PROVE  FileInv'
<1>1. /\ mem[r] = file /\ file # None /\ GoodRecord(file) /\ ~Terminal(file)
      /\ plan[r].target = file.target
  BY ActiveFinds
<1>2. /\ pc'[r] = "idle" /\ "idle" \notin Active
      /\ \A s \in Runners : s # r => pc'[s] = pc[s] /\ plan'[s] = plan[s]
  BY DEF Return, RunInv, TypeOK, Active
<1>3. CASE UNCHANGED file
  <2>1. Happened(file, "step_started")' <=> Happened(file, "step_started")
    BY <1>3 DEF Happened
  <2>2. UntouchedWithoutStep' /\ CommittedIsConfigured'
    BY <1>3, <2>1 DEF FileAgrees, UntouchedWithoutStep, CommittedIsConfigured
  <2> QED
    BY <1>1, <1>2, <1>3, <2>2, FileKept
<1>4. ASSUME NEW kind \in TerminalKinds, file' = Appended(file, kind),
             kind = "committed" =>
               \/ LastKind(file) \in Early
               \/ LastKind(file) \in MutationKinds /\ config = plan[r].target
      PROVE  FileInv'
  <2>1. kind \in Kinds /\ kind # "step_started" /\ Follows(file, kind)
    BY DEF TerminalKinds, Kinds, Follows
  <2>2. /\ GoodRecord(file') /\ file' # None /\ LastKind(file') = kind
        /\ file'.op = file.op /\ file'.target = file.target
        /\ Happened(file', "step_started") <=> Happened(file, "step_started")
    BY <1>1, <1>4, <2>1, GoodAppended, RecordIsSome
  <2>3. ~Happened(file, "step_started") => config \in {found, None}
    BY <1>1 DEF FileAgrees, UntouchedWithoutStep
  <2>4. /\ LastKind(file) \in Early => ~Happened(file, "step_started")
        /\ LastKind(file) \in MutationKinds => Happened(file, "step_started")
    BY <1>1 DEF GoodRecord
  <2>5. UntouchedWithoutStep'
    BY <2>2, <2>3 DEF UntouchedWithoutStep
  <2>6. CommittedIsConfigured'
    BY <1>1, <1>4, <2>2, <2>3, <2>4 DEF CommittedIsConfigured
  <2> QED
    BY <1>1, <1>2, <2>2, <2>5, <2>6, FileKept
<1> QED
  BY <1>1, <1>3, <1>4

\* A request that is opened, or refused.
LEMMA OpenFile ==
  ASSUME RunInv, FileAgrees, RunInv', NEW r \in Runners, ~clobbered, ~clobbered',
         RefusedByJournal(r) \/ Check(r) \/ Open(r)
  PROVE  FileInv'
<1>t. TypeOK
  BY DEF RunInv
<1>1. /\ pc[r] \in {"planned", "opening"} /\ plan[r] # None /\ plan[r] \in Plans
      /\ plan[r].op \notin clearing /\ UNCHANGED <<config, clearing>>
  BY <1>t
  DEF RefusedByJournal, Check, Open, RunInv, TypeOK, FileAgrees, world, rest
<1>2. ASSUME UNCHANGED <<file, found, config, clearing>>,
             \A s \in Runners :
               \/ pc'[s] \in {"idle", "opening"} /\ (pc'[s] = "opening" => s = r /\ plan'[s] = plan[s])
               \/ pc'[s] = pc[s] /\ plan'[s] = plan[s] /\ mem'[s] = mem[s] /\ aim'[s] = aim[s]
      PROVE  FileInv'
  <2>1. Happened(file, "step_started")' <=> Happened(file, "step_started")
    BY <1>2 DEF Happened
  <2>2. UntouchedWithoutStep' /\ CommittedIsConfigured'
    BY <1>2, <2>1 DEF FileAgrees, UntouchedWithoutStep, CommittedIsConfigured
  <2>3. \A s \in Runners : pc'[s] \in Active =>
          /\ pc'[s] = pc[s] /\ plan'[s] = plan[s] /\ mem'[s] = mem[s] /\ aim'[s] = aim[s]
    BY <1>2 DEF Active
  <2>4. \A s \in Runners : pc'[s] \in Active => mem'[s] = file' /\ ConfigStands(s)'
    BY <1>2, <2>3 DEF FileAgrees, ConfigStands
  <2>5. \A s \in Runners : pc'[s] \in {"planned", "opening"} =>
          pc[s] \in {"planned", "opening"} /\ plan'[s] = plan[s]
    BY <1>1, <1>2
  <2> QED
    BY <1>2, <2>2, <2>4, <2>5 DEF FileInv, FileAgrees, Terminal
<1>3. CASE UNCHANGED <<file, found>> /\ Return(r)
  BY <1>1, <1>2, <1>3, <1>t DEF Return, TypeOK
<1>4. CASE Check(r)
  BY <1>1, <1>2, <1>4, <1>t DEF Check, Goto, TypeOK, world, rest
<1>5. CASE /\ Open(r)
           /\ file' = [op |-> plan[r].op, kinds |-> <<"requested">>,
                       from |-> plan[r].from, target |-> plan[r].target]
           /\ found' = config
           /\ clobbered' = (clobbered \/ file # mem[r])
           /\ Carry(r) /\ Goto(r, "opened") /\ UNCHANGED <<plan, aim>>
  <2>1. file = None
    BY <1>5 DEF Open, RunInv
  <2>2. /\ GoodRecord(file') /\ ~Terminal(file') /\ LastKind(file') = "requested"
        /\ file'.op = plan[r].op
    BY <1>1, <1>5, FirstRecord
  <2>3. \A s \in Runners : pc[s] \notin Active
    BY <2>1, ActiveFinds
  <2>4. /\ \A s \in Runners : pc'[s] = IF s = r THEN "opened" ELSE pc[s]
        /\ mem'[r] = file'
    BY <1>5, <1>t DEF Goto, Carry, TypeOK
  <2>5. \A s \in Runners : pc'[s] \in Active => mem'[s] = file' /\ ConfigStands(s)'
    BY <2>3, <2>4 DEF ConfigStands
  <2>6. \A s \in Runners : pc'[s] \in {"planned", "opening"} =>
          plan'[s].op \notin clearing' /\ file'.op # plan'[s].op
    <3>1. \A s \in Runners : pc'[s] \in {"planned", "opening"} =>
            s # r /\ pc[s] \in {"planned", "opening"} /\ plan[s] # None
      BY <2>4 DEF RunInv
    <3> QED
      BY <1>1, <1>5, <2>2, <3>1 DEF FileAgrees, RunInv, OwnPlans
  <2>7. UntouchedWithoutStep' /\ CommittedIsConfigured'
    BY <1>1, <1>5, <2>2 DEF UntouchedWithoutStep, CommittedIsConfigured
  <2>8. \A op \in clearing' : file' # None /\ file'.op = op => Terminal(file')
    BY <1>1, <2>2
  <2> QED
    BY <2>5, <2>6, <2>7, <2>8 DEF FileInv, FileAgrees
<1> QED
  BY <1>3, <1>4, <1>5, <1>1 DEF RefusedByJournal, Open, rest

\* Up to the step: no configuration.
LEMMA RequestFile ==
  ASSUME RunInv, FileAgrees, RunInv', NEW r \in Runners, ~clobbered,
         \/ InitialObservation(r) \/ InitialObservationFails(r) \/ Validate(r)
         \/ PlanReady(r) \/ CommitNoOp(r) \/ StartStep(r) \/ StepBlocked(r)
         \/ Block(r) \/ Fail(r)
  PROVE  FileInv'
<1>1. pc[r] \in {"opened", "accepted", "validated", "ready", "blocking", "failing"}
  BY DEF InitialObservation, InitialObservationFails, Validate, PlanReady, CommitNoOp,
         StartStep, StepBlocked, Block, Fail
<1>2. pc[r] \in Active
  BY <1>1 DEF Active, Labels
<1>3. /\ StandsAt(pc[r], LastKind(mem[r])) /\ LastKind(mem[r]) \in Early
      /\ plan[r].from = mem[r].from /\ plan[r].target = mem[r].target
  BY <1>1, <1>2, CarriedRecord DEF RunStands, StandsAt, Early
<1>4. ASSUME NEW label \in {"blocking", "failing"}, Goto(r, label),
             UNCHANGED <<file, plan, mem, config, clearing, found, clobbered>>
      PROVE  FileInv'
  <2>1. pc'[r] = label /\ label \in Active
    BY <1>4 DEF Goto, RunInv, TypeOK, Active, Labels
  <2>2. ConfigStands(r)'
    BY <2>1 DEF ConfigStands
  <2> QED
    BY <1>2, <1>4, <2>1, <2>2, MovedFile
<1>5. ASSUME NEW kind \in TerminalKinds, Saved(r, kind) \/ SaveFails(r, kind), Return(r)
      PROVE  FileInv'
  <2>1. /\ UNCHANGED <<config, found, clearing, clobbered>>
        /\ UNCHANGED file \/ file' = Appended(mem[r], kind)
    BY <1>5 DEF Saved, SaveFails, world, rest
  <2> QED
    BY <1>2, <1>3, <1>5, <2>1, ReturnedFile
<1>6. ASSUME NEW kind, SaveFails(r, kind)
      PROVE  UNCHANGED <<file, config, found, clearing, clobbered>>
  BY <1>6 DEF SaveFails, world, rest
<1>7. /\ {"observed", "validated", "planned", "step_started"} \subseteq Kinds \ TerminalKinds
      /\ {"committed", "blocked", "failed"} \subseteq TerminalKinds
      /\ {"accepted", "blocking", "validated", "ready", "apply"}
           \subseteq Active \ {"configured", "audio", "verify", "verified"}
  BY DEF Kinds, TerminalKinds, Active, Labels
<1>8. CASE InitialObservation(r)
  <2>1. Follows(mem[r], "observed")
    BY <1>3, <1>8 DEF InitialObservation, StandsAt, Follows
  <2>2. CASE SaveFails(r, "observed") /\ Return(r)
    BY <1>2, <1>6, <2>2, ReturnedFile
  <2>3. ASSUME NEW label \in {"accepted", "blocking"}, Goto(r, label),
               Saved(r, "observed"), Carry(r),
               plan' = [plan EXCEPT ![r].facts = None]
        PROVE  FileInv'
    BY <1>2, <1>7, <2>1, <2>3, SavedFile
  <2> QED
    BY <1>8, <2>2, <2>3 DEF InitialObservation
<1>9. CASE InitialObservationFails(r) \/ StepBlocked(r)
  BY <1>4, <1>9 DEF InitialObservationFails, StepBlocked, rest, world
<1>10. CASE Validate(r)
  <2>1. Follows(mem[r], "validated")
    BY <1>3, <1>10 DEF Validate, StandsAt, Follows
  <2>2. CASE Saved(r, "validated") /\ Carry(r) /\ Goto(r, "validated") /\ UNCHANGED plan
    BY <1>2, <1>7, <2>1, <2>2, SavedFile
  <2> QED
    BY <1>4, <1>6, <1>10, <2>2 DEF Validate, SaveThen
<1>11. CASE PlanReady(r)
  <2>1. Follows(mem[r], "planned")
    BY <1>3, <1>11 DEF PlanReady, StandsAt, Follows
  <2>2. CASE Saved(r, "planned") /\ Carry(r) /\ Goto(r, "ready") /\ UNCHANGED plan
    BY <1>2, <1>7, <2>1, <2>2, SavedFile
  <2> QED
    BY <1>4, <1>6, <1>11, <2>2 DEF PlanReady, SaveThen
<1>12. CASE CommitNoOp(r)
  BY <1>4, <1>5, <1>6, <1>7, <1>12 DEF CommitNoOp
<1>13. CASE StartStep(r)
  <2>1. Follows(mem[r], "step_started")
    BY <1>3, <1>13 DEF StartStep, StandsAt, Follows
  <2>2. CASE Saved(r, "step_started") /\ Carry(r) /\ Goto(r, "apply") /\ UNCHANGED plan
    BY <1>2, <1>7, <2>1, <2>2, SavedFile
  <2> QED
    BY <1>4, <1>6, <1>13, <2>2 DEF StartStep
<1>14. CASE Block(r) \/ Fail(r)
  BY <1>5, <1>7, <1>14 DEF Block, Fail, SaveAndReturn
<1> QED
  BY <1>8, <1>9, <1>10, <1>11, <1>12, <1>13, <1>14

\* The mechanism writes what the run aims at, then answers.
LEMMA MechanismFile ==
  ASSUME RunInv, FileAgrees, RunInv', NEW r \in Runners, ~clobbered,
         \/ MechanismRefuses(r) \/ Configure(r) \/ QueueRestart(r)
         \/ SwitchAudio(r) \/ RollBack(r)
  PROVE  FileInv'
<1>1. pc[r] \in Mutating /\ pc[r] \in Active /\ pc[r] \in Stepped
  BY DEF MechanismRefuses, Configure, QueueRestart, SwitchAudio, RollBack, Mutating,
         Active, Labels, Stepped
<1>2. ConfigStands(r)
  BY <1>1, ActiveFinds
<1>3. UNCHANGED <<file, plan, mem, clearing, found, clobbered>>
  BY DEF MechanismRefuses, Configure, QueueRestart, SwitchAudio, RollBack, Answer,
         Answered, rest
<1>4. ASSUME NEW ok \in BOOLEAN, Answer(r, ok), ok = TRUE => config' = aim[r]
      PROVE  FileInv'
  <2> DEFINE label == IF ~Applying(r) THEN "confirm" ELSE IF ok THEN "verify" ELSE "recover"
  <2>1. label \in {"confirm", "verify", "recover"} /\ Goto(r, label)
    BY <1>4 DEF Answer
  <2>2. label = "verify" => config' = plan[r].target
    BY <1>4 DEF Applying
  <2> HIDE DEF label
  <2>3. label \in Active
    BY <2>1 DEF Active, Labels
  <2>4. pc'[r] = label
    BY <2>1 DEF Goto, RunInv, TypeOK
  <2>5. ConfigStands(r)'
    BY <1>3, <2>1, <2>2, <2>4 DEF ConfigStands
  <2> QED
    BY <1>1, <1>3, <2>1, <2>3, <2>5, MovedFile
<1>5. ASSUME NEW label \in Mutating, Goto(r, label), UNCHANGED aim,
             label \in {"configured", "audio"} => config' = aim[r]
      PROVE  FileInv'
  <2>1. label \in Active /\ label \notin {"verify", "verified"}
    BY DEF Mutating, Active, Labels
  <2>2. pc'[r] = label
    BY <1>5 DEF Goto, RunInv, TypeOK
  <2>3. ConfigStands(r)'
    BY <1>5, <2>1, <2>2 DEF ConfigStands
  <2> QED
    BY <1>1, <1>3, <1>5, <2>1, <2>3, MovedFile
<1>6. {"configured", "audio", "rollback"} \subseteq Mutating
  BY DEF Mutating
<1>7. CASE MechanismRefuses(r) \/ RollBack(r)
  BY <1>4, <1>7 DEF MechanismRefuses, RollBack
<1>8. CASE Configure(r)
  BY <1>5, <1>6, <1>8 DEF Configure
<1>9. CASE QueueRestart(r)
  <2>1. config' = config /\ config = aim[r]
    BY <1>2, <1>9 DEF QueueRestart, ConfigStands
  <2> QED
    BY <1>5, <1>6, <1>9, <2>1 DEF QueueRestart
<1>10. CASE SwitchAudio(r)
  <2>1. config' = config /\ config = aim[r]
    BY <1>2, <1>10 DEF SwitchAudio, ConfigStands, world
  <2> QED
    BY <1>4, <1>5, <1>6, <1>10, <2>1 DEF SwitchAudio
<1> QED
  BY <1>7, <1>8, <1>9, <1>10

\* Verification and commit: the configuration is still the target.
LEMMA VerifyFile ==
  ASSUME RunInv, FileAgrees, RunInv', NEW r \in Runners, ~clobbered,
         VerifyStep(r) \/ VerifyTimesOut(r) \/ Commit(r)
  PROVE  FileInv'
<1>1. pc[r] \in {"verify", "verified"} /\ pc[r] \in Active
  BY DEF VerifyStep, VerifyTimesOut, Commit, Active, Labels
<1>2. /\ RunStands(r) /\ StandsAt(pc[r], LastKind(mem[r]))
      /\ config = plan[r].target
      /\ LastKind(mem[r]) \in {"step_started", "step_verified"}
  BY <1>1, ActiveFinds DEF RunStands, StandsAt, ConfigStands
<1>3. ASSUME Goto(r, "recover"),
             UNCHANGED <<file, plan, mem, config, clearing, found, clobbered>>
      PROVE  FileInv'
  <2>1. pc'[r] = "recover" /\ "recover" \in Active
    BY <1>3 DEF Goto, RunInv, TypeOK, Active, Labels
  <2>2. ConfigStands(r)'
    BY <2>1 DEF ConfigStands
  <2> QED
    BY <1>1, <1>3, <2>1, <2>2, MovedFile
<1>4. CASE VerifyTimesOut(r)
  BY <1>3, <1>4 DEF VerifyTimesOut, world, rest
<1>5. CASE VerifyStep(r)
  <2>1. CASE Saved(r, "step_verified") /\ Carry(r) /\ Goto(r, "verified") /\ UNCHANGED plan
    <3>1. /\ "verified" \in Active \ {"configured", "audio", "verify"}
          /\ "step_verified" \in Kinds \ TerminalKinds
          /\ Follows(mem[r], "step_verified")
      BY <1>2, <1>5
      DEF VerifyStep, StandsAt, Active, Labels, Kinds, TerminalKinds, Follows
    <3> QED
      BY <1>1, <1>2, <2>1, <3>1, SavedFile
  <2> QED
    BY <1>3, <1>5, <2>1 DEF VerifyStep, SaveFails, world, rest
<1>6. CASE Commit(r)
  <2>1. CASE Saved(r, "committed") /\ Return(r)
    <3>1. /\ "committed" \in TerminalKinds /\ LastKind(mem[r]) \in MutationKinds
          /\ UNCHANGED <<config, found, clearing, clobbered>>
          /\ file' = Appended(mem[r], "committed")
      BY <1>2, <2>1 DEF TerminalKinds, MutationKinds, Saved, world, rest
    <3> QED
      BY <1>1, <1>2, <2>1, <3>1, ReturnedFile
  <2> QED
    BY <1>3, <1>6, <2>1 DEF Commit, SaveFails, world, rest
<1> QED
  BY <1>4, <1>5, <1>6

\* Recovery writes nothing but its events.
LEMMA RecoveryFile ==
  ASSUME RunInv, FileAgrees, RunInv', NEW r \in Runners, ~clobbered,
         \/ BeginRecovery(r) \/ ResumeRecovery(r) \/ AlreadySatisfied(r)
         \/ RecoverSource(r) \/ RecoverRefused(r) \/ Confirm(r) \/ Conclude(r)
  PROVE  FileInv'
<1>1. /\ pc[r] \in {"recover", "resume", "diagnose", "confirm", "conclude"}
      /\ pc[r] \in Active
  BY DEF BeginRecovery, ResumeRecovery, AlreadySatisfied, RecoverSource, RecoverRefused,
         Confirm, Conclude, Active, Labels
<1>2. pc[r] \in {"recover", "resume"} => Follows(mem[r], "recovery_started")
  BY <1>1, ActiveFinds DEF RunStands, StandsAt, Follows
<1>3. ASSUME NEW label \in {"diagnose", "confirm", "conclude", "apply"}, Goto(r, label),
             UNCHANGED <<file, plan, mem, config, clearing, found, clobbered>>
      PROVE  FileInv'
  <2>1. pc'[r] = label /\ label \in Active
    BY <1>3 DEF Goto, RunInv, TypeOK, Active, Labels
  <2>2. ConfigStands(r)'
    BY <2>1 DEF ConfigStands
  <2> QED
    BY <1>1, <1>3, <2>1, <2>2, MovedFile
<1>4. ASSUME pc[r] \in {"recover", "resume"}, Saved(r, "recovery_started"), Carry(r),
             Goto(r, "diagnose"), UNCHANGED plan
      PROVE  FileInv'
  <2>1. /\ "diagnose" \in Active \ {"configured", "audio", "verify", "verified"}
        /\ "recovery_started" \in Kinds \ TerminalKinds
    BY DEF Active, Labels, Kinds, TerminalKinds
  <2> QED
    BY <1>1, <1>2, <1>4, <2>1, SavedFile
<1>5. CASE BeginRecovery(r)
  BY <1>3, <1>4, <1>5 DEF BeginRecovery, SaveFails, world, rest
<1>6. CASE ResumeRecovery(r)
  <2>1. CASE SaveFails(r, "recovery_started") /\ Return(r)
    BY <1>1, <2>1, ReturnedFile DEF SaveFails, world, rest
  <2> QED
    BY <1>4, <1>6, <2>1 DEF ResumeRecovery
<1>7. CASE AlreadySatisfied(r) \/ RecoverRefused(r) \/ Confirm(r) \/ RecoverSource(r)
  BY <1>3, <1>7
  DEF AlreadySatisfied, RecoverRefused, Confirm, RecoverSource, world, rest
<1>8. CASE Conclude(r)
  <2>1. ASSUME NEW kind \in {"recovery_verified", "failed"},
               Saved(r, kind) \/ SaveFails(r, kind), Return(r)
        PROVE  FileInv'
    <3>1. kind \in TerminalKinds /\ kind # "committed"
      BY DEF TerminalKinds
    <3>2. /\ UNCHANGED <<config, found, clearing, clobbered>>
          /\ UNCHANGED file \/ file' = Appended(mem[r], kind)
      BY <2>1 DEF Saved, SaveFails, world, rest
    <3> QED
      BY <1>1, <2>1, <3>1, <3>2, ReturnedFile
  <2>2. CASE Return(r) /\ UNCHANGED <<file, world, rest>>
    BY <1>1, <2>2, ReturnedFile DEF world, rest
  <2> QED
    BY <1>8, <2>1, <2>2 DEF Conclude, SaveAndReturn
<1> QED
  BY <1>5, <1>6, <1>7, <1>8

-----------------------------------------------------------------------------
(* Until a journal is clobbered, run, file and configuration agree         *)

\* Every step of the system keeps them in line.
LEMMA FileNext ==
  ASSUME FileInv, [Next]_vars
  PROVE  FileInv'
<1>i. RunInv /\ RunInv' /\ TypeOK
  BY RunInvNext DEF FileInv, RunInv
<1>1. CASE clobbered'
  BY <1>i, <1>1 DEF FileInv
<1>2. ASSUME ~clobbered', NEW r \in Runners, NEW target \in Targets, NEW op \in Operations,
             Request(r, target, op)
      PROVE  FileInv'
  <2>1. /\ UNCHANGED <<file, config, found, mem, aim, clearing>> /\ Fresh(op)
        /\ \A s \in Runners : /\ pc'[s] = IF s = r THEN "planned" ELSE pc[s]
                              /\ s # r => plan'[s] = plan[s]
    BY <1>2, <1>i DEF Request, Goto, TypeOK, world
  <2>2. plan'[r].op = op
    BY <1>2, <1>i DEF Request, TypeOK
  <2>3. \A s \in Runners : pc'[s] \in Active =>
          s # r /\ pc[s] \in Active /\ plan'[s] = plan[s]
    BY <2>1 DEF Active
  <2>4. CASE ~clobbered
    <3>1. \A s \in Runners : pc'[s] \in Active => mem'[s] = file' /\ ConfigStands(s)'
      BY <2>1, <2>3, <2>4 DEF FileInv, FileAgrees, ConfigStands
    <3>2. \A s \in Runners : pc'[s] \in {"planned", "opening"} =>
            plan'[s].op \notin clearing' /\ (file' # None => file'.op # plan'[s].op)
      BY <2>1, <2>2, <2>4 DEF FileInv, FileAgrees, Fresh
    <3>3. Happened(file, "step_started")' <=> Happened(file, "step_started")
      BY <2>1 DEF Happened
    <3> QED
      BY <1>i, <2>1, <2>4, <3>1, <3>2, <3>3
      DEF FileInv, FileAgrees, UntouchedWithoutStep, CommittedIsConfigured, Terminal
  <2>5. CASE clobbered
    <3>1. file = None /\ clearing = {} /\ \A s \in Runners : pc[s] = "idle"
      BY <1>2, <2>5 DEF Request, Quiet
    <3>2. /\ \A s \in Runners : pc'[s] \notin Active
          /\ \A s \in Runners : pc'[s] \in {"planned", "opening"} => plan'[s].op \notin clearing'
      BY <2>1, <3>1 DEF Active
    <3> QED
      BY <1>i, <2>1, <3>1, <3>2
      DEF FileInv, FileAgrees, UntouchedWithoutStep, CommittedIsConfigured
  <2> QED
    BY <2>4, <2>5
<1>3. ASSUME ~clobbered', ~clobbered, NEW r \in Runners, RunnerStep(r)
      PROVE  FileInv'
  BY <1>i, <1>3, OpenFile, RequestFile, MechanismFile, VerifyFile, RecoveryFile
  DEF FileInv, RunnerStep
<1>4. ASSUME ~clobbered, ~clobbered', FileAgrees,
             UNCHANGED <<file, found, clearing>>, config' \in {config, None},
             \A s \in Runners : pc'[s] \in Active \cup {"planned", "opening"} =>
               /\ pc'[s] = pc[s] /\ plan'[s] = plan[s] /\ mem'[s] = mem[s]
               /\ aim'[s] = aim[s] /\ config' = config
      PROVE  FileInv'
  <2>1. Happened(file, "step_started")' <=> Happened(file, "step_started")
    BY <1>4 DEF Happened
  <2>2. UntouchedWithoutStep' /\ CommittedIsConfigured'
    BY <1>4, <2>1 DEF FileAgrees, UntouchedWithoutStep, CommittedIsConfigured
  <2>3. \A s \in Runners : pc'[s] \in Active => mem'[s] = file' /\ ConfigStands(s)'
    BY <1>4 DEF FileAgrees, ConfigStands
  <2> QED
    BY <1>i, <1>4, <2>2, <2>3 DEF FileInv, FileAgrees, Terminal
<1>5. CASE ~clobbered' /\ (UNCHANGED vars \/ WorldStep \/ StartupEnds)
  <2>1. UNCHANGED <<file, found, clearing, config, pc, plan, mem, aim, clobbered>>
    BY <1>5
    DEF vars, world, thread, rest, WorldStep, SessionStops, SessionStarts, DockChanges,
        GameChanges, StartupEnds
  <2> QED
    BY <1>4, <1>5, <2>1 DEF FileInv
<1>6. ASSUME ~clobbered', NEW r \in Runners, RecoverInterrupted(r)
      PROVE  FileInv'
  <2>1. /\ startup /\ UNCHANGED <<file, config, found, clearing, clobbered>>
        /\ mem' = [mem EXCEPT ![r] = file]
        /\ pc'[r] \in {"failing", "diagnose", "resume"}
        /\ \A s \in Runners : s # r => pc'[s] = pc[s]
    BY <1>6, <1>i DEF RecoverInterrupted, Goto, world, TypeOK
  <2>2. \A s \in Runners : s # r => pc'[s] = "idle"
    BY <1>i, <2>1 DEF RunInv
  <2>3. mem'[r] = file' /\ ConfigStands(r)'
    BY <1>i, <2>1 DEF ConfigStands, TypeOK
  <2>4. Happened(file, "step_started")' <=> Happened(file, "step_started")
    BY <2>1 DEF Happened
  <2>5. \A s \in Runners : /\ pc'[s] \in Active => s = r
                           /\ pc'[s] \notin {"planned", "opening"}
    BY <2>1, <2>2 DEF Active
  <2> QED
    BY <1>i, <1>6, <2>1, <2>3, <2>4, <2>5
    DEF FileInv, FileAgrees, UntouchedWithoutStep, CommittedIsConfigured, Terminal
<1>7. CASE ~clobbered' /\ BeginClear
  <2>1. /\ Terminal(file) /\ file # None /\ clearing' = clearing \cup {file.op}
        /\ UNCHANGED <<file, found, config, pc, plan, mem, aim, clobbered>>
    BY <1>7 DEF BeginClear, world, thread
  <2>2. Happened(file, "step_started")' <=> Happened(file, "step_started")
    BY <2>1 DEF Happened
  <2>3. \A s \in Runners : pc'[s] \in Active => mem'[s] = file' /\ ConfigStands(s)'
    BY <1>7, <2>1 DEF FileInv, FileAgrees, ConfigStands
  <2> QED
    BY <1>i, <1>7, <2>1, <2>2, <2>3
    DEF FileInv, FileAgrees, UntouchedWithoutStep, CommittedIsConfigured, Terminal
<1>8. ASSUME ~clobbered', NEW op \in Operations, Unlink(op)
      PROVE  FileInv'
  <2>1. /\ op \in clearing /\ clearing' \subseteq clearing /\ file' = None
        /\ ~clobbered /\ (file = None \/ file.op = op)
        /\ UNCHANGED <<config, pc, plan, mem, aim>>
    BY <1>8 DEF Unlink, world, thread
  <2>2. \A s \in Runners : pc[s] \notin Active
    BY <1>i, <2>1, ActiveFinds DEF FileInv
  <2> QED
    BY <1>i, <1>8, <2>1, <2>2
    DEF FileInv, FileAgrees, UntouchedWithoutStep, CommittedIsConfigured
<1>9. CASE ~clobbered' /\ (PluginDies \/ Reboot)
  <2>1. /\ UNCHANGED <<file, found, clobbered>> /\ config' \in {config, None}
        /\ clearing' = {} /\ \A s \in Runners : pc'[s] = "idle"
    BY <1>9 DEF PluginDies, Reboot, Forget, world
  <2>2. Happened(file, "step_started")' <=> Happened(file, "step_started")
    BY <2>1 DEF Happened
  <2> QED
    BY <1>i, <1>9, <2>1, <2>2
    DEF FileInv, FileAgrees, UntouchedWithoutStep, CommittedIsConfigured, Active
<1>10. ASSUME ~clobbered', clobbered, NEW r \in Runners, RunnerStep(r)
       PROVE  FALSE
  BY <1>10
  DEF RunnerStep, RefusedByJournal, Check, Open, InitialObservation,
      InitialObservationFails, Validate, PlanReady, CommitNoOp, StartStep, StepBlocked,
      Block, Fail, MechanismRefuses, Configure, QueueRestart, SwitchAudio, RollBack,
      VerifyStep, VerifyTimesOut, Commit, BeginRecovery, AlreadySatisfied, RecoverSource,
      RecoverRefused, Confirm, Conclude, ResumeRecovery, SaveThen, SaveAndReturn, Saved,
      SaveFails, rest
<1> QED
  BY <1>1, <1>2, <1>3, <1>5, <1>6, <1>7, <1>8, <1>9, <1>10 DEF Next

\* The run at work, the file and the launch configuration agree in every
\* reachable state whose journal no opening or unlink has clobbered, however
\* many runs raced for it before.
THEOREM FileInvariant == Spec => []FileInv
<1>1. Init => FileInv
  BY RunInvInit
  DEF Init, FileInv, FileAgrees, UntouchedWithoutStep, CommittedIsConfigured, Active
<1>2. FileInv /\ [Next]_vars => FileInv'
  BY FileNext
<1> QED
  BY <1>1, <1>2, PTL DEF Spec

\* A journal without step_started belongs to an operation that has not
\* touched the launch configuration.
THEOREM AbandonedIsUntouched == Spec => []UntouchedWithoutStep
<1>1. FileInv => UntouchedWithoutStep
  BY DEF FileInv, FileAgrees, UntouchedWithoutStep
<1> QED
  BY <1>1, FileInvariant, PTL

\* Only an opening or an unlink that hits a journal its check has not read
\* lets two runners into mechanism calls at the same time.
THEOREM MutualExclusion == Spec => []LoneMutator
<1>1. Mutating \subseteq Active
  BY DEF Mutating, Active, Labels
<1>2. FileInv => LoneMutator
  BY <1>1, ActiveAlone DEF FileInv, LoneMutator, OneMutator
<1> QED
  BY <1>2, FileInvariant, PTL

\* A committed handoff is the launch configuration on disk until it is
\* acknowledged or the machine reboots.
THEOREM CommitIsConfigured == Spec => []CommittedIsConfigured
<1>1. FileInv => CommittedIsConfigured
  BY DEF FileInv, FileAgrees, CommittedIsConfigured
<1> QED
  BY <1>1, FileInvariant, PTL

\* Nothing writes the configuration or queues a restart unless the journal
\* on disk shows that a step may have started.
THEOREM WriteAhead == Spec => MutationIsJournaled
<1>1. ASSUME FileInv, [Next]_vars, ~clobbered,
             config' \notin {config, None} \/ (restart' /\ ~restart)
      PROVE  file # None /\ LastKind(file) \in MutationKinds
  <2>1. PICK r \in Runners : RunnerStep(r)
    BY <1>1
    DEF Next, vars, world, thread, Request, RecoverInterrupted, StartupEnds,
        BeginClear, Unlink, WorldStep, SessionStops, SessionStarts, DockChanges,
        GameChanges, PluginDies, Reboot
  <2>2. Configure(r) \/ QueueRestart(r) \/ RollBack(r)
    BY <1>1, <2>1
    DEF RunnerStep, RefusedByJournal, Check, Open, InitialObservation,
        InitialObservationFails, Validate, PlanReady, CommitNoOp, StartStep,
        StepBlocked, Block, Fail, MechanismRefuses, SwitchAudio, VerifyStep,
        VerifyTimesOut, Commit, BeginRecovery, AlreadySatisfied,
        RecoverSource, RecoverRefused, Confirm, Conclude, ResumeRecovery,
        SaveThen, SaveAndReturn, Saved, SaveFails, world
  <2>3. pc[r] \in Stepped /\ pc[r] \in Active
    BY <2>2 DEF Configure, QueueRestart, RollBack, Stepped, Active, Labels
  <2>4. RunInv /\ FileAgrees
    BY <1>1 DEF FileInv
  <2> QED
    BY <2>3, <2>4, ActiveFinds DEF RunStands
<1>2. FileInv /\ [Next]_vars
        => [ ~clobbered /\ (config' \notin {config, None} \/ (restart' /\ ~restart))
             => file # None /\ LastKind(file) \in MutationKinds ]_vars
  BY <1>1
<1> QED
  BY <1>2, FileInvariant, PTL DEF Spec, MutationIsJournaled
===============================================================================
