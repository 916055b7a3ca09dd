-------------------------- MODULE AutomaticDockProofs --------------------------
(***************************************************************************)
(* What the automatic dock promises for any quorum and any mixture of      *)
(* operations started by hand, status refreshes and reloads: its type, the *)
(* meaning of "ready", the end of consent, and one request per attachment. *)
(***************************************************************************)
EXTENDS AutomaticDock, TLAPS

\* Labels of an iteration that holds a sample.
Holding == {"observed", "arm", "decide", "execute", "wait"}

\* A display handoff has a target, so its end names a place to show on.
Aimed ==
  journal # None /\ journal.owner = "presentation" =>
    journal.target \in {"portable", "docked_egpu"}

Iterating ==
  /\ pc \in Holding => sample \in Samples
  /\ pc = "wait" => journal \in Operations /\ journal.state = "running"

\* A handoff opened after the opt-out was decided before it, and the loop
\* opens no other until the next opt-in.
Consented ==
  \/ late = 0
  \/ /\ late = 1 /\ pref = FALSE
     /\ \/ pc \in {"sleep", "wait"}
        \/ pc = "loaded" /\ consent = FALSE

DockInv == TypeOK /\ Aimed /\ Iterating /\ Consented /\ ReadyIsLastSample

\* The latch covers the attachment that had its request, also while a sample
\* of an earlier attachment is still being decided.
Latched ==
  /\ requested \/ held => dock \in {"exact", "ready"}
  /\ requested \/ again => attempted = TRUE
  /\ (requested \/ again) /\ pc \in {"observed", "arm", "decide"} => Exact(sample)

-----------------------------------------------------------------------------
(* The readiness watch                                                      *)

\* A classification is a readiness, and ready means attached.
LEMMA ClassifiedType ==
  ASSUME NEW s
  PROVE  /\ Classified(s) \in Readinesses
         /\ Seen(s) \in Readinesses \cup {"apart"}
         /\ Classified(s) = "ready_idle" => Seen(s) = "ready_idle"
BY DEF Classified, Readinesses, Seen, Exact

\* Recording a sample keeps the watch typed and its verdict truthful.
LEMMA RecordKeeps ==
  ASSUME TypeOK, ReadyIsLastSample, NEW s \in Samples, RecordSample(s)
  PROVE  /\ watch' \in BOOLEAN /\ votes' \in 0 .. ReadySamples
         /\ readiness' \in Readinesses
         /\ previous' \in Readinesses \cup {"apart", None}
         /\ ReadyIsLastSample'
<1>1. /\ watch \in BOOLEAN /\ votes \in 0 .. ReadySamples
      /\ readiness \in Readinesses /\ ReadySamples \in Nat \ {0}
  BY AutomaticDockAssumption DEF TypeOK
<1>2. previous' = Seen(s) /\ previous' \in Readinesses \cup {"apart", None}
  BY ClassifiedType DEF RecordSample
<1>3. CASE Attached(s)
  BY <1>1, <1>2, <1>3 DEF RecordSample, ReadyIsLastSample, Readinesses
<1>4. CASE ~Attached(s) /\ ~watch
  BY <1>1, <1>2, <1>4 DEF RecordSample, ReadyIsLastSample
<1>5. CASE ~Attached(s) /\ watch /\ Classified(s) = "ready_idle"
  <2>1. Vote
    BY <1>5 DEF RecordSample
  <2> QED
    BY <1>1, <1>2, <1>5, <2>1, ClassifiedType
    DEF Vote, ReadyIsLastSample, Readinesses
<1>6. CASE ~Attached(s) /\ watch /\ Classified(s) # "ready_idle"
  BY <1>1, <1>2, <1>6, ClassifiedType DEF RecordSample, ReadyIsLastSample
<1> QED
  BY <1>3, <1>4, <1>5, <1>6

-----------------------------------------------------------------------------
(* The invariant                                                            *)

\* The flags of the state, and the rest of it.
Flags ==
  /\ pref \in BOOLEAN /\ attempted \in BOOLEAN /\ watch \in BOOLEAN
  /\ consent \in BOOLEAN /\ requested \in BOOLEAN /\ held \in BOOLEAN
  /\ again \in BOOLEAN /\ returned \in BOOLEAN

Data ==
  /\ dock \in Docks /\ game \in {"idle", "running"}
  /\ shown \in {"portable", "docked_egpu", "degraded"}
  /\ journal \in Operations \cup {None}
  /\ votes \in 0 .. ReadySamples
  /\ readiness \in Readinesses
  /\ previous \in Readinesses \cup {"apart", None}
  /\ pc \in {"sleep", "loaded", "observed", "arm", "decide", "execute", "wait"}
  /\ sample \in Samples \cup {None}
  /\ status \in Readinesses
  /\ glance \in Samples \cup {None}
  /\ ack \in Acknowledged \cup {None}
  /\ late \in Nat

\* The type invariant in two halves, flags and records, which are cited apart.
LEMMA TypeParts == TypeOK <=> Flags /\ Data
BY DEF TypeOK, Flags, Data

\* The same of the next state.
LEMMA TypePartsNext == TypeOK' <=> Flags' /\ Data'
BY DEF TypeOK, Flags, Data

\* A snapshot of typed variables is a sample.
LEMMA SampleType == TypeOK => Sample \in Samples
BY DEF TypeOK, Sample, Samples

\* Recording leaves a flag in the watch.
LEMMA RecordedFlag ==
  ASSUME Flags, NEW s, RecordSample(s) PROVE watch' \in BOOLEAN
BY Zenon DEF Flags, RecordSample, Vote

\* The initial states satisfy it.
LEMMA DockInit == Init => DockInv
<1> SUFFICES ASSUME Init PROVE DockInv
  OBVIOUS
<1>1. Flags
  BY Zenon DEF Init, Flags
<1>2. Data
  BY AutomaticDockAssumption DEF Init, Data, Docks, Readinesses
<1>3. Aimed /\ Iterating /\ Consented /\ ReadyIsLastSample
  BY DEF Init, Aimed, Iterating, Consented, ReadyIsLastSample, Holding
<1> QED
  BY <1>1, <1>2, <1>3, TypeParts DEF DockInv

\* Every step keeps the flags typed.
LEMMA StepFlags ==
  ASSUME DockInv, [Next]_vars
  PROVE  Flags'
<1>0. Flags
  BY TypeParts DEF DockInv
<1>1. ASSUME LoadPreference PROVE Flags'
  BY <1>1, <1>0, Zenon
  DEF LoadPreference, Flags, recorder
<1>2. ASSUME Observe PROVE Flags'
  <2>1. Exact(Sample) \in BOOLEAN
    BY DEF Exact
  <2> QED
    BY <1>2, <1>0, <2>1, Zenon
    DEF Observe, Flags, TakeSample, EndIteration, recorder
<1>3. ASSUME SampleFails PROVE Flags'
  BY <1>3, <1>0, Zenon
  DEF SampleFails, Flags, EndIteration, recorder
<1>4. ASSUME Record PROVE Flags'
  <2>1. watch' \in BOOLEAN
    BY <1>4, <1>0, RecordedFlag DEF Record
  <2> QED
    BY <1>4, <1>0, <2>1
    DEF Record, Flags
<1>5. ASSUME Arm PROVE Flags'
  <2>1. watch' = watch \/ watch' = Exact(sample)
    BY <1>5 DEF Arm
  <2>2. Exact(sample) \in BOOLEAN
    BY DEF Exact
  <2>3. watch' \in BOOLEAN
    BY <1>0, <2>1, <2>2, Zenon DEF Flags
  <2> QED
    BY <1>5, <1>0, <2>3 DEF Arm, Flags
<1>6. ASSUME Decide PROVE Flags'
  BY <1>6, <1>0, Zenon
  DEF Decide, Flags, Update, EndIteration, iteration, recorder
<1>7. ASSUME ExecuteAutomatic PROVE Flags'
  BY <1>7, <1>0, Zenon
  DEF ExecuteAutomatic, Flags, iteration, recorder
<1>8. ASSUME ExecuteRefused PROVE Flags'
  BY <1>8, <1>0, Zenon
  DEF ExecuteRefused, Flags, EndIteration, recorder
<1>9. ASSUME HandoffEnds PROVE Flags'
  BY <1>9, <1>0, Zenon
  DEF HandoffEnds, Flags, EndIteration, recorder
<1>10. ASSUME NEW enabled \in BOOLEAN, SetPreference(enabled) PROVE Flags'
  BY <1>10, <1>0, Zenon
  DEF SetPreference, Flags, iteration, recorder
<1>11. ASSUME NEW owner \in Owners, NEW target \in {"portable", "docked_egpu", None},
              PlayerOpens(owner, target)
       PROVE Flags'
  BY <1>11, <1>0, Zenon
  DEF PlayerOpens, Flags, iteration, recorder
<1>12. ASSUME PlayerOperationEnds PROVE Flags'
  BY <1>12, <1>0, Zenon
  DEF PlayerOperationEnds, Flags, iteration, recorder
<1>13. ASSUME Acknowledge PROVE Flags'
  BY <1>13, <1>0, Zenon
  DEF Acknowledge, Flags, iteration, recorder
<1>14. ASSUME ResetLatch PROVE Flags'
  BY <1>14, <1>0, Zenon
  DEF ResetLatch, Flags, recorder
<1>15. ASSUME Glance PROVE Flags'
  BY <1>15, <1>0, Zenon
  DEF Glance, Flags, iteration, recorder
<1>16. ASSUME RecordGlance PROVE Flags'
  <2>1. watch' \in BOOLEAN
    BY <1>16, <1>0, RecordedFlag DEF RecordGlance
  <2> QED
    BY <1>16, <1>0, <2>1
    DEF RecordGlance, Flags, iteration
<1>17. ASSUME DockChanges PROVE Flags'
  BY <1>17, <1>0, Zenon
  DEF DockChanges, Flags, recorder
<1>18. ASSUME GameChanges PROVE Flags'
  BY <1>18, <1>0, Zenon
  DEF GameChanges, Flags, iteration, recorder
<1>19. ASSUME SessionReturns PROVE Flags'
  BY <1>19, <1>0, Zenon
  DEF SessionReturns, Flags, iteration, recorder
<1>20. ASSUME PluginRestarts PROVE Flags'
  BY <1>20, <1>0, Zenon
  DEF PluginRestarts, Flags, EndIteration
<1>21. CASE UNCHANGED vars
  BY <1>21, <1>0 DEF vars, Flags, recorder, iteration
<1> QED
  BY <1>1, <1>2, <1>3, <1>4, <1>5, <1>6, <1>7, <1>8, <1>9, <1>10, <1>11,
     <1>12, <1>13, <1>14, <1>15, <1>16, <1>17, <1>18, <1>19, <1>20, <1>21
  DEF Next, LoopStep, PlayerStep

\* Every step keeps the rest typed.
LEMMA StepData ==
  ASSUME DockInv, [Next]_vars
  PROVE  Data'
<1>0. /\ TypeOK /\ Data /\ Aimed /\ Iterating /\ Sample \in Samples /\ ReadyIsLastSample
      /\ ReadySamples \in Nat \ {0}
  BY TypeParts, SampleType, AutomaticDockAssumption DEF DockInv
<1>1. ASSUME LoadPreference PROVE Data'
  BY <1>0, <1>1
  DEF LoadPreference, Data, machine, recorder
<1>2. ASSUME Observe PROVE Data'
  BY <1>0, <1>2
  DEF Observe, Data, TakeSample, EndIteration, machine, recorder, Readinesses
<1>3. ASSUME SampleFails PROVE Data'
  BY <1>0, <1>3
  DEF SampleFails, Data, EndIteration, machine, recorder, Readinesses
<1>4. ASSUME Record PROVE Data'
  <2>1. sample \in Samples /\ RecordSample(sample)
    BY <1>0, <1>4 DEF Record, Iterating, Holding
  <2>2. /\ votes' \in 0 .. ReadySamples /\ readiness' \in Readinesses
        /\ previous' \in Readinesses \cup {"apart", None}
    BY <2>1, <1>0, RecordKeeps
  <2> QED
    BY <1>0, <1>4, <2>2 DEF Record, Data, machine
<1>5. ASSUME Arm PROVE Data'
  BY <1>0, <1>5
  DEF Arm, Data, machine, Readinesses
<1>6. ASSUME Decide PROVE Data'
  BY <1>0, <1>6
  DEF Decide, Data, EndIteration, iteration, machine, recorder, Readinesses
<1>7. ASSUME ExecuteAutomatic PROVE Data'
  BY <1>0, <1>7
  DEF ExecuteAutomatic, Data, iteration, machine, recorder, Operations
<1>8. ASSUME ExecuteRefused PROVE Data'
  BY <1>0, <1>8
  DEF ExecuteRefused, Data, EndIteration, machine, recorder, Readinesses
<1>9. ASSUME HandoffEnds PROVE Data'
  BY <1>0, <1>9
  DEF HandoffEnds, Data, EndIteration, recorder, Readinesses, Operations,
      Iterating
<1>10. ASSUME NEW enabled \in BOOLEAN, SetPreference(enabled) PROVE Data'
  BY <1>0, <1>10
  DEF SetPreference, Data, iteration, machine, recorder
<1>11. ASSUME NEW owner \in Owners, NEW target \in {"portable", "docked_egpu", None},
              PlayerOpens(owner, target)
       PROVE Data'
  BY <1>0, <1>11
  DEF PlayerOpens, Data, iteration, machine, recorder, Operations
<1>12. ASSUME PlayerOperationEnds PROVE Data'
  BY <1>0, <1>12
  DEF PlayerOperationEnds, Data, iteration, recorder, Operations, Aimed
<1>13. ASSUME Acknowledge PROVE Data'
  BY <1>0, <1>13
  DEF Acknowledge, Data, iteration, machine, recorder, Operations,
      Acknowledged
<1>14. ASSUME ResetLatch PROVE Data'
  BY <1>0, <1>14
  DEF ResetLatch, Data, machine, recorder
<1>15. ASSUME Glance PROVE Data'
  BY <1>0, <1>15
  DEF Glance, Data, iteration, machine, recorder
<1>16. ASSUME RecordGlance PROVE Data'
  <2>1. glance \in Samples /\ RecordSample(glance)
    BY <1>0, <1>16 DEF RecordGlance, Data
  <2>2. /\ votes' \in 0 .. ReadySamples /\ readiness' \in Readinesses
        /\ previous' \in Readinesses \cup {"apart", None}
    BY <2>1, <1>0, RecordKeeps
  <2> QED
    BY <1>0, <1>16, <2>2 DEF RecordGlance, Data, machine, iteration
<1>17. ASSUME DockChanges PROVE Data'
  BY <1>0, <1>17
  DEF DockChanges, Data, recorder
<1>18. ASSUME GameChanges PROVE Data'
  BY <1>0, <1>18
  DEF GameChanges, Data, iteration, recorder
<1>19. ASSUME SessionReturns PROVE Data'
  BY <1>0, <1>19
  DEF SessionReturns, Data, iteration, recorder
<1>20. ASSUME PluginRestarts PROVE Data'
  BY <1>0, <1>20
  DEF PluginRestarts, Data, EndIteration, machine, Readinesses, Operations
<1>21. CASE UNCHANGED vars
  BY <1>0, <1>21 DEF vars, Data, machine, recorder, iteration
<1> QED
  BY <1>1, <1>2, <1>3, <1>4, <1>5, <1>6, <1>7, <1>8, <1>9, <1>10, <1>11,
     <1>12, <1>13, <1>14, <1>15, <1>16, <1>17, <1>18, <1>19, <1>20, <1>21
  DEF Next, LoopStep, PlayerStep

\* Every step keeps an operation aimed and an iteration supplied.
LEMMA StepIterates ==
  ASSUME DockInv, [Next]_vars
  PROVE  Aimed' /\ Iterating'
<1>0. /\ Data /\ Aimed /\ Iterating /\ Sample \in Samples
  BY TypeParts, SampleType DEF DockInv
<1> USE DEF Holding
<1>1. CASE LoadPreference \/ Observe \/ SampleFails \/ ExecuteRefused \/ Decide
  <2>1. Aimed'
    BY <1>0, <1>1
    DEF LoadPreference, Observe, SampleFails, ExecuteRefused, Decide, Aimed
  <2>2. Iterating'
    BY <1>0, <1>1
    DEF LoadPreference, Observe, SampleFails, ExecuteRefused, Decide, TakeSample,
        EndIteration, iteration, Iterating
  <2> QED
    BY <2>1, <2>2
<1>2. CASE Record \/ Arm
  BY <1>0, <1>2 DEF Record, Arm, Aimed, Iterating
<1>3. CASE ExecuteAutomatic
  BY <1>0, <1>3 DEF ExecuteAutomatic, iteration, Aimed, Iterating, Operations
<1>4. CASE HandoffEnds
  BY <1>0, <1>4, NoneIsNoOperation
  DEF HandoffEnds, EndIteration, Aimed, Iterating, Operations
<1>5. ASSUME NEW owner \in Owners, NEW target \in {"portable", "docked_egpu", None},
             PlayerOpens(owner, target)
      PROVE  Aimed' /\ Iterating'
  BY <1>0, <1>5 DEF PlayerOpens, iteration, Aimed, Iterating, Operations
<1>6. CASE PlayerOperationEnds
  BY <1>0, <1>6 DEF PlayerOperationEnds, iteration, Aimed, Iterating, Data, Operations
<1>7. CASE Acknowledge
  BY <1>0, <1>7 DEF Acknowledge, iteration, Aimed, Iterating
<1>8. CASE PluginRestarts
  BY <1>0, <1>8 DEF PluginRestarts, EndIteration, Aimed, Iterating, Data, Operations
<1>9. CASE UNCHANGED <<journal, pc, sample>>
  BY <1>0, <1>9 DEF Aimed, Iterating
<1>10. ASSUME NEW enabled \in BOOLEAN, SetPreference(enabled)
       PROVE UNCHANGED <<journal, pc, sample>>
  BY <1>10 DEF SetPreference, iteration
<1>11. CASE ResetLatch \/ Glance \/ RecordGlance \/ DockChanges \/ GameChanges
            \/ SessionReturns \/ UNCHANGED vars
  <2>1. UNCHANGED <<journal, pc, sample>>
    BY <1>11
    DEF ResetLatch, Glance, RecordGlance, DockChanges, GameChanges,
        SessionReturns, vars, iteration
  <2> QED
    BY <2>1, <1>9
<1> QED
  BY <1>1, <1>2, <1>3, <1>4, <1>5, <1>6, <1>7, <1>8, <1>9, <1>10, <1>11
  DEF Next, LoopStep, PlayerStep

\* Every step keeps the consent prompt.
LEMMA StepConsents ==
  ASSUME DockInv, [Next]_vars
  PROVE  Consented'
<1>0. Flags /\ Data /\ Consented
  BY TypeParts DEF DockInv
<1>1. CASE LoadPreference
  BY <1>0, <1>1 DEF LoadPreference, Consented
<1>2. CASE Observe \/ SampleFails \/ ExecuteRefused \/ Decide \/ PluginRestarts
  BY <1>0, <1>2
  DEF Observe, SampleFails, ExecuteRefused, Decide, PluginRestarts, EndIteration,
      Consented
<1>3. CASE Record \/ Arm
  BY <1>0, <1>3 DEF Record, Arm, Consented
<1>4. CASE ExecuteAutomatic
  <2>1. late = 0
    BY <1>0, <1>4 DEF ExecuteAutomatic, Consented
  <2>2. /\ pc' = "wait" /\ pref' = pref
        /\ late' = IF pref THEN 0 ELSE late + 1
    BY <1>4 DEF ExecuteAutomatic
  <2>3. CASE pref = TRUE
    BY <2>2, <2>3 DEF Consented
  <2>4. CASE pref = FALSE
    BY <2>1, <2>2, <2>4 DEF Consented
  <2> QED
    BY <1>0, <2>3, <2>4 DEF Flags
<1>5. CASE HandoffEnds
  BY <1>0, <1>5 DEF HandoffEnds, EndIteration, Consented
<1>6. ASSUME NEW enabled \in BOOLEAN, SetPreference(enabled) PROVE Consented'
  BY <1>6 DEF SetPreference, Consented
<1>7. CASE UNCHANGED <<late, pref, pc, consent>>
  BY <1>0, <1>7 DEF Consented
<1>8. ASSUME NEW owner \in Owners, NEW target \in {"portable", "docked_egpu", None},
             PlayerOpens(owner, target)
      PROVE  UNCHANGED <<late, pref, pc, consent>>
  BY <1>8 DEF PlayerOpens, iteration
<1>9. CASE PlayerOperationEnds \/ Acknowledge \/ ResetLatch \/ Glance \/ RecordGlance
           \/ DockChanges \/ GameChanges \/ SessionReturns \/ UNCHANGED vars
  <2>1. UNCHANGED <<late, pref, pc, consent>>
    BY <1>9
    DEF PlayerOperationEnds, Acknowledge, ResetLatch, Glance, RecordGlance,
        DockChanges, GameChanges, SessionReturns, vars, iteration
  <2> QED
    BY <2>1, <1>7
<1> QED
  BY <1>1, <1>2, <1>3, <1>4, <1>5, <1>6, <1>7, <1>8, <1>9
  DEF Next, LoopStep, PlayerStep

\* Every step keeps the verdict of the watch truthful.
LEMMA StepReady ==
  ASSUME DockInv, [Next]_vars
  PROVE  ReadyIsLastSample'
<1>0. TypeOK /\ Data /\ Iterating /\ ReadyIsLastSample
  BY TypeParts DEF DockInv
<1>1. CASE Record
  <2>1. sample \in Samples /\ RecordSample(sample)
    BY <1>0, <1>1 DEF Record, Iterating, Holding
  <2> QED
    BY <1>0, <2>1, RecordKeeps
<1>2. CASE RecordGlance
  <2>1. glance \in Samples /\ RecordSample(glance)
    BY <1>0, <1>2 DEF RecordGlance, Data
  <2> QED
    BY <1>0, <2>1, RecordKeeps
<1>3. CASE Arm
  <2>1. CASE watch /\ UNCHANGED <<watch, votes, readiness, previous>>
    BY <1>0, <2>1 DEF ReadyIsLastSample
  <2>2. CASE readiness' # "ready_idle"
    BY <2>2 DEF ReadyIsLastSample
  <2> QED
    BY <1>3, <2>1, <2>2 DEF Arm
<1>4. CASE PluginRestarts
  BY <1>4 DEF PluginRestarts, ReadyIsLastSample
<1>5. CASE UNCHANGED recorder
  BY <1>0, <1>5 DEF recorder, ReadyIsLastSample
<1>6. ASSUME NEW enabled \in BOOLEAN, SetPreference(enabled) PROVE UNCHANGED recorder
  BY <1>6 DEF SetPreference
<1>7. ASSUME NEW owner \in Owners, NEW target \in {"portable", "docked_egpu", None},
             PlayerOpens(owner, target)
      PROVE  UNCHANGED recorder
  BY <1>7 DEF PlayerOpens
<1>8. CASE LoadPreference \/ Observe \/ SampleFails \/ Decide \/ ExecuteAutomatic
           \/ ExecuteRefused \/ HandoffEnds
  BY <1>5, <1>8
  DEF LoadPreference, Observe, SampleFails, Decide, ExecuteAutomatic,
      ExecuteRefused, HandoffEnds
<1>9. CASE PlayerOperationEnds \/ Acknowledge \/ ResetLatch \/ Glance \/ DockChanges
           \/ GameChanges \/ SessionReturns \/ UNCHANGED vars
  BY <1>5, <1>9
  DEF PlayerOperationEnds, Acknowledge, ResetLatch, Glance, DockChanges,
      GameChanges, SessionReturns, vars
<1> QED
  BY <1>1, <1>2, <1>3, <1>4, <1>5, <1>6, <1>7, <1>8, <1>9
  DEF Next, LoopStep, PlayerStep

-----------------------------------------------------------------------------
(* Theorems                                                                 *)

\* The invariant of the loop, the watch and the journal: it holds for every
\* quorum, every set of other owners, with or without status refreshes,
\* incomplete sightings and reloads.
THEOREM DockInvariant == Spec => []DockInv
<1>1. DockInv /\ [Next]_vars => DockInv'
  <2> SUFFICES ASSUME DockInv, [Next]_vars PROVE DockInv'
    OBVIOUS
  <2> QED
    BY StepFlags, StepData, StepIterates, StepConsents, StepReady, TypePartsNext
    DEF DockInv
<1> QED
  BY DockInit, <1>1, PTL DEF Spec

\* Type correctness of the automatic dock.
THEOREM DockTyping == Spec => []TypeOK
<1>1. DockInv => TypeOK
  BY DEF DockInv
<1> QED
  BY <1>1, DockInvariant, PTL

\* The watch calls a G1 ready only on a full quorum that ends in a ready sample.
THEOREM ReadyIsEarned == Spec => []ReadyIsLastSample
<1>1. DockInv => ReadyIsLastSample
  BY DEF DockInv
<1> QED
  BY <1>1, DockInvariant, PTL

\* After an opt-out at most the handoff already being decided is opened.
THEOREM OptOutIsPrompt == Spec => []ConsentIsPrompt
<1>1. DockInv => ConsentIsPrompt
  BY DEF DockInv, Consented, ConsentIsPrompt
<1> QED
  BY <1>1, DockInvariant, PTL

\* The latch covers the attachment that had its request, however often an
\* attached G1 is seen incompletely.
LEMMA StepLatched ==
  ASSUME DockInv, Latched, [Next]_vars
  PROVE  Latched'
<1>0. Flags /\ Data /\ Latched
  BY TypeParts DEF DockInv
<1>1. CASE LoadPreference
  BY <1>0, <1>1 DEF LoadPreference, machine, Latched
<1>2. CASE Observe
  <2>1. CASE TakeSample
    <3>1. Exact(Sample) <=> dock \in {"exact", "ready"}
      BY DEF Sample, Exact
    <3>2. /\ sample' = Sample /\ held' = Exact(Sample) /\ again' = requested
          /\ dock' = dock /\ requested' = requested /\ attempted' = attempted
      BY <1>2, <2>1 DEF Observe, TakeSample, machine
    <3>3. requested' \/ held' => dock' \in {"exact", "ready"}
      BY <1>0, <3>1, <3>2 DEF Latched
    <3>4. requested' \/ again' => attempted' = TRUE /\ Exact(sample')
      BY <1>0, <3>1, <3>2 DEF Latched, Exact
    <3> QED
      BY <3>3, <3>4 DEF Latched, Exact
  <2>2. CASE EndIteration
    BY <1>0, <1>2, <2>2 DEF Observe, EndIteration, machine, Latched
  <2> QED
    BY <1>2, <2>1, <2>2 DEF Observe
<1>3. CASE SampleFails \/ ExecuteRefused
  BY <1>0, <1>3 DEF SampleFails, ExecuteRefused, EndIteration, machine, Latched
<1>4. CASE Record \/ Arm
  BY <1>0, <1>4 DEF Record, Arm, machine, Latched, Exact
<1>5. CASE Decide
  <2>1. CASE Asks
    <3>1. attempted' = TRUE
      BY <1>5, <2>1, Zenon DEF Decide, Update, Asks
    <3>2. /\ pc' = "execute" /\ requested' = (requested \/ held)
          /\ UNCHANGED <<dock, held, again>>
      BY <1>5, <2>1 DEF Decide, machine, iteration
    <3> QED
      BY <1>0, <3>1, <3>2 DEF Latched
  <2>2. CASE ~Asks
    <3>1. /\ pc' = "sleep" /\ held' = FALSE /\ again' = FALSE
          /\ UNCHANGED <<dock, requested>>
      BY <1>5, <2>2 DEF Decide, EndIteration, machine
    <3>2. requested => Exact(sample) /\ attempted = TRUE
      BY <1>0, <1>5 DEF Decide, Latched
    <3>3. requested => attempted' = TRUE
      BY <1>5, <3>2, Zenon DEF Decide, Update
    <3> QED
      BY <1>0, <3>1, <3>3 DEF Latched
  <2> QED
    BY <2>1, <2>2
<1>6. CASE ExecuteAutomatic
  BY <1>0, <1>6 DEF ExecuteAutomatic, machine, iteration, Latched
<1>7. CASE HandoffEnds
  BY <1>0, <1>7 DEF HandoffEnds, EndIteration, Latched
<1>8. CASE ResetLatch
  BY <1>0, <1>8 DEF ResetLatch, machine, Latched, Exact
<1>9. CASE DockChanges
  BY <1>0, <1>9 DEF DockChanges, Latched, Exact
<1>10. CASE PluginRestarts
  BY <1>0, <1>10 DEF PluginRestarts, EndIteration, machine, Latched
<1>11. CASE UNCHANGED <<dock, requested, held, again, attempted, pc, sample>>
  BY <1>0, <1>11 DEF Latched, Exact
<1>12. ASSUME NEW enabled \in BOOLEAN, SetPreference(enabled) PROVE Latched'
  <2>1. UNCHANGED <<dock, held, attempted, pc, sample>>
    BY <1>12 DEF SetPreference, machine
  <2>2. (requested' => requested) /\ (again' => again)
    BY <1>12 DEF SetPreference
  <2> QED
    BY <1>0, <2>1, <2>2 DEF Latched, Exact
<1>13. ASSUME NEW owner \in Owners, NEW target \in {"portable", "docked_egpu", None},
              PlayerOpens(owner, target)
       PROVE  UNCHANGED <<dock, requested, held, again, attempted, pc, sample>>
  BY <1>13 DEF PlayerOpens, machine, iteration
<1>14. CASE PlayerOperationEnds \/ Acknowledge \/ Glance \/ RecordGlance
            \/ GameChanges \/ SessionReturns \/ UNCHANGED vars
  <2>1. UNCHANGED <<dock, requested, held, again, attempted, pc, sample>>
    BY <1>14
    DEF PlayerOperationEnds, Acknowledge, Glance, RecordGlance, GameChanges,
        SessionReturns, vars, machine, iteration
  <2> QED
    BY <2>1, <1>11
<1> QED
  BY <1>1, <1>2, <1>3, <1>4, <1>5, <1>6, <1>7, <1>8, <1>9, <1>10, <1>11, <1>12,
     <1>13, <1>14
  DEF Next, LoopStep, PlayerStep

\* An exact G1 that stays attached gets one request, unless an acknowledgement,
\* an opt-out or a reload gave it another one.
THEOREM OneRequest == Spec => OneRequestPerAttachment
<1>1. Init => Latched
  BY DEF Init, Latched
<1>2. DockInv /\ Latched /\ [Next]_vars => Latched'
  BY StepLatched
<1>3. DockInv /\ Latched /\ [Next]_vars
        => [pc = "decide" /\ pc' = "execute" => ~again]_vars
  <2> SUFFICES ASSUME DockInv, Latched, [Next]_vars, pc = "decide", pc' = "execute"
               PROVE  ~again
    OBVIOUS
  <2>1. Decide /\ Asks
    <3>1. ASSUME NEW enabled \in BOOLEAN, SetPreference(enabled) PROVE FALSE
      BY <3>1 DEF SetPreference
    <3>2. ASSUME NEW owner \in Owners,
                 NEW target \in {"portable", "docked_egpu", None},
                 PlayerOpens(owner, target)
          PROVE FALSE
      BY <3>2 DEF PlayerOpens
    <3>3. ~ (LoadPreference \/ Observe \/ SampleFails \/ Record \/ Arm
             \/ ExecuteAutomatic \/ ExecuteRefused \/ HandoffEnds)
      BY DEF LoadPreference, Observe, SampleFails, Record, Arm, ExecuteAutomatic,
             ExecuteRefused, HandoffEnds
    <3>4. ~ (PlayerOperationEnds \/ Acknowledge \/ ResetLatch \/ Glance
             \/ RecordGlance \/ DockChanges \/ GameChanges \/ SessionReturns
             \/ PluginRestarts \/ UNCHANGED vars)
      BY DEF PlayerOperationEnds, Acknowledge, ResetLatch, Glance, RecordGlance,
             DockChanges, GameChanges, SessionReturns, PluginRestarts,
             EndIteration, vars
    <3>5. Decide
      BY <3>1, <3>2, <3>3, <3>4 DEF Next, LoopStep, PlayerStep
    <3> QED
      BY <3>5 DEF Decide, EndIteration
  <2> QED
    BY <2>1 DEF Latched, Asks
<1> QED
  BY <1>1, <1>2, <1>3, DockInvariant, PTL DEF Spec, OneRequestPerAttachment
===============================================================================
