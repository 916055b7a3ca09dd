---------------------------- MODULE MCComponents ----------------------------
(***************************************************************************)
(* One run for the components that share no state: a behaviour is one of   *)
(* them, the others staying as they start.                                 *)
(***************************************************************************)
EXTENDS AudioHandoff, UndockRecovery, Preparation, PlayerApproval, PeripheralHandoff,
        SupportBundle, CompatibilityTest, JournalStore, DockedIgpu, NativeRecovery

VARIABLE part

\* Every client calls through the same store object.
SharedStore == [c \in Clients |-> CHOOSE s \in Stores : TRUE]

Parts == {"audio", "undock", "preparation", "approval", "handoff", "logging",
          "bundle", "test", "journal", "igpu", "native"}

BundleState == <<previews, displayed, request, files>>
TestState == <<gaming, session, watch, capture>>

partVars == <<audioVars, undockVars, prepVars, approvalVars,
              handoffVars, loggingVars, BundleState, TestState, vars, igpuVars,
              nativeVars, part>>

APanelSink == CHOOSE p \in PanelSinks : TRUE
AWorld == CHOOSE w \in UndockWorlds : TRUE
AnEvidence == CHOOSE e \in Evidence : TRUE
AShim == CHOOSE s \in Shims : TRUE
ASnapshot == CHOOSE s \in Snapshots : TRUE
ADevice == CHOOSE d \in Devices : d.primary = "builtin" /\ ~d.suppressed /\ d.other = "as planned"
ASetting == CHOOSE s \in Settings : TRUE

\* A component that stays as it starts starts in one way.
MCInit ==
  /\ part \in Parts
  /\ AudioInit /\ (part # "audio" => default = APanelSink)
  /\ UndockInit /\ (part # "undock" => world = AWorld)
  /\ PrepInit /\ (part # "preparation" => seen = AnEvidence /\ shim = AShim /\ dropin = "none")
  /\ ApprovalInit /\ (part # "approval" => stands = ASnapshot /\ flow = "shutdown")
  /\ HandoffInit /\ (part # "handoff" => devices = ADevice /\ setting = ASetting)
  /\ BundleInit /\ TestInit /\ StoreInit
  /\ IgpuInit /\ (part # "igpu" => igame = "idle" /\ ~onTv /\ ~inspects)
  /\ NativeInit /\ (part # "native" => scene = "docked" /\ ~optIn)

Stay(name, rest) == part = name /\ UNCHANGED <<rest, part>>

D == <<igpuVars, nativeVars>>
A == <<audioVars, undockVars, prepVars>>
B == <<approvalVars, handoffVars>>
C == <<loggingVars, BundleState, TestState, vars, D>>

MCNext ==
  \/ Stay("audio", <<undockVars, prepVars, B, C>>) /\ AudioNext
  \/ Stay("undock", <<audioVars, prepVars, B, C>>) /\ UndockNext
  \/ Stay("preparation", <<audioVars, undockVars, B, C>>) /\ PrepNext
  \/ Stay("approval", <<A, handoffVars, C>>) /\ ApprovalNext
  \/ Stay("handoff", <<A, approvalVars, C>>) /\ HandoffNext
  \/ Stay("logging", <<A, B, BundleState, TestState, vars, D>>) /\ LoggingNext
  \/ Stay("bundle", <<A, B, TestState, vars, D>>) /\ BundleNext
  \/ Stay("test", <<A, B, BundleState, vars, D>>) /\ TestNext
  \/ Stay("journal", <<A, B, loggingVars, BundleState, TestState, D>>) /\ StoreNext
  \/ Stay("igpu", <<A, B, loggingVars, BundleState, TestState, vars, nativeVars>>) /\ IgpuNext
  \/ Stay("native", <<A, B, loggingVars, BundleState, TestState, vars, igpuVars>>) /\ NativeNext

\* The worker thread in tick(), the scheduler's coroutine and the player's
\* acknowledgement are not suspended for ever.
IgpuFairness ==
  /\ WF_igpuVars(part = "igpu" /\ TickRuns)
  /\ WF_igpuVars(part = "igpu" /\ SchedulerRuns)
  /\ WF_igpuVars(part = "igpu" /\ AcknowledgeRuns)

MCSpec == MCInit /\ [][MCNext]_partVars /\ IgpuFairness

\* ShownFollows, in the behaviours of the docked iGPU watch: what its scheduler
\* shows is in the end what the lifecycle last answered (run, tick).
StatusFollows == part = "igpu" => ShownFollows
=============================================================================
