-------------------------- MODULE OperationLifecycle --------------------------
(***************************************************************************)
(* What the shared journal promises the player about operations, whoever   *)
(* writes them: there is at most one; it is opened once and ends once; an  *)
(* ended one stays as it is until it is acknowledged; and one that was     *)
(* acknowledged comes back only if it is `loose`: acknowledged while       *)
(* somebody still carried its history.                                     *)
(***************************************************************************)
CONSTANTS LifecycleOps, NoOp

VARIABLES
  current,   \* the operation on file, or NoOp
  over,      \* whether it has ended
  opened,    \* every operation ever opened
  loose      \* the acknowledged operations that may come back

lifecycleVars == <<current, over, opened, loose>>

LifecycleInit == current = NoOp /\ over = FALSE /\ opened = {} /\ loose = {}

\* An operation may be opened and over at once: a refusal, an idle request.
OpenOnce(op) ==
  /\ current = NoOp /\ op \notin opened
  /\ current' = op /\ opened' = opened \cup {op} /\ over' \in BOOLEAN
  /\ UNCHANGED loose

End == current # NoOp /\ ~over /\ over' = TRUE /\ UNCHANGED <<current, opened, loose>>

Forget ==
  /\ over /\ current' = NoOp /\ over' = FALSE
  /\ loose' \in {loose, loose \cup {current}} /\ UNCHANGED opened

ComesBack(op) ==
  /\ current = NoOp /\ op \in loose
  /\ current' = op /\ over' \in BOOLEAN /\ UNCHANGED <<opened, loose>>

LifecycleNext ==
  (\E op \in LifecycleOps : OpenOnce(op) \/ ComesBack(op)) \/ End \/ Forget

LifecycleSpec == LifecycleInit /\ [][LifecycleNext]_lifecycleVars
===============================================================================
