------------------------------ MODULE SleepProofs ------------------------------
(***************************************************************************)
(* Canonical sleep with its children: the step in memory is the step on    *)
(* disk, a request is continued at most once, a game is closed and saved   *)
(* only with consent, and every operation lives once; for any number of    *)
(* operations, games, calls, approvals and deaths.                         *)
(***************************************************************************)
EXTENDS GameChildren, TLAPS

Sessions == [op : Ops, stage : Stages, removal : Removals \cup {"unknown"},
             save : BOOLEAN, saved : BOOLEAN, expired : BOOLEAN]
GameTokens == [op : Ops, game : Games]
AtSteps == {"request", "poll", "mark", "advance"}
GameRuns == [at : AtSteps, op : Ops, game : Games]

OnFile == file # None
Open == IF file = None THEN FALSE ELSE ~Ended(file)

SleepTyped ==
  /\ file \in Journals \cup {None} /\ childMem \in Journals \cup {None}
  /\ egpu \in {"present", "absent"} /\ game \in Games \cup {None}
  /\ session \in Sessions \cup {None}
  /\ InSession => session.removal \in Removals
  /\ calls \subseteq Ops \X Answers
  /\ used \subseteq SleepOps
  /\ continued \in Seq(Ops) /\ interrupted \subseteq used
  /\ saveTokens \in Seq(GameTokens) /\ closeTokens \in Seq(GameTokens)
  /\ saver \in GameRuns \cup {None} /\ closer \in GameRuns \cup {None}

\* Whatever is on file or in memory was requested.
Requested ==
  /\ OnFile => file.op \in used
  /\ session # None => session.op \in used
  /\ \A n \in DOMAIN continued : continued[n] \in used
  /\ \A n \in DOMAIN closeTokens : closeTokens[n].op \in used
  /\ closer # None => closer.op \in used
  /\ childMem # None => childMem.op \in used

\* A session that can advance and an open operation were neither continued nor
\* found by a restart.
NotYetContinued ==
  /\ InSession => session.op \notin interrupted
  /\ \A n \in DOMAIN continued : /\ InSession => session.op # continued[n]
                                 /\ Open => file.op # continued[n]

\* While a release child carries the journal, the session it belongs to, if it
\* is still there, waits for it with its operation open.
CarriedHolds ==
  childMem # None =>
    /\ childMem.step = "releasing_clients"
    /\ \A n \in DOMAIN continued : childMem.op # continued[n]
    /\ InSession /\ session.op = childMem.op =>
         /\ session.stage = "releasing_clients"
         /\ OnFile /\ file.op = session.op /\ ~Ended(file)

\* What a release child carries is on file, unless it was acknowledged under it.
CarriedIsKnown ==
  childMem # None => (OnFile /\ file.op = childMem.op) \/ childMem.op \in outlived

SavedFor(op) == session # None /\ session.op = op /\ session.save => session.saved

ConsentHolds ==
  /\ InSession /\ session.stage = "closing_game" => session.op \in consented
  /\ saver # None => saver.op \in consented
  /\ closer # None => closer.op \in consented /\ SavedFor(closer.op)
  /\ \A n \in DOMAIN closeTokens : SavedFor(closeTokens[n].op)

SleepInv == /\ SleepTyped /\ Requested /\ StageIsJournalStep /\ NotYetContinued
            /\ ContinuedOnceNeverResumed /\ CarriedHolds /\ CarriedIsKnown
            /\ ConsentHolds

-----------------------------------------------------------------------------
(* The reducer (SleepFlow)                                                 *)

\* The reducer leads to stages, and leaves the release of clients only by its end.
LEMMA NextStages ==
  ASSUME NEW s, NEW e, NEW c, NEW late
  PROVE  /\ NextStage(s, e, c, late) \in Stages
         /\ s = "releasing_clients" /\ e # "software_clients_released" =>
              NextStage(s, e, c, late) \in {"cancelled", "action_required"}
<1> USE DEF Stages
<1>1. DisconnectStage(c) \in Stages
  BY DEF DisconnectStage
<1> QED
  BY <1>1 DEF NextStage

\* So do the tabulated outcomes of an event.
LEMMA OutcomeStages ==
  ASSUME NEW s \in IntermediateStages, NEW e \in FlowEvents, NEW w \in Worlds,
         NEW late \in BOOLEAN, NEW stage \in Outcomes[s][e][w][late], stage # "context_error"
  PROVE  /\ stage \in Stages
         /\ s = "releasing_clients" /\ e # "software_clients_released" =>
              stage \in {"cancelled", "action_required"}
<1>1. stage \in {IF ContextError(e, c) THEN "context_error" ELSE NextStage(s, e, c, late) :
                   c \in Observed(w.egpu, w.running, w.removal)}
  BY DEF Outcomes, Tabulated
<1>2. PICK c \in Observed(w.egpu, w.running, w.removal) : stage = NextStage(s, e, c, late)
  BY <1>1
<1> QED
  BY <1>2, NextStages

\* No request starts in the close of the game: that takes a consent.
LEMMA StartsIn ==
  ASSUME NEW w \in Worlds, NEW stage \in StartStages[w]
  PROVE  stage \in Stages /\ stage # "closing_game"
<1>1. PICK c : stage = StartStage(c)
  BY DEF StartStages, Tabulated
<1>2. DisconnectStage(c) \in Stages \ {"closing_game"}
  BY DEF DisconnectStage, Stages
<1> QED
  BY <1>1, <1>2 DEF StartStage, Stages

-----------------------------------------------------------------------------
(* The journal on file                                                     *)

\* Appending events to a journal leaves its operation and its step.
LEMMA Appending ==
  ASSUME NEW j \in Journals, NEW ks \in Seq(Kinds), ks # <<>>
  PROVE  /\ WithKinds(j, ks) \in Journals
         /\ WithKinds(j, ks).op = j.op /\ WithKinds(j, ks).step = j.step
         /\ WithKinds(j, ks).kind = ks[Len(ks)]
<1>1. ks[Len(ks)] \in Kinds /\ Len(ks) \in Nat
  OBVIOUS
<1>2. j.len + Len(ks) \in Nat
  BY <1>1 DEF Journals
<1>3. ASSUME NEW k \in Kinds, NEW n \in Nat
      PROVE  /\ [j EXCEPT !.kind = k, !.len = n] \in Journals
             /\ [j EXCEPT !.kind = k, !.len = n].op = j.op
             /\ [j EXCEPT !.kind = k, !.len = n].step = j.step
             /\ [j EXCEPT !.kind = k, !.len = n].kind = k
  BY DEF Journals
<1>4. WithKinds(j, ks) = [j EXCEPT !.kind = ks[Len(ks)], !.len = j.len + Len(ks)]
  BY DEF WithKinds, Journals
<1> DEFINE k == ks[Len(ks)]
           n == j.len + Len(ks)
<1>5. k \in Kinds /\ n \in Nat
  BY <1>1, <1>2
<1>6. WithKinds(j, ks) = [j EXCEPT !.kind = k, !.len = n]
  BY <1>4
<1> HIDE DEF k, n
<1>7. /\ [j EXCEPT !.kind = k, !.len = n] \in Journals
      /\ [j EXCEPT !.kind = k, !.len = n].op = j.op
      /\ [j EXCEPT !.kind = k, !.len = n].step = j.step
      /\ [j EXCEPT !.kind = k, !.len = n].kind = k
  BY <1>3, <1>5
<1> QED
  BY <1>6, <1>7 DEF k

\* One more event in a journal.
LEMMA AppendingOne ==
  ASSUME NEW j \in Journals, NEW k \in Kinds
  PROVE  /\ WithKinds(j, <<k>>) \in Journals
         /\ WithKinds(j, <<k>>).op = j.op /\ WithKinds(j, <<k>>).step = j.step
         /\ WithKinds(j, <<k>>).kind = k
<1>1. <<k>> \in Seq(Kinds) /\ <<k>> # <<>> /\ <<k>>[Len(<<k>>)] = k
  OBVIOUS
<1> QED
  BY <1>1, Appending

\* The journal a request opens.
LEMMA StartedTyped ==
  ASSUME NEW op \in Ops, NEW stage \in Stages
  PROVE  /\ StartedJournal(op, stage) \in Journals /\ StartedJournal(op, stage).op = op
         /\ stage \in IntermediateStages => StartedJournal(op, stage).step = stage
<1> DEFINE j == OpenedJournal(op, "sleep")
           k == WithKinds(j, StartKinds(stage))
<1>1. "" \in JournalSteps /\ "sleep" \in Owners /\ "requested" \in Kinds /\ 1 \in Nat
  <2>1. "" \in JournalSteps
    BY Zenon DEF JournalSteps
  <2>2. "sleep" \in Owners /\ "requested" \in Kinds /\ 1 \in Nat
    BY DEF Owners, Kinds
  <2> QED
    BY <2>1, <2>2
<1>2. j \in Journals /\ j.op = op
  BY <1>1, Zenon DEF OpenedJournal, Journals
<1>3. StartKinds(stage) \in Seq(Kinds) /\ StartKinds(stage) # <<>>
  <2>1. {"observed", "validated", "planned", "blocked", "committed", "step_started"} \subseteq Kinds
    BY DEF Kinds
  <2> HIDE DEF Kinds
  <2>2. \A x \in Kinds, y \in Kinds, z \in Kinds, u \in Kinds :
          /\ <<x, y>> \in Seq(Kinds) /\ <<x, y>> # <<>>
          /\ <<x, y, z>> \o <<u>> \in Seq(Kinds) /\ <<x, y, z>> \o <<u>> # <<>>
    OBVIOUS
  <2> QED
    BY <2>1, <2>2 DEF StartKinds
<1> HIDE DEF j
<1>4. k \in Journals /\ k.op = op
  BY <1>2, <1>3, Appending
<1> HIDE DEF k
<1>5. StartedJournal(op, stage) = IF stage \in IntermediateStages THEN [k EXCEPT !.step = stage]
                                  ELSE k
  BY DEF StartedJournal, j, k
<1>6. ASSUME NEW s \in JournalSteps
      PROVE  /\ [k EXCEPT !.step = s] \in Journals /\ [k EXCEPT !.step = s].op = op
             /\ [k EXCEPT !.step = s].step = s
  BY <1>4 DEF Journals
<1>7. IntermediateStages \subseteq JournalSteps
  BY Zenon DEF IntermediateStages, JournalSteps
<1> QED
  BY <1>4, <1>5, <1>6, <1>7

-----------------------------------------------------------------------------
(* Steps                                                                   *)

\* The session is gone, or the same but for its deadline and its save.
SessionStays ==
  \/ session' = None
  \/ /\ session # None /\ session' # None
     /\ session'.op = session.op /\ session'.stage = session.stage
     /\ session'.save = session.save /\ (session.saved => session'.saved)

\* The file goes on in its step, or is acknowledged.
FileStays ==
  \/ file' = file
  \/ /\ file # None /\ ~Ended(file) /\ file' # None
     /\ file'.op = file.op /\ file'.step = file.step
  \/ /\ file # None /\ Ended(file) /\ file' = None /\ childMem' = childMem
     /\ (IF childMem = None THEN FALSE ELSE childMem.op = file.op) => file.op \in outlived'

ChildStays ==
  \/ childMem' = None
  \/ /\ childMem # None /\ childMem'.op = childMem.op /\ childMem'.step = childMem.step
     /\ \/ file' = file \/ file' = None \/ session' = None
        \/ ~Ended(file') \/ file.step = "closing_game"

\* A step that neither requests, nor moves a session on, nor dies.
LEMMA QuietStep ==
  ASSUME SleepInv, SleepTyped', SessionStays, FileStays, ChildStays,
         UNCHANGED <<used, consented, continued, interrupted>>, outlived \subseteq outlived',
         saver' # None => saver'.op \in consented,
         closer' # None => closer'.op \in used \cap consented /\ SavedFor(closer'.op),
         \A n \in DOMAIN closeTokens' : /\ closeTokens'[n].op \in used
                                        /\ SavedFor(closeTokens'[n].op)
  PROVE  SleepInv'
<1>1. Requested'
  BY DEF SleepInv, Requested, SessionStays, FileStays, ChildStays, OnFile
<1>2. InSession' => /\ InSession /\ session # None /\ session' # None
                    /\ session'.op = session.op /\ session'.stage = session.stage
  BY DEF SessionStays, InSession
<1>3. StageIsJournalStep'
  BY <1>2 DEF SleepInv, StageIsJournalStep, FileStays
<1>4. NotYetContinued' /\ ContinuedOnceNeverResumed'
  BY <1>2 DEF SleepInv, NotYetContinued, ContinuedOnceNeverResumed, FileStays, Open
<1>5. CarriedHolds'
  BY <1>2 DEF SleepInv, CarriedHolds, ChildStays, FileStays, OnFile, StageIsJournalStep
<1>6. CarriedIsKnown'
  BY DEF SleepInv, CarriedIsKnown, ChildStays, FileStays, OnFile
<1>7. ASSUME NEW op, SavedFor(op) PROVE SavedFor(op)'
  BY <1>7 DEF SavedFor, SessionStays
<1>8. ConsentHolds'
  BY <1>2, <1>7 DEF SleepInv, ConsentHolds, SavedFor, SessionStays
<1> QED
  BY <1>1, <1>3, <1>4, <1>5, <1>6, <1>8 DEF SleepInv
-----------------------------------------------------------------------------
(* Tokens                                                                  *)

\* The stores only drop tokens and add the one that was issued.
LEMMA TokensTyped ==
  ASSUME NEW S, NEW s \in Seq(S)
  PROVE  /\ \A x \in S : Append(KeptTokens(s), x) \in Seq(S)
         /\ s # <<>> => Tail(s) \in Seq(S)
         /\ \A n \in DOMAIN s : Unused(s, n) \in Seq(S)
<1>1. s # <<>> => Tail(s) \in Seq(S)
  OBVIOUS
<1>2. KeptTokens(s) \in Seq(S)
  BY <1>1, GameChildrenAssumption DEF KeptTokens
<1>3. ASSUME NEW n \in DOMAIN s PROVE Unused(s, n) \in Seq(S)
  <2>1. /\ n \in Nat /\ Len(s) \in Nat /\ n \in 1 .. Len(s)
        /\ \A k \in 1 .. Len(s) : s[k] \in S
    OBVIOUS
  <2>2. SubSeq(s, 1, n - 1) \in Seq(S)
    BY <2>1
  <2>3. SubSeq(s, n + 1, Len(s)) \in Seq(S)
    BY <2>1
  <2> QED
    BY <2>2, <2>3 DEF Unused
<1> QED
  BY <1>1, <1>2, <1>3

\* The close approvals that may be on hand.
GoodTokens == {t \in GameTokens : t.op \in used /\ SavedFor(t.op)}

\* Every close token was drawn after the save its consent was bound to.
LEMMA TokensAreGood ==
  ASSUME SleepInv
  PROVE  closeTokens \in Seq(GoodTokens)
<1>1. closeTokens \in Seq(GameTokens) /\ \A n \in DOMAIN closeTokens : closeTokens[n] \in GoodTokens
  BY DEF SleepInv, SleepTyped, Requested, ConsentHolds, GoodTokens
<1> QED
  BY <1>1

\* The parent of a closing child is the session's operation.
LEMMA ClosingIs ==
  ASSUME SleepInv, ClosingParent # None
  PROVE  /\ session # None /\ InSession /\ session.stage = "closing_game"
         /\ session \in Sessions /\ ClosingParent = session.op
         /\ file # None /\ file.op = session.op /\ ~Ended(file)
         /\ ClosingParent \in Ops /\ ClosingParent \in used \cap consented
<1>1. session # None /\ session.stage = "closing_game" /\ ClosingParent = session.op
      /\ file # None /\ file.op = session.op /\ ~Ended(file)
  BY DEF ClosingParent
<1>2. InSession
  BY <1>1 DEF InSession, SessionTerminal
<1> QED
  BY <1>1, <1>2 DEF SleepInv, SleepTyped, Requested, ConsentHolds, Sessions

-----------------------------------------------------------------------------
(* The children's steps                                                    *)

FileMoves == file' = file \/ \E op, kind : kind \in Kinds /\ ChildAppends(op, kind)

\* A child's save keeps the operation and the step on file.
LEMMA FileKept ==
  ASSUME SleepInv, UNCHANGED childMem, FileMoves
  PROVE  FileStays /\ ChildStays /\ file' \in Journals \cup {None}
<1>1. CASE file' = file
  BY <1>1 DEF FileStays, ChildStays, SleepInv, SleepTyped
<1>2. ASSUME NEW op, NEW kind \in Kinds, ChildAppends(op, kind)
      PROVE  FileStays /\ ChildStays /\ file' \in Journals \cup {None}
  <2>1. /\ file # None /\ ~Ended(file) /\ file.step = "closing_game" /\ file \in Journals
        /\ file' = WithKinds(file, <<kind>>)
    BY <1>2 DEF ChildAppends, ChildMayAppend, SleepInv, SleepTyped
  <2>2. /\ file' \in Journals /\ file'.op = file.op /\ file'.step = file.step
    BY <2>1, AppendingOne
  <2>3. file' # None
    BY <2>2, NoneAssumption
  <2> QED
    BY <2>1, <2>2, <2>3 DEF FileStays, ChildStays
<1> QED
  BY <1>1, <1>2 DEF FileMoves

\* So does a child that fails.
LEMMA FailsMoves ==
  ASSUME NEW op, Fails(op)
  PROVE  FileMoves
<1>1. "failed" \in Kinds
  BY DEF Kinds
<1> QED
  BY <1>1 DEF Fails, FileMoves, AppendRefused

\* A step of a child, the session untouched.
LEMMA ChildKeeps ==
  ASSUME SleepInv, UNCHANGED <<session, serviceRest>>, FileMoves,
         \/ saver' \in {saver, None}
         \/ saver' \in GameRuns /\ saver'.op \in consented,
         \/ closer' \in {closer, None}
         \/ closer' \in GameRuns /\ closer'.op \in used \cap consented /\ SavedFor(closer'.op),
         saveTokens' \in Seq(GameTokens), closeTokens' \in Seq(GoodTokens)
  PROVE  SleepInv'
<1>1. FileStays /\ ChildStays /\ file' \in Journals \cup {None}
  BY FileKept DEF serviceRest
<1>2. SessionStays
  BY DEF SessionStays
<1>3. saver' # None => saver' \in GameRuns /\ saver'.op \in consented
  BY DEF SleepInv, SleepTyped, ConsentHolds
<1>4. closer' # None => closer' \in GameRuns /\ closer'.op \in used \cap consented
                        /\ SavedFor(closer'.op)
  BY DEF SleepInv, SleepTyped, ConsentHolds, Requested
<1>5. closeTokens' \in Seq(GameTokens)
      /\ \A n \in DOMAIN closeTokens' : closeTokens'[n] \in GoodTokens
  <2>1. GoodTokens \subseteq GameTokens
    BY DEF GoodTokens
  <2> QED
    BY <2>1
<1>6. SleepTyped'
  BY <1>1, <1>3, <1>4, <1>5 DEF SleepInv, SleepTyped, serviceRest, InSession
<1> QED
  BY <1>1, <1>2, <1>3, <1>4, <1>5, <1>6, QuietStep DEF serviceRest, GoodTokens

\* The guarded save acts under a consented operation.
LEMMA SaverKeeps ==
  ASSUME SleepInv,
         \/ PrepareSave \/ \E n \in DOMAIN saveTokens : ExecuteSave(n)
         \/ GameSaves \/ RequestSave \/ SaveProved \/ SaveChildFails
  PROVE  SleepInv'
<1>0. /\ "failed" \in Kinds /\ "substep_started" \in Kinds /\ "substep_verified" \in Kinds
      /\ "request" \in AtSteps /\ "poll" \in AtSteps /\ "mark" \in AtSteps
  BY DEF Kinds, AtSteps
<1>1. /\ saveTokens \in Seq(GameTokens) /\ closeTokens \in Seq(GoodTokens)
      /\ saver \in GameRuns \cup {None} /\ (saver # None => saver.op \in consented)
  BY TokensAreGood DEF SleepInv, SleepTyped, ConsentHolds
<1>2. ASSUME NEW s \in AtSteps, saver # None
      PROVE  /\ [saver EXCEPT !.at = s] \in GameRuns
             /\ [saver EXCEPT !.at = s].op \in consented
  BY <1>1, <1>2 DEF GameRuns
<1>3. CASE PrepareSave
  <2>1. SavingParent # None => ClosingParent # None /\ SavingParent = ClosingParent
    BY DEF SavingParent, ClosingParent
  <2>2. SavingParent \in Ops
    BY <1>3, <2>1, ClosingIs DEF PrepareSave
  <2>3. game \in Games
    BY <1>3 DEF PrepareSave, SleepInv, SleepTyped
  <2>4. [op |-> SavingParent, game |-> game] \in GameTokens
    BY <2>2, <2>3 DEF GameTokens
  <2>5. saveTokens' \in Seq(GameTokens)
    BY <1>1, <1>3, <2>4, TokensTyped DEF PrepareSave
  <2> QED
    BY <1>1, <1>3, <2>5, ChildKeeps DEF PrepareSave, FileMoves, sleepVars, serviceVars, serviceRest
<1>4. ASSUME NEW n \in DOMAIN saveTokens, ExecuteSave(n) PROVE SleepInv'
  <2> DEFINE token == saveTokens[n]
  <2>1. token \in GameTokens
    BY <1>1
  <2>2. saveTokens' \in Seq(GameTokens)
    BY <1>1, <1>4, TokensTyped DEF ExecuteSave
  <2>3. FileMoves
    BY <1>0, <1>4, FailsMoves DEF ExecuteSave, FileMoves, AppendRefused
  <2>4. \/ saver' = saver
        \/ /\ SavingParent = token.op
           /\ saver' = [at |-> "request", op |-> token.op, game |-> token.game]
    BY <1>4 DEF ExecuteSave
  <2> HIDE DEF token
  <2>5. ASSUME SavingParent = token.op PROVE token.op \in consented
    <3>1. SavingParent # None
      BY <2>1, <2>5, SleepAssumption DEF GameTokens
    <3>2. ClosingParent # None /\ SavingParent = ClosingParent
      BY <3>1 DEF SavingParent, ClosingParent
    <3> QED
      BY <2>5, <3>2, ClosingIs
  <2>6. [at |-> "request", op |-> token.op, game |-> token.game] \in GameRuns
    BY <1>0, <2>1 DEF GameTokens, GameRuns
  <2>7. saver' \in {saver, None} \/ (saver' \in GameRuns /\ saver'.op \in consented)
    BY <2>4, <2>5, <2>6
  <2> QED
    BY <1>1, <1>4, <2>2, <2>3, <2>7, ChildKeeps DEF ExecuteSave, serviceRest
<1>5. CASE GameSaves
  BY <1>1, <1>5, ChildKeeps DEF GameSaves, FileMoves, sleepVars, serviceVars, serviceRest
<1>6. CASE RequestSave
  BY <1>0, <1>1, <1>2, <1>6, ChildKeeps DEF RequestSave, FileMoves, sleepVars, serviceVars, serviceRest
<1>7. CASE SaveProved
  <2>1. FileMoves
    BY <1>0, <1>7 DEF SaveProved, FileMoves, AppendRefused
  <2> QED
    BY <1>0, <1>1, <1>2, <1>7, <2>1, ChildKeeps DEF SaveProved, serviceRest
<1>8. CASE SaveChildFails
  <2>1. FileMoves
    BY <1>8, FailsMoves DEF SaveChildFails
  <2> QED
    BY <1>1, <1>8, <2>1, ChildKeeps DEF SaveChildFails, serviceRest
<1> QED
  BY <1>3, <1>4, <1>5, <1>6, <1>7, <1>8

\* The save is booked into the session.
LEMMA MarkKeeps ==
  ASSUME SleepInv, MarkSaved
  PROVE  SleepInv'
<1>1. FileMoves /\ UNCHANGED <<serviceRest, saveTokens, closeTokens, closer>> /\ saver' = None
  BY FailsMoves DEF MarkSaved, FileMoves
<1>2. FileStays /\ ChildStays /\ file' \in Journals \cup {None}
  BY <1>1, FileKept DEF serviceRest
<1>3. \/ session' = session
      \/ /\ session \in Sessions
         /\ session' = [session EXCEPT !.saved = TRUE]
  <2>1. SavingParent # None => session # None
    BY DEF SavingParent, ClosingParent
  <2> QED
    BY <2>1 DEF MarkSaved, SleepInv, SleepTyped
<1>4. \/ session' = session
      \/ /\ session' \in Sessions /\ session # None
         /\ session'.op = session.op /\ session'.stage = session.stage
         /\ session'.save = session.save /\ session'.removal = session.removal
         /\ session'.saved = TRUE
  <2>1. SavingParent # None => session # None
    BY DEF SavingParent, ClosingParent
  <2>2. CASE session' # session
    <3>1. session # None
      BY <2>1, <2>2 DEF MarkSaved
    <3> QED
      BY <1>3, <2>2, <3>1 DEF Sessions
  <2> QED
    BY <2>2
<1>5. SessionStays
  BY <1>4 DEF SessionStays
<1>6. SleepTyped'
  BY <1>1, <1>2, <1>4 DEF SleepInv, SleepTyped, serviceRest, InSession
<1>7. /\ closer' # None => closer'.op \in used \cap consented /\ SavedFor(closer'.op)
      /\ \A n \in DOMAIN closeTokens' : closeTokens'[n].op \in used /\ SavedFor(closeTokens'[n].op)
  BY <1>1 DEF SleepInv, Requested, ConsentHolds
<1> QED
  BY <1>1, <1>2, <1>5, <1>6, <1>7, QuietStep DEF serviceRest

\* The closer's steps but the one that moves the session on.
LEMMA CloserKeeps ==
  ASSUME SleepInv,
         \/ PreviewClose \/ \E n \in DOMAIN closeTokens : ExecuteClose(n)
         \/ RequestClose \/ ExitProved \/ CloseChildFails \/ TokenLapses
  PROVE  SleepInv'
<1>0. /\ "failed" \in Kinds /\ "substep_started" \in Kinds /\ "substep_verified" \in Kinds
      /\ "request" \in AtSteps /\ "poll" \in AtSteps /\ "advance" \in AtSteps
  BY DEF Kinds, AtSteps
<1>1. /\ saveTokens \in Seq(GameTokens) /\ closeTokens \in Seq(GoodTokens)
      /\ closer \in GameRuns \cup {None}
      /\ (closer # None => closer.op \in used \cap consented /\ SavedFor(closer.op))
  BY TokensAreGood DEF SleepInv, SleepTyped, ConsentHolds, Requested
<1>2. ASSUME NEW s \in AtSteps, closer # None
      PROVE  /\ [closer EXCEPT !.at = s] \in GameRuns
             /\ [closer EXCEPT !.at = s].op = closer.op
  BY <1>1, <1>2 DEF GameRuns
<1>3. CASE PreviewClose
  <2> DEFINE token == [op |-> ClosingParent, game |-> game]
  <2>1. /\ ClosingParent \in Ops \cap used /\ session # None /\ session.op = ClosingParent
    BY <1>3, ClosingIs DEF PreviewClose
  <2>2. game \in Games
    BY <1>3 DEF PreviewClose, SleepInv, SleepTyped
  <2>3. token \in GameTokens /\ token.op = ClosingParent
    BY <2>1, <2>2 DEF GameTokens
  <2>4. SavedFor(ClosingParent)
    BY <1>3, <2>1 DEF PreviewClose, SavedFor
  <2>5. token \in GoodTokens
    BY <2>1, <2>3, <2>4 DEF GoodTokens
  <2>6. closeTokens' = Append(KeptTokens(closeTokens), token)
    BY <1>3 DEF PreviewClose
  <2> HIDE DEF token
  <2>7. closeTokens' \in Seq(GoodTokens)
    BY <1>1, <2>5, <2>6, TokensTyped
  <2> QED
    BY <1>1, <1>3, <2>7, ChildKeeps DEF PreviewClose, FileMoves, sleepVars, serviceVars, serviceRest
<1>4. ASSUME NEW n \in DOMAIN closeTokens, ExecuteClose(n) PROVE SleepInv'
  <2> DEFINE token == closeTokens[n]
  <2>1. token \in GoodTokens
    BY <1>1
  <2>2. closeTokens' \in Seq(GoodTokens)
    BY <1>1, <1>4, TokensTyped DEF ExecuteClose
  <2>3. FileMoves
    BY <1>0, <1>4, FailsMoves DEF ExecuteClose, FileMoves, AppendRefused
  <2>4. \/ closer' = closer
        \/ /\ ClosingParent = token.op
           /\ closer' = [at |-> "request", op |-> token.op, game |-> token.game]
    BY <1>4 DEF ExecuteClose
  <2> HIDE DEF token
  <2>5. ASSUME ClosingParent = token.op PROVE token.op \in consented
    <3>1. ClosingParent # None
      BY <2>1, <2>5, SleepAssumption DEF GameTokens, GoodTokens
    <3> QED
      BY <2>5, <3>1, ClosingIs
  <2>6. /\ [at |-> "request", op |-> token.op, game |-> token.game] \in GameRuns
        /\ [at |-> "request", op |-> token.op, game |-> token.game].op = token.op
        /\ token.op \in used /\ SavedFor(token.op)
    BY <1>0, <2>1 DEF GameTokens, GoodTokens, GameRuns
  <2>7. \/ closer' \in {closer, None}
        \/ closer' \in GameRuns /\ closer'.op \in used \cap consented /\ SavedFor(closer'.op)
    BY <2>4, <2>5, <2>6
  <2> QED
    BY <1>1, <1>4, <2>2, <2>3, <2>7, ChildKeeps DEF ExecuteClose, serviceRest
<1>5. CASE RequestClose
  <2>1. closer' \in GameRuns /\ closer'.op = closer.op /\ closer # None
    BY <1>0, <1>2, <1>5 DEF RequestClose
  <2> QED
    BY <1>1, <1>5, <2>1, ChildKeeps DEF RequestClose, FileMoves, sleepVars, serviceVars, serviceRest
<1>6. CASE ExitProved
  <2>1. FileMoves
    BY <1>0, <1>6 DEF ExitProved, FileMoves, AppendRefused
  <2>2. \/ closer' = None
        \/ closer' \in GameRuns /\ closer'.op = closer.op /\ closer # None
    <3>1. closer # None /\ (closer' = [closer EXCEPT !.at = "advance"] \/ closer' = None)
      BY <1>6 DEF ExitProved
    <3>2. /\ [closer EXCEPT !.at = "advance"] \in GameRuns
          /\ [closer EXCEPT !.at = "advance"].op = closer.op
      BY <1>0, <1>2, <3>1
    <3> QED
      BY <3>1, <3>2
  <2>3. \/ closer' \in {closer, None}
        \/ closer' \in GameRuns /\ closer'.op \in used \cap consented /\ SavedFor(closer'.op)
    BY <1>1, <2>2
  <2>4. UNCHANGED <<session, serviceRest, saveTokens, closeTokens, saver>>
    BY <1>6 DEF ExitProved
  <2> QED
    BY <1>1, <2>1, <2>3, <2>4, ChildKeeps
<1>7. CASE CloseChildFails
  <2>1. FileMoves
    BY <1>7, FailsMoves DEF CloseChildFails
  <2> QED
    BY <1>1, <1>7, <2>1, ChildKeeps DEF CloseChildFails, serviceRest
<1>8. CASE TokenLapses
  <2>1. saveTokens' \in Seq(GameTokens) /\ closeTokens' \in Seq(GoodTokens)
    BY <1>1, <1>8, TokensTyped DEF TokenLapses
  <2> QED
    BY <1>1, <1>8, <2>1, ChildKeeps DEF TokenLapses, FileMoves, sleepVars, serviceVars, serviceRest
<1> QED
  BY <1>3, <1>4, <1>5, <1>6, <1>7, <1>8
-----------------------------------------------------------------------------
(* The session moves on                                                    *)

\* Settling drops what an ended session no longer needs.
LEMMA SettledTyped ==
  ASSUME NEW s \in Sessions
  PROVE  /\ Settled(s) \in Sessions /\ Settled(s).op = s.op /\ Settled(s).stage = s.stage
         /\ \/ Settled(s) = s
            \/ s.stage \in SessionTerminal /\ Settled(s).save = FALSE
  BY DEF Settled, Sessions

\* The journal a move leaves.
Moved(j, stage) == [WithKinds(j, AdvanceKinds(stage)) EXCEPT
                      !.step = IF stage \in IntermediateStages THEN stage ELSE @]

\* A move leaves the journal in the step of its stage.
LEMMA MovedFile ==
  ASSUME NEW j \in Journals, NEW stage \in Stages
  PROVE  /\ Moved(j, stage) \in Journals /\ Moved(j, stage).op = j.op
         /\ stage \in IntermediateStages => Moved(j, stage).step = stage
         /\ stage = "completed" => Ended(Moved(j, stage))
<1> DEFINE k == Moved(j, stage)
<1> DEFINE ks == AdvanceKinds(stage)
<1>1. /\ ks \in Seq(Kinds) /\ ks # <<>>
      /\ stage = "completed" => ks[Len(ks)] = "committed"
  <2>1. {"blocked", "step_verified", "committed", "step_started"} \subseteq Kinds
    BY DEF Kinds
  <2> HIDE DEF Kinds
  <2>2. \A x \in Kinds, y \in Kinds :
          /\ <<x>> \in Seq(Kinds) /\ <<x>> # <<>>
          /\ <<x, y>> \in Seq(Kinds) /\ <<x, y>> # <<>> /\ <<x, y>>[Len(<<x, y>>)] = y
    OBVIOUS
  <2>3. "completed" \notin BlockedStages
    BY DEF BlockedStages
  <2>4. \/ ks = <<"blocked">> /\ stage \in BlockedStages
        \/ ks = <<"step_verified", "committed">>
        \/ ks = <<"step_verified", "step_started">> /\ stage # "completed"
    BY DEF AdvanceKinds
  <2>5. CASE ks = <<"blocked">> /\ stage \in BlockedStages
    BY <2>1, <2>2, <2>3, <2>5
  <2>6. CASE ks = <<"step_verified", "committed">>
    BY <2>1, <2>2, <2>6
  <2>7. CASE ks = <<"step_verified", "step_started">> /\ stage # "completed"
    BY <2>1, <2>2, <2>7
  <2> QED
    BY <2>4, <2>5, <2>6, <2>7
<1> HIDE DEF ks
<1> DEFINE w == WithKinds(j, ks)
<1>2. w \in Journals /\ w.op = j.op /\ w.kind = ks[Len(ks)]
  BY <1>1, Appending
<1>3. k = [w EXCEPT !.step = IF stage \in IntermediateStages THEN stage ELSE w.step]
  BY DEF ks, w, k, Moved
<1> HIDE DEF w, k
<1>4. IntermediateStages \subseteq JournalSteps
  BY Zenon DEF IntermediateStages, JournalSteps
<1>5. ASSUME NEW s \in JournalSteps
      PROVE  /\ [w EXCEPT !.step = s] \in Journals /\ [w EXCEPT !.step = s].op = j.op
             /\ [w EXCEPT !.step = s].step = s /\ [w EXCEPT !.step = s].kind = w.kind
  BY <1>2 DEF Journals
<1>6. (IF stage \in IntermediateStages THEN stage ELSE w.step) \in JournalSteps
  BY <1>2, <1>4 DEF Journals
<1>7. /\ k \in Journals /\ k.op = j.op /\ k.kind = w.kind
      /\ k.step = IF stage \in IntermediateStages THEN stage ELSE w.step
  BY <1>3, <1>5, <1>6
<1> QED
  BY <1>1, <1>2, <1>7 DEF Ended, TerminalKinds, k

\* What a move does, in terms of the session and the file.
LEMMA MoveFacts ==
  ASSUME SleepInv, NEW event \in FlowEvents, InSession, file # None, file.op = session.op,
         NEW stage \in Outcomes[session.stage][event][WorldNow(session.removal)][session.expired],
         stage # "context_error", MoveTo(stage)
  PROVE  /\ session \in Sessions /\ file \in Journals /\ ~Ended(file)
         /\ file' \in Journals /\ file'.op = session.op /\ file' # None
         /\ stage \in IntermediateStages => file'.step = stage
         /\ stage = "completed" => Ended(file')
         /\ session' \in Sessions /\ session'.op = session.op /\ session'.stage = stage
         /\ \/ /\ session'.save = session.save /\ session'.saved = session.saved
               /\ session'.removal = session.removal
            \/ stage \in SessionTerminal /\ session'.save = FALSE
         /\ session.stage = "releasing_clients" /\ event # "software_clients_released" =>
              stage \in {"cancelled", "action_required"}
<1>1. session \in Sessions /\ file \in Journals /\ session.removal \in Removals
  BY DEF SleepInv, SleepTyped, InSession
<1>2. session.stage \in IntermediateStages /\ session.expired \in BOOLEAN
  BY <1>1 DEF InSession, Sessions, Stages, SessionTerminal, IntermediateStages
<1>3. WorldNow(session.removal) \in Worlds
  BY <1>1 DEF WorldNow, Worlds, Running, SleepInv, SleepTyped
<1>4. /\ stage \in Stages
      /\ session.stage = "releasing_clients" /\ event # "software_clients_released" =>
              stage \in {"cancelled", "action_required"}
  BY <1>2, <1>3, OutcomeStages
<1>5. /\ file' \in Journals /\ file'.op = file.op
      /\ stage \in IntermediateStages => file'.step = stage
      /\ stage = "completed" => Ended(file')
  <2>1. file' = Moved(file, stage)
    BY DEF MoveTo, Moved
  <2> QED
    BY <1>1, <1>4, <2>1, MovedFile
<1>6. file' # None /\ ~Ended(file)
  BY <1>5, NoneAssumption DEF MoveTo, MayAppend
<1> DEFINE s == [session EXCEPT !.stage = stage]
<1>7. /\ s \in Sessions /\ s.op = session.op /\ s.stage = stage /\ s.save = session.save
      /\ s.saved = session.saved /\ s.removal = session.removal
  BY <1>1, <1>4 DEF Sessions
<1>8. session' = Settled(s)
  BY DEF MoveTo
<1> HIDE DEF s
<1> QED
  BY <1>1, <1>4, <1>5, <1>6, <1>7, <1>8, SettledTyped
\* The session moves on, whoever asks: a caller, a late answer, the release
\* child's return, the closed game.
LEMMA MoveKeeps ==
  ASSUME SleepInv, NEW event \in FlowEvents, InSession, file # None, file.op = session.op,
         NEW stage \in Outcomes[session.stage][event][WorldNow(session.removal)][session.expired],
         stage # "context_error", MoveTo(stage),
         childMem' = None \/ (childMem' = childMem /\ event # "software_clients_released"),
         closer' \in {closer, None}, calls' \subseteq calls,
         UNCHANGED <<egpu, game, used, interrupted, outlived, saveTokens, closeTokens, saver>>
  PROVE  SleepInv'
<1>1. /\ session \in Sessions /\ file \in Journals /\ ~Ended(file)
      /\ file' \in Journals /\ file'.op = session.op /\ file' # None
      /\ stage \in IntermediateStages => file'.step = stage
      /\ stage = "completed" => Ended(file')
      /\ session' \in Sessions /\ session'.op = session.op /\ session'.stage = stage
      /\ \/ /\ session'.save = session.save /\ session'.saved = session.saved
            /\ session'.removal = session.removal
         \/ stage \in SessionTerminal /\ session'.save = FALSE
      /\ session.stage = "releasing_clients" /\ event # "software_clients_released" =>
           stage \in {"cancelled", "action_required"}
  BY MoveFacts
<1> DEFINE op == session.op
<1>2. /\ session # None /\ op \in Ops /\ op \in used /\ op \notin interrupted
      /\ \A n \in DOMAIN continued : op # continued[n]
      /\ continued \in Seq(Ops) /\ session.removal \in Removals
  BY <1>1 DEF SleepInv, SleepTyped, Requested, NotYetContinued, InSession, Sessions
<1>3. /\ continued' \in Seq(Ops)
      /\ \/ continued' = continued
         \/ stage = "completed" /\ continued' = Append(continued, op)
      /\ \A n \in DOMAIN continued' : \/ n \in DOMAIN continued /\ continued'[n] = continued[n]
                                      \/ stage = "completed" /\ n = Len(continued) + 1
                                         /\ continued'[n] = op
  BY <1>2 DEF MoveTo
<1>4. consented \subseteq consented' /\ (stage = "closing_game" => op \in consented')
  BY DEF MoveTo
<1>5. InSession' => stage \notin SessionTerminal /\ stage \in IntermediateStages
                    /\ session'.removal = session.removal /\ stage # "completed"
  <2>1. InSession' => stage \notin SessionTerminal
    BY <1>1 DEF InSession
  <2> QED
    BY <1>1, <2>1 DEF Sessions, Stages, SessionTerminal, IntermediateStages
<1>6. SleepTyped'
  BY <1>1, <1>2, <1>3, <1>5 DEF SleepInv, SleepTyped
<1>7. Requested'
  BY <1>1, <1>2, <1>3 DEF SleepInv, Requested
<1>8. StageIsJournalStep'
  BY <1>1, <1>5 DEF StageIsJournalStep
<1>9. NotYetContinued'
  <2>1. InSession' => session'.op \notin interrupted'
    BY <1>1, <1>2
  <2>2. ASSUME NEW n \in DOMAIN continued'
        PROVE  /\ InSession' => session'.op # continued'[n]
               /\ Open' => file'.op # continued'[n]
    <3>1. CASE continued'[n] = continued[n] /\ n \in DOMAIN continued
      BY <1>1, <1>2, <3>1
    <3>2. CASE stage = "completed"
      BY <1>1, <1>5, <3>2 DEF Open
    <3> QED
      BY <1>3, <2>2, <3>1, <3>2
  <2> QED
    BY <2>1, <2>2 DEF NotYetContinued
<1>10. ContinuedOnceNeverResumed'
  <2>1. ASSUME NEW m \in DOMAIN continued', NEW n \in DOMAIN continued', m # n
        PROVE  continued'[m] # continued'[n]
    BY <1>2, <1>3, <2>1 DEF SleepInv, ContinuedOnceNeverResumed
  <2>2. ASSUME NEW n \in DOMAIN continued' PROVE continued'[n] \notin interrupted'
    BY <1>2, <1>3, <2>2 DEF SleepInv, ContinuedOnceNeverResumed
  <2> QED
    BY <2>1, <2>2 DEF ContinuedOnceNeverResumed
<1>11. CarriedHolds'
  <2> SUFFICES ASSUME childMem' # None PROVE CarriedHolds'
    BY DEF CarriedHolds
  <2>1. childMem' = childMem /\ event # "software_clients_released" /\ childMem # None
    OBVIOUS
  <2>2. childMem.op = op => stage \in {"cancelled", "action_required"}
    BY <1>1, <2>1 DEF SleepInv, CarriedHolds
  <2>3. \A n \in DOMAIN continued' : childMem.op # continued'[n]
    <3>1. \A n \in DOMAIN continued : childMem.op # continued[n]
      BY <2>1 DEF SleepInv, CarriedHolds
    <3>2. stage = "completed" => childMem.op # op
      BY <2>2
    <3> QED
      BY <1>3, <3>1, <3>2
  <2>4. ~(InSession' /\ session'.op = childMem'.op)
    BY <1>1, <1>5, <2>1, <2>2 DEF SessionTerminal
  <2>5. childMem'.step = "releasing_clients"
    BY <2>1 DEF SleepInv, CarriedHolds
  <2> QED
    BY <2>1, <2>3, <2>4, <2>5 DEF CarriedHolds
<1>12. CarriedIsKnown'
  BY <1>1 DEF SleepInv, CarriedIsKnown, OnFile
<1>13. ConsentHolds'
  <2>1. ASSUME NEW o, SavedFor(o) PROVE SavedFor(o)'
    BY <1>1, <1>2, <2>1 DEF SavedFor
  <2>2. InSession' /\ session'.stage = "closing_game" => session'.op \in consented'
    BY <1>1, <1>4
  <2>3. saver' # None => saver'.op \in consented'
    BY <1>4 DEF SleepInv, ConsentHolds
  <2>4. closer' # None => closer'.op \in consented' /\ SavedFor(closer.op)' /\ closer' = closer
    BY <1>4, <2>1 DEF SleepInv, ConsentHolds
  <2>5. \A n \in DOMAIN closeTokens' : SavedFor(closeTokens[n].op)'
    BY <2>1 DEF SleepInv, ConsentHolds
  <2> QED
    BY <2>2, <2>3, <2>4, <2>5 DEF ConsentHolds, SavedFor
<1> QED
  BY <1>6, <1>7, <1>8, <1>9, <1>10, <1>11, <1>12, <1>13 DEF SleepInv
\* A step of the service that neither requests, moves the session on, nor dies.
LEMMA ServiceKeeps ==
  ASSUME SleepInv, UNCHANGED childVars, SessionStays, FileStays, ChildStays,
         UNCHANGED <<used, consented, continued, interrupted>>, outlived \subseteq outlived',
         egpu' \in {"present", "absent"}, game' \in Games \cup {None},
         file' \in Journals \cup {None}, childMem' \in Journals \cup {None},
         session' \in Sessions \cup {None}, InSession' => session'.removal \in Removals,
         calls' \subseteq Ops \X Answers
  PROVE  SleepInv'
<1>1. SleepTyped'
  BY DEF SleepInv, SleepTyped, childVars
<1>2. /\ saver' # None => saver'.op \in consented
      /\ closer' # None => closer'.op \in used \cap consented /\ SavedFor(closer'.op)
      /\ \A n \in DOMAIN closeTokens' : closeTokens'[n].op \in used /\ SavedFor(closeTokens'[n].op)
  BY DEF SleepInv, Requested, ConsentHolds, childVars
<1> QED
  BY <1>1, <1>2, QuietStep

\* Evidence changed: the operation fails and the session is gone.
LEMMA FailKeeps ==
  ASSUME SleepInv, InSession, file # None, FailSession,
         childMem' \in {childMem, None}, closer' \in {closer, None}, calls' \subseteq calls,
         UNCHANGED <<egpu, game, used, interrupted, outlived, saveTokens, closeTokens, saver>>
  PROVE  SleepInv'
<1>0. "failed" \in Kinds
  BY DEF Kinds
<1>1. file \in Journals /\ ~Ended(file) /\ file' = WithKinds(file, <<"failed">>)
  BY DEF FailSession, MayAppend, SleepInv, SleepTyped
<1>2. file' \in Journals /\ file'.op = file.op /\ file'.step = file.step /\ file' # None
  BY <1>0, <1>1, AppendingOne, NoneAssumption
<1>3. session' = None
  BY DEF FailSession
<1>4. FileStays /\ ChildStays /\ SessionStays
  BY <1>1, <1>2, <1>3 DEF FileStays, ChildStays, SessionStays
<1>5. SleepTyped'
  BY <1>2, <1>3 DEF SleepInv, SleepTyped, FailSession, InSession
<1>6. /\ saver' # None => saver'.op \in consented
      /\ closer' # None => closer'.op \in used \cap consented /\ SavedFor(closer'.op)
      /\ \A n \in DOMAIN closeTokens' : closeTokens'[n].op \in used /\ SavedFor(closeTokens'[n].op)
  BY DEF SleepInv, Requested, ConsentHolds
<1> QED
  BY <1>4, <1>5, <1>6, QuietStep DEF FailSession

\* An event advances session and file together, or fails both.
LEMMA AdvancesKeeps ==
  ASSUME SleepInv, NEW event \in FlowEvents, Advances(event),
         childMem' = None \/ (childMem' = childMem /\ event # "software_clients_released"),
         closer' \in {closer, None}, calls' \subseteq calls,
         UNCHANGED <<egpu, game, used, interrupted, outlived, saveTokens, closeTokens, saver>>
  PROVE  SleepInv'
<1>1. PICK stage \in Outcomes[session.stage][event][WorldNow(session.removal)][session.expired] :
        IF stage = "context_error" THEN FailSession ELSE MoveTo(stage)
  BY DEF Advances
<1>2. InSession /\ file # None /\ file.op = session.op
  BY DEF Advances
<1>3. CASE stage = "context_error"
  BY <1>1, <1>2, <1>3, FailKeeps
<1>4. CASE stage # "context_error"
  BY <1>1, <1>2, <1>4, MoveKeeps
<1> QED
  BY <1>3, <1>4

\* The calls that bring events, and what else each of them does.
LEMMA AdvanceActionsKeep ==
  ASSUME SleepInv,
         \/ CloseAdvances
         \/ UNCHANGED childVars /\ \E event \in RemovalOrLater : Advance(event)
         \/ UNCHANGED childVars /\ \E call \in calls : AnswerArrives(call)
         \/ UNCHANGED childVars /\ ReleaseChildReturns
  PROVE  SleepInv'
<1>0. /\ calls \subseteq Ops \X Answers
      /\ RemovalOrLater \cup Answers \cup {"game_exit_verified"}
           \subseteq FlowEvents \ {"software_clients_released"}
      /\ "software_clients_released" \in FlowEvents
  BY DEF SleepInv, SleepTyped, RemovalOrLater, Answers, FlowEvents
<1>1. CASE CloseAdvances
  <2>1. CASE Advances("game_exit_verified")
    BY <1>0, <1>1, <2>1, AdvancesKeeps DEF CloseAdvances
  <2>2. CASE UNCHANGED <<file, session, consented, continued>>
    <3>1. FileMoves /\ UNCHANGED <<session, serviceRest>>
      BY <1>1, <2>2 DEF CloseAdvances, FileMoves, serviceRest
    <3>2. saveTokens \in Seq(GameTokens) /\ closeTokens \in Seq(GoodTokens)
      BY TokensAreGood DEF SleepInv, SleepTyped
    <3> QED
      BY <1>1, <3>1, <3>2, ChildKeeps DEF CloseAdvances
  <2> QED
    BY <1>1, <2>1, <2>2 DEF CloseAdvances
<1>2. ASSUME NEW event \in RemovalOrLater, UNCHANGED childVars, Advance(event) PROVE SleepInv'
  BY <1>0, <1>2, AdvancesKeeps DEF Advance, childVars
<1>3. ASSUME NEW call \in calls, UNCHANGED childVars, AnswerArrives(call) PROVE SleepInv'
  <2>1. call[2] \in FlowEvents /\ call[2] # "software_clients_released"
    BY <1>0
  <2> QED
    BY <1>3, <2>1, AdvancesKeeps DEF AnswerArrives, childVars
<1>4. ASSUME UNCHANGED childVars, ReleaseChildReturns PROVE SleepInv'
  <2>1. CASE Advances("software_clients_released")
    BY <1>0, <1>4, <2>1, AdvancesKeeps DEF ReleaseChildReturns, childVars
  <2>2. CASE UNCHANGED <<file, session, consented, continued>>
    <3>1. FileStays /\ ChildStays /\ SessionStays
      BY <1>4, <2>2 DEF FileStays, ChildStays, SessionStays, ReleaseChildReturns
    <3> QED
      BY <1>4, <2>2, <3>1, ServiceKeeps
         DEF ReleaseChildReturns, SleepInv, SleepTyped, InSession
  <2> QED
    BY <1>4, <2>1, <2>2 DEF ReleaseChildReturns
<1> QED
  BY <1>1, <1>2, <1>3, <1>4
-----------------------------------------------------------------------------
(* The service's other steps                                               *)

\* The events of a recovery.
LEMMA RecoveryAppends ==
  ASSUME NEW v
  PROVE  RecoveryKinds(v) \in Seq(Kinds) /\ RecoveryKinds(v) # <<>>
<1>1. "recovery_started" \in Kinds /\ "recovery_verified" \in Kinds /\ "failed" \in Kinds
  BY DEF Kinds
<1> HIDE DEF Kinds
<1>2. (IF v THEN "recovery_verified" ELSE "failed") \in Kinds
  BY <1>1
<1>3. \A x, y \in Kinds : <<x, y>> \in Seq(Kinds) /\ <<x, y>> # <<>>
  OBVIOUS
<1> QED
  BY <1>1, <1>2, <1>3 DEF RecoveryKinds

\* The world, the player's calls, and the restart of the service.
LEMMA PlayerKeeps ==
  ASSUME SleepInv, UNCHANGED childVars,
         \/ WorldChanges \/ RequestExpires \/ RecoverSleep \/ AcknowledgeSleep
         \/ \E event \in Answers : AnswerBegins(event)
         \/ \E call \in calls : AnswerIsRefused(call)
  PROVE  SleepInv'
<1>0. /\ egpu \in {"present", "absent"} /\ game \in Games \cup {None}
      /\ file \in Journals \cup {None} /\ childMem \in Journals \cup {None}
      /\ session \in Sessions \cup {None} /\ calls \subseteq Ops \X Answers
      /\ InSession => session.removal \in Removals
  BY DEF SleepInv, SleepTyped
<1>1. CASE WorldChanges
  <2>1. SessionStays /\ FileStays /\ ChildStays
    BY <1>1 DEF WorldChanges, serviceVars, SessionStays, FileStays, ChildStays
  <2> QED
    BY <1>0, <1>1, <2>1, ServiceKeeps DEF WorldChanges, serviceVars, InSession
<1>2. CASE RequestExpires
  <2>1. session # None /\ session' = [session EXCEPT !.expired = TRUE] /\ session \in Sessions
    BY <1>0, <1>2 DEF RequestExpires, InSession
  <2>2. /\ session' \in Sessions /\ session'.op = session.op /\ session'.stage = session.stage
        /\ session'.save = session.save /\ session'.saved = session.saved
        /\ session'.removal = session.removal
    BY <2>1 DEF Sessions
  <2>3. SessionStays /\ FileStays /\ ChildStays
    BY <1>2, <2>1, <2>2 DEF RequestExpires, SessionStays, FileStays, ChildStays
  <2> QED
    BY <1>0, <1>2, <2>1, <2>2, <2>3, ServiceKeeps DEF RequestExpires, InSession
<1>3. CASE RecoverSleep
  <2>1. \/ file' = file /\ session' \in {session, None}
        \/ /\ \E verified \in {FALSE, egpu = "absent"} :
                 /\ file # None /\ ~Ended(file)
                 /\ file' = WithKinds(file, RecoveryKinds(verified))
           /\ session' = None
    BY <1>3 DEF RecoverSleep, RecoveryEnds
  <2>2. \/ file' = file /\ session' \in {session, None}
        \/ /\ file # None /\ ~Ended(file) /\ file' \in Journals /\ file' # None
           /\ file'.op = file.op /\ file'.step = file.step /\ session' = None
    <3>1. ASSUME NEW v, file # None, ~Ended(file), file' = WithKinds(file, RecoveryKinds(v))
          PROVE  /\ file' \in Journals /\ file' # None
                 /\ file'.op = file.op /\ file'.step = file.step
      BY <1>0, <3>1, RecoveryAppends, Appending, NoneAssumption
    <3> QED
      BY <2>1, <3>1
  <2>3. FileStays /\ ChildStays /\ SessionStays
    BY <1>3, <2>2 DEF RecoverSleep, FileStays, ChildStays, SessionStays
  <2> QED
    BY <1>0, <1>3, <2>2, <2>3, ServiceKeeps DEF RecoverSleep, InSession
<1>4. CASE AcknowledgeSleep
  <2>1. /\ file # None /\ Ended(file) /\ file' = None /\ childMem' = childMem
        /\ (IF childMem = None THEN FALSE ELSE childMem.op = file.op) => file.op \in outlived'
        /\ outlived \subseteq outlived'
        /\ session' = session \/ session' = None
    BY <1>4 DEF AcknowledgeSleep
  <2>2. FileStays /\ ChildStays /\ SessionStays
    BY <2>1 DEF FileStays, ChildStays, SessionStays
  <2> QED
    BY <1>0, <1>4, <2>1, <2>2, ServiceKeeps DEF AcknowledgeSleep, InSession
<1>5. ASSUME NEW event \in Answers, AnswerBegins(event) PROVE SleepInv'
  <2>1. <<session.op, event>> \in Ops \X Answers
    BY <1>0, <1>5 DEF AnswerBegins, InSession, Sessions
  <2>2. FileStays /\ ChildStays /\ SessionStays
    BY <1>5 DEF AnswerBegins, FileStays, ChildStays, SessionStays
  <2> QED
    BY <1>0, <1>5, <2>1, <2>2, ServiceKeeps DEF AnswerBegins, InSession
<1>6. ASSUME NEW call \in calls, AnswerIsRefused(call) PROVE SleepInv'
  <2>1. FileStays /\ ChildStays /\ SessionStays
    BY <1>6 DEF AnswerIsRefused, FileStays, ChildStays, SessionStays
  <2> QED
    BY <1>0, <1>6, <2>1, ServiceKeeps DEF AnswerIsRefused, InSession
<1> QED
  BY <1>1, <1>2, <1>3, <1>4, <1>5, <1>6

\* A release child saves the journal it carries beside the service.
LEMMA CarrierKeeps ==
  ASSUME SleepInv, UNCHANGED childVars,
         ReleaseChildBegins \/ \E kind \in ChildKinds : ReleaseChildSaves(kind)
  PROVE  SleepInv'
<1>0. /\ egpu \in {"present", "absent"} /\ game \in Games \cup {None}
      /\ file \in Journals \cup {None} /\ childMem \in Journals \cup {None}
      /\ session \in Sessions \cup {None} /\ calls \subseteq Ops \X Answers
      /\ InSession => session.removal \in Removals
  BY DEF SleepInv, SleepTyped
<1>1. CASE ReleaseChildBegins
  <2>1. /\ InSession /\ file # None /\ file.op = session.op
        /\ session.stage = "releasing_clients" /\ file.step = "releasing_clients"
        /\ ~Ended(file) /\ childMem' = file
        /\ UNCHANGED <<file, egpu, game, session, calls, used, consented, continued, interrupted>>
    BY <1>1 DEF ReleaseChildBegins, ActiveStep, Ended, TerminalKinds
  <2>2. SleepTyped' /\ Requested' /\ StageIsJournalStep' /\ NotYetContinued'
    BY <1>0, <2>1 DEF SleepInv, SleepTyped, Requested, StageIsJournalStep, NotYetContinued,
                      InSession, OnFile, Open, childVars
  <2>3. ContinuedOnceNeverResumed' /\ CarriedIsKnown' /\ ConsentHolds'
    BY <2>1 DEF SleepInv, ContinuedOnceNeverResumed, CarriedIsKnown, ConsentHolds, SavedFor,
                InSession, OnFile, childVars
  <2>4. CarriedHolds'
    BY <2>1 DEF SleepInv, NotYetContinued, CarriedHolds, InSession, OnFile
  <2> QED
    BY <2>2, <2>3, <2>4 DEF SleepInv
<1>2. ASSUME NEW kind \in ChildKinds, ReleaseChildSaves(kind) PROVE SleepInv'
  <2>0. kind \in Kinds /\ childMem # None /\ childMem \in Journals
    BY <1>0, <1>2 DEF ReleaseChildSaves, ChildKinds, Kinds
  <2>1. UNCHANGED <<egpu, game, session, calls, used, consented, continued, interrupted, outlived>>
    BY <1>2 DEF ReleaseChildSaves
  <2>2. CASE childMem' = None /\ file' = file
    <3>1. FileStays /\ ChildStays /\ SessionStays
      BY <2>1, <2>2 DEF FileStays, ChildStays, SessionStays
    <3> QED
      BY <1>0, <1>2, <2>1, <2>2, <3>1, ServiceKeeps DEF InSession
  <2>3. CASE /\ MayAppend(childMem, <<kind>>) /\ Accepts(file, childMem)
             /\ file' = WithKinds(childMem, <<kind>>)
             /\ childMem' = IF kind \in TerminalKinds THEN None ELSE file'
    <3>1. /\ file' \in Journals /\ file'.op = childMem.op /\ file'.step = childMem.step
          /\ file'.kind = kind /\ file' # None /\ ~Ended(childMem)
      BY <2>0, <2>3, AppendingOne, NoneAssumption DEF MayAppend
    <3>2. CASE file = childMem
      <4>1. FileStays /\ ChildStays /\ SessionStays
        BY <2>0, <2>1, <2>3, <3>1, <3>2 DEF FileStays, ChildStays, SessionStays, Ended
      <4> QED
        BY <1>0, <1>2, <2>1, <2>3, <3>1, <4>1, ServiceKeeps DEF InSession
    <3>3. CASE file = None
      <4>1. /\ childMem.op \in used /\ childMem.step = "releasing_clients"
            /\ childMem.op \in outlived
            /\ \A n \in DOMAIN continued : childMem.op # continued[n]
            /\ InSession => session.op # childMem.op
        BY <2>0, <3>3, SleepAssumption
           DEF SleepInv, Requested, CarriedHolds, CarriedIsKnown, OnFile
      <4>2. SleepTyped' /\ Requested'
        BY <1>0, <2>1, <2>3, <3>1, <4>1 DEF SleepInv, SleepTyped, Requested, InSession, OnFile,
                                            childVars
      <4>3. StageIsJournalStep' /\ NotYetContinued' /\ ContinuedOnceNeverResumed'
        BY <2>1, <3>1, <4>1 DEF SleepInv, StageIsJournalStep, NotYetContinued, InSession, Open,
                                ContinuedOnceNeverResumed
      <4>4. CarriedHolds' /\ CarriedIsKnown'
        BY <2>1, <2>3, <3>1, <4>1 DEF CarriedHolds, CarriedIsKnown, InSession, OnFile
      <4>5. ConsentHolds'
        BY <2>1 DEF SleepInv, ConsentHolds, SavedFor, InSession, childVars
      <4> QED
        BY <4>2, <4>3, <4>4, <4>5 DEF SleepInv
    <3> QED
      BY <2>3, <3>2, <3>3 DEF Accepts
  <2> QED
    BY <1>2, <2>2, <2>3 DEF ReleaseChildSaves
<1> QED
  BY <1>1, <1>2

\* A request starts on no journal, with an identity nothing refers to.
LEMMA RequestOpens ==
  ASSUME SleepInv, NEW op \in SleepOps, Request(op)
  PROVE  /\ op \in Ops /\ file' \in Journals /\ file' # None /\ file'.op = op
         /\ \E removal \in Removals, save \in BOOLEAN : \E stage \in Stages :
              /\ stage # "closing_game"
              /\ stage \in IntermediateStages => file'.step = stage
              /\ session' = Settled([op |-> op, stage |-> stage, removal |-> removal,
                                     save |-> save, saved |-> FALSE, expired |-> FALSE])
<1>0. PICK removal \in Removals, save \in BOOLEAN :
        \E stage \in StartStages[WorldNow(removal)] :
          /\ file' = StartedJournal(op, stage)
          /\ session' = Settled([op |-> op, stage |-> stage, removal |-> removal,
                                 save |-> save, saved |-> FALSE, expired |-> FALSE])
  BY DEF Request
<1>1. PICK stage \in StartStages[WorldNow(removal)] :
        /\ file' = StartedJournal(op, stage)
        /\ session' = Settled([op |-> op, stage |-> stage, removal |-> removal,
                               save |-> save, saved |-> FALSE, expired |-> FALSE])
  BY <1>0
<1>2. WorldNow(removal) \in Worlds
  BY DEF WorldNow, Worlds, Running, SleepInv, SleepTyped
<1>3. stage \in Stages /\ stage # "closing_game"
  BY <1>2, StartsIn
<1>4. op \in Ops
  BY SleepAssumption
<1>5. /\ file' \in Journals /\ file'.op = op /\ file' # None
      /\ stage \in IntermediateStages => file'.step = stage
  BY <1>1, <1>3, <1>4, StartedTyped, NoneAssumption
<1> QED
  BY <1>1, <1>3, <1>4, <1>5

\* A request opens an operation that was never used.
LEMMA RequestKeeps ==
  ASSUME SleepInv, UNCHANGED childVars, NEW op \in SleepOps, Request(op)
  PROVE  SleepInv'
<1>1. PICK removal \in Removals, save \in BOOLEAN : \E stage \in Stages :
        /\ stage # "closing_game"
        /\ stage \in IntermediateStages => file'.step = stage
        /\ session' = Settled([op |-> op, stage |-> stage, removal |-> removal,
                               save |-> save, saved |-> FALSE, expired |-> FALSE])
  BY RequestOpens
<1>2. PICK stage \in Stages :
        /\ stage # "closing_game"
        /\ stage \in IntermediateStages => file'.step = stage
        /\ session' = Settled([op |-> op, stage |-> stage, removal |-> removal,
                               save |-> save, saved |-> FALSE, expired |-> FALSE])
  BY <1>1
<1>3. stage \in Stages /\ stage # "closing_game"
  BY <1>2
<1>4. /\ op \in Ops /\ op \notin used /\ used' = used \cup {op} /\ file = None
      /\ UNCHANGED <<egpu, game, calls, childMem, consented, continued, interrupted, outlived>>
  BY SleepAssumption DEF Request
<1>5. /\ file' \in Journals /\ file'.op = op /\ file' # None
      /\ stage \in IntermediateStages => file'.step = stage
  BY <1>2, RequestOpens
<1>6. /\ session' \in Sessions /\ session'.op = op /\ session'.stage = stage
      /\ session'.removal = removal \/ stage \in SessionTerminal
  <2> DEFINE s == [op |-> op, stage |-> stage, removal |-> removal,
                   save |-> save, saved |-> FALSE, expired |-> FALSE]
  <2>1. s \in Sessions /\ s.op = op /\ s.stage = stage /\ s.removal = removal
    BY <1>3, <1>4 DEF Sessions
  <2>2. session' = Settled(s)
    BY <1>2
  <2> HIDE DEF s
  <2> QED
    BY <2>1, <2>2, SettledTyped
<1>7. InSession' => stage \in IntermediateStages /\ session'.removal = removal
  BY <1>3, <1>6 DEF InSession, Stages, SessionTerminal, IntermediateStages
<1>8. SleepTyped'
  BY <1>4, <1>5, <1>6, <1>7 DEF SleepInv, SleepTyped, childVars
<1>9. Requested'
  BY <1>4, <1>5, <1>6 DEF SleepInv, Requested, childVars
<1>10. StageIsJournalStep'
  BY <1>5, <1>6, <1>7 DEF StageIsJournalStep
<1>11. NotYetContinued' /\ ContinuedOnceNeverResumed'
  <2>1. op \notin interrupted /\ \A n \in DOMAIN continued : op # continued[n]
    BY <1>4 DEF SleepInv, SleepTyped, Requested
  <2> QED
    BY <1>4, <1>5, <1>6, <2>1 DEF SleepInv, NotYetContinued, ContinuedOnceNeverResumed
<1>12. CarriedHolds' /\ CarriedIsKnown'
  BY <1>4, <1>5, <1>6 DEF SleepInv, Requested, CarriedHolds, CarriedIsKnown, OnFile
<1>13. ConsentHolds'
  <2>1. ASSUME NEW o \in used PROVE SavedFor(o)'
    BY <1>4, <1>6 DEF SavedFor
  <2>2. InSession' => session'.stage # "closing_game"
    BY <1>3, <1>6
  <2> QED
    BY <1>4, <2>1, <2>2 DEF SleepInv, Requested, ConsentHolds, SavedFor, childVars
<1> QED
  BY <1>8, <1>9, <1>10, <1>11, <1>12, <1>13 DEF SleepInv
\* A death forgets the session and the children and keeps the file.
LEMMA DeathKeeps ==
  ASSUME SleepInv, SleepPluginDies,
         saver' \in {saver, None}, closer' \in {closer, None},
         saveTokens' \in {saveTokens, <<>>}, closeTokens' \in {closeTokens, <<>>}
  PROVE  SleepInv'
<1>1. /\ session' = None /\ calls' = {} /\ childMem' = None /\ file # None
      /\ interrupted' = IF Ended(file) THEN interrupted ELSE interrupted \cup {file.op}
      /\ UNCHANGED <<file, egpu, game, used, consented, continued>>
  BY DEF SleepPluginDies
<1>2. ~InSession' /\ ContinuedOnceNeverResumed'
  BY <1>1 DEF SleepInv, ContinuedOnceNeverResumed, NotYetContinued, InSession, Open
<1>3. SleepTyped' /\ Requested'
  <2>1. interrupted' \subseteq used'
    BY <1>1 DEF SleepInv, SleepTyped, Requested, OnFile
  <2>2. /\ saveTokens' \in Seq(GameTokens) /\ closeTokens' \in Seq(GameTokens)
        /\ \A n \in DOMAIN closeTokens' : closeTokens'[n].op \in used
    <3>1. /\ saveTokens \in Seq(GameTokens) /\ closeTokens \in Seq(GameTokens)
          /\ \A n \in DOMAIN closeTokens : closeTokens[n].op \in used
          /\ <<>> \in Seq(GameTokens) /\ DOMAIN <<>> = {}
      BY DEF SleepInv, SleepTyped, Requested
    <3> QED
      BY <3>1
  <2>3. saver' \in GameRuns \cup {None} /\ closer' \in GameRuns \cup {None}
    BY DEF SleepInv, SleepTyped
  <2>4. SleepTyped'
    BY <1>1, <1>2, <2>1, <2>2, <2>3 DEF SleepInv, SleepTyped
  <2>5. Requested'
    BY <1>1, <2>2 DEF SleepInv, Requested, OnFile
  <2> QED
    BY <2>4, <2>5
<1>4. StageIsJournalStep' /\ NotYetContinued' /\ CarriedHolds' /\ CarriedIsKnown'
  BY <1>1, <1>2 DEF SleepInv, StageIsJournalStep, NotYetContinued, CarriedHolds, CarriedIsKnown, Open
<1>5. ConsentHolds'
  BY <1>1, <1>2 DEF SleepInv, ConsentHolds, SavedFor
<1> QED
  BY <1>2, <1>3, <1>4, <1>5 DEF SleepInv

\* No service step but a death counts one, so the children keep their state.
LEMMA ServiceStepKeeps ==
  ASSUME SleepInv, ServiceStep
  PROVE  SleepInv'
<1>1. CASE SleepPluginDies
  <2>1. /\ saver' \in {saver, None} /\ closer' \in {closer, None}
        /\ saveTokens' \in {saveTokens, <<>>} /\ closeTokens' \in {closeTokens, <<>>}
    BY DEF ServiceStep, childVars
  <2> QED
    BY <1>1, <2>1, DeathKeeps
<1>2. CASE ~SleepPluginDies
  <2>1. sleepDeaths' = sleepDeaths
    BY <1>2 DEF ServiceStep, SleepServiceNext, WorldChanges, serviceVars, Request, RequestExpires,
                Advance, AnswerBegins, AnswerArrives, AnswerIsRefused, ReleaseChildBegins,
                ReleaseChildSaves, ReleaseChildReturns, RecoverSleep, AcknowledgeSleep
  <2>2. UNCHANGED childVars
    BY <2>1 DEF ServiceStep
  <2> QED
    BY <1>2, <2>2, PlayerKeeps, CarrierKeeps, RequestKeeps, AdvanceActionsKeep
       DEF ServiceStep, SleepServiceNext
<1> QED
  BY <1>1, <1>2

-----------------------------------------------------------------------------
(* The theorems                                                            *)

\* The inductive invariant of the sleep service and its children.
THEOREM SleepInvariant == SystemSpec => []SleepInv
<1>1. SystemInit => SleepInv
  BY DEF SystemInit, SleepInit, SleepInv, SleepTyped, Requested, StageIsJournalStep,
         NotYetContinued, ContinuedOnceNeverResumed, CarriedHolds, CarriedIsKnown, ConsentHolds,
         InSession, Open, OnFile
<1>2. SleepInv /\ [SystemNext]_systemVars => SleepInv'
  <2> SUFFICES ASSUME SleepInv, [SystemNext]_systemVars PROVE SleepInv'
    OBVIOUS
  <2>1. CASE UNCHANGED systemVars
    <3>1. saveTokens \in Seq(GameTokens) /\ closeTokens \in Seq(GoodTokens)
      BY TokensAreGood DEF SleepInv, SleepTyped
    <3> QED
      BY <2>1, <3>1, ChildKeeps
         DEF systemVars, sleepVars, serviceVars, childVars, serviceRest, FileMoves
  <2>2. CASE SystemNext
    BY <2>2, ServiceStepKeeps, SaverKeeps, MarkKeeps, CloserKeeps, AdvanceActionsKeep
       DEF SystemNext, SaveChild, CloseChild
  <2> QED
    BY <2>1, <2>2
<1> QED
  BY <1>1, <1>2, PTL DEF SystemSpec

\* The stage in memory is the step on disk (advance_sleep_journal, _fail_session,
\* recover_interrupted), whatever the player acknowledges in between.
THEOREM SleepStageIsJournalStep == SystemSpec => []StageIsJournalStep
<1>1. SleepInv => StageIsJournalStep
  BY DEF SleepInv
<1> QED
  BY <1>1, SleepInvariant, PTL

\* An original request is continued at most once and never after a restart
\* found it incomplete (docs/SLEEP_WORKFLOW.md).
THEOREM SleepContinuesOnce == SystemSpec => []ContinuedOnceNeverResumed
<1>1. SleepInv => ContinuedOnceNeverResumed
  BY DEF SleepInv
<1> QED
  BY <1>1, SleepInvariant, PTL

\* A game is saved or closed only under an operation whose player agreed, and no
\* close precedes the save its consent was bound to (GuardedGameCloseService).
THEOREM SleepActsAreConsented == SystemSpec => ActsAreConsented
<1>1. SleepInv /\ [SystemNext]_systemVars =>
        [/\ Acts(saver, saver') => saver.op \in consented
         /\ Acts(closer, closer') =>
              /\ closer.op \in consented
              /\ InSession => (session.op = closer.op /\ session.save => session.saved)
        ]_systemVars
  BY DEF SleepInv, ConsentHolds, SavedFor, Acts, InSession
<1> QED
  BY <1>1, SleepInvariant, PTL DEF SystemSpec, ActsAreConsented
-----------------------------------------------------------------------------
(* Operations live once                                                    *)

\* What a step other than a request leaves of the operation on file.
LifeGoesOn ==
  /\ used' = used
  /\ \/ /\ outlived' = outlived
        /\ \/ file' = file
           \/ file # None /\ ~Ended(file) /\ file' # None /\ file'.op = file.op
           \/ file = None /\ file' # None /\ file'.op \in outlived
     \/ /\ file # None /\ Ended(file) /\ file' = None
        /\ outlived' \in {outlived, outlived \cup {file.op}}

\* An advance extends the operation on file, and never replaces it.
LEMMA AdvancesLives ==
  ASSUME SleepInv, NEW event \in FlowEvents, used' = used, outlived' = outlived,
         Advances(event) \/ file' = file
  PROVE  LifeGoesOn
<1>1. CASE Advances(event)
  <2>1. PICK stage \in Outcomes[session.stage][event][WorldNow(session.removal)][session.expired] :
          IF stage = "context_error" THEN FailSession ELSE MoveTo(stage)
    BY <1>1 DEF Advances
  <2>2. InSession /\ file # None /\ file.op = session.op
    BY <1>1 DEF Advances
  <2>3. CASE stage = "context_error"
    <3>1. file \in Journals /\ ~Ended(file) /\ file' = WithKinds(file, <<"failed">>)
      BY <2>1, <2>2, <2>3 DEF FailSession, MayAppend, SleepInv, SleepTyped
    <3>2. "failed" \in Kinds
      BY DEF Kinds
    <3> QED
      BY <2>2, <3>1, <3>2, AppendingOne, NoneAssumption DEF LifeGoesOn
  <2>4. CASE stage # "context_error"
    BY <2>1, <2>2, <2>4, MoveFacts DEF LifeGoesOn
  <2> QED
    BY <2>3, <2>4
<1> QED
  BY <1>1 DEF LifeGoesOn

\* Nor do the guarded save and close.
LEMMA ChildrenLive ==
  ASSUME SleepInv,
         \/ PrepareSave \/ \E n \in DOMAIN saveTokens : ExecuteSave(n)
         \/ PreviewClose \/ \E n \in DOMAIN closeTokens : ExecuteClose(n)
         \/ GameSaves \/ SaveChild \/ CloseChild \/ TokenLapses
  PROVE  LifeGoesOn
<1>0. /\ "failed" \in Kinds /\ "substep_started" \in Kinds /\ "substep_verified" \in Kinds
      /\ "game_exit_verified" \in FlowEvents
  BY DEF Kinds, FlowEvents
<1>1. CASE CloseAdvances
  BY <1>0, <1>1, AdvancesLives DEF CloseAdvances
<1>2. CASE ~CloseAdvances
  <2>1. FileMoves /\ UNCHANGED <<childMem, used, outlived>>
    <3>1. CASE PrepareSave \/ PreviewClose \/ GameSaves \/ TokenLapses \/ RequestSave \/ RequestClose
      BY <3>1 DEF PrepareSave, PreviewClose, GameSaves, TokenLapses, RequestSave, RequestClose,
                  FileMoves, sleepVars, serviceVars
    <3>2. ASSUME NEW n, ExecuteSave(n) PROVE FileMoves /\ UNCHANGED <<childMem, used, outlived>>
      BY <1>0, <3>2, FailsMoves DEF ExecuteSave, FileMoves, AppendRefused, serviceRest
    <3>3. ASSUME NEW n, ExecuteClose(n) PROVE FileMoves /\ UNCHANGED <<childMem, used, outlived>>
      BY <1>0, <3>3, FailsMoves DEF ExecuteClose, FileMoves, AppendRefused, serviceRest
    <3>4. CASE SaveProved
      BY <1>0, <3>4 DEF SaveProved, FileMoves, AppendRefused, serviceRest
    <3>5. CASE MarkSaved
      BY <3>5, FailsMoves DEF MarkSaved, FileMoves, serviceRest
    <3>6. CASE SaveChildFails
      BY <3>6, FailsMoves DEF SaveChildFails, serviceRest
    <3>7. CASE ExitProved
      BY <1>0, <3>7 DEF ExitProved, FileMoves, AppendRefused, serviceRest
    <3>8. CASE CloseChildFails
      BY <3>8, FailsMoves DEF CloseChildFails, serviceRest
    <3> QED
      BY <1>2, <3>1, <3>2, <3>3, <3>4, <3>5, <3>6, <3>7, <3>8 DEF SaveChild, CloseChild
  <2> QED
    BY <2>1, FileKept DEF FileStays, LifeGoesOn
<1> QED
  BY <1>1, <1>2

\* Nor does the service, but for a child that saves what was acknowledged under it.
LEMMA ServiceLives ==
  ASSUME SleepInv, ServiceStep
  PROVE  LifeGoesOn \/ \E op \in SleepOps : Request(op)
<1>0. /\ calls \subseteq Ops \X Answers
      /\ RemovalOrLater \cup Answers \cup {"software_clients_released"} \subseteq FlowEvents
  BY DEF SleepInv, SleepTyped, RemovalOrLater, Answers, FlowEvents
<1>1. CASE \/ WorldChanges \/ RequestExpires \/ ReleaseChildBegins \/ SleepPluginDies
           \/ \E event \in Answers : AnswerBegins(event)
           \/ \E call \in calls : AnswerIsRefused(call)
  BY <1>1 DEF WorldChanges, RequestExpires, ReleaseChildBegins, SleepPluginDies, AnswerBegins,
              AnswerIsRefused, serviceVars, LifeGoesOn
<1>2. ASSUME NEW event \in RemovalOrLater, Advance(event) PROVE LifeGoesOn
  BY <1>0, <1>2, AdvancesLives DEF Advance
<1>3. ASSUME NEW call \in calls, AnswerArrives(call) PROVE LifeGoesOn
  <2>1. call[2] \in FlowEvents
    BY <1>0
  <2> QED
    BY <1>3, <2>1, AdvancesLives DEF AnswerArrives
<1>4. CASE ReleaseChildReturns
  BY <1>0, <1>4, AdvancesLives DEF ReleaseChildReturns
<1>5. ASSUME NEW kind \in ChildKinds, ReleaseChildSaves(kind) PROVE LifeGoesOn
  <2>0. /\ kind \in Kinds /\ childMem # None /\ childMem \in Journals
        /\ file = None => childMem.op \in outlived
        /\ UNCHANGED <<used, outlived>>
    BY <1>5 DEF ReleaseChildSaves, ChildKinds, Kinds, SleepInv, SleepTyped, CarriedIsKnown,
                OnFile
  <2>1. CASE /\ MayAppend(childMem, <<kind>>) /\ Accepts(file, childMem)
             /\ file' = WithKinds(childMem, <<kind>>)
    <3>1. /\ file = None \/ file = childMem
          /\ ~Ended(childMem)
      BY <2>0, <2>1 DEF Accepts, MayAppend
    <3>2. file' # None /\ file'.op = childMem.op
      BY <2>0, <2>1, AppendingOne, NoneAssumption
    <3> QED
      BY <2>0, <3>1, <3>2 DEF LifeGoesOn
  <2>2. CASE file' = file
    BY <2>0, <2>2 DEF LifeGoesOn
  <2> QED
    BY <1>5, <2>1, <2>2 DEF ReleaseChildSaves
<1>6. CASE RecoverSleep
  <2>1. file' = file \/ \E verified \in {FALSE, egpu = "absent"} :
          /\ file # None /\ ~Ended(file)
          /\ file' = WithKinds(file, RecoveryKinds(verified))
    BY <1>6 DEF RecoverSleep, RecoveryEnds
  <2>2. ASSUME NEW v, file # None, file' = WithKinds(file, RecoveryKinds(v))
        PROVE  file' # None /\ file'.op = file.op
    BY <2>2, RecoveryAppends, Appending, NoneAssumption DEF SleepInv, SleepTyped
  <2> QED
    BY <1>6, <2>1, <2>2 DEF RecoverSleep, LifeGoesOn
<1>7. CASE AcknowledgeSleep
  BY <1>7 DEF AcknowledgeSleep, LifeGoesOn
<1> QED
  BY <1>1, <1>2, <1>3, <1>4, <1>5, <1>6, <1>7 DEF ServiceStep, SleepServiceNext

\* What is on file behaves as operations opened once, ended once and gone for good
\* when acknowledged, but for those acknowledged while their release child was at
\* work: the shared journal implements OperationLifecycle.
THEOREM SleepOperationsLiveOnce == SystemSpec => OperationsLiveOnce
<1> DEFINE current == ShownOp
           over == ShownOver
<1>1. SystemInit => Lifecycle!LifecycleInit
  BY DEF SystemInit, SleepInit, SleepOnFile, ShownOp, ShownOver, Lifecycle!LifecycleInit
<1>2. SleepInv /\ SleepInv' /\ [SystemNext]_systemVars =>
        [Lifecycle!LifecycleNext]_(Lifecycle!lifecycleVars)
  <2> SUFFICES ASSUME SleepInv, SleepInv', [SystemNext]_systemVars
               PROVE  [Lifecycle!LifecycleNext]_(Lifecycle!lifecycleVars)
    OBVIOUS
  <2>1. LifeGoesOn \/ \E op \in SleepOps : Request(op)
    <3>1. CASE UNCHANGED systemVars
      BY <3>1 DEF systemVars, sleepVars, serviceVars, LifeGoesOn
    <3>2. CASE SystemNext
      BY <3>2, ChildrenLive, ServiceLives DEF SystemNext
    <3> QED
      BY <3>1, <3>2
  <2>2. /\ SleepOnFile = (file # None) /\ SleepOnFile' = (file' # None)
        /\ file # None => file.op # None
    BY SleepAssumption DEF SleepOnFile, SleepInv, SleepTyped, Requested, OnFile, Journals
  <2>3. /\ current = IF file # None THEN file.op ELSE None
        /\ current' = IF file' # None THEN file'.op ELSE None
        /\ over \in BOOLEAN /\ over' \in BOOLEAN
        /\ over <=> file # None /\ Ended(file)
        /\ over' <=> file' # None /\ Ended(file')
    <3>1. \A j : Ended(j) \in BOOLEAN
      BY SMT DEF Ended
    <3>2. Ended(file)' = Ended(file')
      BY Zenon DEF Ended
    <3>3. over \in BOOLEAN /\ (over <=> file # None /\ Ended(file))
      BY <2>2, <3>1, Zenon DEF ShownOver
    <3>4. over' \in BOOLEAN /\ (over' <=> file' # None /\ Ended(file'))
      BY <2>2, <3>1, <3>2, Zenon DEF ShownOver
    <3> QED
      BY <2>2, <3>3, <3>4 DEF ShownOp
  <2> HIDE DEF current, over
  <2>4. CASE LifeGoesOn
    <3>1. CASE file' = file /\ outlived' = outlived
      <4>1. current' = current /\ over' = over /\ used' = used
        BY <2>3, <2>4, <3>1 DEF LifeGoesOn, Ended
      <4> QED
        BY <3>1, <4>1 DEF Lifecycle!lifecycleVars, current, over
    <3>2. CASE /\ outlived' = outlived
               /\ file # None /\ ~Ended(file) /\ file' # None /\ file'.op = file.op
      <4>1. current # None /\ ~over /\ current' = current /\ used' = used
        BY <2>2, <2>3, <2>4, <3>2 DEF LifeGoesOn
      <4>2. CASE over'
        <5>1. over' = TRUE
          BY <2>3, <4>2
        <5>2. Lifecycle!End
          BY <3>2, <4>1, <5>1 DEF Lifecycle!End, current, over
        <5> QED
          BY <5>2 DEF Lifecycle!LifecycleNext
      <4>3. CASE ~over'
        <5>1. over' = over
          BY <2>3, <4>1, <4>3, Zenon
        <5> QED
          BY <3>2, <4>1, <5>1 DEF Lifecycle!lifecycleVars, current, over
      <4> QED
        BY <4>2, <4>3
    <3>3. CASE outlived' = outlived /\ file = None /\ file' # None /\ file'.op \in outlived
      <4>1. /\ current = None /\ current' = file'.op /\ over' \in BOOLEAN /\ used' = used
            /\ file'.op \in SleepOps
        BY <2>3, <2>4, <3>3 DEF LifeGoesOn, SleepInv, SleepTyped, Requested, OnFile
      <4>2. Lifecycle!ComesBack(file'.op)
        BY <3>3, <4>1 DEF Lifecycle!ComesBack, current, over
      <4> QED
        BY <4>1, <4>2 DEF Lifecycle!LifecycleNext
    <3>4. CASE /\ file # None /\ Ended(file) /\ file' = None
               /\ outlived' \in {outlived, outlived \cup {file.op}}
      <4>1. /\ over /\ current' = None /\ over' = FALSE /\ used' = used
            /\ outlived' \in {outlived, outlived \cup {current}}
        BY <2>3, <2>4, <3>4 DEF LifeGoesOn
      <4>2. Lifecycle!Forget
        BY <4>1 DEF Lifecycle!Forget, current, over
      <4> QED
        BY <4>2 DEF Lifecycle!LifecycleNext
    <3> QED
      BY <2>4, <3>1, <3>2, <3>3, <3>4 DEF LifeGoesOn
  <2>5. ASSUME NEW op \in SleepOps, Request(op)
        PROVE  [Lifecycle!LifecycleNext]_(Lifecycle!lifecycleVars)
    <3>1. file = None /\ op \notin used /\ used' = used \cup {op} /\ outlived' = outlived
      BY <2>5 DEF Request
    <3>2. file' # None /\ file'.op = op
      BY <2>5, RequestOpens
    <3>3. current = None /\ current' = op /\ over' \in BOOLEAN
      BY <2>3, <3>1, <3>2
    <3>4. Lifecycle!OpenOnce(op)
      BY <3>1, <3>3 DEF Lifecycle!OpenOnce, current, over
    <3> QED
      BY <3>4 DEF Lifecycle!LifecycleNext
  <2> QED
    BY <2>1, <2>4, <2>5
<1> QED
  BY <1>1, <1>2, SleepInvariant, PTL DEF SystemSpec, OperationsLiveOnce, Lifecycle!LifecycleSpec
================================================================================
