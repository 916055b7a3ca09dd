--------------------------- MODULE JournalRegister ---------------------------
(***************************************************************************)
(* What docs and docstring promise of the one fixed journal file: it holds *)
(* nothing or one operation; a new operation starts only where there is    *)
(* none; the history of the stored operation only grows, never past a      *)
(* terminal event; and only a terminal operation is ever removed.          *)
(***************************************************************************)
EXTENDS TransitionJournal

CONSTANTS Operations, None

VARIABLE journal

Open == /\ journal = None
        /\ \E op \in Operations : journal' = Opened(op)

Grow == /\ journal # None
        /\ ~Terminal(journal)
        /\ \E kind \in AllowedNext[LastKind(journal)] :
             /\ CanAppend(journal, kind)
             /\ journal' = Appended(journal, kind)

Clear == /\ journal # None
         /\ Terminal(journal)
         /\ journal' = None

RegisterInit == journal = None

RegisterNext == Open \/ Grow \/ Clear

RegisterSpec == RegisterInit /\ [][RegisterNext]_journal
=============================================================================
