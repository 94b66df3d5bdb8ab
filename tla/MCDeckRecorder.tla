--------------------------- MODULE MCDeckRecorder ---------------------------
(***************************************************************************)
(* DeckRecorder for TLC, in two settings: "free" has the constants of the  *)
(* cfg, every handler and loads of three lengths; "clocked" leaves out the *)
(* card, the mode switch and two pads in one scan, and is fair.            *)
(***************************************************************************)
EXTENDS DeckRecorder

\* The setting, chosen once and for all.
VARIABLE setting

Calm == INSTANCE DeckRecorder WITH SameScan <- FALSE, Switching <- FALSE, Loads <- {}

Free(A) == setting = "free" /\ A
Clockwork(A) == setting = "clocked" /\ A

MCInit == Free(Init) \/ Clockwork(Calm!Init)
MCNext == UNCHANGED setting /\ (Free(Next) \/ Clockwork(Calm!Next))
MCVars == <<vars, setting>>

MCSpec ==
    /\ MCInit /\ [][MCNext]_MCVars
    /\ WF_MCVars(Clockwork(\E loud \in BOOLEAN : Calm!Interrupt(TRUE, TRUE, loud))
                 /\ UNCHANGED setting)

-----------------------------------------------------------------------------
(* LoopClosed, TakeIsOneRun, HeadReturns and OverdubKeepsLength hold in    *)
(* both settings, those below in "clocked".                                *)

\* Types; and the fade of a record that is switched on and off stays in its
\* table (TypeOK, FadeInTable).
FadesInTable == TypeOK /\ (Clockwork(TRUE) => FadeInTable)

\* The clock ends a record that was disarmed, and starts a play that waits
\* for it (DisarmedEnds, PlayStarts).
ClockActs ==
    /\ Clockwork(Recording(buf) /\ ~deck.armed) ~> Clockwork(~Recording(buf) \/ deck.armed)
    /\ Clockwork(deck.playQueued) ~> Clockwork(~deck.playQueued)
=============================================================================
