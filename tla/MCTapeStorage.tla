--------------------------- MODULE MCTapeStorage ---------------------------
(***************************************************************************)
(* TapeStorage for TLC, in two settings.  "calm" has the constants of the  *)
(* cfg: a user who lets one deck finish before using the other, and a card *)
(* that never fails.  "rough" is both decks and the boot at once, on a     *)
(* card that may refuse any call, under the fairness of TapeStorage.       *)
(***************************************************************************)
EXTENDS TapeStorage

\* The setting, chosen once and for all.
VARIABLE setting

Rough == INSTANCE TapeStorage WITH
    NTapes <- 1, NSlots <- 1, Chunks <- 1, BootTries <- 2, OpenTries <- 5,
    PreloadOn <- TRUE, Faults <- TRUE, Full <- FALSE, Waits <- {}, MaxOps <- 3

Calm(A) == setting = "calm" /\ A
InRough(A) == setting = "rough" /\ A

MCInit == Calm(Init) \/ InRough(Rough!Init)
MCNext == UNCHANGED setting /\ (Calm(Next) \/ InRough(Rough!Next))
MCVars == <<vars, setting>>

MCSpec ==
    /\ MCInit /\ [][MCNext]_MCVars
    /\ WF_MCVars(InRough(Rough!Process) /\ UNCHANGED setting)
    /\ SF_MCVars(/\ InRough(\/ Rough!Recognize \/ Rough!MountAndActivate
                            \/ Rough!MountFails \/ Rough!GiveUpOpening)
                 /\ UNCHANGED setting)

-----------------------------------------------------------------------------
(* The properties of TapeStorage, each in the setting it is meant for.     *)

\* Types, and the card serves the deck that uses it (Consistent).
StorageConsistent ==
    (setting = "calm" => Consistent) /\ (setting = "rough" => Rough!TypeOK)

\* What a deck shows of its tape is what the card holds, and the settings name what
\* the decks used last (SlotsFresh, MemIsLastUsed).
ShownIsThere == setting = "calm" => SlotsFresh /\ MemIsLastUsed

\* No deck is left with a part of a file (BufferIsWhole).
BuffersWhole == setting = "calm" => BufferIsWhole

\* A load or a save is ended by nothing but its own end (OperationsComplete).
NothingCutShort == [][setting = "calm" => EndedByItself]_MCVars

\* Every load and every save comes to an end (OperationEnds), and so do an
\* opening (OpeningEnds) and the boot (PreloadEnds).
OperationsEnd ==
    /\ \A d \in 0..1 :
           InRough(deck[d].state \in {"loading", "saving", "error"}) ~>
               InRough(deck[d].state \in {"idle", "selecting"})
    /\ InRough(opening # Rough!None) ~> InRough(opening = Rough!None)
    /\ InRough(TRUE) ~>
           InRough(preload.at = "done" \/ \E d \in 0..1 : Rough!Selecting(d))
=============================================================================
