------------------------------ MODULE MCSoftcut ------------------------------
(***************************************************************************)
(* Softcut for TLC, in three settings: "pads" has the constants of the     *)
(* cfg, both voices in use on a deck that is up; "boot" has the preload    *)
(* going on while the panel is used; "erase" has it while the player picks *)
(* slots, erases and swaps the voices.  In one slot there is a file that   *)
(* is longer than a voice, or one that just fits.  Constants and variables *)
(* have names here that StreamDeck's do not have, so that one module can   *)
(* speak of both.                                                          *)
(***************************************************************************)
EXTENDS Integers

CONSTANTS Cap, Read, Clips, Preload, Hands, Torn, MaxPads

VARIABLES voice, looper, stream, card, place, pads, story,
          session         \* the setting, chosen once and for all

S == INSTANCE Softcut WITH RingCap <- Read, deck <- looper, at <- place, past <- story

ASSUME SoftcutParameters == S!SoftcutAssumption

TwoClips == [k \in {0, 1} |-> IF k = 0 THEN Cap + 1 ELSE 1]

Booting == INSTANCE Softcut WITH
    RingCap <- Read, deck <- looper, at <- place, past <- story,
    Preload <- TRUE, Hands <- {"record", "trim"}, MaxPads <- 4

Erasing == INSTANCE Softcut WITH
    RingCap <- Read, deck <- looper, at <- place, past <- story,
    Clips <- [k \in {0, 1} |-> IF k = 0 THEN Cap ELSE 1],
    Preload <- TRUE, Hands <- {"rev"}, MaxPads <- 6

Pads(A) == session = "pads" /\ A
Boot(A) == session = "boot" /\ A
Erase(A) == session = "erase" /\ A

LooperInit == Pads(S!Init) \/ Boot(Booting!Init) \/ Erase(Erasing!Init)
LooperNext == UNCHANGED session /\ (Pads(S!Next) \/ Boot(Booting!Next) \/ Erase(Erasing!Next))
LooperVars == <<S!vars, session>>

LooperSpec == /\ LooperInit /\ [][LooperNext]_LooperVars
              /\ WF_place(place' = S!After)
              /\ WF_LooperVars(S!AnyInterrupt /\ UNCHANGED session)
              /\ WF_LooperVars(S!FallDue /\ UNCHANGED session)

-----------------------------------------------------------------------------
(* The properties of Softcut, in every setting.                            *)

\* None of those who share the stream stops the file of another (StreamIsOwned).
StreamIsOwned == S!StreamIsOwned

\* What a voice gets from the card is its file, and what the card gets is the whole
\* window of the voice (LoadIsFile, SaveIsWhole).
TransfersWhole == S!LoadIsFile /\ S!SaveIsWhole

\* Loads, saves and taps that wait come to an end (TransfersEnd).
TransfersEnd == S!TransfersEnd
=============================================================================
