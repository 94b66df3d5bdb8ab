---------------------------- MODULE MCTapeEngine ----------------------------
(***************************************************************************)
(* TapeEngine for TLC: files that are longer than the ring, of even and    *)
(* odd length.  Its constants and variables have names here that           *)
(* StreamDeck's do not have, so that one module can speak of both.         *)
(***************************************************************************)
EXTENDS Integers, Sequences

CONSTANTS ReelCap, Lengths, Floor, MaxTurns

VARIABLES tape, reel, turn, panel, play

T == INSTANCE TapeEngine WITH RingCap <- ReelCap, deck <- reel, at <- turn, past <- play

ASSUME TapeParameters == T!TapeAssumption

TapeSpec == T!FairSpec

-----------------------------------------------------------------------------
(* The properties of TapeEngine.                                           *)

\* Engine and stream agree on where the seam of the loop is and on the passes it
\* has been faded by (ShapeFollowsTape).
ShapeFollowsTape == T!ShapeFollowsTape

\* A play that has no loop, or one that fades out, ends (TapesEnd).
TapesEnd == T!TapesEnd
=============================================================================
