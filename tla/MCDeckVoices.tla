---------------------------- MODULE MCDeckVoices ----------------------------
(***************************************************************************)
(* DeckVoices for TLC, in four settings: "modes" has the constants of the  *)
(* cfg, two voices, every mode and a recorded sequence; "free" has no      *)
(* Slice, the mode in which the clock starts the loop; "waiting" switches  *)
(* between Slice and Drift, under fairness; "three" has the code's three   *)
(* voices, in Slice, whose notes may be held or not, and a bound on the    *)
(* calls of the main loop.  Each is an instance of DeckVoices, so that     *)
(* this module can be extended beside that of another component.           *)
(***************************************************************************)
EXTENDS Integers

CONSTANTS N, Modes, Sequenced, Torn,
          MaxCalls        \* a bound on the calls of the main loop, with three voices
VARIABLES vox, deck, main,
          scene,          \* the setting, chosen once and for all
          calls           \* of the main loop, so far, with three voices

V == INSTANCE DeckVoices
NoSlice == INSTANCE DeckVoices WITH Modes <- {"Reel", "Drift"}
Pair == INSTANCE DeckVoices WITH N <- 2, Modes <- {"Slice", "Drift"}, Sequenced <- FALSE
Three == INSTANCE DeckVoices WITH N <- 3, Modes <- {"Slice"}, Sequenced <- FALSE

ASSUME Parameters == V!VoicesAssumption /\ MaxCalls \in Nat

All(A) == scene = "modes" /\ A
Free(A) == scene = "free" /\ A
Waiting(A) == scene = "waiting" /\ A
ThreeVoices(A) == scene = "three" /\ A

\* A call begins when the main loop leaves its idling.
Counted ==
    /\ calls' = IF main.pc = "idle" /\ main'.pc # "idle" THEN calls + 1 ELSE calls
    /\ calls' <= MaxCalls

VoicesInit ==
    /\ calls = 0
    /\ All(V!Init) \/ Free(NoSlice!Init) \/ Waiting(Pair!Init) \/ ThreeVoices(Three!Init)
VoicesNext ==
    /\ UNCHANGED scene
    /\ \/ UNCHANGED calls /\ (All(V!Next) \/ Free(NoSlice!Next) \/ Waiting(Pair!Next))
       \/ ThreeVoices(Three!Next) /\ Counted
VoicesVars == <<vox, deck, main, scene, calls>>

\* The frame of two voices in which every phase ends, Pair!Frame of a constant
\* TRUE, voice by voice: the form TLC evaluates without repeating itself.
EndingFrame ==
    /\ UNCHANGED main
    /\ \E y \in {Pair!Processed([s |-> vox, deck |-> deck], 0, TRUE)} :
          \E z \in {Pair!Processed(y, 1, TRUE)} : vox' = z.s /\ deck' = z.deck
    /\ Pair!Calm

VoicesSpec == /\ VoicesInit /\ [][VoicesNext]_VoicesVars
              /\ WF_VoicesVars(Waiting(EndingFrame) /\ UNCHANGED <<scene, calls>>)

-----------------------------------------------------------------------------
(* The properties of DeckVoices, each in the setting it is meant for.      *)

\* The voices are handed round, and the one to be released is released by
\* all_off as well (TypeOK, QueueHoldsAll, HeldIsActive, SoundingPlays);
\* without Slice, a playing deck that has no sequence loops on (LoopsOn).
VoicesConsistent ==
    /\ scene = "modes" => V!TypeOK /\ V!QueueHoldsAll /\ V!HeldIsActive /\ V!SoundingPlays
    /\ scene = "free" => V!LoopsOn
    /\ scene = "three" => Three!QueueHoldsAll /\ Three!HeldIsActive /\ Three!SoundingPlays

\* A switch to Drift that waits for silence comes about (SwitchHappens).
SwitchesHappen == Waiting(Pair!Switching) ~> Waiting(~Pair!Switching \/ Pair!At("turn"))
=============================================================================
