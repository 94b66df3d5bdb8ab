----------------------------- MODULE TapeEngine -----------------------------
(***************************************************************************)
(* One deck of the streaming tape player (engine/tape): Play and Alt+Play  *)
(* toggle a play and a take, ENV picks the loop mode, prepare() tells the  *)
(* stream of the mode and stops a loop that has faded out, and the audio   *)
(* interrupt, which may come between any two steps, pulls frames, counts   *)
(* where in the loop it is and how often the loop has come round.          *)
(*                                                                         *)
(* Of the stream (StreamDeck) the parts that are used are kept, with its   *)
(* pump in one step.  A frame is its place in its file.  A slot is the     *)
(* length of the file in it; the slots' display, gains, pans, effects and  *)
(* the phase between two frames are left out.                              *)
(***************************************************************************)
EXTENDS Integers, Sequences, SequencesExt

CONSTANTS RingCap,   \* the deck's ring, in frames
          Lengths,   \* the files there may be in a slot
          Floor,     \* passes until 0.6^passes is below kFrippFloor
          MaxTurns   \* bound: what the panel does

TapeAssumption ==
    /\ {RingCap, Floor} \subseteq Nat \ {0} /\ MaxTurns \in Nat
    /\ Lengths \subseteq Nat /\ \A l \in Lengths : l >= 3

Modes  == {"none", "plain", "faded", "fripp"}
Shaped == {"faded", "fripp"}
Silence == -1

VARIABLES tape,   \* _loop_mode, _primed, _cur, _next, _src_pos, _want_stop, and _loop_gain
                  \* as the number of passes that have faded it, Floor for 0
          deck,   \* the stream: mode, finalizing, the loop flag, the EOF latch, the ring, the
                  \* length of the file and how much of this pass of it has been read
          at,     \* where the main loop is
          panel,  \* how often it was used, and whether a pad was in this pass
          past    \* history of this play: whether it was primed, whether since then the mode
                  \* has counted frames and none was missed, whether it was Frippertronics
                  \* all the time, the passes pulled, and whether it has faded out

vars == <<tape, deck, at, panel, past>>

-----------------------------------------------------------------------------
(* The stream.                                                             *)

Playing   == deck.mode = "play"
Recording == deck.mode = "record"

Stopped(d) == [d EXCEPT !.mode = "idle", !.finalizing = @ \/ d.mode = "record"]

Started(d, l) == [d EXCEPT !.mode = "play", !.length = l, !.read = 0, !.ring = <<>>, !.eof = FALSE]

\* The frames of the file from the k-th on, n of them, round and round.
FramesFrom(d, k, n) == [i \in 1 .. n |-> (k + i - 1) % d.length]

\* process(): the ring is filled, over the end of the file if the loop is on; a
\* take's tail is flushed.
Pumped(d) ==
    LET room == RingCap - Len(d.ring)
        left == d.length - d.read
        n == IF d.looping \/ room <= left THEN room ELSE left
        full == [d EXCEPT !.ring = @ \o FramesFrom(d, d.read, n),
                          !.read = IF n <= left THEN @ + n ELSE ((@ + n - 1) % d.length) + 1,
                          !.eof = n < room]
    IN  CASE d.mode = "play" /\ ~d.eof ->
                 IF full.eof /\ full.ring = <<>> THEN [full EXCEPT !.mode = "idle"] ELSE full
          [] d.mode = "play" /\ d.eof ->
                 IF d.ring = <<>> THEN [d EXCEPT !.mode = "idle"] ELSE d
          [] OTHER -> [d EXCEPT !.finalizing = FALSE]

-----------------------------------------------------------------------------
(* The interrupt.                                                          *)

Here == [tape |-> tape, deck |-> deck, past |-> past]

\* _pull: a frame, or silence.
Pulled(z) == IF z.deck.ring = <<>> THEN Silence ELSE Head(z.deck.ring)
Left(z) == [z EXCEPT !.deck.ring = IF @ = <<>> THEN @ ELSE Tail(@),
                     !.past.steady = @ /\ z.deck.ring # <<>>,
                     !.past.passes = IF Pulled(z) = z.deck.length - 1 /\ @ < Floor
                                     THEN @ + 1 ELSE @]

Begun(z) == [z EXCEPT !.past = [primed |-> TRUE, steady |-> z.tape.loop \in Shaped,
                                fripp |-> z.tape.loop = "fripp", passes |-> 0, ended |-> FALSE]]

\* Mutant of Primed: the position is that of the frame that is heard.
PrimedAtCur(z) ==
    LET y == Begun(z)
    IN  [Left(Left(y)) EXCEPT
           !.tape.cur = Pulled(y), !.tape.next = Pulled(Left(y)), !.tape.primed = TRUE,
           !.tape.pos = 0, !.tape.faded = 0]

\* The first two frames of a play.
Primed(z) ==
    LET y == Begun(z)
    IN  [Left(Left(y)) EXCEPT
           !.tape.cur = Pulled(y), !.tape.next = Pulled(Left(y)), !.tape.primed = TRUE,
           !.tape.pos = 2, !.tape.faded = 0]

\* Mutant of Quieter: the last pass only turns the loop down.
QuieterOnly(t) == [t EXCEPT !.faded = IF @ < Floor THEN @ + 1 ELSE @]

\* A pass of a Frippertronics loop is over.
Quieter(t) == [t EXCEPT !.faded = IF @ < Floor THEN @ + 1 ELSE @,
                        !.want = @ \/ t.faded + 1 >= Floor]

\* One frame on.
Advanced(z) ==
    LET y == [Left(z) EXCEPT !.tape.cur = z.tape.next, !.tape.next = Pulled(z)]
        round == z.tape.pos + 1 >= z.deck.length
    IN  IF z.tape.loop \notin Shaped THEN y
        ELSE IF ~round THEN [y EXCEPT !.tape.pos = @ + 1]
        ELSE LET top == [y EXCEPT !.tape.pos = 0]
             IN  IF z.tape.loop # "fripp" THEN top
                 ELSE [top EXCEPT !.tape = Quieter(@), !.past.ended = @ \/ z.tape.faded + 1 >= Floor]

Rendered(z, frames) ==
    LET y == IF z.tape.primed THEN z ELSE Primed(z)
    IN  CASE frames = 0 -> y
          [] frames = 1 -> Advanced(y)
          [] frames = 2 -> Advanced(Advanced(y))

(* _render_deck for one sample: the speed lies between a half and two      *)
(* frames a sample.                                                        *)
Interrupt(frames) ==
    LET z == IF Playing THEN Rendered(Here, frames) ELSE [Here EXCEPT !.tape.primed = FALSE]
    IN  /\ tape' = z.tape /\ deck' = z.deck /\ past' = z.past
        /\ UNCHANGED <<at, panel>>

-----------------------------------------------------------------------------
(* The panel, served by the main loop before prepare().                    *)

Used == at = "panel" /\ panel.used < MaxTurns /\ UNCHANGED at

(* Play, and Alt+Play: _toggle, which drops a press within the debounce    *)
(* time of the last one; so there is at most one in a pass.                *)
Press == Used /\ ~panel.pressed /\ panel' = [used |-> panel.used + 1, pressed |-> TRUE]

PlayPad ==
    /\ Press /\ UNCHANGED tape
    /\ \/ Playing /\ deck' = Stopped(deck) /\ UNCHANGED past
       \/ /\ deck.mode = "idle" /\ ~deck.finalizing
          /\ \E l \in Lengths : deck' = Started(deck, l)
          /\ past' = [past EXCEPT !.primed = FALSE, !.steady = FALSE, !.ended = FALSE]

RecordPad ==
    /\ Press /\ UNCHANGED <<tape, past>>
    /\ \/ Recording /\ deck' = Stopped(deck)
       \/ deck.mode = "idle" /\ ~deck.finalizing /\ deck' = [deck EXCEPT !.mode = "record"]

(* ENV is turned to another quarter: set_param.                            *)
TurnEnv(m) ==
    /\ Used /\ m # tape.loop /\ panel' = [panel EXCEPT !.used = @ + 1]
    /\ tape' = [tape EXCEPT !.loop = m]
    /\ past' = [past EXCEPT !.steady = @ /\ m \in Shaped, !.fripp = FALSE]
    /\ UNCHANGED deck

-----------------------------------------------------------------------------
(* prepare() and the stream's process().                                   *)

PanelDone ==
    /\ at = "panel" /\ at' = "loop"
    /\ panel' = [panel EXCEPT !.pressed = FALSE]
    /\ UNCHANGED <<tape, deck, past>>

SetLoop ==
    /\ at = "loop" /\ at' = "want"
    /\ deck' = [deck EXCEPT !.looping = tape.loop # "none"]
    /\ UNCHANGED <<tape, panel, past>>

WantStop ==
    /\ at = "want" /\ at' = IF tape.want THEN "stop" ELSE "pump"
    /\ tape' = [tape EXCEPT !.want = FALSE]
    /\ UNCHANGED <<deck, panel, past>>

StopWanted ==
    /\ at = "stop" /\ at' = "pump"
    /\ deck' = Stopped(deck)
    /\ UNCHANGED <<tape, panel, past>>

Pump ==
    /\ at = "pump" /\ at' = "panel"
    /\ deck' = Pumped(deck)
    /\ UNCHANGED <<tape, panel, past>>

MainLoop == PanelDone \/ SetLoop \/ WantStop \/ StopWanted \/ Pump

-----------------------------------------------------------------------------

Init ==
    /\ tape = [loop |-> "none", primed |-> FALSE, cur |-> Silence, next |-> Silence, pos |-> 0,
               faded |-> 0, want |-> FALSE]
    /\ deck = [mode |-> "idle", finalizing |-> FALSE, looping |-> FALSE, eof |-> FALSE,
               ring |-> <<>>, length |-> 0, read |-> 0]
    /\ at = "panel" /\ panel = [used |-> 0, pressed |-> FALSE]
    /\ past = [steady |-> FALSE, fripp |-> FALSE, passes |-> 0, ended |-> FALSE, primed |-> FALSE]

Next == \/ MainLoop
        \/ \E frames \in 0 .. 2 : Interrupt(frames)
        \/ PlayPad \/ RecordPad
        \/ \E m \in Modes : TurnEnv(m)

Spec == Init /\ [][Next]_vars

\* The main loop goes on, and so does the audio, by a frame and more.
Moves == \E frames \in 1 .. 2 : Interrupt(frames)
FairSpec == Spec /\ WF_vars(MainLoop) /\ WF_vars(Moves)

-----------------------------------------------------------------------------

TapeType ==
    /\ tape.loop \in Modes /\ tape.pos \in Nat /\ tape.faded \in 0 .. Floor
    /\ deck.mode \in {"idle", "play", "record"} /\ Len(deck.ring) <= RingCap
    /\ deck.read \in 0 .. deck.length

\* The frame that is pulled next.
NextFrame == IF deck.ring # <<>> THEN Head(deck.ring) ELSE deck.read % deck.length

(* Engine and stream each count the loop for themselves: as long as no     *)
(* frame was missed, they agree on where its seam is, and on how many      *)
(* passes a Frippertronics loop has been faded by (_render_deck, _pump).   *)
ShapeFollowsTape ==
    /\ TapeType
    /\ Playing /\ past.steady =>
        /\ tape.pos = NextFrame
        /\ past.fripp => tape.faded = past.passes

(* tape.md:86 and :89: without a loop a play ends with its file, and a     *)
(* Frippertronics loop "auto-stops".                                       *)
TapesEnd == []<>(~Playing \/ tape.loop \in {"plain", "faded"})

(* tape-impl.md:67: "A faded-out Frippertronics deck is flagged from the   *)
(* ISR and stop()-ped in prepare()": the play that is stopped has faded.   *)
StopsItsPlay == [][at = "stop" /\ Playing /\ deck'.mode = "idle" => past.ended]_vars

(* tape_engine.cpp:323, "re-prime the resampler next time playback         *)
(* starts": a play does not go on with the frames of the one before it.    *)
PlayIsPrimed == Playing /\ tape.primed => past.primed

(* tape.md:88: "a ~50 ms fade across the loop boundary".                   *)
FadeOnSeam ==
    Playing /\ tape.primed /\ tape.loop = "faded" => tape.pos = NextFrame
=============================================================================
