---------------------------- MODULE DeckRecorder ----------------------------
(***************************************************************************)
(* Recording and playing of a granular deck (engine/granular/deck.cpp)     *)
(* over its loop buffer: the pads, MIDI and the card work on it from the   *)
(* main loop, the clock and the audio from the interrupt.                  *)
(*                                                                         *)
(* Slice records and plays on the clock; Reel and Drift are free of it and *)
(* record from the moment the Detector hears something.  The sequence of   *)
(* the deck (StepTrack) is taken to be empty and its voices (DeckVoices)   *)
(* are only seen by the read head, which they move.                        *)
(*                                                                         *)
(* An interrupt is one step, with one tick and one frame.  The main loop   *)
(* empties the buffer and gives it a length store by store, and the        *)
(* interrupt may come between any two; its other handlers are one step.    *)
(* Detector keeps 10 ms of input: it is off, listening, open, or still     *)
(* emptying its window ("closing").                                        *)
(***************************************************************************)
EXTENDS LoopBuffer

CONSTANTS SameScan,    \* two pads may be touched in one scan of the pads
          Switching,   \* the mode switch is turned
          Loads        \* lengths of the takes the card brings

ASSUME LoadsAssumption == Loads \subseteq 0 .. Cap

VARIABLES buf,   \* _buffer
          det,   \* _detector
          deck,  \* the flags of Deck
          heard, \* an interrupt has come since the pads were last scanned
          call,  \* the next store of the main loop's call, and whether it arms
          past   \* torn: an interrupt came into the last clear and changed the
                 \* buffer; frames: how many the open take under way has had

vars == <<buf, det, deck, heard, call, past>>

None == [at |-> "no", arming |-> FALSE]
Clearing == {"write", "read", "size", "cut", "state"}

Overdubbing(d, b) == d.playing /\ Recording(b)

-----------------------------------------------------------------------------
(* Detector::set_armed.                                                    *)

Listen(t) == IF t \in {"listening", "open"} THEN t ELSE "listening"
Deafen(t) == CASE t = "open" -> "closing" [] t = "listening" -> "off" [] OTHER -> t

-----------------------------------------------------------------------------
(* Deck's handlers, as steps of <<buf, det, deck>>.                        *)

Becomes(b, t, d) == buf' = b /\ det' = t /\ deck' = d /\ UNCHANGED call

\* What a step of n frames adds to the past.
Passes(torn, n) ==
    past' = [torn   |-> torn,
             frames |-> IF Open(buf') THEN (IF Open(buf) THEN past.frames ELSE 0) + n ELSE 0]

\* Deck::_set_buf_armed(false).
Disarmed == [buf  |-> IF deck.slice THEN buf ELSE RecordOff(buf),
             det  |-> IF deck.slice THEN det ELSE Deafen(det),
             deck |-> [deck EXCEPT !.armed = FALSE]]

\* Deck::_set_buf_armed(true), and what follows the clear.
Arm == /\ deck' = [deck EXCEPT !.armed = TRUE]
       /\ call' = [at |-> "write", arming |-> TRUE]
       /\ UNCHANGED <<buf, det>>

Armed == /\ call.at = "arm" /\ call' = None
         /\ det' = IF deck.slice THEN det ELSE Listen(det)
         /\ deck' = [deck EXCEPT !.recordQueued = deck.slice \/ @]
         /\ UNCHANGED <<buf, heard>> /\ Passes(past.torn, 0)

\* Buffer::clear and Buffer::set_rec_size.
ClearStore ==
    /\ call.at \in Clearing
    /\ buf' = Zeroed(buf, call.at)
    /\ call' = CASE call.at = "write" -> [call EXCEPT !.at = "read"]
                 [] call.at = "read"  -> [call EXCEPT !.at = "size"]
                 [] call.at = "size"  -> [call EXCEPT !.at = "cut"]
                 [] call.at = "cut"   -> [call EXCEPT !.at = "state"]
                 [] call.at = "state" -> IF call.arming THEN [call EXCEPT !.at = "arm"] ELSE None
    /\ Passes(call.at # "write" /\ past.torn, 0) /\ UNCHANGED <<det, deck, heard>>

Sized == /\ call.at = "sized" /\ call' = None
         /\ buf' = Cut(buf) /\ Passes(past.torn, 0) /\ UNCHANGED <<det, deck, heard>>

\* Mutant of Played: the queue is left as it is.
PlayedAgain(d) == [d EXCEPT !.playing = TRUE]

\* Deck::play and Deck::stop.
Played(d)  == [d EXCEPT !.playing = TRUE, !.playQueued = FALSE]
Stopped(d) == [d EXCEPT !.playing = FALSE]

\* Deck::toggle_play.
Toggled(d, b) == IF d.playing THEN Stopped(d)
                 ELSE IF b.size = 0 THEN d
                 ELSE IF d.slice THEN [d EXCEPT !.playQueued = TRUE]
                 ELSE Played(d)

Pad == (SameScan \/ heard) /\ heard' = FALSE

(* Alt+Play and Alt+Reverse: Deck::toggle_recording.                       *)
RecordPad ==
    /\ Pad
    /\ \/ /\ Overdubbing(deck, buf)
          /\ Becomes(Disarmed.buf, Disarmed.det, Disarmed.deck)
       \/ /\ deck.playing /\ ~Recording(buf)
          /\ Becomes(IF deck.slice THEN buf ELSE RecordOn(buf), det,
                     [deck EXCEPT !.armed = TRUE, !.recordQueued = deck.slice \/ @])
       \/ /\ ~deck.playing /\ Recording(buf)
          /\ deck' = [deck EXCEPT !.recordQueued = deck.slice \/ @,
                                  !.cutQueued = ~deck.slice \/ @]
          /\ UNCHANGED <<buf, det, call>>
       \/ /\ ~deck.playing /\ ~Recording(buf) /\ ~deck.armed
          /\ Arm

(* Play and Reverse: GranularEngine::on_play_pad.  The pad of the          *)
(* direction the deck does not play in only turns a playing deck round.    *)
PlayPad(sameWay) ==
    LET z == Disarmed
    IN  /\ Pad
        /\ Becomes(z.buf, z.det,
                   IF ~Overdubbing(z.deck, z.buf) /\ (~z.deck.playing \/ sameWay)
                   THEN Toggled(z.deck, z.buf) ELSE z.deck)

(* The mode switch: Deck::set_mode.                                        *)
SwitchMode ==
    /\ Switching
    /\ deck' = [deck EXCEPT !.slice = ~@]
    /\ UNCHANGED <<buf, det, heard, call>>

(* MIDI start; MIDI stop, or the card gesture on a sounding deck.          *)
MidiStart == buf.size > 0 /\ deck' = Played(deck) /\ UNCHANGED <<buf, det, heard, call>>
Stop == deck.playing /\ deck' = Stopped(deck) /\ UNCHANGED <<buf, det, heard, call>>

(* A load that is complete, and one that is taken back: Buffer::clear.     *)
Loaded(n) == /\ buf' = [buf EXCEPT !.size = n]
             /\ call' = [None EXCEPT !.at = "sized"] /\ UNCHANGED <<det, deck, heard>>
LoadCancelled == /\ Loads # {}
                 /\ call' = [None EXCEPT !.at = "write"] /\ UNCHANGED <<buf, det, deck, heard>>

-----------------------------------------------------------------------------
(* The interrupt.                                                          *)

\* Mutant of Clocked: a disarmed deck records on.
ClockedOn(z) ==
    CASE Recording(z.buf) /\ ~z.deck.armed /\ z.deck.recordQueued
             -> [z EXCEPT !.buf = RecordOff(@), !.det = Deafen(@)]
      [] Recording(z.buf) /\ z.deck.armed /\ z.deck.recordQueued
             -> [z EXCEPT !.deck = [@ EXCEPT !.recordQueued = FALSE, !.cutQueued = TRUE]]
      [] ~Recording(z.buf) /\ z.deck.recordQueued
             -> [z EXCEPT !.deck = [@ EXCEPT !.recordQueued = FALSE], !.buf = RecordOn(@)]
      [] OTHER -> z

\* Deck::_clock_recording.
Clocked(z) ==
    CASE Recording(z.buf) /\ ~z.deck.armed
             -> [z EXCEPT !.buf = RecordOff(@), !.det = Deafen(@)]
      [] Recording(z.buf) /\ z.deck.armed /\ z.deck.recordQueued
             -> [z EXCEPT !.deck = [@ EXCEPT !.recordQueued = FALSE, !.cutQueued = TRUE]]
      [] ~Recording(z.buf) /\ z.deck.recordQueued
             -> [z EXCEPT !.deck = [@ EXCEPT !.recordQueued = FALSE], !.buf = RecordOn(@)]
      [] OTHER -> z

\* Deck::tick on a key tick.
Ticked(z) == LET c == Clocked(z)
             IN  IF c.deck.playQueued THEN [c EXCEPT !.deck = Played(@)] ELSE c

\* Detector::process at the end of a window (edge) or inside one.
Detected(t, edge, loud) ==
    CASE t = "listening" /\ edge /\ loud -> "open"
      [] t = "closing" /\ edge           -> "off"
      [] OTHER                           -> t

\* Deck::process_in: one frame, then a cut that was asked for, then what
\* follows from any cut.
Fed(z, edge, loud) ==
    LET t == Detected(z.det, edge, loud)
        w == Write(IF t = "open" THEN RecordOn(z.buf) ELSE z.buf)
        c == IF z.deck.cutQueued THEN Cut(w) ELSE w
        plays == c.didCut /\ Recording(c)
    IN  [buf  |-> [c EXCEPT !.didCut = FALSE],
         det  |-> t,
         deck |-> IF ~plays THEN [z.deck EXCEPT !.cutQueued = FALSE]
                  ELSE IF z.deck.slice
                  THEN [z.deck EXCEPT !.cutQueued = FALSE, !.playQueued = TRUE]
                  ELSE Played([z.deck EXCEPT !.cutQueued = FALSE])]

\* A frame is heard before it is recorded; the voices may be anywhere.
Heard(b) == {b} \cup {Read(b, r) : r \in 0 .. b.size - 1}

Interrupt(key, edge, loud) ==
    \E b \in Heard(buf) :
        LET z == [buf |-> b, det |-> det, deck |-> deck]
            n == Fed(IF key /\ deck.slice THEN Ticked(z) ELSE z, edge, loud)
        IN  /\ Becomes(n.buf, n.det, n.deck) /\ heard' = TRUE
            /\ Passes(past.torn \/ (call.at \in Clearing \ {"write"} /\ buf' # buf), 1)

AnyInterrupt == \E key, edge, loud \in BOOLEAN : Interrupt(key, edge, loud)

-----------------------------------------------------------------------------

Init == /\ buf = Blank
        /\ det = "off"
        /\ deck \in [slice : BOOLEAN, armed : {FALSE}, playing : {FALSE},
                     recordQueued : {FALSE}, playQueued : {FALSE}, cutQueued : {FALSE}]
        /\ heard = TRUE
        /\ call = None
        /\ past = [torn |-> FALSE, frames |-> 0]

Handler == \/ RecordPad
           \/ \E sameWay \in BOOLEAN : PlayPad(sameWay)
           \/ SwitchMode \/ MidiStart \/ Stop
           \/ \E n \in Loads : Loaded(n)
           \/ LoadCancelled

Next == \/ call = None /\ Handler /\ Passes(past.torn, 0)
        \/ ClearStore \/ Armed \/ Sized
        \/ AnyInterrupt

Spec == Init /\ [][Next]_vars

\* The interrupt always comes, and with it the quarters of the clock and the
\* ends of the detector's windows.
FairSpec == Spec /\ WF_vars(\E loud \in BOOLEAN : Interrupt(TRUE, TRUE, loud))

-----------------------------------------------------------------------------

TypeOK ==
    /\ buf \in Buffers
    /\ det \in {"off", "listening", "open", "closing"}
    /\ deck \in [slice : BOOLEAN, armed : BOOLEAN, playing : BOOLEAN,
                 recordQueued : BOOLEAN, playQueued : BOOLEAN, cutQueued : BOOLEAN]
    /\ heard \in BOOLEAN
    /\ call \in [at : Clearing \cup {"no", "arm", "sized"}, arming : BOOLEAN]
    /\ past \in [torn : BOOLEAN, frames : Nat]

(* A buffer is not left idle with an open end: the next overdub would      *)
(* lengthen it instead of wrapping in it.  Said of a buffer that the main  *)
(* loop is not at, and whose last clear no interrupt came into.            *)
LoopClosed == ~past.torn /\ call = None => Closed(buf)

(* However a take was begun, it is the frames written since then, the      *)
(* first of them at the beginning of the buffer; as above.                 *)
TakeIsOneRun == ~past.torn /\ call = None => OneRun(buf, past.frames)

(* buffer.cpp:85-94: a clear empties the buffer.  Without the condition,   *)
(* an interrupt that comes into it and writes, or reads, may leave a loop  *)
(* open or make the next take begin elsewhere than at the first frame.     *)
AlwaysClosed == call = None => Closed(buf)
AlwaysFromFirst == call = None => OneRun(buf, past.frames)

(* Whatever length the card has brought in the meantime, the writer of an  *)
(* overdub is back inside the loop after one frame.                        *)
HeadReturns ==
    [][AnyInterrupt /\ Recording(buf') => InLoop(buf')]_vars

(* Overdubbing, its beginning and its end do not change the loop's length. *)
OverdubKeepsLength ==
    [][buf.cut /\ buf'.size # buf.size => buf'.size = 0 \/ \E n \in Loads : Loaded(n)]_vars

(* config.h:113: a fade has kRecordFade frames, and its counter indexes a  *)
(* table of that length.                                                   *)
FadeInTable == Recording(buf) => buf.fade < Fade

(* deck.cpp:144: a recording that is disarmed in Slice ends on the clock.  *)
DisarmedEnds == (Recording(buf) /\ ~deck.armed) ~> (~Recording(buf) \/ deck.armed)

(* A play that waits for the clock is started by it.                       *)
PlayStarts == deck.playQueued ~> ~deck.playQueued

(* granular.md:23: one arms a deck, and then it records.                   *)
StartsArmed == [][~Recording(buf) /\ Recording(buf') => deck.armed]_vars

(* granular.md:23: a deck that is armed in Reel or Drift and neither plays *)
(* nor records is waiting for a sound to start on.                         *)
ArmedHears ==
    call = None /\ deck.armed /\ ~deck.slice /\ ~deck.playing /\ ~Recording(buf)
        => det \in {"listening", "open"}

=============================================================================
