----------------------------- MODULE StepTrack -----------------------------
(***************************************************************************)
(* The step sequencer of a granular deck (engine/granular/track.cpp): a    *)
(* ring of slots into which the pads, the gates and MIDI record hits, and  *)
(* from which the clock plays them.  The pattern is the part of the ring   *)
(* from _rec_start up to _rec_end; the clock plays it through a slice of   *)
(* SliceLength pointers that is filled again each time it has been walked. *)
(*                                                                         *)
(* The callers are modelled with it: Deck::tick (audio interrupt), the     *)
(* play, Seq and Alt pads (main loop) and MIDI start and stop.  A tick may *)
(* come between the stores of a hit (add_event); the other handlers of the *)
(* main loop are one step.  The loop buffer of the deck is taken to hold a *)
(* recording: Deck::trigger and Deck::toggle_play refuse an empty one.     *)
(*                                                                         *)
(* An event is abstracted to its `on` flag, the only field Track reads.    *)
(* The cell `Length` of `on` stands for the memory that follows the ring   *)
(* (Track::init is given room for exactly kLength events): the write slot  *)
(* can point at it.                                                        *)
(***************************************************************************)
EXTENDS Integers

CONSTANTS SliceLength,   \* kSliceLength: 16 in the code
          Slices,        \* kSlicesCount: 8 in the code
          MaxCount       \* where _rec_counter saturates here; it is only ever
                         \* compared with Length

Length == SliceLength * Slices
Slot   == 0 .. Length - 1
None   == -1

ASSUME TrackAssumption == /\ SliceLength \in Nat \ {0}
                          /\ Slices \in Nat \ {0}
                          /\ MaxCount \in Nat /\ MaxCount > Length

VARIABLES track,     \* the fields of Track
          playing,   \* Deck::_is_playing
          queued,    \* Deck::_is_play_queued
          adding,    \* the main loop is between two stores of Track::add_event
          take       \* history: the recording that made the present pattern

vars == <<track, playing, queued, adding, take>>

-----------------------------------------------------------------------------
(* Track's private helpers, as functions of its state.                     *)

\* Mutant of NextRead: the wrapped slot is compared with the end of the pattern too.
NextReadWrapped(t, r) ==
    LET n == IF r + 1 >= Length THEN 0 ELSE r + 1
    IN  IF n = t.end THEN t.start ELSE n

NextRead(t, r) == IF r + 1 >= Length THEN 0
                  ELSE IF r + 1 = t.end THEN t.start
                  ELSE r + 1

NextWrite(t) == IF t.write >= Length THEN 0
                ELSE IF t.write = t.end THEN t.start
                ELSE t.write + 1

\* The slots the reader comes to in n steps from slot r.
WalkFrom(t, r, n) ==
    LET step == [s \in Slot |-> NextRead(t, s)]
        walk[i \in 0 .. n] == IF i = 0 THEN r ELSE step[walk[i - 1]]
    IN  walk

MadeSlice(t) ==
    LET walk == WalkFrom(t, t.read, SliceLength)
    IN  [t EXCEPT !.slice = [i \in 0 .. SliceLength - 1 |-> walk[i]],
                  !.read = walk[SliceLength]]

Rewound(t) ==
    LET first == IF t.start = None THEN 0 ELSE t.start
        back  == [t EXCEPT !.at = 0, !.ticks = 0, !.write = first,
                           !.read = first, !.count = 0]
    IN  IF t.recording THEN back ELSE MadeSlice(back)

Started(t) ==
    Rewound([t EXCEPT !.start = IF @ = None THEN t.read ELSE @,
                      !.write = t.read,
                      !.recording = TRUE])

\* Mutant of Stopped: the last slot is not made part of the pattern.
StoppedShort(t) ==
    Rewound([t EXCEPT !.recording = FALSE, !.autoCut = FALSE,
                      !.end = IF @ # None THEN @ ELSE IF t.write > 0 THEN t.write - 1 ELSE 0])

\* A pattern that outgrew the ring is meant to begin where it ends.
Stopped(t) ==
    Rewound([t EXCEPT !.recording = FALSE,
                      !.autoCut = FALSE,
                      !.end = IF @ = None THEN t.write ELSE @,
                      !.start = IF t.end = None /\ t.count > Length
                                THEN (IF t.write > 0 THEN t.write - 1 ELSE 0)
                                ELSE @])

\* Mutant of Cleared: the events stay.
ClearedBounds(t) ==
    Rewound([t EXCEPT !.empty = TRUE, !.start = None, !.end = None, !.event = None])

Cleared(t) ==
    Rewound([t EXCEPT !.empty = TRUE, !.start = None, !.end = None,
                      !.event = None,
                      !.on = [s \in 0 .. Length |-> s = Length /\ @[s]]])

Armed(t, auto) ==
    [(IF t.empty THEN Rewound(t) ELSE t) EXCEPT !.armed = TRUE, !.autoCut = auto]

Disarmed(t, force) ==
    LET off == [t EXCEPT !.armed = FALSE]
    IN  IF force \/ ~t.autoCut THEN Stopped(off) ELSE off

\* The two halves of add_event(), between which a tick may come: a hit begins a
\* recording that is armed and is put into the write slot ...
Placed(t) ==
    LET r == IF ~t.autoCut /\ t.armed /\ ~t.recording THEN Started(t) ELSE t
    IN  IF r.recording THEN [r EXCEPT !.on[r.write] = TRUE] ELSE r

\* Mutant of Remembered: the slice slot is not.
RememberedNot(t) == [t EXCEPT !.empty = FALSE]

\* ... and is remembered by its slice slot.
Remembered(t) == [t EXCEPT !.hit = t.at, !.empty = FALSE]

\* Mutant of Cut: the clock starts a recording and never ends one.
CutIn(t, key) == IF t.autoCut /\ key /\ t.armed /\ ~t.recording THEN Started(t) ELSE t

\* The first lines of tick(): a key tick starts or ends a quantised recording.
Cut(t, key) ==
    IF ~(t.autoCut /\ key) THEN t
    ELSE IF t.armed /\ ~t.recording THEN Started(t)
    ELSE IF t.recording /\ ~t.armed THEN Stopped(t)
    ELSE t

\* The slice slot advances every second tick, one tick ahead of its onset.
Advanced(t) ==
    LET last == t.at + 1 >= SliceLength
        full == IF last /\ (~t.recording \/ t.end # None) THEN MadeSlice(t) ELSE t
        next == [full EXCEPT !.ticks = 0, !.at = IF last THEN 0 ELSE @ + 1]
    IN  IF t.recording THEN [next EXCEPT !.write = NextWrite(next),
                                          !.count = IF @ < MaxCount THEN @ + 1 ELSE @]
        ELSE next

Ticked(t, key) ==
    LET c == Cut(t, key)
        a == IF c.ticks + 1 >= 2 THEN Advanced(c) ELSE [c EXCEPT !.ticks = @ + 1]
    IN  [a EXCEPT !.event = IF c.at = a.at /\ a.on[a.slice[a.at]] /\ a.at # a.hit
                            THEN a.slice[a.at] ELSE None,
                  !.hit = None]

Blank == [on |-> [s \in 0 .. Length |-> FALSE],
          slice |-> [i \in 0 .. SliceLength - 1 |-> i], event |-> None,
          ticks |-> 0, write |-> 0, read |-> 0, at |-> 0, hit |-> None,
          count |-> 0, start |-> None, end |-> None,
          armed |-> FALSE, autoCut |-> FALSE, recording |-> FALSE, empty |-> TRUE]

-----------------------------------------------------------------------------
(* History: `take` describes the recording that set the bounds of the      *)
(* pattern (how many slots it has run, whether it is still under way, and  *)
(* whether a pattern end was already there when it began), and the slice   *)
(* slot in which a hit has been recorded since the last tick.              *)

NoTake == [length |-> 0, open |-> FALSE, early |-> FALSE, hitAt |-> None]

Noted(t, hitAt) ==
    take' = [IF t.start = None THEN NoTake
             ELSE IF track.start = None
                  THEN [NoTake EXCEPT !.open = t.recording, !.early = t.end # None]
             ELSE IF take.open
                  THEN [take EXCEPT !.length = IF t.recording THEN t.count ELSE @,
                                    !.open = t.recording]
             ELSE take EXCEPT !.hitAt = hitAt]

-----------------------------------------------------------------------------
(* The callers.                                                            *)

Init == /\ track = Cleared(Blank)
        /\ playing = FALSE
        /\ queued = FALSE
        /\ adding = FALSE
        /\ take = NoTake

\* A handler of the main loop, which is not in the middle of a hit.
Becomes(t) == /\ ~adding
              /\ track' = t /\ Noted(t, take.hitAt)
              /\ UNCHANGED adding

\* Mutant of Tick: the queue is looked at only while the deck plays.
TickPlaying(key) ==
    /\ (playing /\ ~track.empty) \/ track.recording \/ track.armed
    /\ queued' = (queued /\ (~key \/ track.empty))
    /\ track' = Ticked(track, key)
    /\ Noted(track', None)
    /\ UNCHANGED <<playing, adding>>

(* Deck::tick on a tick of the pattern divider, in a mode other than       *)
(* Slice: a queued play starts on a key tick, then the track is ticked.    *)
Tick(key) ==
    LET plays == playing \/ (key /\ queued /\ ~track.empty)
    IN  /\ (plays /\ ~track.empty) \/ track.recording \/ track.armed
        /\ playing' = plays
        /\ queued' = (queued /\ (~key \/ track.empty))
        /\ track' = Ticked(track, key)
        /\ Noted(track', None)
        /\ UNCHANGED adding

(* Deck::stop(), by the play pad or by MIDI stop.                          *)
Stop == /\ playing' = FALSE
        /\ Becomes(Rewound(track))
        /\ UNCHANGED queued

(* Deck::toggle_play() of a stopped deck.  It ends the recording of a      *)
(* sequence first, or, if none has begun, calls the end by force.          *)
PlayPad ==
    LET t == IF track.armed THEN Disarmed(track, ~track.recording) ELSE track
    IN  /\ ~playing
        /\ Becomes(t)
        /\ queued' = ~t.empty
        /\ playing' = t.empty

StopPad == playing /\ Stop

(* GranularEngine::handle_midi_transport.                                  *)
MidiStart == /\ playing' = TRUE /\ queued' = FALSE
             /\ Becomes(track)
MidiStop == Stop

(* GranularEngine::on_seq_toggle_arm; whether the key interval is shorter  *)
(* than a quarter decides if the recording is cut by the clock.            *)
ToggleArm(auto) ==
    /\ Becomes(IF track.armed THEN Disarmed(track, FALSE) ELSE Armed(track, auto))
    /\ UNCHANGED <<playing, queued>>

(* The Alt pad: GranularEngine::disarm_track.                              *)
DisarmTrack ==
    /\ track.armed
    /\ Becomes(Disarmed(track, FALSE))
    /\ UNCHANGED <<playing, queued>>

(* Deck::trigger: a tap of the Seq pad, a gate, or a MIDI note.            *)
Trigger ==
    /\ ~adding
    /\ track.armed \/ track.recording
    /\ track' = Placed(track)
    /\ Noted(track', IF track'.recording THEN track'.at ELSE take.hitAt)
    /\ adding' = track'.recording
    /\ UNCHANGED <<playing, queued>>

(* The rest of it.                                                         *)
Remember ==
    /\ adding /\ adding' = FALSE
    /\ track' = Remembered(track)
    /\ Noted(track', take.hitAt)
    /\ UNCHANGED <<playing, queued>>

(* Deck::clear_sequence.                                                   *)
ClearSequence ==
    /\ Becomes(Cleared(Disarmed(track, TRUE)))
    /\ UNCHANGED <<playing, queued>>

Next == \/ \E key \in BOOLEAN : Tick(key)
        \/ PlayPad \/ StopPad \/ MidiStart \/ MidiStop
        \/ \E auto \in BOOLEAN : ToggleArm(auto)
        \/ DisarmTrack \/ Trigger \/ Remember \/ ClearSequence

Spec == Init /\ [][Next]_vars

FairSpec == Spec /\ WF_vars(Tick(TRUE))

-----------------------------------------------------------------------------
(* What the clock plays.                                                   *)

\* The slots in the order in which the clock walks the pattern.
Walk == WalkFrom(track, track.start, Length)

\* The number of slots after which the clock is back at the first one.
PatternLength == LET back == {n \in 1 .. Length : Walk[n] = track.start}
                 IN  IF back = {} THEN 0 ELSE CHOOSE n \in back : \A m \in back : n <= m

-----------------------------------------------------------------------------
(* Properties.                                                             *)

TypeOK ==
    /\ track \in [on : [0 .. Length -> BOOLEAN],
                  slice : [0 .. SliceLength - 1 -> Slot],
                  event : Slot \cup {None}, ticks : 0 .. 1,
                  write : 0 .. Length, read : Slot,
                  at : 0 .. SliceLength - 1, hit : 0 .. SliceLength - 1 \cup {None},
                  count : 0 .. MaxCount, start : Slot \cup {None},
                  end : 0 .. Length \cup {None},
                  armed : BOOLEAN, autoCut : BOOLEAN, recording : BOOLEAN,
                  empty : BOOLEAN]
    /\ playing \in BOOLEAN
    /\ queued \in BOOLEAN
    /\ adding \in BOOLEAN
    /\ take \in [length : 0 .. MaxCount, open : BOOLEAN, early : BOOLEAN,
                 hitAt : 0 .. SliceLength - 1 \cup {None}]

(* A deck takes a track that calls itself empty for one that plays         *)
(* nothing: it plays the loop itself, without waiting for the clock.  No   *)
(* hit may survive a clear, or be recorded without the flag being taken    *)
(* down, which is the last that is done of a hit.                          *)
EmptyPlaysNothing ==
    track.empty /\ ~adding => track.event = None /\ \A s \in Slot : ~track.on[s]

(* _advance_read_slot jumps to _rec_start when it meets _rec_end.  While   *)
(* nothing has been recorded _rec_start is 0xffff, so an end that was set  *)
(* by disarming a track that never recorded must be one the reader never   *)
(* meets.                                                                  *)
NoJumpToNowhere ==
    track.start = None => \A r \in Slot : NextRead(track, r) \in Slot

(* The pattern the clock plays after a recording is as long as the         *)
(* recording was, when that began on a clear track and neither ran to the  *)
(* end of the ring nor stopped in its first slot.                          *)
PatternKeepsLength ==
    (/\ track.start # None /\ ~take.open /\ ~take.early
     /\ take.length > 0 /\ track.start + take.length < Length)
        => PatternLength = take.length

(* track.cpp:59-60: the slot a hit was recorded in is not triggered by the *)
(* clock as well while the slice is still in it, whatever ticks came while *)
(* other hits were stored.  The one tick that comes between the two stores *)
(* of this hit, its slot and the memory of it, is NeverDoubleHit's.        *)
NoDoubleHit ==
    [][~adding /\ take.hitAt = track.at /\ track'.at = track.at /\ take'.hitAt = None
         => track'.event = None]_vars

(* A queued play does not wait for ever: the clock starts it, or it is     *)
(* without effect because the sequence has been cleared.                   *)
QueuedPlays == queued ~> (playing \/ track.empty)

(* A recording that was disarmed under the clock is ended by the clock.    *)
DisarmedEnds == (track.recording /\ ~track.armed) ~> (~track.recording \/ track.armed)

(* core.cpp:56 gives the track room for kLength events, so no hit may be   *)
(* written behind them.                                                    *)
HitsInside == ~track.on[Length]

(* deck.cpp:366-368 ends "sequence recording" with a tap of play; what the *)
(* clock then plays is what was recorded, whether or not the track had     *)
(* been armed and disarmed before.                                         *)
RecordingSetsLength ==
    (/\ track.start # None /\ ~take.open
     /\ take.length > 0 /\ track.start + take.length < Length)
        => PatternLength = take.length

(* track.cpp:59-60: the check "is to prevent double triggering during      *)
(* recording", at whatever moment of a hit the clock ticks.                *)
NeverDoubleHit ==
    [][take.hitAt = track.at /\ track'.at = track.at /\ take'.hitAt = None
         => track'.event = None]_vars

(* granular-impl.md:15: the track records "into a ring of slices".  A      *)
(* recording that has gone round the ring leaves all of it in the pattern. *)
RingKeepsLast ==
    (/\ track.start # None /\ ~take.open /\ ~take.early /\ take.length > Length)
        => PatternLength = Length

=============================================================================
