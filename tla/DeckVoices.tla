----------------------------- MODULE DeckVoices -----------------------------
(***************************************************************************)
(* The voices of a granular deck: Dispatcher chooses the voice of an event *)
(* (dispatcher.h), Vox plays it (vox.cpp), Generator tells the deck when   *)
(* one has ended (generator.cpp) and Deck starts the next (deck.cpp).      *)
(*                                                                         *)
(* A frame of audio processes the voices in order; how long a voice stays  *)
(* in a phase depends on sizes, speeds and windows, so any phase may end   *)
(* in any frame. What matters is told apart: a voice is "fresh" until its  *)
(* first frame, "sounds" (attack and sustain), then decays; one that is    *)
(* released before its first frame is "spent" and ends in it (the counter  *)
(* of the slope is zero). The buffer is taken to hold a take, no sequence  *)
(* to be recorded, no voice to be suspended (a Drift without envelope).    *)
(*                                                                         *)
(* Pads, MIDI and switches call the deck from the main loop, the clock and *)
(* the voices from the audio interrupt.  The interrupt's calls are whole;  *)
(* those of the main loop go on step by step (`main`), and the interrupt   *)
(* may come between any two: before and after each test the deck makes,    *)
(* each voice that is released or turned, each store into the queue.  Two  *)
(* of these windows lose something (README, section 7); Torn opens them.   *)
(* Within a step are the search of the queue, and one call of Vox::stop,   *)
(* Vox::set_reverse or _set_mode's pair of stores.                         *)
(***************************************************************************)
EXTENDS Integers

CONSTANTS N,           \* Generator::kVoxCount: 3 in the code
          Modes,       \* modes the switch is turned to
          Sequenced,   \* whether the deck starts with a recorded sequence
          Torn         \* whether the interrupt dispatches while the main loop
                       \* moves the queue, and ends the last voice between the
                       \* two lines in which set_mode asks for one and waits

\* What the parameters have to be, which MCDeckVoices assumes.
VoicesAssumption ==
    /\ N \in Nat /\ N >= 2
    /\ Modes \subseteq {"Reel", "Slice", "Drift"}
    /\ Sequenced \in BOOLEAN /\ Torn \in BOOLEAN

Voices == 0 .. N - 1
None   == -1

VARIABLES vox,     \* the voices and the dispatcher
          deck,    \* Deck::_mode, _pending_mode, _is_playing and whether _track has hits
          main     \* the call the main loop is in: where, a voice or place, what follows

vars == <<vox, deck, main>>

\* A call that begins at p, and no call.
Call(p, hold, to) == [pc |-> p, i |-> 0, v |-> None, hold |-> hold, to |-> to]
Idle == Call("idle", FALSE, "end")

-----------------------------------------------------------------------------
(* Vox.                                                                    *)

\* Vox::_decay.
Decayed(p) == CASE p = "fresh" -> "spent" [] p = "sounds" -> "decay" [] OTHER -> p

\* Vox::set_reverse, when the deck plays forwards again.
Turned(p) == IF p \in {"decay", "spent"} THEN "sounds" ELSE p

\* Vox::trigger.
Triggered(x, v) ==
    IF x.st[v] = "idle" THEN [x EXCEPT !.st[v] = "fresh"]
    ELSE [x EXCEPT !.st[v] = Decayed(@), !.pending[v] = TRUE]

-----------------------------------------------------------------------------
(* Dispatcher.                                                             *)

\* _release_event_at: the generator stops the voice.
Release(x, v) == [x EXCEPT !.active[v] = FALSE, !.st[v] = Decayed(@)]

\* Mutant of AllOff: the held voice is forgotten before it is released.
AllOffKeptHolding(x) == x

\* all_off, when the active voices are released.
AllOff(x) == [x EXCEPT !.holding = None]

First(S) == CHOOSE i \in S : \A j \in S : i <= j

\* The first index of the queue that is free, or the front.
FreeIndex(x) ==
    LET free == {i \in 1 .. N : ~x.active[x.queue[i]]}
    IN  IF free = {} THEN 1 ELSE First(free)

\* Past the held voice, from the end to the front.  (In a queue that holds
\* nothing else, which only Torn could make, the code would not come back.)
NextIndex(x, i) ==
    LET other == {j \in 1 .. N : x.queue[j] # x.holding}
        ahead == {j \in other : j >= i}
    IN  IF other = {} THEN i ELSE IF ahead = {} THEN First(other) ELSE First(ahead)

\* Mutant of Stored: the gap is filled one place too early.
StoredShort(q, j, v) == [q EXCEPT ![j] = IF j < N - 1 THEN q[j + 1] ELSE v]

\* The store of the shift into one place: the next one moves up, and the
\* taken voice goes to the end.
Stored(q, j, v) == [q EXCEPT ![j] = IF j < N THEN q[j + 1] ELSE v]

\* Mutant of MovedBack: the same, of a whole shift.
MovedBackShort(q, i) ==
    [j \in 1 .. N |-> IF j < i THEN q[j] ELSE IF j < N - 1 THEN q[j + 1] ELSE q[i]]

\* The whole shift.
MovedBack(q, i) == [j \in 1 .. N |-> IF j < i THEN q[j] ELSE IF j < N THEN q[j + 1] ELSE q[i]]

\* event_on: the voice taken, and the state after it.
Freed(x, hold) == IF hold /\ x.holding # None THEN Release(x, x.holding) ELSE x
TakenIndex(x) == NextIndex(x, FreeIndex(x))

EventOn(x, hold) ==
    LET f == Freed(x, hold)
        i == TakenIndex(f)
        v == f.queue[i]
    IN  Triggered([f EXCEPT !.holding = IF hold THEN v ELSE @,
                            !.queue = MovedBack(@, i),
                            !.active[v] = TRUE], v)

Dispatched(x) == EventOn(x, TRUE)

-----------------------------------------------------------------------------
(* Generator and Deck: what happens within a frame.                        *)

Generating(x) == \E v \in Voices : x.sounding[v]

\* Mutant of Ended: Reel and Drift are not started again.
EndedOnce(z) ==
    IF z.deck.mode = "Slice" /\ z.deck.pending # "None" /\ ~Generating(z.s)
    THEN [s |-> Dispatched(z.s), deck |-> [z.deck EXCEPT !.mode = z.deck.pending, !.pending = "None"]]
    ELSE z

\* Mutant of Ended: the mode that waits is forgotten before it is taken.
EndedSwapped(z) ==
    IF z.deck.mode = "Slice" /\ z.deck.pending # "None" /\ ~Generating(z.s)
    THEN [s |-> Dispatched(z.s), deck |-> [z.deck EXCEPT !.mode = "None", !.pending = "None"]]
    ELSE z

\* Deck::_on_vox_stop: a mode switch that waited for silence, or the next
\* round of the loop.
Ended(z) ==
    IF z.deck.mode = "Slice"
    THEN IF z.deck.pending # "None" /\ ~Generating(z.s)
         THEN [s |-> Dispatched(z.s),
               deck |-> [z.deck EXCEPT !.mode = z.deck.pending, !.pending = "None"]]
         ELSE z
    ELSE IF z.deck.playing /\ ~Generating(z.s) THEN [z EXCEPT !.s = Dispatched(@)] ELSE z

\* Mutant of Stopped: a voice that has ended is still counted.
StoppedCounted(z, v) ==
    IF z.s.pending[v] THEN [z EXCEPT !.s.st[v] = "fresh", !.s.pending[v] = FALSE]
    ELSE Ended([z EXCEPT !.s.st[v] = "idle"])

\* Vox::_stop, and what Generator::process does when the voice has stopped.
Stopped(z, v) ==
    IF z.s.pending[v] THEN [z EXCEPT !.s.st[v] = "fresh", !.s.pending[v] = FALSE]
    ELSE Ended([z EXCEPT !.s.st[v] = "idle", !.s.sounding[v] = FALSE])

\* Generator::process of one voice, whose phase ends or goes on.
Processed(z, v, ends) ==
    LET on == [z EXCEPT !.s.sounding[v] = (z.s.st[v] # "idle")]
        p  == z.s.st[v]
    IN  CASE p = "fresh"              -> [on EXCEPT !.s.st[v] = "sounds"]
          [] p = "sounds" /\ ends     -> [on EXCEPT !.s.st[v] = "decay"]
          [] p = "spent" \/ (p = "decay" /\ ends) -> Stopped(on, v)
          [] OTHER                    -> on

\* What the interrupt leaves alone without Torn: the queue that the main loop
\* is moving (a voice that is dispatched here would be held) and the last
\* voice before a switch that will wait.
Calm ==
    /\ ~Torn /\ main.pc = "shift" => vox'.queue = vox.queue /\ vox'.holding = vox.holding
    /\ ~Torn /\ main.pc = "defer" => Generating(vox')

Frame(ends) ==
    /\ UNCHANGED main
    /\ LET z[i \in 0 .. N] == IF i = 0 THEN [s |-> vox, deck |-> deck]
                              ELSE Processed(z[i - 1], i - 1, ends[i - 1])
       IN  vox' = z[N].s /\ deck' = z[N].deck /\ Calm

-----------------------------------------------------------------------------
(* The interrupt's other calls.                                            *)

\* Whether Deck::play leaves the voices to the clock, or to those that sound.
PlaysAlready == deck.sequenced \/ deck.mode = "Slice" \/ (deck.mode = "Drift" /\ Generating(vox))

(* Deck::play, queued for the clock or at the end of a take (of a deck     *)
(* that MIDI has not started meanwhile).                                   *)
PlayQueued ==
    /\ ~deck.playing
    /\ deck' = [deck EXCEPT !.playing = TRUE]
    /\ vox' = IF PlaysAlready THEN vox ELSE Dispatched(vox)
    /\ UNCHANGED main /\ Calm

(* Deck::tick of a playing deck: the loop of Slice comes round, or the     *)
(* sequence has a hit.                                                     *)
Tick ==
    /\ deck.playing
    /\ deck.mode = "Slice" \/ deck.sequenced
    /\ Torn \/ main.pc # "shift"
    /\ vox' = EventOn(vox, ~(deck.mode = "Slice" /\ deck.sequenced))
    /\ UNCHANGED <<deck, main>> /\ Calm

-----------------------------------------------------------------------------
(* The main loop's calls: event_on and all_off, step by step.              *)

At(p) == main.pc = p
Goto(p) == main' = [main EXCEPT !.pc = p]
Event(hold) == Call("release", hold, "end")

\* event_on: the held voice is released, ...
EventReleases ==
    /\ At("release") /\ Goto("choose")
    /\ vox' = Freed(vox, main.hold)
    /\ UNCHANGED deck

\* ... a voice is chosen and held, ...
EventChooses ==
    /\ At("choose")
    /\ LET i == TakenIndex(vox)
       IN  /\ main' = [main EXCEPT !.pc = "shift", !.i = i, !.v = vox.queue[i]]
           /\ vox' = IF main.hold THEN [vox EXCEPT !.holding = vox.queue[i]] ELSE vox
    /\ UNCHANGED deck

\* ... moved to the end of the queue, ...
EventShifts ==
    /\ At("shift")
    /\ vox' = [vox EXCEPT !.queue = Stored(@, main.i, main.v)]
    /\ main' = IF main.i < N THEN [main EXCEPT !.i = @ + 1] ELSE [main EXCEPT !.pc = "active", !.i = 0]
    /\ UNCHANGED deck

\* ... marked, ...
EventMarks ==
    /\ At("active")
    /\ main' = [main EXCEPT !.pc = "trigger", !.hold = FALSE]
    /\ vox' = [vox EXCEPT !.active[main.v] = TRUE]
    /\ UNCHANGED deck

\* ... and triggered: Vox::trigger begins the voice if it finds it idle ...
EventTriggers ==
    /\ At("trigger") /\ UNCHANGED deck
    /\ IF vox.st[main.v] = "idle" THEN vox' = Triggered(vox, main.v) /\ main' = Idle
       ELSE Goto("busy") /\ UNCHANGED vox

\* ... and otherwise marks it and lets it decay.
EventWaits ==
    /\ At("busy") /\ main' = Idle
    /\ vox' = [vox EXCEPT !.st[main.v] = Decayed(@), !.pending[main.v] = TRUE]
    /\ UNCHANGED deck

Off(then) == Call("off", FALSE, then)

\* all_off: each active voice is released, then none is held.
OffReleases ==
    /\ At("off") /\ UNCHANGED deck
    /\ IF main.i < N
       THEN /\ vox' = IF vox.active[main.i] THEN Release(vox, main.i) ELSE vox
            /\ main' = [main EXCEPT !.i = @ + 1]
       ELSE /\ vox' = AllOff(vox)
            /\ main' = IF main.to = "end" THEN Idle ELSE Call(main.to, FALSE, "end")

-----------------------------------------------------------------------------
(* The main loop's calls of the deck.                                      *)

(* Deck::play, from a pad or MIDI.                                         *)
Play ==
    /\ At("idle") /\ Goto("play")
    /\ deck' = [deck EXCEPT !.playing = TRUE]
    /\ UNCHANGED vox

PlayDispatches ==
    /\ At("play")
    /\ main' = IF PlaysAlready THEN Idle ELSE Event(TRUE)
    /\ UNCHANGED <<vox, deck>>

(* Deck::stop.                                                             *)
Stop ==
    /\ At("idle") /\ main' = Off("end")
    /\ deck' = [deck EXCEPT !.playing = FALSE]
    /\ UNCHANGED vox

(* Deck::trigger: a gate, a MIDI note, or a tap of the Seq pad.            *)
Gate(mono) ==
    /\ At("idle") /\ deck.pending = "None"
    /\ main' = Event(deck.mode # "Slice" \/ mono)
    /\ UNCHANGED <<vox, deck>>

(* Deck::set_mode.  Leaving Slice for Drift waits for the voices to end.   *)
Waits(m) == Generating(vox) /\ deck.mode = "Slice" /\ m = "Drift" /\ deck.pending = "None"

SetMode(m) ==
    /\ At("idle") /\ m # deck.mode /\ m # deck.pending
    /\ main' = Call(IF Waits(m) THEN "defer" ELSE "set", FALSE, m)
    /\ UNCHANGED <<vox, deck>>

ModeWaits ==
    /\ At("defer") /\ main' = Off("end")
    /\ deck' = [deck EXCEPT !.pending = main.to]
    /\ UNCHANGED vox

(* Deck::_set_mode.                                                        *)
ModeIsSet ==
    /\ At("set")
    /\ deck' = [deck EXCEPT !.mode = main.to, !.pending = "None"]
    /\ main' = IF main.to = "Reel" THEN Call("kick", FALSE, "end") ELSE Idle
    /\ UNCHANGED vox

(* Deck::_needs_kickstart.                                                 *)
Kicks ==
    /\ At("kick")
    /\ main' = IF deck.playing /\ ~Generating(vox) THEN Event(TRUE) ELSE Idle
    /\ UNCHANGED <<vox, deck>>

(* Deck::clear_sequence.                                                   *)
ClearSequence ==
    /\ At("idle") /\ main' = Off("restart")
    /\ deck' = [deck EXCEPT !.sequenced = FALSE]
    /\ UNCHANGED vox

Restarts ==
    /\ At("restart")
    /\ main' = IF deck.playing THEN Event(TRUE) ELSE Idle
    /\ UNCHANGED <<vox, deck>>

(* Deck::set_reverse, to forwards: in Reel and Slice a voice that decays   *)
(* sounds again, one after the other.                                      *)
Turn ==
    /\ At("idle") /\ Goto("turn")
    /\ UNCHANGED <<vox, deck>>

Turns ==
    /\ At("turn") /\ UNCHANGED deck
    /\ vox' = IF deck.mode # "Drift" THEN [vox EXCEPT !.st[main.i] = Turned(@)] ELSE vox
    /\ main' = IF main.i < N - 1 THEN [main EXCEPT !.i = @ + 1] ELSE Idle

Init == /\ vox = [st       |-> [v \in Voices |-> "idle"],
                  pending  |-> [v \in Voices |-> FALSE],
                  sounding |-> [v \in Voices |-> FALSE],
                  active   |-> [v \in Voices |-> FALSE],
                  queue    |-> [i \in 1 .. N |-> i - 1],
                  holding  |-> None]
        /\ deck \in [mode : Modes, pending : {"None"}, playing : {FALSE}, sequenced : {Sequenced}]
        /\ main = Idle

AnyFrame == \E ends \in [Voices -> BOOLEAN] : Frame(ends)

AnyGate == \E mono \in BOOLEAN : Gate(mono)

\* The main loop goes on with its call.
MainStep ==
    \/ EventReleases \/ EventChooses \/ EventShifts \/ EventMarks \/ EventTriggers \/ EventWaits
    \/ OffReleases \/ PlayDispatches \/ ModeWaits \/ ModeIsSet \/ Kicks \/ Restarts \/ Turns

Next == \/ Play \/ Stop \/ AnyGate \/ ClearSequence \/ Turn
        \/ \E m \in Modes : SetMode(m)
        \/ MainStep
        \/ PlayQueued \/ Tick \/ AnyFrame

Spec == Init /\ [][Next]_vars

\* The audio goes on, phases end, and the main loop finishes its call.
FairSpec == Spec /\ WF_vars(Frame([v \in Voices |-> TRUE])) /\ WF_vars(MainStep)

-----------------------------------------------------------------------------

TypeOK ==
    /\ vox \in [st : [Voices -> {"idle", "fresh", "spent", "sounds", "decay"}],
                pending : [Voices -> BOOLEAN], sounding : [Voices -> BOOLEAN],
                active : [Voices -> BOOLEAN], queue : [1 .. N -> Voices],
                holding : Voices \cup {None}]
    /\ deck \in [mode : Modes, pending : Modes \cup {"None"},
                playing : BOOLEAN, sequenced : BOOLEAN]
    /\ main \in [pc : {"idle", "release", "choose", "shift", "active", "trigger", "busy", "off",
                       "play", "defer", "set", "kick", "restart", "turn"},
                i : 0 .. N, v : Voices \cup {None}, hold : BOOLEAN,
                to : Modes \cup {"end", "restart"}]

(* The voices are handed round: whatever order events, holds and releases  *)
(* come in, the queue holds every voice once, but for the moments in which *)
(* the main loop moves one to the end.                                     *)
QueueHoldsAll == ~At("shift") => \A v \in Voices : \E i \in 1 .. N : vox.queue[i] = v

(* The voice that is to be released before the next is held is one that    *)
(* all_off would release as well, once the main loop has marked the one it *)
(* holds, or forgotten the one it let go.                                  *)
ChangesHeld == At("off") \/ (main.hold /\ main.pc \in {"choose", "shift", "active"})
HeldIsActive == ~ChangesHeld /\ vox.holding # None => vox.active[vox.holding]

(* A voice that has ended is not counted as sounding: the deck would wait  *)
(* for ever to start the next, or to change its mode.                      *)
SoundingPlays == \A v \in Voices : vox.sounding[v] => vox.st[v] # "idle"

(* A deck without a sequence that plays in Reel or Drift has a voice that  *)
(* has begun, is about to, or is ending and will start the next: "that's   *)
(* where the looping in Reel and Drift is happening" (deck.cpp:521).       *)
Loops == deck.playing /\ ~deck.sequenced /\ deck.mode # "Slice"
LoopsOn == At("idle") /\ Loops => \E v \in Voices : vox.st[v] # "idle"

(* Such a deck is heard: a voice gets past its first frame.                *)
PlaysOn == Loops ~> (Generating(vox) \/ ~Loops)

(* A switch to Drift that waits for the voices to end comes about, if the  *)
(* loop starts no others and the player does not go on turning the deck    *)
(* round, which lets ending voices sound again.                            *)
Switching == deck.pending # "None" /\ ~deck.playing
SwitchHappens == Switching ~> (~Switching \/ At("turn"))

(* manual.md:114: "Stop can stop both decks"; the pad does the same.  On a *)
(* deck that is stopped no voice begins that no gate, note or tap asked    *)
(* for.                                                                    *)
StopSilences ==
    [][~deck.playing /\ ~deck'.playing /\ ~At("trigger")
         => \A v \in Voices : vox'.st[v] = "fresh" => vox.st[v] = "fresh"]_vars

(* dispatcher.h:106-107: "If there's no voice found in previous step, take *)
(* the first in the queue": an event never cuts off the voice that began   *)
(* last, which is the last in the queue.                                   *)
NewestKept ==
    At("idle") => \A hold \in BOOLEAN :
        LET f == Freed(vox, hold)
        IN  f.queue[TakenIndex(f)] # vox.queue[N] \/ ~vox.active[vox.queue[N]]

=============================================================================
