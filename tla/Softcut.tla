------------------------------- MODULE Softcut -------------------------------
(***************************************************************************)
(* One deck of the overdub looper (engine/softcut): voices of which one is *)
(* focused, clips loaded from and loops saved to slots of the card through *)
(* the deck's stream (StreamDeck, of which the parts that are used are     *)
(* kept: one file at a time, a ring, a tail that is drained after stop).   *)
(*                                                                         *)
(* A pass of the main loop runs the handlers of the panel, then prepare(), *)
(* then the stream's process(); the audio interrupt comes between them.    *)
(* Audio is counted in chunks; a chunk is silence, input, or of a slot's   *)
(* file.  Rates, windows in seconds and the play flag are left out: a pad  *)
(* that only starts or stops a loop changes nothing here.                  *)
(***************************************************************************)
EXTENDS Integers, Sequences

CONSTANTS Cap,       \* _cap: a voice's buffer, in chunks
          RingCap,   \* the deck's stream ring, in chunks
          Clips,     \* length of the file in each slot, 0 for none
          Preload,   \* whether the slots are loaded at boot
          Hands,     \* which pads are used besides Alt, Play, Alt+Seq and Alt+PITCH
          Torn,      \* the interrupt may come between the stores of _start_save
          MaxPads    \* bound: what the panel does

Tracks == {0, 1}
Slots  == DOMAIN Clips
None   == -1

SoftcutAssumption ==
    /\ {Cap, RingCap} \subseteq Nat \ {0} /\ MaxPads \in Nat
    /\ {Preload, Torn} \subseteq BOOLEAN /\ Hands \subseteq {"rev", "record", "trim"}
    /\ Tracks \subseteq Slots /\ \A k \in Slots : Clips[k] \in Nat

VARIABLES voice,    \* per voice: _len, _overdub, _defining with the record head,
                    \* _load, _wpos, _tape_slot and the buffer
          deck,     \* _active, _aux_held, _slot_dirty, _save_arm, _preload_next,
                    \* and _save, _save_voice, _save_pos, _save_end
          stream,   \* the deck's stream
          card,     \* per slot the chunks of its file and the length in its header
          at,       \* where the main loop is, and whether a debounced pad was pressed
          pads,     \* what the panel has done
          past      \* history, see below

vars == <<voice, deck, stream, card, at, pads, past>>

Here == [voice |-> voice, deck |-> deck, stream |-> stream, card |-> card, past |-> past]

Becomes(z) == /\ voice' = z.voice /\ deck' = z.deck /\ stream' = z.stream
              /\ card' = z.card /\ past' = z.past

NoFile == [frames |-> 0, data |-> <<>>, there |-> FALSE]

-----------------------------------------------------------------------------
(* The stream.                                                             *)

Free(z) == z.stream.mode = "idle" /\ ~z.stream.finalizing

Playing(z) == z.stream.mode = "play"
LoopFrames(z) == IF Playing(z) THEN z.card[z.stream.slot].frames ELSE 0

StartPlay(z, k) == [z EXCEPT !.stream = [@ EXCEPT !.mode = "play", !.slot = k, !.pos = 0,
                                                  !.eof = FALSE, !.ring = <<>>]]
StartRecord(z, k) ==
    [z EXCEPT !.stream = [@ EXCEPT !.mode = "record", !.slot = k, !.ring = <<>>],
              !.card[k] = [NoFile EXCEPT !.there = TRUE]]

StopStream(z) == [z EXCEPT !.stream.mode = "idle",
                           !.stream.finalizing = @ \/ z.stream.mode = "record"]

\* process(): read ahead, or drain the ring to the file and close it.
ReadAhead(z) ==
    LET f == z.card[z.stream.slot]
        room == RingCap - Len(z.stream.ring)
        left == f.frames - z.stream.pos
        to == z.stream.pos + IF left < room THEN left ELSE room
    IN  [z EXCEPT !.stream = [@ EXCEPT !.ring = z.stream.ring \o SubSeq(f.data, z.stream.pos + 1, to),
                                       !.pos = to, !.eof = z.stream.eof \/ left < room]]

WrittenOut(z) == [z EXCEPT !.card[z.stream.slot].data = @ \o z.stream.ring, !.stream.ring = <<>>]

Pumped(z) ==
    LET full == ReadAhead(z)
        out == WrittenOut(z)
    IN  CASE Playing(z) -> IF full.stream.eof /\ full.stream.ring = <<>>
                           THEN [full EXCEPT !.stream.mode = "idle"] ELSE full
          [] z.stream.mode = "record" -> out
          [] z.stream.finalizing ->
               [out EXCEPT !.card[z.stream.slot].frames = Len(out.card[z.stream.slot].data),
                           !.stream.finalizing = FALSE]
          [] OTHER -> z

-----------------------------------------------------------------------------
(* History: the slot whose file a voice is to hold, as long as nothing     *)
(* else has written to its buffer or to the file; the chunks that a save   *)
(* is to write, and whether they have been left alone; the voices that     *)
(* were erased and neither recorded nor loaded since; the voice whose slot *)
(* was picked; whether a voice was erased while it was being loaded, and   *)
(* no load has begun since that found all others over.                     *)

Disturbed(z, v) == [z EXCEPT !.past.from[v] = None,
                             !.past.clean = @ /\ v # z.deck.saveVoice]

-----------------------------------------------------------------------------
(* Loads and saves.                                                        *)

Astray(z) == z.past.astray /\ \E u \in Tracks : z.voice[u].load # "idle"

\* Mutant of RequestLoad: the place in the buffer is that of the load before.
RequestLoadOn(z, v, k) ==
    IF ~Free(z) \/ ~z.card[k].there THEN z
    ELSE LET p == StartPlay(z, k)
             astray == Astray(z)
         IN  [p EXCEPT !.voice[v] = [@ EXCEPT !.load = "priming", !.len = 0, !.overdub = FALSE],
                       !.past = [@ EXCEPT !.from[v] = IF astray THEN None ELSE k,
                                          !.erased[v] = FALSE, !.astray = astray]]

\* _request_load.
RequestLoad(z, v, k) ==
    IF ~Free(z) \/ ~z.card[k].there THEN z
    ELSE LET p == StartPlay(z, k)
             astray == Astray(z)
         IN  [p EXCEPT !.voice[v] = [@ EXCEPT !.load = "priming", !.wpos = 0, !.len = 0,
                                              !.overdub = FALSE],
                       !.past = [@ EXCEPT !.from[v] = IF astray THEN None ELSE k,
                                          !.erased[v] = FALSE, !.astray = astray]]

Window(z, v, from, to) == SubSeq(z.voice[v].buf, from + 1, to)

\* _start_save of the chunks from .. to - 1 of the focused voice.  The interrupt
\* that comes before the last two stores finds the ends of the save before it.
StartSave(z, from, to, between) ==
    LET v == z.deck.active
        k == z.voice[v].slot
    IN  IF \/ z.deck.save # "idle" \/ \E u \in Tracks : z.voice[u].load # "idle"
           \/ z.voice[v].len = 0 \/ to <= from \/ ~Free(z)
        THEN z
        ELSE [StartRecord(z, k) EXCEPT
                 !.voice[v].overdub = FALSE,
                 !.deck.save = IF between THEN "finalize" ELSE "writing",
                 !.deck.saveVoice = v, !.deck.savePos = from, !.deck.saveEnd = to,
                 !.past.whole = Window(z, v, from, to), !.past.clean = TRUE,
                 !.past.from = [u \in Tracks |-> IF @[u] = k THEN None ELSE @[u]]]

Finalized(z) ==
    IF z.deck.save # "finalize" THEN z
    ELSE [StopStream(z) EXCEPT !.deck.save = "idle", !.deck.saveVoice = None]

\* The deferred save of the whole take, once its time has passed.
Deferred(z, between) ==
    IF z.deck.armed # "due" THEN z
    ELSE LET y == [z EXCEPT !.deck.armed = "no"]
         IN  StartSave(y, 0, y.voice[y.deck.active].len, between)

\* The preload: once the card is there, the voices one after the other, those that
\* are empty.
Preloaded(z) ==
    LET v == z.deck.next
        y == [z EXCEPT !.deck.next = v + 1]
    IN  IF \/ z.deck.boot # "card" \/ v \notin Tracks
           \/ \E u \in Tracks : z.voice[u].load # "idle"
        THEN z
        ELSE IF z.voice[v].len = 0 /\ z.card[v].there
             THEN RequestLoad([y EXCEPT !.voice[v].slot = v], v, v) ELSE y

\* Mutant of Committed: a save is not waited for, as if the stream were not shared.
CommittedAnyway(z) ==
    LET v == z.deck.active
    IN  IF z.deck.dirty /\ ~z.deck.held
        THEN RequestLoad(StopStream([z EXCEPT !.deck.dirty = FALSE]), v, z.voice[v].slot)
        ELSE z

\* The slot that was picked is loaded when Alt is up and the deck is free.
Committed(z) ==
    LET v == z.deck.active
    IN  IF /\ z.deck.dirty /\ ~z.deck.held
           /\ z.deck.save = "idle" /\ z.voice[v].load = "idle" /\ ~z.voice[v].defining
        THEN RequestLoad([z EXCEPT !.deck.dirty = FALSE], v, z.voice[v].slot)
        ELSE z

Primed(z, v) ==
    IF z.voice[v].load # "priming" THEN z
    ELSE IF LoopFrames(z) > 0 THEN [z EXCEPT !.voice[v].load = "draining"]
    ELSE IF ~Playing(z) THEN [z EXCEPT !.voice[v].load = "idle", !.past.from[v] = None]
    ELSE z

\* Mutant of Arrived: the end of the buffer is not looked at.
ArrivedAtTarget(z, v) == z.voice[v].wpos >= LoopFrames(z)

Arrived(z, v) == z.voice[v].wpos >= LoopFrames(z) \/ z.voice[v].wpos >= Cap

\* A chunk of the file, if the ring has one and the buffer room.
Drawn(z, v) ==
    LET w == z.voice[v].wpos
    IN  IF Playing(z) /\ z.stream.ring # <<>> /\ w < Cap
        THEN [z EXCEPT !.voice[v].buf[w + 1] = Head(z.stream.ring),
                       !.voice[v].wpos = w + 1,
                       !.stream.ring = Tail(@)]
        ELSE z

Drained(z, v) ==
    LET y == Drawn(z, v)
    IN  IF z.voice[v].load # "draining" THEN z
        ELSE IF ~Arrived(y, v) THEN y
        ELSE [StopStream(y) EXCEPT !.voice[v].len = y.voice[v].wpos,
                                   !.voice[v].load = "idle"]

Loading(z) == LET first == Drained(Primed(z, 0), 0) IN Drained(Primed(first, 1), 1)

(* prepare().                                                              *)
Prepare(between) ==
    /\ at = "prepare" /\ at' = "stream"
    /\ Becomes(Loading(Committed(Preloaded(Deferred(Finalized(Here), between)))))
    /\ UNCHANGED pads

(* The stream's process(), and the next pass.                              *)
Process == at = "stream" /\ at' = "panel" /\ Becomes(Pumped(Here)) /\ UNCHANGED pads

-----------------------------------------------------------------------------
(* The panel.                                                              *)

PanelDone == at \in {"panel", "pressed"} /\ at' = "prepare"
             /\ UNCHANGED <<voice, deck, stream, card, pads, past>>

Panel == at \in {"panel", "pressed"} /\ pads < MaxPads /\ pads' = pads + 1 /\ UNCHANGED at

\* One of the pads that on_play_pad and on_record_pad debounce in common.
Pressed == at = "panel" /\ at' = "pressed" /\ pads < MaxPads /\ pads' = pads + 1

Focused == deck.active

(* Alt goes down or up: set_aux_active.                                    *)
Alt == Panel /\ Becomes([Here EXCEPT !.deck.held = ~@])

(* Play on a loop that is being overdubbed stops both.                     *)
PlayPad ==
    /\ Pressed /\ ~deck.held /\ voice[Focused].overdub
    /\ Becomes([Here EXCEPT !.voice[Focused].overdub = FALSE])

RevPad == Pressed /\ "rev" \in Hands /\ ~deck.held /\ Becomes([Here EXCEPT !.deck.active = 1 - @])

(* Alt+Play: close a fresh take, disarm the overdub, begin a take in an    *)
(* empty voice, or arm the overdub.                                        *)
RecordPad ==
    LET v == Focused
        silent == [Disturbed(Here, v) EXCEPT !.voice[v].buf = [k \in 1 .. Cap |-> None]]
    IN  /\ Pressed /\ "record" \in Hands /\ deck.held
        /\ Becomes(
             CASE voice[v].defining ->
                    [Here EXCEPT !.voice[v].len = IF voice[v].head = 0 THEN 1 ELSE voice[v].head,
                                 !.voice[v].defining = FALSE, !.voice[v].head = 0,
                                 !.past.from[v] = None]
               [] voice[v].overdub -> [Here EXCEPT !.voice[v].overdub = FALSE]
               [] voice[v].len = 0 /\ ~voice[v].defining ->
                    [silent EXCEPT !.voice[v].defining = TRUE, !.past.erased[v] = FALSE]
               [] OTHER -> [Here EXCEPT !.voice[v].overdub = TRUE])

(* Alt+Rev: save the window that is heard; within the buffer when the      *)
(* voice is empty, which is refused.                                       *)
SaveTrimmed ==
    /\ Panel /\ "trim" \in Hands /\ deck.held
    /\ \E from \in 0 .. Cap - 1, to \in 1 .. Cap, between \in {FALSE, Torn} :
         /\ from < to /\ to <= voice[Focused].len
         /\ Becomes(StartSave(Here, from, to, between))

(* Alt+Seq: tapped, and held, which takes the tap back (the hold is over   *)
(* before the tap is due).                                                 *)
SaveArm == Panel /\ deck.held /\ Becomes([Here EXCEPT !.deck.armed = "waiting"])

Erased(z, v) ==
    [Disturbed(z, v) EXCEPT
       !.deck.armed = "no",
       !.voice[v] = [@ EXCEPT !.overdub = FALSE, !.defining = FALSE, !.head = 0, !.len = 0,
                              !.wpos = 0, !.buf = [k \in 1 .. Cap |-> None]],
       !.past = [@ EXCEPT !.erased[v] = TRUE,
                          !.astray = z.past.astray \/ z.voice[v].load # "idle"]]

Erase == Panel /\ deck.armed = "waiting" /\ Becomes(Erased(Here, Focused))

(* Alt+PITCH: another slot for the focused voice.                          *)
Pick(k) ==
    /\ Panel /\ deck.held
    /\ ~voice[Focused].defining /\ k # voice[Focused].slot
    /\ Becomes([Here EXCEPT !.voice[Focused].slot = k, !.deck.dirty = TRUE,
                            !.past.picked = Focused])

-----------------------------------------------------------------------------
(* The interrupt: the voices record, then a save goes on by a chunk.       *)

RecordingVoice(v) == voice[v].defining \/ voice[v].overdub

\* The input is laid down where the head is: anywhere in a loop that is overdubbed,
\* from the first chunk on in a fresh take.
Recorded(z, v, h) ==
    LET c == z.voice[v]
        k == IF c.defining THEN (c.head % Cap) + 1 ELSE h
    IN  IF ~(c.defining \/ c.overdub) THEN z
        ELSE [Disturbed(z, v) EXCEPT !.voice[v].buf[k] = -2,
                                     !.voice[v].head = IF c.defining THEN k ELSE @]

\* Mutant of Pushed: a chunk the ring has no room for is counted.
PushedBlind(z) ==
    LET put == IF Len(z.stream.ring) < RingCap /\ z.stream.mode = "record"
               THEN SubSeq(z.voice[z.deck.saveVoice].buf, z.deck.savePos + 1, z.deck.savePos + 1)
               ELSE <<>>
        y == [z EXCEPT !.stream.ring = @ \o put, !.deck.savePos = @ + 1]
    IN  IF z.deck.save # "writing" THEN z
        ELSE IF y.deck.savePos >= z.deck.saveEnd THEN [y EXCEPT !.deck.save = "finalize"] ELSE y

Pushed(z) ==
    LET put == IF Len(z.stream.ring) < RingCap /\ z.stream.mode = "record"
               THEN SubSeq(z.voice[z.deck.saveVoice].buf, z.deck.savePos + 1, z.deck.savePos + 1)
               ELSE <<>>
        y == [z EXCEPT !.stream.ring = @ \o put, !.deck.savePos = @ + Len(put)]
    IN  IF z.deck.save # "writing" THEN z
        ELSE IF y.deck.savePos >= z.deck.saveEnd THEN [y EXCEPT !.deck.save = "finalize"] ELSE y

Interrupt(h) ==
    /\ deck.save = "writing" \/ \E v \in Tracks : RecordingVoice(v)
    /\ \A v \in Tracks : voice[v].overdub => h[v] <= voice[v].len
    /\ Becomes(Pushed(Recorded(Recorded(Here, 0, h[0]), 1, h[1])))
    /\ UNCHANGED <<at, pads>>

AnyInterrupt == \E h \in [Tracks -> 1 .. Cap] : Interrupt(h)

-----------------------------------------------------------------------------
(* Time: the tap of a save falls due; the card is there, or is late.       *)

FallDue == /\ deck.armed = "waiting" /\ deck' = [deck EXCEPT !.armed = "due"]
           /\ UNCHANGED <<voice, stream, card, at, pads, past>>

Boot == /\ Preload /\ deck.boot = "none"
        /\ \E b \in {"card", "late"} : deck' = [deck EXCEPT !.boot = b]
        /\ UNCHANGED <<voice, stream, card, at, pads, past>>

-----------------------------------------------------------------------------

Init ==
    /\ voice = [v \in Tracks |->
                  [len |-> 0, overdub |-> FALSE, defining |-> FALSE, head |-> 0, load |-> "idle",
                   wpos |-> 0, slot |-> 0, buf |-> [k \in 1 .. Cap |-> None]]]
    /\ deck = [active |-> 0, held |-> FALSE, dirty |-> FALSE, armed |-> "no",
               boot |-> "none", next |-> 0,
               save |-> "idle", saveVoice |-> None, savePos |-> 0, saveEnd |-> 0]
    /\ stream = [mode |-> "idle", finalizing |-> FALSE, slot |-> 0, pos |-> 0, eof |-> FALSE,
                 ring |-> <<>>]
    /\ card = [k \in Slots |-> [frames |-> Clips[k], data |-> [i \in 1 .. Clips[k] |-> k],
                                there |-> Clips[k] > 0]]
    /\ at = "panel" /\ pads = 0
    /\ past = [from |-> [v \in Tracks |-> None], whole |-> <<>>, clean |-> FALSE,
               erased |-> [v \in Tracks |-> FALSE], picked |-> None, astray |-> FALSE]

MainLoop == PanelDone \/ Process \/ \E between \in {FALSE, Torn} : Prepare(between)

Next == \/ MainLoop \/ AnyInterrupt \/ FallDue \/ Boot
        \/ Alt \/ PlayPad \/ RevPad \/ RecordPad \/ SaveTrimmed \/ SaveArm \/ Erase
        \/ \E k \in Slots : Pick(k)

Spec == Init /\ [][Next]_vars

\* The main loop and the audio go on, and time passes.  The main loop can always
\* take its turn, and nothing else moves it on.
After == CASE at \in {"panel", "pressed"} -> "prepare"
           [] at = "prepare" -> "stream"
           [] at = "stream"  -> "panel"
FairSpec == Spec /\ WF_at(at' = After) /\ WF_vars(AnyInterrupt) /\ WF_vars(FallDue)

-----------------------------------------------------------------------------

TypeOK ==
    /\ voice \in [Tracks -> [len : 0 .. Cap, overdub : BOOLEAN, defining : BOOLEAN, head : 0 .. Cap,
                             load : {"idle", "priming", "draining"}, wpos : 0 .. Cap, slot : Slots,
                             buf : [1 .. Cap -> Slots \cup {-1, -2}]]]
    /\ deck \in [active : Tracks, held : BOOLEAN, dirty : BOOLEAN,
                 armed : {"no", "waiting", "due"},
                 boot : {"none", "card", "late"}, next : 0 .. 2, save : {"idle", "writing", "finalize"},
                 saveVoice : Tracks \cup {None}, savePos : 0 .. Cap, saveEnd : 0 .. Cap]
    /\ stream.mode \in {"idle", "play", "record"} /\ Len(stream.ring) <= RingCap

LoadingVoices == {v \in Tracks : voice[v].load # "idle"}

(* The stream of the deck is shared by its voices and by loads and saves:  *)
(* what it does is what one of them has asked for, so that none of them    *)
(* stops the file of another (prepare, _start_save).  Two voices never     *)
(* load at once, unless one was erased in the middle of its load.          *)
StreamIsOwned ==
    /\ stream.mode = "record" <=> deck.save # "idle"
    /\ stream.mode = "play" => LoadingVoices # {}
    /\ deck.save # "idle" => LoadingVoices = {}
    /\ ~past.astray => \A u, v \in LoadingVoices : u = v

(* A save has written all of its window when it is closed, in order, and   *)
(* as it was unless the voice was erased or recorded to: "the ISR has      *)
(* pushed the whole loop" (softcut_engine.cpp:134).                        *)
SaveIsWhole ==
    deck.save = "finalize" \/ stream.finalizing =>
        LET written == card[stream.slot].data \o stream.ring
        IN  /\ Len(written) = Len(past.whole)
            /\ past.clean => written = past.whole

(* A voice that is being loaded, or was and has been left alone, holds the *)
(* file of its slot, from the first chunk on, as much as fits.             *)
LoadIsFile ==
    \A v \in Tracks : past.from[v] # None =>
        LET f == card[past.from[v]]
            n == IF voice[v].load = "idle" THEN voice[v].len ELSE voice[v].wpos
        IN  /\ SubSeq(voice[v].buf, 1, n) = SubSeq(f.data, 1, n)
            /\ voice[v].load = "idle" => n = IF f.frames < Cap THEN f.frames ELSE Cap

(* A load, a save and a tap that waits come to an end, and so does the     *)
(* preload of a card that is there.                                        *)
TransfersEnd == []<>(/\ LoadingVoices = {} /\ deck.save = "idle" /\ deck.armed = "no"
                     /\ deck.boot = "card" => deck.next \notin Tracks)

(* softcut.md:43: an erase "empties the buffer so the next Alt+Play        *)
(* records a fresh take".                                                  *)
ErasedStaysEmpty == \A v \in Tracks : past.erased[v] => voice[v].len = 0

(* softcut_engine.cpp:183: a pick waits "while a load/save is in flight".  *)
LoadsOneByOne == \A u, v \in LoadingVoices : u = v

(* softcut.md:9: "Each deck edits one **focused** voice at a time": the   *)
(* slot picked for a voice is loaded into that one.                        *)
LoadsWherePicked ==
    [][\A v \in Tracks : deck.dirty /\ ~deck'.dirty /\ past'.from[v] # past.from[v]
          => v = past.picked]_vars

(* softcut_engine.cpp:183: a pick "stays dirty (retried next pass) while a *)
(* load/save is in flight".                                                *)
PicksAreRetried ==
    [][deck.dirty /\ ~deck'.dirty => stream'.mode = "play"
                                     \/ ~card[voice[deck.active].slot].there]_vars
=============================================================================
