# A TLA+ verification of the sk-engines firmware

sk-engines turns a Spotykach (STM32H7, no operating system) into a platform: panel, pads, clock,
CV and SD card stay as they are, and one of some twenty sound engines runs underneath. This
directory models the parts of the firmware where steps interleave, fail or come out of order, checks
them with TLC and proves the central ones with TLAPS. The team says of that part itself that it is
"reasoned-through but not yet stress-tested" (`docs/dev/tape-impl.md:187`).

Paths below are those of the repository; the firmware is in `src/`.

## 1. The system

### Who runs when

| Context | What it runs | Preempts |
|---|---|---|
| audio interrupt | `CoreUI::tick` (the clock), CV, `engine.process` (a block of samples) | the main loop |
| USB interrupt | `Terminal::RxTrampoline` | the main loop |
| 250 Hz timer, DAC interrupt | gate inputs and the LEDs; the CV outputs | the main loop |
| main loop (`app.cpp`, `Loop`) | `terminal.process`, `ui.process`, `engine.prepare`, `storage.process`, `stream.process`, over and over | nothing |

An interrupt runs to its end before the main loop goes on. There are no locks: what both sides touch
is a ring, a mode, a latch or a flag.

### Components

| Component | State | Operations | Talks to | What is hard | What makes it correct |
|---|---|---|---|---|---|
| `memory/spsc_ring.h` | buffer, two free-running indices | write, read, readable, writable, reset | StreamDeck on both sides | both sides copy at once; wraps of buffer and index | it is a bounded queue; no byte is copied by both sides |
| `hw/stream_deck`, `memory/audio_stream.h`, readers, writers, `hw/fat_file` | per deck: mode, finalizing, ring, EOF latch, handle, reader, take | start_play, start_record, stop, set_loop, seek_play, process (pump), play_consume, record_produce | engines (calls), audio interrupt, card | interrupt between any two steps of the pump; card errors; tail of a take after stop | frames in order, takes complete, handles freed, everything ends |
| `memory/storage`, `hw/card` | card state and notice, one file handle, two decks' states, preload step, opening deck, SK/MEM | activate, cancel, load, save, tapes and slots; process | pads, engine buffers, card | one card and one notice for two decks; boot at the same time; card errors | a load or save lands where it belongs and ends; the picture of the slots and SK/MEM are right |
| `transport/`, `dsp/divider` | clock source, ticks, tempo, hold, key and quarter counts | tick, toggle_source, reset, tap | panel, audio interrupt, engines (tick callback) | main loop reconfigures a clock the interrupt ticks; dropout and return of an external clock | the timeline stays within one pulse of the external clock, and realigns once |
| `ui/` (pads, knobs, holds, MIDI, gates) | touched set, holds, a value and a tracking mark per layer of a knob | touch, release, pot moved, process | everything | holds against taps; takeover across layers; queue and apply pass ask at different times | a lock turns once; a knob never jumps; the ring shows what is heard |
| `terminal/` | RX ring, line or SLIP assembler, TX FIFO, test mode | RX callback, process, dispatch | engine, panel | overflow at either end; silent host | one reply per command or an announced loss; the panel is handed back |
| `engine/granular/` | loop buffer heads and fades, step track, voices | record, write, cut, clear, load; tick, add_event; event_on, vox_off | transport, storage, panel | record, cut and load in any order; slot wraps; voice stealing | heads stay inside; slots stay inside; the queue of voices is a permutation |
| streaming engines (`tape`, `radio`, `bard`, `shuttle`, `pstretch`) | per deck: slot, loop mode, phase, requests to the main loop | toggles, prepare, process | StreamDeck | requests passed from interrupt to main loop by flags | a request is served once and for the play it was made for |
| `engine/softcut` | per deck: two voices, load and save under way, pending pick, preload | pads, picks, prepare, process | StreamDeck | two voices, saves and the preload share one stream and one ring | nobody stops another's file; what is loaded or saved is whole |
| `engine/edrums` | drums, stored kit | focus swap, reset, auto-save | flash | a kit saved while it is edited | the stored kit is the one heard |
| `engine/csound`, `engine/chuck` | current patch, pending switch | select, prepare, process | card, third-party interpreters | switching under the interrupt | the interrupt never runs a half-built patch |
| the other engines | filters, delays, oscillators | process | - | numeric | not the subject of a state model |
| LEDs, calibration, hardware access, web tools, scripts, host harness, build files | - | - | - | - | not modelled (section 8) |

`PROJECT.json` lists the same components with their status, every hazard at its line, and the lines
each definition stands for.

## 2. The modules

| Module | Models |
|---|---|
| `ByteFifo` | the abstract specification of a ring: a queue of at most `Cap` bytes that takes and gives prefixes of what is asked |
| `SpscRing`, `SpscRing_proofs` | `spsc_ring.h`, a byte copied per step; its inductive invariant, and the proof that it implements `ByteFifo` |
| `StreamDeck`, `StreamDeck_proofs` | `stream_deck.cpp` with the streams, readers and writers it owns; what is proved of its control, its takes, its plays, and of `TapeEngine` and `Softcut` |
| `TapeStorage`, `TapeStorage_proofs` | `storage.{h,cpp}` and `card.cpp`, and the pad gestures that drive them; the proofs for a user who waits |
| `Transport` | `transport.cpp` with its divider and `CoreUI::tick` |
| `SynClock` | the arithmetic of `synclock.cpp` |
| `Clock_proofs` | the proofs about `Transport` and, as its instance `C` in `MCSynClock`, about `SynClock`, for any resolution |
| `StepTrack` | `granular/track.cpp` and its callers |
| `LoopBuffer`, `DeckRecorder`, `DeckRecorder_proofs` | `granular/buffer.cpp` as functions of its state; `granular/deck.cpp`, detector and fades over it; the proofs for any buffer |
| `DeckVoices` | `dispatcher.h`, `vox.cpp`, `generator.cpp` and what `deck.cpp` does when a voice ends |
| `Granular_proofs` | the proofs about `StepTrack`, for any ring, and about `DeckVoices`, for any number of voices |
| `TerminalLink`, `TerminalLink_proofs` | `rx_ring.h`, `line_assembler.h`, `terminal.cpp`, `text_sink.cpp`, `tx_fifo.h`; the proofs that a packet in flight is left alone and that a host that waits is answered in turn |
| `Softcut` | one deck of `softcut_engine.cpp` over the parts of the stream it uses |
| `TapeEngine` | one deck of `tape_engine.cpp` over its stream |
| `Panel`, `Panel_proofs` | the knobs' layers, the hold of Tap and the effect pads of `core.ui.cpp`, `core.ui.pads.cpp`, `mvalue.cpp`; the proofs |
| `MC*` | constants, and the settings of each run |

The comment at the head of each module says what is kept. In general: a variable is a member of the class,
named after it. How finely a handler of the main loop is cut where the interrupt may come into it differs, and each module says it:

| Module | Cut at | One step, though the interrupt could come in |
|---|---|---|
| `SpscRing` | every index and every byte | - |
| `StreamDeck`, `TerminalLink` | every access to what the interrupt (audio, USB) touches | - |
| `Transport` | the stores of a source switch and of a realignment | the other inputs |
| `StepTrack` | the hit: slot first, memory of it last (`adding`) | arming, disarming, clearing, `stop` and `rewind`, each a few stores |
| `DeckRecorder` | `clear()` and `set_rec_size()`, store by store (`call`), and what `_set_buf_armed` does after the clear | the pads' other branches, `set_recording`, `cut` |
| `DeckVoices` | each test a call makes, each voice released or turned, each store into the queue, the mark, and in `Vox::trigger` before what follows from a busy voice (`main`) | the search of the queue; one `Vox::stop` or `set_reverse`; `_set_mode`'s two stores |
| `Softcut` | between pads, `prepare()` and the stream's `process()` of a pass; with `Torn`, the stores of `_start_save` | each of these |
| `TapeEngine` | the same, and `prepare()` at each flag it reads or clears | a pad; the pump |
| `TapeStorage`, `Panel` | nothing: no interrupt writes what they model | - |

Stores are taken in the order of the source; a compiler that moves them is not looked at. What the third column
names is not examined with an interrupt inside it, and what is checked and proved holds up to that (section 9).
Where it is cut, and the code loses something in between, the run's property leaves out exactly that moment and
section 7 has the one that does not: `StepTrack` (`NeverDoubleHit`), `DeckRecorder` (`AlwaysClosed`,
`AlwaysFromFirst`), `DeckVoices` and `Softcut` (`Torn = TRUE`).

`main.pc`, `main.at`, `call.at` or `at` is the place of the main loop. Names of history variables (`due`,
`accepted`, `used`, `renewed`, `past`, ...) are said to be such where they are declared. `MaxOps`, `MaxPads`,
`MaxTurns`, `MaxSent`, `MaxTake`, `MaxCount`, `MaxGap`, `MaxCalls` bound what a player, a host or a source of
clock does; nothing else is cut off.

- **SpscRing.** `head`, `tail`, `buf` are the members; `wpc/src/wi` and `rpc/rn/dst` the locals of a write and of a
  read under way. `WriteBegin` loads the indices and clips the request, `WriteByte` is one byte of the two
  `memcpy`s, `WritePublish` the release store; the reader is the same with the sides exchanged.
- **StreamDeck** stands on that result: its `ring` is a queue. A frame is named by its place in its file, so
  that losing, repeating or swapping frames shows. `main.pc` walks the control calls of an engine and then
  `process()`; `PlayConsume` and `RecordProduce` are the interrupt, between any two of those steps.
- **TapeStorage** has no interrupt. `turn` walks through one `Storage::process` (boot, opening, deck A, deck B,
  letting go of the card), and the user acts between two of them. `error_detected` is left out, because it is false
  whenever `process()` is entered. A timer that has run out is a choice of the environment.
- **Transport** counts ticks, quarters and keys per block of 2 ms and cuts the main loop's source switch and
  realignment at every store; `Preempt` says how many blocks may fall in between. Of the clock's arithmetic it keeps how
  far the clock is ahead of the last pulse, which is **SynClock**'s result (`OneCount`). A MIDI Start less than 4 ms
  after a pulse makes that place a key; a later one restarts the clock.
- **StepTrack** names a slot by its pointer; the cell `Length` stands for the memory behind the ring. A hit is two steps,
  `Trigger` (`add_event` up to the slot) and `Remember` (`_last_hit_slot`), and ticks come between them.
- **DeckRecorder**: an interrupt is one tick and one frame. The detector keeps 10 ms of input in four states. A
  fade is its counter, in `Wrap` values for 2^32. A clear is `ClearStore` five times (the `memset` before it changes no head);
  arming goes on after it (`Armed`), a load gives the length and then cuts (`Loaded`, `Sized`). `past` keeps whether an interrupt
  changed the buffer inside the last clear, and how many frames the take under way has had.
- **DeckVoices**: any phase of a voice may end in any frame; "fresh" and "spent" tell apart whether a voice has
  had its first frame. A call of the main loop begins with `Play`, `Stop`, `Gate`, `SetMode`, `ClearSequence` or
  `Turn` and goes on by `MainStep`; the interrupt's calls (`Tick`, `PlayQueued`, `Frame`) are whole, since
  nothing preempts it. Without `Torn` the interrupt dispatches no voice while the queue is being moved, and does
  not end the last voice between `set_mode`'s question and its store.
- **TerminalLink** keeps two verbs that exist and one that does not, and the line codec (not OSC).
- **Softcut** counts audio in chunks, reads a file whole, and lets a debounced pad happen once per pass;
  **TapeEngine** runs the pump in one step. Both keep of `StreamDeck` what they use.
- **Panel**: a step is one `CoreUI::process()` with everything in it; between two of them the player may change
  all that he can reach. `Habits` are the things that the properties do not survive (section 7). Which engine
  it is matters by `kind`: the knob that is looked at.

Definitions under a `\* Mutant:` comment are deliberate faults, used by nothing: put in the place of the definition
that `PROJECT.json` names with them, each makes the property listed there fail.

## 3. What the runs show

One run per component, over several settings where no single set of constants reaches every case: the MC
module's variable `setting` is chosen in the initial state and never changes, and the other settings are
`INSTANCE`s with other constants, or (`transport`) other steps of the same specification. States are distinct
states of the full search.

| Run | Settings | Shows | States |
|---|---|---|---|
| `ring` | capacity 4, indices modulo 8, requests to 5 | a bounded queue (`FifoSpec`); no slot is copied by both sides (`NoTornByte`) | 249 344 |
| `stream_deck` | `slow`: one deck, a ring of 3, blocks of 2, five calls, a card as slow as it likes; `two`: two decks with one scratch; `failing`: a card that refuses any call | handles, modes, EOF latch and scratch agree (`DecksConsistent`); what is heard is the file and what is kept is the take (`DecksFaithful`); a loop is never ended by the pump and a ring under a seek is the main loop's alone (`StreamsUndisturbed`); every take is finished, every play that can end does (`StreamsEnd`) | 350 543 |
| `tape_storage` | `calm`: two tapes, both decks, a user who waits for one before using the other; `rough`: any user on a card that refuses any call | the one handle serves the right deck (`StorageConsistent`); slots and SK/MEM are true (`ShownIsThere`); no deck keeps half a file (`BuffersWhole`); operations end by themselves only (`NothingCutShort`), and do end (`OperationsEnd`) | 816 895 |
| `transport` | `counting`: dropouts, MIDI starts, knob turns, source switches and resets that no block interrupts; `switching`: resets and switches with a block between their stores | source, hold and counters agree (`ClockConsistent`); keys fall on quarters when they should (`KeysFallOnQuarters`); a pulse after a dropout counts once and realigns once (`PulsesCount`); a clock that comes is heard (`ClocksAreHeard`) | 408 543 |
| `synclock` | two clocks, two tempi, a small overflow threshold | each pulse is worth its ticks, early, late or across the reset (`PulsesPaid`); the internal clock keeps its tempo (`TempoIsRight`) | 18 250 |
| `step_track` | `ring`: two slices of two; `clocked`: one slice under a fair clock | pointers stay in their slice, ends after starts (`TrackConsistent`); only a recording changes the length of a pattern (`PatternsKeepLength`); a recorded hit sounds once, if no tick comes between its two stores (`NoDoubleHits`); what waits for the clock happens (`ClockServes`) | 1 238 079 |
| `recorder` | `free`: pads, two pads in one scan, mode switch, loads, and the interrupt between the stores of a clear or a load; `clocked`: the calm deck under a fair clock | an idle loop is closed (`LoopClosed`) and a take is the frames since it began, from the first frame of the buffer (`TakeIsOneRun`), if no interrupt changed the buffer inside the last clear; with at most one pad in a scan the fade stays in its table (`FadesInTable`; section 7 has the case of two); an overdub is back in the loop after a frame (`HeadReturns`) and keeps its length (`OverdubKeepsLength`); what is armed for the clock starts and stops (`ClockActs`) | 561 990 |
| `voices` | `modes`: two voices, every mode and a sequence; `free`: without Slice; `waiting`: a switch that waits, fair; `three`: three voices in Slice, two calls of the main loop; all with the interrupt between the steps of each call, without `Torn` | every voice is in the queue, the held one is active, none that has ended is counted, and without Slice the loop goes on (`VoicesConsistent`); a switch that waits for silence comes about (`SwitchesHappen`) | 1 286 025 |
| `softcut` | `pads`: both voices of a deck that is up; `boot`: the preload under a player's hands; `erase`: the preload while the player picks, erases and swaps the voices | a file is stopped by whom it serves, and two voices never load at once, unless one was erased in its load (`StreamIsOwned`); loads and saves are whole (`TransfersWhole`) and end (`TransfersEnd`) | 192 164 |
| `tape` | ring 2, files of 3 and 4, four turns | the loop shape follows the file wherever engine and stream count alike (`ShapeFollowsTape`); what should end does (`TapesEnd`) | 553 031 |
| `terminal` | `turns`: a host that sends a line and waits, ring 8; `flood`: one that does not, ring 3, FIFO 5 | a packet in flight is left alone (`InFlightStable`); replies come in turn (`RepliesInTurn`); overflows are told and the panel is handed back (`LinkRecovers`) | 113 763 |
| `panel` | `apart`: five kinds of knob, one thing held at a time; `together`: all effect pads with Alt in any order and several in one scan | the rings show what is heard (`PanelConsistent`); no knob makes a value jump (`TakesOver`); a lock turns once when pad and Alt meet, and an effect sounds while it is on or locked (`LocksOnce`) | 49 860 |

What the passing storage runs do not say: with both decks busy, or on a failing card, `SK/MEM` can keep
an entry of an operation that was cancelled, a slot can be shown that is no longer there, and a load
that fails leaves the start of a file over an older take. And for the user who waits: a save that is cancelled in
its last moment has written its file without telling the other deck, whose slot stays dark until its tape is
turned; that is why `SlotsFresh` speaks of saves that ended by themselves. Those are what the code does,
and no document promises otherwise.

## 4. Bounds, and why they are enough

- `SpscRing`: both wraps happen, requests are clipped, the ring is empty and full. The proof removes the bounds.
- `StreamDeck`: files shorter and longer than the ring, one with a header and no audio, several loops in one
  pump, a converter that stages less than a file; five control calls reach play, loop, seek, stop and a second
  start. The proofs remove the bounds of the safety properties.
- `TapeStorage`: two tapes of one slot for six of six, since a deck looks at one tape and one slot at a time; `Chunks` 2 so
  that a buffer can be half loaded; five events reach a record, a save, a cancel or a load on the other deck, and a
  reopening.
- `Transport`: a quarter of a few ticks, a bar of two quarters, key intervals shorter and longer than both;
  `Recent` and `Gone` keep the order of the code's 4 ms and one second. `SynClock`: pulses early and late by more than a
  resolution, gaps to `MaxGap`, a threshold that is passed several times.
- `StepTrack`: the ring wraps, and a recording can be longer than it. `DeckRecorder`: a buffer of three frames
  and loads of none and one, so that a take outlasts a fade, reaches the end while fading in, and is longer than
  what is loaded over it; the proof removes the sizes. `DeckVoices`: two voices are the fewest with one held and
  one taken, and queue, steal and retrigger; three, the code's number, are the fewest with one held, one active
  and one free, and `MaxCalls` 2 lets one call of the main loop meet what another left. The proof removes
  numbers and bound.
- `Softcut`: a clip longer than a voice and one shorter (or one that just fits), a ring that is full after one chunk, eight pads on a
  deck that is up. An erase that outlasts its load needs the preload, Rev and six pads, which is the setting `erase`; `Hands` keeps
  the pads apart that the two settings of the preload are not about.
  `TapeEngine`: files longer than the ring, a fade that reaches its floor in `Floor` passes, four turns of pads and knob.
- `TerminalLink`: in `flood` a ring, a line and a FIFO that each overflow; in `turns` lines and replies that span chunks and
  packets. The proof removes the sizes and the lines. `Panel`: three positions tell "at", "beside" and "beyond"
  apart at a threshold of zero; the proof removes both.

## 5. Fairness

The safety runs assume nothing. Liveness is checked under these, each stated where it is used:

- the main loop never stops: nothing in `Loop` blocks (weak fairness of its steps; of each place of the loop in `Softcut`
  and `TapeEngine`; of a frame that ends every phase in `DeckVoices`);
- the audio interrupt keeps coming: the codec's DMA drives it. In `StreamDeck` this is the interrupt of each deck, and
  `KeepsUp` says in addition that the card is faster than the audio; nothing in the code enforces that (section 7);
- timers run out: the 200 ms of an opening deck under strong fairness, because its turn comes again and
  again rather than staying; the time a tap of `Softcut` waits before it saves (`FallDue`); the dead-man's switch;
- an external clock keeps coming only in the settings called `clocked`, and only where the property is about what it starts.

Nothing is assumed of the player, of the host or of the card.

## 6. What is proved

With TLAPS, for every value of the constants that satisfies the named assumptions. `PROJECT.json` lists the
theorems; the modules' lemmas are what they rest on.

**SpscRing_proofs** (`CapAssumption`, `ModulusAssumption`, `MaxReqAssumption`): `TearFree` and `Refinement` (the ring
implements `ByteFifo`). Type and fill level alone are not inductive: a write that publishes must know that the slots it
publishes hold the bytes it accepted, although the consumer has moved `tail` in the meantime, and a read that what it
has copied is still in the ring. So `IInv` carries what each side has copied (`CopiedIsStable`) and that a write
under way fits in what is free and a read in what is filled (`InFlightBounded`). Below it lies modular
arithmetic: distances survive the wrap, slots of one transfer are distinct (`SlotInjective`).

**StreamDeck_proofs** (`CountAssumption`, `FilesAssumption`; any decks, rings, scratch,
files, a card that fails): one layer per argument, each using the ones before.

| Layer | Says | Why it is needed | Theorem |
|---|---|---|---|
| `HInv` | types of the control state, what each place of the main loop knows (`PlaceOfMain`) | a handle is open between two steps without its mode being set; only the place tells | `HandleCorrect` |
| `RingShape` | there is one ring per deck | a step that replaces one ring leaves the others | `RingAlone` |
| `LoopInv` | a file that is open has frames, and on a sound card a reader just rewound is short of its end | the pump ends a deck at its second rewind in one call | `LoopsOn` |
| `FInv`, `EInv` | types of all; the room measured before a read is still there; EOF latched only at the end | the write's result is dropped by the code | `StaysConsistent` |
| `WInv` | on a sound card, file plus ring are the accepted frames, in order, at each place of a take | the header is patched steps after the last frame | `WholeTakes` |
| `PInv` | place of the reader plus what is left is the file; what is in flight is one run, cyclic for a loop, from the frame due next | a seek, a rewind and a converter's stage move the reader and the queue in different steps | `HeardInOrder` |

`SlowConsistent`, `SlowFaithful` and `SlowUndisturbed` say the same of the properties as the run checks them, in the
setting whose constants are free; `two` and `failing` are two instances of what is proved for all.

The same module proves `ShapeFollows` of a client of the stream, `TapeEngine` (its instance `T` in
`MCTapeEngine`, `TapeParameters`: any ring, files of three frames or more, any floor). `ShapeFollowsTape`
compares the engine's place in the loop with the frame that the stream delivers next, and is not inductive: what
comes after that frame must be known too. `TapeInv` says that the ring holds consecutive frames up to the place
on the card, around the seam of a file that loops (`RunsOn`), that the frame due is 0 until a play has been
primed, and that place and passes agree with it from then on (`Agrees`). The pump preserves the first without
touching the frame due (`FullRuns`, over lemmas of division and rest), an interrupt moves engine and stream by
the same frames (`PrimedReady`, `AdvancedReady`).

It proves `SoftcutOwned` and `SoftcutWhole` of another client, `Softcut` (its instance `S` in `MCSoftcut`,
`SoftcutParameters`: any buffer, ring, files, with or without the preload, whatever pads are used; each setting
of the run is one choice of these). The handlers of a pass are functions of one record, the scene, so `SoftInv`
is `Sound` of the scene and each handler has a lemma that it keeps it; a pass is their composition. Neither
`StreamIsOwned` nor `TransfersWhole` is inductive. That no load begins beside another rests on where the file
is: a voice that loads has of its file what the ring has not, and has not got all of it (`Served`), so the
stream still plays and refuses a second load; an erase starts the voice at 0 again and breaks that until all
loads are over (`past.astray`). That what is loaded is the file rests on files that nobody writes being complete
(`Complete`) and on which voice holds which (`VoicesHold`); that what is saved is the window, on what is on the
card, in the ring and still to come being it together (`SaveGoesOn`). Both theorems assume `~Torn`: an interrupt
between the stores of `_start_save` does close an empty file (`SaveIsWhole`, section 7).

**DeckRecorder_proofs** (`BufferAssumption`, `LoadsAssumption`): `IInv` is types, a fade-in that has not passed
its table, and, unless an interrupt changed the buffer inside the last clear (`past.torn`), a closed loop when
idle, a read head that waits at 0, and the take as the frames since it began. A clear is five steps, so none of
the last three holds inside it: what is already emptied at each of its places takes their place, and together
they give them back when the last store is made; that an interrupt has come in is no harm as long as it has not
changed the buffer. Every operation of the buffer preserves the parts by a lemma of its own, and the handlers
are compositions of these. Theorems `TypeCorrect`, `ClosedLoop`, `WholeTake`, `FixedLength`, `HeadInLoop`.
`CalmFades` (`~SameScan`, `~Switching`: one pad in a scan, the mode left alone) needs two more facts: a
recording that is in Slice has written since it was switched on (`Begun`), and elsewhere an interrupt comes
before the next pad; without both, the code does count below zero (section 7). `FadesStayInTable` is the run's
own property, of both its settings; it needs no assumption, since a step of the calm instance is shown to be a
step of `Next` (lemmas `Calm...`).

**Granular_proofs**, of `StepTrack` (`TrackAssumption`): `IInv` says what an empty track plays
(`EmptyPlaysNothing`), where the writer and the end of the pattern are before any recording (`Unstarted`),
during the first one (`TakeUnderWay`) and after it (`TakeSetsEnd`), and that the slot remembered against a
double trigger is the hit's once the second half of the hit is done (`HitRemembered`). How long a pattern is
asks where the reader comes to after `n` slots, for every `n`: the library's induction theorems cannot be used
here (they take an operator), so the module derives the induction it needs from facts about finite sets: a set
of naturals with a member below a bound has a least one. Theorems `TrackInvariant`, `Consistent`, `LengthKept`,
`HitsPlayOnce`, each of `Spec` and of the run's setting.

Of `DeckVoices` (its instance `V` in `MCDeckVoices`, which assumes `VoicesAssumption`): the main loop's calls
are cut into steps, so an invariant of a whole `event_on` is of no use; it must say what is true at each place
of it. Voices are `Intact` at a place when the held voice is active, but for the steps that change it, and a
counted voice plays; `Called` says what the main loop knows in a call (the voice it took is a voice, and at the
place it says); the queue is a permutation of the voices, and while the main loop shifts it (`Moving`), it is
one again once the stores that are left have been made (`Shifting`): that is why it is one after the last. An
interrupt that dispatches inside the shift breaks exactly this, which is what `Torn` is for. Each action of the
main loop has its lemma (`...Kept`), and the interrupt one for all places (`InterruptFine`). A frame is a
recursive function over the voices, so what it preserves is shown by the same induction (`RunsExist`,
`RunGoes`): a voice that ends leaves the deck as it is or turns it into the mode that waits (`BecomesDeck`), and
what is left when the last one ends has begun again (`LoopsAlive`). Theorems `VoicesRight` (the queue under
`~Torn`, the rest in any case), `LoopsLast` (which needs `"Slice" \notin Modes`: with Slice it does not hold,
section 7; and is of moments in which the main loop is in no call), and `VoicesAreConsistent` (`~Torn`) for the
run's setting "modes"; the voices of "three" are `VoicesRight` with three voices, and "free" is `LoopsLast`.

**Clock_proofs**, of `Transport` (`TransportAssumption`): a block may end a dropout, restart the clock, and give
any number of ticks up to a pulse; the main loop realigns and switches store by store. `TInv(p)` is types and
what keeps the clock within its pulse when `p` blocks, at most one, fall into an operation of the main loop:
such an operation takes microseconds and blocks come 2 ms apart, so the theorems assume `Preempt \in 0..1`. A
switch from internal to external gives the clock a shorter pulse than it may be ahead of; what saves it is that
a clock that a block has started inside the switch is one tick ahead at most. The other two hold where no block
interrupts (section 7 has what happens otherwise). `KInv` says when a grid is `GridSound` (key and quarter count
are whole quarters apart, `InStep`; a fresh grid's next tick is a key), and which half of it is realigned at
each store. `PInv` says that ticks given, MIDI clocks sent and the place in the bar all tell how far the clock
is ahead (`Paced`). What many ticks preserve is shown by induction over naturals, derived from facts about
finite sets (`Induction`), as is that their sum is what is paid (`PacedTicks`). Theorems `ClockIsConsistent`,
`KeysAreOnQuarters`, `PulsesAreCounted`, each the run's own property in both its settings.

Of `SynClock` (`ClockParameters`): the counts are not inductive alone; a pulse measures the right time because
the ticks counted for the tempo and their rest are the time since the last pulse (`SInv`). `_emit_ticks` is
proved branch by branch (early pulse, late pulse, across the reset of the counter), over lemmas of division and
rest. Theorems `ExactlyPaid`, `TempoFollows`, and `TempoRight` for `BlockTime = Interval`: with blocks other
than the interval `tick` is written for, the clock does run at another tempo (section 7).

**TapeStorage_proofs** (`StorageAssumption`): `TypeCorrect` holds of any user and card. The others hold for `Quiet`: a user who lets
one deck finish before using the other, a card that does not fail; any tapes, slots, chunks and tries, with and without the boot's
preload. There `CalmInv` is inductive: at most one deck is loading or saving, and during the boot only the one
that is preloaded (`OneAtATime`); the card is at work for it, has left its notice, or has refused the file (`Served`); what a
selecting deck shows is on the card or about to be (`Shows`, `Written`); and a preload goes on with what SK/MEM names
(`Noting`). Theorems `StoreServes`, `ShownAndNoted`, `NoHalfBuffers`, `EndsComplete`. Without `Quiet` they do not hold (sections 3, 7).

**TerminalLink_proofs** (`LinkAssumption`): `IInv` is types, what a chunk under way has drained (`ChunkInv`) and
which of the two buffers is the stack's (`FlightInv`). Theorems `TypeCorrect`, `FlightSafe`. `AnsweredInTurn` is
the run's `RepliesInTurn`, for any lines, ring, line, chunk, packet and time-out (`TurnsAssumption`: what the
host sends are lines; the FIFO holds a reply of three words; the ring holds a line after as many blank lines as
it sends, which have no reply to wait for). `TurnInv` says that nothing has been lost and that the link is in
one of three stages (`Stage`): only blank lines are on their way and nothing goes out; one line is on its way
in, and chunk, ring and assembler together hold exactly it (`ReadingOf`); or what the host has read, what is in
flight and the FIFO are together exactly its reply. `HearReply` is the step from there to a host that has it.

**Panel_proofs** (`PanelAssumption`): `PadsLock` holds whatever is pressed with what; its invariant `FxInv` is
that an effect is heard when it is on or locked, and on only while its pad is held. `NoJumps` and `ShowsTrue`
hold for a player with none of the `Habits`; `KInv` adds to `ShowsWhatSounds` that a layer that tracks is where
the knob is and is one that the layout reaches (`Reached`): that is why it need not be met again. The step is
three lemmas: a layer moves only to the knob (`QueuedSound`), a layer that moves is among those sent
(`SentWhereMoved`), and a layer that the engine sets stops tracking (`PassSound`). `PanelIsConsistent` is the
run's own property, of both its settings.

Only model-checked: liveness everywhere (fairness and `ENABLED` are beyond the prover), and the storage of a
user who does not wait. No module here uses `RECURSIVE`, which would take the SMT backend away from every module
that reaches it.

## 7. Divergences met while modelling

Each is a property that the code does not have, with what the repository says in `PROJECT.json`, "findings".
TLC shows each by the configuration named, or, where constants are named, by these in the
component's configuration with the property added to it.

| Property | What happens | How to see it |
|---|---|---|
| `PlaybackEnds` | a float WAV that is cut short never reaches EOF: silence until it is stopped | `StreamDeck`, `Files <- MCCut` |
| `PumpReturns` | one call of the pump goes on as long as the interrupt empties the ring faster than the card fills it | `StreamDeck`, `KeepsUp = FALSE` |
| `SaveNamesASlot` | a save on a tape without a chosen slot indexes the slot names with 255 | `TapeStorage` |
| `OperationsComplete` | opening one deck mounts the card again; the other deck's load or save ends unnoticed | `TapeStorage`, `Waits = {}` |
| `LoadsLand` | a load begun between the last chunk and the notice is taken for the first deck's | `TapeStorage`, `Waits = {"open"}` |
| `OperationEnds` | a full card takes no byte and reports no error: the save never ends | `TapeStorage`, `Full = TRUE` |
| `NextWillBeKey`, `ArmedOrRunning` | a tick between the stores of a realignment, or of a source switch | `Transport`, `Preempt = 1` |
| `TempoIsRight` | with 256-frame blocks the clock runs at 0.375 of its tempo | `SynClock`, `Block` other than `Interval` |
| `RecordingSetsLength`, `RingKeepsLast`, `HitsInside` | a disarm before a recording sets its end; a full ring plays one slot; a hit is written behind the ring | `MCTrackEnd.cfg`, `MCTrackRing.cfg`, `MCTrackInside.cfg` on `StepTrack` |
| `NeverDoubleHit` | a tick between the two stores of a hit plays it a second time; one that moves the reader there silences the next slot's | `MCStepTrack.cfg`, `NoDoubleHits` replaced by `NeverDoubleHit` |
| `AlwaysClosed`, `AlwaysFromFirst` | an interrupt inside a clear leaves an idle buffer with an open loop, or a read head that the next take begins at | `MCDeckRecorder.cfg`, `LoopClosed` replaced by either |
| `FadeInTable` | a recording switched on and off in one scan counts its fade below zero | `MCRecorderFade.cfg` on `DeckRecorder` |
| `StartsArmed`, `ArmedHears` | a disarmed deck records at the quarter; a deck armed in Slice and switched to Reel is deaf | `MCRecorderStart.cfg`, `MCRecorderDeaf.cfg` |
| `PlaysOn`, `LoopsOn`, `StopSilences`, `NewestKept` | a Reel that stays silent; a Drift that does not begin; a voice on a stopped deck; the newest voice stolen | `MCVoicesSilent.cfg`, `MCVoicesDrift.cfg`, `MCVoicesStop.cfg`, `MCVoicesNewest.cfg` on `DeckVoices` |
| `QueueHoldsAll` | the interrupt dispatches while the main loop moves the queue: a voice is lost from it, and another is in it twice | `MCDeckVoices.cfg`, `Torn = TRUE` |
| `SwitchHappens` | the last voice ends between `set_mode`'s question and its store: the switch to Drift never comes | `MCDeckVoices.cfg`, `Torn = TRUE`, without the invariant |
| `RxLossTold`, `ToldFirst`, `WholeReplies` | an overflow is cleared unread, or told a line late; a reply is dropped in part | `terminal`, setting `flood` |
| `ErasedStaysEmpty` | an erase leaves the load of the voice running, which fills it again | `Softcut` |
| `LoadsOneByOne` | a pick is committed while a voice erased in its load is still draining: two loads share one stream, and each voice gets a part of the file | `softcut`, setting `erase` |
| `PicksAreRetried`, `LoadsWherePicked` | a pick is lost while the stream is busy; one that waited loads the other voice | `Softcut` |
| `SaveIsWhole` | the interrupt between the stores of `_start_save` closes an empty file | `Softcut`, `Torn = TRUE` |
| `StopsItsPlay`, `PlayIsPrimed`, `FadeOnSeam` | a stop request that outlives its play; a play begun with the gain of the last; a fade beside the seam | `TapeEngine` |
| `TakesOver` | a knob jumps after test mode; after PITCH has picked a slot; after SIZE has fitted a tempo | `MCPanelTest.cfg`, `MCPanelFit.cfg`; `Panel`, `Habits = {"card"}` and kind `pitch` |
| `ShowsWhatSounds` | SOS or MODFREQ turned as Tap is let go is shown and not sent; Tap with Grit sets zeros an engine does not have | `Panel`, `Habits = {"late"}`, or `{"both"}` and kind `select` |

Seen on the way, with no promise in the repository against them: two things held at once (Flux and Grit; Tap and Flux)
move one layer and send another; SIZE jumps after the mode was switched (`Habits` `both` and `modes`); a softcut
save that is deferred saves the voice that is focused when it comes; Alt+Play while a clip loads records
into the same buffer; a clip cut short leaves its load draining for ever, like `PlaybackEnds`.

## 8. Not modelled

Most lines of the repository have no protocol to check. Resource tables, generated code and third-party
DSP (plaits, rings, stmlib, gen, Faust kernels, GrainflowLib, softcut-lib, the interpreters of csound and
ChucK) are well over half of them, and the pure DSP engines are filters and oscillators with no state
machine: a model of those would be numerics. LEDs and displays are output; calibration is arithmetic on readings;
web tools, scripts, the host harness and the build are not firmware.

Of what is modelled: the resampling path of the converter, bank scanning and text files (`StreamDeck`); WAV
headers and the streaming build's card (`TapeStorage`); tap tempo and the mapping of the tempo knob (`Transport`);
suspended voices (`DeckVoices`); OSC, the verbs' effects on engines (`TerminalLink`); rates and windows in seconds
(`Softcut`); slots' display, gains and effects (`TapeEngine`); the hold of Alt+Seq, gates, CV, MIDI routing and the
seeding of layers at boot, which for layers that are not sent then is taken to agree with the engine
(`Panel`). A power loss is no step of any model: nothing in the code recovers from one beyond reading the card again.

## 9. Plan

1. One abstract deck of the stream, which `StreamDeck` is shown to implement and `TapeEngine` and `Softcut` are built on; then
   radio, bard, shuttle and pstretch as further clients of it.
2. `WavWalk` and `PcmCarry`: the chunk walk and the carry of a straddling frame, against a reference over bounded inputs.
3. The handlers of the main loop that are still one step in `StepTrack` (`stop`, `rewind`, `clear`) and
   `DeckRecorder` (`set_recording`, `cut`, the pads' branches), store by store, and what their properties
   become.
4. The rest of the panel (Alt+Seq, gates, MIDI) and its composition with `TapeStorage`; edrums and its stored kit; the patch switch of
   csound and chuck.
5. Proofs: the storage of a user who does not wait (`TapeStorage` without `Quiet`); `StreamIsOwned` with `Torn`, which TLC does not
   refute but whose argument here goes through the whole window being saved.
