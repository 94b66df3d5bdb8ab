---------------------------- MODULE TapeStorage ----------------------------
(***************************************************************************)
(* memory/storage.{h,cpp} and hw/card.{h,cpp}: the six-by-six tape store   *)
(* through which the two decks of a looping engine load and save their     *)
(* buffers, one card and one file handle between them.                     *)
(*                                                                         *)
(* Everything here runs in the main loop.  One round of it is the user's   *)
(* events, then Storage::process, which is split into its consecutive      *)
(* parts (`turn`); nothing else runs between those parts.  This is the     *)
(* build without SPK_USE_STREAM, the one the tape-storing engines have.    *)
(* A timer that has run out is a choice of the environment.                *)
(***************************************************************************)
EXTENDS Naturals

CONSTANTS NTapes, NSlots,  \* tapes, and slots on each
          Chunks,          \* calls of read_audio or write_audio a buffer takes
          BootTries,       \* mount attempts that may fail before the boot goes on
          OpenTries,       \* attempts to recognize and mount when a deck opens
          PreloadOn,       \* config.txt's pre_load
          Faults,          \* the card may refuse any call
          Full,            \* the card may be full: a write takes no byte
          Waits,           \* "open", "load", "save": what the user does on a deck
                           \* only when the other deck and the boot are done
          MaxOps           \* bound: events of the user

Deck == {0, 1}
Other(d) == 1 - d
Tape == 0..(NTapes - 1)
Slot == 0..(NSlots - 1)
None == 255                \* kNone, and DeckRef::None
File == Tape \X Slot
NoFile == <<None, None>>

ASSUME StorageAssumption ==
    /\ NTapes \in 1..None /\ NSlots \in 1..None
    /\ Chunks \in Nat \ {0}
    /\ {BootTries, OpenTries, MaxOps} \subseteq Nat
    /\ {PreloadOn, Faults, Full} \subseteq BOOLEAN
    /\ Waits \subseteq {"open", "load", "save"}

VARIABLES card,     \* Card: its state, whether a volume is mounted, the notice
          job,      \* the audio file the card has open, or had last
          deck,     \* the two DeckStorages
          preload,  \* Storage::_preload_step: its kind and its deck
          opening,  \* Storage::_opening_deck
          counter,  \* Storage::_counter
          waited,   \* the 200 ms of an opening deck have passed
          files,    \* the card's audio files: "none" (or of no byte), "part", "whole"
          mem,      \* the two entries of SK/MEM
          audio,    \* external, the engine's buffers: has a take, is half loaded
          turn,     \* the part of the main loop that runs next
          ops,      \* events of the user so far
          used      \* ghost: the sample each deck loaded or saved last

vars == <<card, job, deck, preload, opening, counter, waited, files, mem, audio,
          turn, ops, used>>
boot == <<preload, opening, counter, waited>>
disk == <<files, mem>>

Busy(d)      == deck[d].state \in {"loading", "saving"}
Selecting(d) == deck[d].state = "selecting"
\* Mutant: a deck in error is not released.
ReleasedIfIdle(d) == deck[d].state = "idle"
\* Mutant: a deck that is selecting is released.
ReleasedWhileSelecting(d) == ~Busy(d)
Released(d)  == ~Busy(d) /\ ~Selecting(d)

Exists(f) == card.vol /\ f \in File /\ files[f] # "none"

Init ==
    /\ card = [st |-> "mounting", vol |-> FALSE, notify |-> FALSE]
    /\ job = [deck |-> 0, kind |-> "loading", file |-> NoFile, left |-> 0]
    /\ deck = [d \in Deck |->
                 [state |-> "idle", tape |-> None, slot |-> None, rtape |-> None,
                  rslot |-> None, empty |-> [s \in Slot |-> FALSE], pre |-> FALSE]]
    /\ preload = [at |-> "settings", deck |-> 0]
    /\ opening = None /\ counter = 0 /\ waited = FALSE
    /\ files \in [File -> {"none", "whole"}]
    /\ mem \in [Deck -> File \cup {NoFile}]
    /\ audio = [d \in Deck |-> [take |-> FALSE, torn |-> FALSE]]
    /\ turn = "ui" /\ ops = 0
    /\ used = mem

-----------------------------------------------------------------------------
(* DeckStorage's helpers, as functions on one deck's record.               *)

\* Mutant: the deck does not leave its state.
DeactivatedNot(k) == [k EXCEPT !.pre = FALSE]
Deactivated(k) == [k EXCEPT !.state = "idle", !.pre = FALSE]

\* _read_slots, for a deck that is selecting.
SlotsRead(k) ==
    [k EXCEPT !.empty = [s \in Slot |-> ~Exists(<<k.tape, s>>)],
              !.slot = IF k.tape = k.rtape THEN k.rslot ELSE None]

\* next_tape and previous_tape.
NextTape(t) == (t + 1) % NTapes
\* Mutant: one beyond the last tape.
PreviousTapeBeyond(t) == IF t > 0 THEN t - 1 ELSE NTapes
PreviousTape(t) == (t + NTapes - 1) % NTapes

CanLoad(k) == k.slot # None /\ ~k.empty[k.slot]

\* The file a deck has chosen; without a slot, no file of the store.
Chosen(k) == IF k.slot = None THEN NoFile ELSE <<k.tape, k.slot>>

Remembered(k) == [k EXCEPT !.rtape = k.tape, !.rslot = k.slot]

\* Mutant: the other deck's entry is not read first.
MemWrittenAlone(d, f, st) == mem' = [[x \in Deck |-> NoFile] EXCEPT ![d] = f]
\* write_preload_source, once the card's state is st: the file is read,
\* created anew and written; every part of that may fail.
MemWritten(d, f, st) ==
    LET nobody == [x \in Deck |-> NoFile]
    IN  mem' \in
          IF st # "idle" \/ ~card.vol THEN {mem}
          ELSE {[mem EXCEPT ![d] = f]} \cup
               (IF Faults THEN {mem, nobody, [nobody EXCEPT ![d] = f]} ELSE {})

-----------------------------------------------------------------------------
(* Card: opening, feeding and ending an audio file.                        *)

Opened(d, kind, f) == [deck |-> d, kind |-> kind, file |-> f, left |-> Chunks]

\* init_read_audio.
InitRead(d, f) ==
    \/ /\ Exists(f)
       /\ card' = [card EXCEPT !.st = "read"]
       /\ job' = Opened(d, "loading", f)
    \/ /\ Faults \/ ~Exists(f)
       /\ card' = [card EXCEPT !.st = "failed"]
       /\ UNCHANGED job

\* init_write_audio: the file is truncated at once, and has no length in its
\* directory until it is closed.  Without a slot the name of the file is read
\* beyond the end of kSlotName: no file of the store, or no file at all.
InitWrite(d, f) ==
    LET truncated == IF f = NoFile THEN files ELSE [files EXCEPT ![f] = "none"]
    IN  \/ /\ card.vol
           /\ files' = truncated
           /\ card' = [card EXCEPT !.st = "write"]
           /\ job' = Opened(d, "saving", f)
        \/ /\ Faults \/ ~card.vol \/ f = NoFile
           /\ files' \in IF card.vol THEN {files, truncated} ELSE {files}
           /\ card' = [card EXCEPT !.st = "failed"]
           /\ UNCHANGED job

\* Whoever closes a file that was written leaves what there is of it.
Closed(how) ==
    files' = IF card.st = "write" /\ job.file # NoFile
             THEN [files EXCEPT ![job.file] = how] ELSE files

\* The end of a file: the card is idle again and leaves its notice.
\* Mutant: without the notice.
DoneSilently(c) == [c EXCEPT !.st = "idle"]
Done(c) == [c EXCEPT !.st = "idle", !.notify = TRUE]

\* read_audio: a chunk into the buffer of the deck that opened the file.
ReadAudio ==
    \/ /\ job.left > 1
       /\ job' = [job EXCEPT !.left = @ - 1]
       /\ audio' = [audio EXCEPT ![job.deck].torn = TRUE]
       /\ UNCHANGED card
    \/ /\ job.left = 1
       /\ job' = [job EXCEPT !.left = 0]
       /\ audio' = [audio EXCEPT ![job.deck].torn = FALSE]
       /\ card' = Done(card)
    \/ /\ Faults
       /\ card' = [card EXCEPT !.st = "failed"]
       /\ UNCHANGED <<job, audio>>

\* write_audio: a chunk, or the end of the file once nothing is left.
WriteAudio ==
    \/ /\ job.left > 0
       /\ \/ job' = [job EXCEPT !.left = @ - 1]
          \/ Full /\ UNCHANGED job
       /\ UNCHANGED <<card, files>>
    \/ /\ job.left = 0
       /\ card' = Done(card)
       /\ Closed("whole")
       /\ UNCHANGED job
    \/ /\ job.left > 0 /\ Faults
       /\ card' = [card EXCEPT !.st = "failed"]
       /\ Closed("none") \/ Closed("part")
       /\ UNCHANGED job

-----------------------------------------------------------------------------
(* The user's events (core.ui.pads.cpp, core.ui.cpp).                      *)

Event == turn = "ui" /\ ops < MaxOps /\ ops' = ops + 1

\* A user who waits lets the boot, and what the other deck is doing, come to
\* an end; one who waits to open a deck also waits until it is open.
Patient(d, event) ==
    /\ event \in Waits => preload.at = "done" /\ ~Busy(Other(d))
    /\ "open" \in Waits => opening = None

\* Tap and Play on a deck that is not in use: Storage::activate.
Activate(d) ==
    /\ Event /\ Patient(d, "open")
    /\ deck[d].state = "idle" /\ opening = None
    /\ opening' = d /\ counter' = 0 /\ waited' = FALSE
    /\ UNCHANGED <<card, job, deck, preload, disk, audio, turn, used>>

\* ...on one that is selecting: back to the engine.
Leave(d) ==
    /\ Event
    /\ Selecting(d)
    /\ deck' = [deck EXCEPT ![d] = Deactivated(@)]
    /\ UNCHANGED <<card, job, boot, disk, audio, turn, used>>

\* The buffer of a load that is cut short is cleared.
\* Mutant: it is left as it is.
EmptiedNot(d) == audio
Emptied(d) ==
    IF deck[d].state = "loading"
    THEN [audio EXCEPT ![d] = [take |-> FALSE, torn |-> FALSE]] ELSE audio

\* ...on one that is loading or saving: Storage::cancel.
Cancel(d) ==
    /\ Event
    /\ Busy(d)
    /\ card' = [card EXCEPT !.st = "idle"]
    /\ Closed("part")
    /\ MemWritten(d, NoFile, "idle")
    /\ used' = [used EXCEPT ![d] = NoFile]
    /\ deck' = [deck EXCEPT ![d] = [Deactivated(@) EXCEPT !.rtape = None,
                                                          !.rslot = None]]
    /\ preload' = IF preload = [at |-> "wait", deck |-> 0]
                  THEN [at |-> "init", deck |-> 1]
                  ELSE [at |-> "done", deck |-> 0]
    /\ audio' = Emptied(d)
    /\ UNCHANGED <<job, opening, counter, waited, turn>>

\* Seq, and Alt and Seq, on a deck that is selecting.
TurnTape(d) ==
    /\ Event
    /\ Selecting(d)
    /\ \E t \in {NextTape(deck[d].tape), PreviousTape(deck[d].tape)} :
         deck' = [deck EXCEPT ![d] = SlotsRead([@ EXCEPT !.tape = t])]
    /\ UNCHANGED <<card, job, boot, disk, audio, turn, used>>

\* Pitch: select_slot_at.
TurnPitch(d, s) ==
    /\ Event
    /\ Selecting(d) /\ deck[d].slot # s
    /\ deck' = [deck EXCEPT ![d].slot = s]
    /\ UNCHANGED <<card, job, boot, disk, audio, turn, used>>

\* Play: Storage::load.
Load(d) ==
    /\ Event /\ Patient(d, "load")
    /\ Selecting(d) /\ card.st = "idle"
    /\ CanLoad(deck[d])
    /\ InitRead(d, Chosen(deck[d]))
    /\ deck' = [deck EXCEPT ![d] = [Remembered(@) EXCEPT !.state = "loading"]]
    /\ UNCHANGED <<boot, disk, audio, turn, used>>

\* Alt and Play: Storage::save.
Save(d) ==
    /\ Event /\ Patient(d, "save")
    /\ Selecting(d) /\ card.st = "idle"
    /\ audio[d].take
    /\ InitWrite(d, Chosen(deck[d]))
    /\ deck' = [deck EXCEPT ![d] = [Remembered(@) EXCEPT !.state = "saving"]]
    /\ UNCHANGED <<boot, mem, audio, turn, used>>

\* Alt and Play on a deck that is not selecting: the engine records.
Record(d) ==
    /\ Event
    /\ ~Selecting(d)
    /\ deck' = [deck EXCEPT ![d].rslot = None]
    /\ audio' = [audio EXCEPT ![d].take = TRUE,
                              ![d].torn = @ /\ deck[d].state = "loading"]
    /\ UNCHANGED <<card, job, boot, disk, turn, used>>

-----------------------------------------------------------------------------
(* Storage::process.                                                       *)

Round ==
    /\ turn = "ui"
    /\ turn' = "preload"
    /\ UNCHANGED <<card, job, deck, boot, disk, audio, ops, used>>

Mounted(c) == [c EXCEPT !.st = "idle", !.vol = TRUE]

\* The settings step: mount the card, or give up after BootTries failures.
ReadSettings ==
    /\ turn = "preload" /\ preload.at = "settings"
    /\ LET next == IF PreloadOn THEN [at |-> "init", deck |-> 0]
                   ELSE [at |-> "done", deck |-> 0]
       IN  \/ card' = Mounted(card) /\ preload' = next
           \/ /\ Faults
              /\ preload' = IF counter >= BootTries THEN next ELSE preload
              /\ UNCHANGED card
    /\ counter' = counter + 1 /\ waited' = FALSE
    /\ turn' = "ui"
    /\ UNCHANGED <<job, deck, opening, disk, audio, ops, used>>

\* DeckStorage::preload, of a deck whose entry in SK/MEM can be read and
\* names a file that is there; the load itself still asks can_load.
Preload(d) ==
    LET k == [deck[d] EXCEPT !.tape = mem[d][1], !.slot = mem[d][2], !.pre = TRUE]
    IN  IF CanLoad(k)
        THEN /\ InitRead(d, mem[d])
             /\ deck' = [deck EXCEPT ![d] = [Remembered(k) EXCEPT !.state = "loading"]]
        ELSE /\ deck' = [deck EXCEPT ![d] = k]
             /\ UNCHANGED <<card, job>>

PreloadStep ==
    /\ turn = "preload" /\ preload.at = "init"
    /\ \/ /\ card.st = "idle" /\ mem[preload.deck] # NoFile
          /\ Exists(mem[preload.deck])
          /\ Preload(preload.deck)
       \/ /\ \/ card.st # "idle" \/ mem[preload.deck] = NoFile \/ Faults
             \/ ~Exists(mem[preload.deck])
          /\ UNCHANGED <<card, job, deck>>
    /\ preload' = [preload EXCEPT !.at = "wait"]
    /\ turn' = "open"
    /\ UNCHANGED <<opening, counter, waited, disk, audio, ops, used>>

\* Mutant: the boot does not wait for the deck it preloads.
PreloadWaitNot ==
    /\ turn = "preload" /\ preload.at \in {"wait", "done"}
    /\ preload' = IF preload = [at |-> "wait", deck |-> 0]
                  THEN [at |-> "init", deck |-> 1]
                  ELSE [at |-> "done", deck |-> 0]
    /\ turn' = "open"
    /\ UNCHANGED <<card, job, deck, opening, counter, waited, disk, audio, ops, used>>

\* A deck's preload is over once the deck is released.
PreloadWait ==
    /\ turn = "preload" /\ preload.at \in {"wait", "done"}
    /\ preload' =
         IF preload.at = "done" \/ ~Released(preload.deck) THEN preload
         ELSE IF preload.deck = 0 THEN [at |-> "init", deck |-> 1]
         ELSE [at |-> "done", deck |-> 0]
    /\ turn' = "open"
    /\ UNCHANGED <<card, job, deck, opening, counter, waited, disk, audio, ops, used>>

\* Nobody is opening, or the 200 ms are not over: on to the decks.
NotOpening ==
    /\ turn = "open"
    /\ opening = None \/ ~waited
    /\ turn' = "deck0"
    /\ UNCHANGED <<card, job, deck, boot, disk, audio, ops, used>>

\* DeckStorage::activate, once the card is mounted.
Activated(k) ==
    IF k.state # "idle" THEN k
    ELSE [k EXCEPT !.state = "selecting", !.tape = IF @ = None THEN 0 ELSE @]

Opening == turn = "open" /\ opening # None /\ waited' = TRUE /\ turn' = "ui"

\* Mutant: an attempt does not count.
TriedUncounted == UNCHANGED counter
Tried == counter' = counter + 1

Recognize ==
    /\ Opening
    /\ counter < OpenTries /\ counter % 2 = 0
    /\ card' = [card EXCEPT !.st = "mounting"]
    /\ Tried
    /\ UNCHANGED <<job, deck, preload, opening, disk, audio, ops, used>>

MountAndActivate ==
    /\ Opening
    /\ counter < OpenTries /\ counter % 2 = 1
    /\ card' = Mounted(card)
    /\ LET k == Activated(deck[opening])
           seen == [s \in Slot |-> files[<<k.tape, s>>] = "none"]
       IN  deck' = [deck EXCEPT ![opening] =
                      IF @.state # "idle" THEN @
                      ELSE [SlotsRead(k) EXCEPT !.empty = seen]]
    /\ opening' = None
    /\ UNCHANGED <<job, preload, counter, disk, audio, ops, used>>

MountFails ==
    /\ Opening
    /\ counter < OpenTries /\ counter % 2 = 1
    /\ Faults
    /\ card' = [card EXCEPT !.st = "unmounted", !.vol = FALSE]
    /\ Tried
    /\ UNCHANGED <<job, deck, preload, opening, disk, audio, ops, used>>

GiveUpOpening ==
    /\ Opening
    /\ counter >= OpenTries
    /\ opening' = None
    /\ UNCHANGED <<card, job, deck, preload, counter, disk, audio, ops, used>>

\* DeckStorage::process.  A failed card puts both decks in error, and a deck
\* leaves error when the card is no longer failed (the flag error_detected is
\* false whenever process is entered).
DeckTurn(d) ==
    /\ turn = IF d = 0 THEN "deck0" ELSE "deck1"
    /\ turn' = IF d = 0 THEN "deck1" ELSE "unmount"
    /\ UNCHANGED <<boot, ops>>

ProcessError(d) ==
    /\ DeckTurn(d)
    /\ \/ /\ card.st = "failed"
          /\ deck' = [deck EXCEPT ![d].state = "error"]
       \/ /\ card.st # "failed" /\ deck[d].state = "error"
          /\ deck' = [deck EXCEPT ![d] = Deactivated(@)]
    /\ UNCHANGED <<card, job, disk, audio, used>>

ProcessNothing(d) ==
    /\ DeckTurn(d)
    /\ card.st # "failed" /\ deck[d].state \in {"idle", "selecting"}
    /\ UNCHANGED <<card, job, deck, disk, audio, used>>

ProcessLoad(d) ==
    /\ DeckTurn(d)
    /\ deck[d].state = "loading" /\ card.st = "read"
    /\ ReadAudio
    /\ UNCHANGED <<deck, disk, used>>

ProcessSave(d) ==
    /\ DeckTurn(d)
    /\ deck[d].state = "saving" /\ card.st = "write"
    /\ WriteAudio
    /\ UNCHANGED <<deck, mem, audio, used>>

\* _save_preload_source, and the ghost that says what it is for.
Noted(d, noted) ==
    /\ used' = [used EXCEPT ![d] = Chosen(deck[d])]
    /\ IF noted THEN MemWritten(d, Chosen(deck[d]), card.st) ELSE UNCHANGED mem

\* The card no longer reads: if it left its notice the load is complete.
FinishLoad(d) ==
    /\ DeckTurn(d)
    /\ deck[d].state = "loading" /\ card.st \notin {"read", "failed"}
    /\ card' = [card EXCEPT !.notify = FALSE]
    /\ IF card.notify
       THEN /\ audio' = [audio EXCEPT ![d].take = TRUE]
            /\ Noted(d, ~deck[d].pre /\ PreloadOn)
       ELSE UNCHANGED <<audio, mem, used>>
    /\ deck' = [deck EXCEPT ![d] = Deactivated(@)]
    /\ UNCHANGED <<job, files>>

\* _on_audio_saved: the other deck x shows what was saved.
\* Mutant: it does not.
ShownNot(x) == deck[x]
Shown(x) == IF Selecting(x) THEN SlotsRead(deck[x]) ELSE deck[x]

\* ...or the save is.
FinishSave(d) ==
    /\ DeckTurn(d)
    /\ deck[d].state = "saving" /\ card.st \notin {"write", "failed"}
    /\ card' = [card EXCEPT !.notify = FALSE]
    /\ IF card.notify THEN Noted(d, PreloadOn) ELSE UNCHANGED <<mem, used>>
    /\ deck' = [x \in Deck |->
                  IF x = d THEN Deactivated(deck[x])
                  ELSE IF card.notify THEN Shown(x) ELSE deck[x]]
    /\ UNCHANGED <<job, files, audio>>

\* The card is let go of when nobody needs it.
Unmount ==
    /\ turn = "unmount"
    /\ card' = IF /\ preload.at = "done" /\ card.st \in {"idle", "failed"}
                  /\ \A d \in Deck : Released(d)
               THEN [card EXCEPT !.st = "unmounted", !.vol = FALSE]
               ELSE card
    /\ turn' = "ui"
    /\ UNCHANGED <<job, deck, boot, disk, audio, ops, used>>

User(d) ==
    \/ Activate(d) \/ Leave(d) \/ Cancel(d) \/ TurnTape(d)
    \/ \E s \in Slot : TurnPitch(d, s)
    \/ Load(d) \/ Save(d) \/ Record(d)

Process ==
    \/ Round
    \/ ReadSettings \/ PreloadStep \/ PreloadWait
    \/ NotOpening \/ Recognize \/ MountAndActivate \/ MountFails \/ GiveUpOpening
    \/ \E d \in Deck :
         \/ ProcessError(d) \/ ProcessNothing(d)
         \/ ProcessLoad(d) \/ FinishLoad(d)
         \/ ProcessSave(d) \/ FinishSave(d)
    \/ Unmount

Next == Process \/ \E d \in Deck : User(d)

\* The main loop never stops, and the 200 ms of an opening deck run out.
Spec == Init /\ [][Next]_vars
FairSpec ==
    /\ Spec
    /\ WF_vars(Process)
    /\ SF_vars(Recognize \/ MountAndActivate \/ MountFails \/ GiveUpOpening)

-----------------------------------------------------------------------------
TypeOK ==
    /\ card \in [st : {"unmounted", "mounting", "idle", "read", "write", "failed"},
                 vol : BOOLEAN, notify : BOOLEAN]
    /\ job \in [deck : Deck, kind : {"loading", "saving"},
                file : File \cup {NoFile}, left : 0..Chunks]
    /\ deck \in [Deck -> [state : {"idle", "selecting", "loading", "saving", "error"},
                          tape : Tape \cup {None}, slot : Slot \cup {None},
                          rtape : Tape \cup {None}, rslot : Slot \cup {None},
                          empty : [Slot -> BOOLEAN], pre : BOOLEAN]]
    /\ preload \in [at : {"settings", "init", "wait", "done"}, deck : Deck]
    /\ opening \in Deck \cup {None} /\ counter \in Nat /\ waited \in BOOLEAN
    /\ files \in [File -> {"none", "part", "whole"}]
    /\ mem \in [Deck -> File \cup {NoFile}] /\ used \in [Deck -> File \cup {NoFile}]
    /\ audio \in [Deck -> [take : BOOLEAN, torn : BOOLEAN]]
    /\ turn \in {"ui", "preload", "open", "deck0", "deck1", "unmount"}
    /\ ops \in 0..MaxOps

\* The card's one handle serves the deck that thinks it does: a deck that is
\* loading or saving while the card reads or writes opened that file, and
\* opened it for that (Storage::load and save refuse while the card is busy).
HandleMatchesDeck ==
    \A d \in Deck :
        Busy(d) /\ card.st \in {"read", "write"} =>
            /\ job.deck = d /\ job.kind = deck[d].state
            /\ card.st = IF job.kind = "loading" THEN "read" ELSE "write"

\* What a deck that is selecting shows of its tape is what the card holds: a
\* slot it shows filled can be loaded, and the file that was saved last is shown,
\* whichever deck saved it (_read_slots, _on_audio_saved).  A save under way
\* has emptied its file; one that was cancelled may go unseen, also when that
\* file is loaded later.
SlotsFresh ==
    turn = "ui" /\ ~(\E d \in Deck : deck[d].state = "saving") =>
        \A d \in Deck : Selecting(d) =>
            \A s \in Slot :
                LET f == <<deck[d].tape, s>>
                IN  /\ ~deck[d].empty[s] => files[f] # "none"
                    /\ files[f] = "whole" /\ job.kind = "saving" /\ job.file = f
                            /\ used[job.deck] = f
                            => ~deck[d].empty[s]

\* SK/MEM names, between rounds, the sample each deck loaded or saved last,
\* and none for a deck whose last operation was cancelled: that is what the
\* next power-up preloads.
MemIsLastUsed == PreloadOn /\ turn = "ui" => mem = used

\* A deck that is not loading holds a whole take or none, never the first
\* part of a file over an older take (cancel clears the buffer of a load).
BufferIsWhole ==
    \A d \in Deck : deck[d].state # "loading" => ~audio[d].torn

\* Whoever is selecting, loading or saving finds the card mounted, although
\* either deck, and the boot, can have it let go of (_can_unmount), unless a
\* deck that is opening is mounting it again.
SelectingIsMounted ==
    turn = "ui" /\ opening = None /\ (\E d \in Deck : Selecting(d) \/ Busy(d)) =>
        card.vol /\ card.st \notin {"unmounted", "mounting"}

\* A load or a save ends by the notice of its own finished file, by the
\* user's cancel or by a failed card; nothing else a deck or the boot does
\* takes it off the card.
EndedByItself ==
    \A d \in Deck : Busy(d) /\ ~Busy(d)' =>
        \/ card.notify /\ job.deck = d /\ job.left = 0
        \/ ops' # ops
        \/ card.st = "failed"
OperationsComplete == [][EndedByItself]_vars

\* What the others rely on: types, and a card that serves the deck that uses it.
Consistent == TypeOK /\ HandleMatchesDeck

\* A deck that completes a load is told (audio_apply_loaded) of the frames of
\* its own file: the card has not been given to the other deck's load since.
LoadsLand ==
    [][\A d \in Deck : deck[d].state = "loading" /\ card.notify /\ ~card.notify'
          /\ job.kind = "loading" => job.deck = d]_vars

\* A save is into a slot of the store (audio_file_name indexes kSlotName).
SaveNamesASlot ==
    \A d \in Deck : deck[d].state = "saving" => deck[d].slot \in Slot

\* Every load and every save comes to an end, and an error is cleared.
OperationEnds ==
    \A d \in Deck :
        deck[d].state \in {"loading", "saving", "error"} ~>
            deck[d].state \in {"idle", "selecting"}

\* A deck that is opened is selecting soon, or the attempt is given up.
OpeningEnds == opening # None ~> opening = None

\* The boot comes to an end, however the card answers, unless the user opens
\* a deck and keeps selecting (deck_a and deck_b wait for a released deck).
PreloadEnds ==
    TRUE ~> preload.at = "done" \/ \E d \in Deck : Selecting(d)
=============================================================================
