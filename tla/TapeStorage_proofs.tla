------------------------ MODULE TapeStorage_proofs ------------------------
(***************************************************************************)
(* The tape store keeps its types whatever the user and the card do; and   *)
(* for a user who lets one deck finish before using the other, on a card   *)
(* that does not fail, the card serves the deck that uses it, what a deck  *)
(* shows is there, the settings name what was used last, and no buffer is  *)
(* left with a part of a file.                                             *)
(***************************************************************************)
EXTENDS MCTapeStorage, TLAPS

-----------------------------------------------------------------------------
(* Types.                                                                  *)

Cards   == [st : {"unmounted", "mounting", "idle", "read", "write", "failed"},
            vol : BOOLEAN, notify : BOOLEAN]
Jobs    == [deck : Deck, kind : {"loading", "saving"},
            file : File \cup {NoFile}, left : 0 .. Chunks]
Stores  == [state : {"idle", "selecting", "loading", "saving", "error"},
            tape : Tape \cup {None}, slot : Slot \cup {None},
            rtape : Tape \cup {None}, rslot : Slot \cup {None},
            empty : [Slot -> BOOLEAN], pre : BOOLEAN]
Steps   == [at : {"settings", "init", "wait", "done"}, deck : Deck]
Turns   == {"ui", "preload", "open", "deck0", "deck1", "unmount"}
Takes   == [take : BOOLEAN, torn : BOOLEAN]
Content == {"none", "part", "whole"}

\* A deck in use is at a tape of the store.
AtTape(k) == k.state \in {"selecting", "loading", "saving"} => k.tape \in Tape

DeckOK  == deck \in [Deck -> Stores] /\ \A d \in Deck : AtTape(deck[d])
CardOK  == card \in Cards /\ job \in Jobs /\ audio \in [Deck -> Takes]
DiskOK  == /\ files \in [File -> Content]
           /\ mem \in [Deck -> File \cup {NoFile}]
           /\ used \in [Deck -> File \cup {NoFile}]
BootOK  == preload \in Steps /\ opening \in Deck \cup {None} /\ counter \in Nat /\ waited \in BOOLEAN
LoopOK  == turn \in Turns /\ ops \in 0 .. MaxOps

Typed == DeckOK /\ CardOK /\ DiskOK /\ BootOK /\ LoopOK

LEMMA TypedTypeOK == Typed => TypeOK
BY DEF Typed, DeckOK, CardOK, DiskOK, BootOK, LoopOK, TypeOK, Cards, Jobs, Stores, Steps,
       Turns, Takes, Content

LEMMA Sizes ==
    /\ NTapes \in 1 .. 255 /\ NSlots \in 1 .. 255 /\ Chunks \in Nat \ {0} /\ MaxOps \in Nat
    /\ None = 255 /\ None \notin Tape /\ None \notin Slot /\ None \notin Deck
    /\ 0 \in Tape /\ NoFile \notin File
    /\ Tape \subseteq Nat /\ Slot \subseteq Nat
BY StorageAssumption DEF None, Tape, Slot, Deck, NoFile, File

LEMMA Turned ==
    ASSUME NEW t \in Tape
    PROVE  NextTape(t) \in Tape /\ PreviousTape(t) \in Tape
BY Sizes DEF NextTape, PreviousTape, Tape

LEMMA DeactivatedStore ==
    ASSUME NEW k \in Stores
    PROVE  /\ Deactivated(k) \in Stores /\ AtTape(Deactivated(k))
           /\ Deactivated(k).state = "idle" /\ ~Deactivated(k).pre
           /\ Deactivated(k).empty = k.empty
BY DEF Deactivated, Stores, AtTape

LEMMA SlotsReadStore ==
    ASSUME NEW k \in Stores
    PROVE  /\ SlotsRead(k) \in Stores
           /\ SlotsRead(k).state = k.state /\ SlotsRead(k).tape = k.tape /\ SlotsRead(k).pre = k.pre
           /\ \A s \in Slot : SlotsRead(k).empty[s] <=> ~Exists(<<k.tape, s>>)
<1> DEFINE e == [s \in Slot |-> ~Exists(<<k.tape, s>>)]
           n == IF k.tape = k.rtape THEN k.rslot ELSE None
<1>1. e \in [Slot -> BOOLEAN]
  BY DEF Exists
<1>2. n \in Slot \cup {None}
  BY DEF Stores
<1>3. SlotsRead(k) = [k EXCEPT !.empty = e, !.slot = n]
  BY DEF SlotsRead
<1>4. \A s \in Slot : e[s] <=> ~Exists(<<k.tape, s>>)
  OBVIOUS
<1> HIDE DEF e, n
<1> QED
  BY <1>1, <1>2, <1>3, <1>4, ZenonT(60) DEF Stores

LEMMA ChosenFile ==
    ASSUME NEW k \in Stores, AtTape(k), k.state \in {"selecting", "loading", "saving"}
    PROVE  Chosen(k) \in File \cup {NoFile}
BY DEF Chosen, Stores, AtTape, File

LEMMA MemKeepsType ==
    ASSUME DiskOK, NEW d \in Deck, NEW f \in File \cup {NoFile}, NEW st, MemWritten(d, f, st)
    PROVE  mem' \in [Deck -> File \cup {NoFile}]
<1> DEFINE nobody == [x \in Deck |-> NoFile]
<1>1. nobody \in [Deck -> File \cup {NoFile}]
  OBVIOUS
<1>2. [mem EXCEPT ![d] = f] \in [Deck -> File \cup {NoFile}] /\ mem \in [Deck -> File \cup {NoFile}]
  BY DEF DiskOK
<1>3. [nobody EXCEPT ![d] = f] \in [Deck -> File \cup {NoFile}]
  BY <1>1
<1>4. mem' \in {mem, nobody, [mem EXCEPT ![d] = f], [nobody EXCEPT ![d] = f]}
  BY DEF MemWritten
<1> HIDE DEF nobody
<1> QED
  BY <1>1, <1>2, <1>3, <1>4

LEMMA NotedType ==
    ASSUME Typed, NEW d \in Deck, NEW noted \in BOOLEAN, Noted(d, noted),
           deck[d].state \in {"loading", "saving"}
    PROVE  mem' \in [Deck -> File \cup {NoFile}] /\ used' \in [Deck -> File \cup {NoFile}]
<1>1. Chosen(deck[d]) \in File \cup {NoFile}
  BY ChosenFile DEF Typed, DeckOK
<1>2. CASE noted
  BY <1>1, <1>2, MemKeepsType DEF Noted, Typed, DiskOK
<1>3. CASE ~noted
  BY <1>1, <1>3 DEF Noted, Typed, DiskOK
<1> QED
  BY <1>2, <1>3

\* What Closed leaves of the file that was written.
LEMMA ClosedFiles ==
    ASSUME DiskOK, CardOK, NEW how \in Content, Closed(how)
    PROVE  /\ files' \in [File -> Content]
           /\ card.st # "write" \/ job.file = NoFile => files' = files
           /\ \A f \in File : files'[f] = IF card.st = "write" /\ job.file = f THEN how ELSE files[f]
<1>1. CASE card.st = "write" /\ job.file # NoFile
  <2>1. job.file \in File
    BY <1>1 DEF CardOK, Jobs
  <2>2. files' = [files EXCEPT ![job.file] = how]
    BY <1>1 DEF Closed
  <2> QED
    BY <1>1, <2>1, <2>2 DEF DiskOK
<1>2. CASE ~(card.st = "write" /\ job.file # NoFile)
  BY <1>2, Sizes DEF Closed, DiskOK
<1> QED
  BY <1>1, <1>2

\* What the two ways of opening a file do.
LEMMA InitReadDoes ==
    ASSUME CardOK, NEW d \in Deck, NEW f \in File \cup {NoFile}, InitRead(d, f)
    PROVE  /\ card' \in Cards /\ job' \in Jobs
           /\ card'.vol = card.vol /\ card'.notify = card.notify
           /\ \/ /\ Exists(f) /\ card'.st = "read"
                 /\ job'.deck = d /\ job'.kind = "loading" /\ job'.file = f
              \/ (Faults \/ ~Exists(f)) /\ card'.st = "failed" /\ job' = job
<1>1. Opened(d, "loading", f) \in Jobs
  BY Sizes DEF Opened, Jobs
<1> QED
  BY <1>1 DEF InitRead, Opened, CardOK, Cards

LEMMA InitWriteDoes ==
    ASSUME CardOK, DiskOK, NEW d \in Deck, NEW f \in File \cup {NoFile}, InitWrite(d, f)
    PROVE  /\ card' \in Cards /\ job' \in Jobs /\ files' \in [File -> Content]
           /\ card'.vol = card.vol /\ card'.notify = card.notify
           /\ \/ /\ card.vol /\ card'.st = "write"
                 /\ job'.deck = d /\ job'.kind = "saving" /\ job'.file = f
                 /\ \A g \in File : files'[g] = IF g = f THEN "none" ELSE files[g]
              \/ /\ card'.st = "failed" /\ job' = job
                 /\ Faults \/ files' = files
<1>1. Opened(d, "saving", f) \in Jobs
  BY Sizes DEF Opened, Jobs
<1> DEFINE truncated == IF f = NoFile THEN files ELSE [files EXCEPT ![f] = "none"]
<1>2. /\ truncated \in [File -> Content]
      /\ \A g \in File : truncated[g] = IF g = f THEN "none" ELSE files[g]
      /\ f = NoFile => truncated = files
  BY Sizes DEF DiskOK, Content
<1>3. \/ /\ card.vol
         /\ files' = truncated
         /\ card' = [card EXCEPT !.st = "write"]
         /\ job' = Opened(d, "saving", f)
      \/ /\ Faults \/ ~card.vol \/ f = NoFile
         /\ files' \in IF card.vol THEN {files, truncated} ELSE {files}
         /\ card' = [card EXCEPT !.st = "failed"]
         /\ UNCHANGED job
  BY DEF InitWrite
<1> HIDE DEF truncated
<1>4. CASE /\ card.vol
           /\ files' = truncated
           /\ card' = [card EXCEPT !.st = "write"]
           /\ job' = Opened(d, "saving", f)
  BY <1>1, <1>2, <1>4 DEF Opened, CardOK, Cards
<1>5. CASE /\ Faults \/ ~card.vol \/ f = NoFile
           /\ files' \in IF card.vol THEN {files, truncated} ELSE {files}
           /\ card' = [card EXCEPT !.st = "failed"]
           /\ UNCHANGED job
  BY <1>2, <1>5 DEF CardOK, DiskOK, Cards
<1> QED
  BY <1>3, <1>4, <1>5

\* What a chunk read and a chunk written do.
LEMMA ReadAudioDoes ==
    ASSUME CardOK, ReadAudio
    PROVE  /\ card' \in Cards /\ job' \in Jobs /\ audio' \in [Deck -> Takes]
           /\ card'.vol = card.vol
           /\ job'.deck = job.deck /\ job'.kind = job.kind /\ job'.file = job.file
           /\ \A x \in Deck : x # job.deck => audio'[x] = audio[x]
           /\ \/ card'.st = card.st
              \/ /\ card'.st = "idle" /\ card'.notify /\ job'.left = 0
                 /\ ~audio'[job.deck].torn
              \/ Faults
<1>1. job.deck \in Deck /\ job.left \in 0 .. Chunks
  BY DEF CardOK, Jobs
<1>2. CASE /\ job.left > 1
           /\ job' = [job EXCEPT !.left = @ - 1]
           /\ audio' = [audio EXCEPT ![job.deck].torn = TRUE]
           /\ UNCHANGED card
  <2>1. job.left - 1 \in 0 .. Chunks
    BY <1>1, <1>2, Sizes
  <2>2. job' = [job EXCEPT !.left = job.left - 1]
    BY <1>2 DEF CardOK, Jobs
  <2> QED
    BY <1>1, <1>2, <2>1, <2>2, ZenonT(60) DEF CardOK, Jobs, Takes
<1>3. CASE /\ job.left = 1
           /\ job' = [job EXCEPT !.left = 0]
           /\ audio' = [audio EXCEPT ![job.deck].torn = FALSE]
           /\ card' = Done(card)
  <2>1. card' \in Cards /\ card'.vol = card.vol /\ card'.st = "idle" /\ card'.notify
    BY <1>3 DEF CardOK, Done, Cards
  <2>2. /\ job' \in Jobs /\ job'.left = 0
        /\ job'.deck = job.deck /\ job'.kind = job.kind /\ job'.file = job.file
    BY <1>3, Sizes DEF CardOK, Jobs
  <2>3. /\ audio' \in [Deck -> Takes] /\ ~audio'[job.deck].torn
        /\ \A x \in Deck : x # job.deck => audio'[x] = audio[x]
    BY <1>1, <1>3 DEF CardOK, Takes
  <2> QED
    BY <2>1, <2>2, <2>3
<1>4. CASE /\ Faults
           /\ card' = [card EXCEPT !.st = "failed"]
           /\ UNCHANGED <<job, audio>>
  BY <1>4 DEF CardOK, Cards
<1> QED
  BY <1>2, <1>3, <1>4 DEF ReadAudio

LEMMA WriteAudioDoes ==
    ASSUME CardOK, DiskOK, WriteAudio
    PROVE  /\ card' \in Cards /\ job' \in Jobs /\ files' \in [File -> Content]
           /\ card'.vol = card.vol
           /\ job'.deck = job.deck /\ job'.kind = job.kind /\ job'.file = job.file
           /\ \/ card'.st = card.st /\ files' = files
              \/ /\ card'.st = "idle" /\ card'.notify /\ job'.left = 0
                 /\ \A f \in File :
                      files'[f] = IF card.st = "write" /\ job.file = f THEN "whole" ELSE files[f]
              \/ Faults
<1>1. job.left \in 0 .. Chunks
  BY DEF CardOK, Jobs
<1>2. CASE /\ job.left > 0
           /\ \/ job' = [job EXCEPT !.left = @ - 1]
              \/ Full /\ UNCHANGED job
           /\ UNCHANGED <<card, files>>
  <2>1. job.left - 1 \in 0 .. Chunks
    BY <1>1, <1>2, Sizes
  <2>2. job' = [job EXCEPT !.left = job.left - 1] \/ job' = job
    BY <1>2 DEF CardOK, Jobs
  <2> QED
    BY <1>2, <2>1, <2>2 DEF CardOK, DiskOK, Jobs
<1>3. CASE /\ job.left = 0
           /\ card' = Done(card)
           /\ Closed("whole")
           /\ UNCHANGED job
  <2>1. "whole" \in Content
    BY DEF Content
  <2> QED
    BY <1>3, <2>1, ClosedFiles DEF CardOK, Done, Cards
<1>4. CASE /\ job.left > 0 /\ Faults
           /\ card' = [card EXCEPT !.st = "failed"]
           /\ Closed("none") \/ Closed("part")
           /\ UNCHANGED job
  <2>1. "none" \in Content /\ "part" \in Content
    BY DEF Content
  <2> QED
    BY <1>4, <2>1, ClosedFiles DEF CardOK, Cards
<1> QED
  BY <1>2, <1>3, <1>4 DEF WriteAudio

\* The boot's step after a deck, by name.
LEMMA WaitSteps ==
    /\ [at |-> "init", deck |-> 1] \in Steps /\ [at |-> "done", deck |-> 0] \in Steps
    /\ [at |-> "init", deck |-> 0] \in Steps
    /\ preload \in Steps =>
         (preload = [at |-> "wait", deck |-> 0] <=> preload.at = "wait" /\ preload.deck = 0)
BY DEF Steps, Deck

\* What an event, an opening and a turn of a deck leave of the loop's state.
LEMMA EventLoop == ASSUME LoopOK, Event PROVE ops' \in 0 .. MaxOps /\ ops' # ops /\ turn = "ui"
BY Sizes DEF LoopOK, Event

LEMMA DeckTurnLoop == ASSUME LoopOK, NEW d \in Deck, DeckTurn(d) PROVE LoopOK' /\ UNCHANGED boot
BY DEF LoopOK, DeckTurn, Turns

-----------------------------------------------------------------------------
(* Every step keeps the types.                                             *)

\* A step that changes the state of one deck, or none.
LEMMA OneStore ==
    ASSUME DeckOK, NEW d \in Deck, NEW k \in Stores, AtTape(k), deck' = [deck EXCEPT ![d] = k]
    PROVE  DeckOK' /\ deck'[d] = k /\ \A x \in Deck : x # d => deck'[x] = deck[x]
BY DEF DeckOK

LEMMA UserTyped ==
    ASSUME Typed, NEW d \in Deck, User(d)
    PROVE  Typed'
<1> USE DEF Typed
<1>k. deck[d] \in Stores /\ AtTape(deck[d])
  BY DEF DeckOK
<1>1. CASE Activate(d)
  BY <1>1, EventLoop DEF Activate, DeckOK, CardOK, DiskOK, BootOK, LoopOK, disk
<1>2. CASE Leave(d)
  BY <1>2, <1>k, EventLoop, OneStore, DeactivatedStore DEF Leave, CardOK, DiskOK, BootOK, LoopOK, disk, boot
<1>3. CASE Cancel(d)
  <2> DEFINE k == [Deactivated(deck[d]) EXCEPT !.rtape = None, !.rslot = None]
  <2>1. k \in Stores /\ AtTape(k)
    BY <1>k, DeactivatedStore DEF Stores, AtTape
  <2>2. deck' = [deck EXCEPT ![d] = k]
    BY <1>3 DEF Cancel, DeckOK
  <2>3. DeckOK'
    BY <2>1, <2>2, OneStore
  <2>4. "part" \in Content
    BY DEF Content
  <2>5. DiskOK'
    BY <1>3, <2>4, ClosedFiles, MemKeepsType DEF Cancel, DiskOK
  <2>6. CardOK'
    <3>1. Emptied(d) \in [Deck -> Takes]
      BY DEF Emptied, CardOK, Takes
    <3> QED
      BY <1>3, <3>1 DEF Cancel, CardOK, Cards
  <2>7. preload' \in Steps
    BY <1>3, WaitSteps DEF Cancel
  <2> QED
    BY <1>3, <2>3, <2>5, <2>6, <2>7, EventLoop DEF Cancel, BootOK, LoopOK
<1>4. CASE TurnTape(d)
  <2>1. PICK t \in {NextTape(deck[d].tape), PreviousTape(deck[d].tape)} :
          deck' = [deck EXCEPT ![d] = SlotsRead([@ EXCEPT !.tape = t])]
    BY <1>4 DEF TurnTape
  <2>2. t \in Tape
    BY <1>4, <1>k, Turned DEF TurnTape, Selecting, AtTape
  <2>3. [deck[d] EXCEPT !.tape = t] \in Stores /\ [deck[d] EXCEPT !.tape = t].tape = t
    BY <1>k, <2>2 DEF Stores
  <2>4. SlotsRead([deck[d] EXCEPT !.tape = t]) \in Stores /\ AtTape(SlotsRead([deck[d] EXCEPT !.tape = t]))
    BY <2>2, <2>3, SlotsReadStore DEF AtTape
  <2>5. deck' = [deck EXCEPT ![d] = SlotsRead([deck[d] EXCEPT !.tape = t])]
    BY <2>1 DEF DeckOK
  <2> QED
    BY <1>4, <2>4, <2>5, OneStore, EventLoop DEF TurnTape, CardOK, DiskOK, BootOK, LoopOK, disk, boot
<1>5. ASSUME NEW s \in Slot, TurnPitch(d, s) PROVE Typed'
  <2>1. [deck[d] EXCEPT !.slot = s] \in Stores /\ AtTape([deck[d] EXCEPT !.slot = s])
    BY <1>k DEF Stores, AtTape
  <2>2. deck' = [deck EXCEPT ![d] = [deck[d] EXCEPT !.slot = s]]
    BY <1>5 DEF TurnPitch, DeckOK
  <2> QED
    BY <1>5, <2>1, <2>2, OneStore, EventLoop DEF TurnPitch, CardOK, DiskOK, BootOK, LoopOK, disk, boot
<1>6. CASE Load(d)
  <2> DEFINE k == [Remembered(deck[d]) EXCEPT !.state = "loading"]
  <2>1. Selecting(d) /\ Chosen(deck[d]) \in File \cup {NoFile}
    BY <1>6, <1>k, ChosenFile DEF Load, Selecting
  <2>2. k \in Stores /\ AtTape(k)
    BY <1>k, <2>1 DEF Remembered, Stores, AtTape, Selecting
  <2>3. deck' = [deck EXCEPT ![d] = k]
    BY <1>6 DEF Load, DeckOK
  <2>4. card' \in Cards /\ job' \in Jobs
    BY <1>6, <2>1, InitReadDoes DEF Load
  <2> HIDE DEF k
  <2> QED
    BY <1>6, <2>2, <2>3, <2>4, OneStore, EventLoop DEF Load, CardOK, DiskOK, BootOK, LoopOK, disk, boot
<1>7. CASE Save(d)
  <2> DEFINE k == [Remembered(deck[d]) EXCEPT !.state = "saving"]
  <2>1. Selecting(d) /\ Chosen(deck[d]) \in File \cup {NoFile}
    BY <1>7, <1>k, ChosenFile DEF Save, Selecting
  <2>2. k \in Stores /\ AtTape(k)
    BY <1>k, <2>1 DEF Remembered, Stores, AtTape, Selecting
  <2>3. deck' = [deck EXCEPT ![d] = k]
    BY <1>7 DEF Save, DeckOK
  <2>4. card' \in Cards /\ job' \in Jobs /\ files' \in [File -> Content]
    BY <1>7, <2>1, InitWriteDoes DEF Save
  <2> HIDE DEF k
  <2> QED
    BY <1>7, <2>2, <2>3, <2>4, OneStore, EventLoop DEF Save, CardOK, DiskOK, BootOK, LoopOK, boot
<1>8. CASE Record(d)
  <2>1. [deck[d] EXCEPT !.rslot = None] \in Stores /\ AtTape([deck[d] EXCEPT !.rslot = None])
    BY <1>k DEF Stores, AtTape
  <2>2. deck' = [deck EXCEPT ![d] = [deck[d] EXCEPT !.rslot = None]]
    BY <1>8 DEF Record, DeckOK
  <2>3. audio' \in [Deck -> Takes]
    BY <1>8 DEF Record, CardOK, Takes
  <2> QED
    BY <1>8, <2>1, <2>2, <2>3, OneStore, EventLoop DEF Record, CardOK, DiskOK, BootOK, LoopOK, disk, boot
<1> QED
  BY <1>1, <1>2, <1>3, <1>4, <1>5, <1>6, <1>7, <1>8 DEF User

LEMMA MountedCard ==
    ASSUME card \in Cards
    PROVE  Mounted(card) \in Cards /\ Mounted(card).st = "idle" /\ Mounted(card).vol
BY DEF Mounted, Cards

\* What the preload of a deck makes of it.
LEMMA PreloadDoes ==
    ASSUME Typed, NEW d \in Deck, mem[d] \in File, Preload(d)
    PROVE  /\ card' \in Cards /\ job' \in Jobs /\ DeckOK'
           /\ \A x \in Deck : x # d => deck'[x] = deck[x]
           /\ deck'[d].tape = mem[d][1] /\ deck'[d].slot = mem[d][2] /\ deck'[d].pre
           /\ deck'[d].empty = deck[d].empty
           /\ \/ InitRead(d, mem[d]) /\ deck'[d].state = "loading"
              \/ /\ deck[d].empty[mem[d][2]]
                 /\ deck'[d].state = deck[d].state /\ UNCHANGED <<card, job>>
<1> DEFINE k == [deck[d] EXCEPT !.tape = mem[d][1], !.slot = mem[d][2], !.pre = TRUE]
           r == [Remembered(k) EXCEPT !.state = "loading"]
<1>1. mem[d][1] \in Tape /\ mem[d][2] \in Slot /\ deck[d] \in Stores
  BY DEF File, Typed, DeckOK
<1>2. k \in Stores
  BY <1>1 DEF Stores
<1>3. /\ k.tape = mem[d][1] /\ k.slot = mem[d][2] /\ k.pre /\ k.empty = deck[d].empty
      /\ k.state = deck[d].state
  BY <1>1 DEF Stores
<1>p. IF CanLoad(k)
      THEN InitRead(d, mem[d]) /\ deck' = [deck EXCEPT ![d] = r]
      ELSE deck' = [deck EXCEPT ![d] = k] /\ UNCHANGED <<card, job>>
  BY DEF Preload, Typed, DeckOK
<1> HIDE DEF k
<1>4. /\ r \in Stores /\ r.tape = k.tape /\ r.slot = k.slot /\ r.pre = k.pre /\ r.empty = k.empty
      /\ r.state = "loading"
  BY <1>2 DEF Remembered, Stores
<1> HIDE DEF r
<1>5. AtTape(k) /\ AtTape(r)
  BY <1>1, <1>3, <1>4 DEF AtTape
<1>6. CASE CanLoad(k)
  <2>1. DeckOK' /\ deck'[d] = r /\ \A x \in Deck : x # d => deck'[x] = deck[x]
    BY <1>p, <1>4, <1>5, <1>6, OneStore DEF Typed
  <2>2. card' \in Cards /\ job' \in Jobs
    BY <1>p, <1>6, InitReadDoes DEF Typed
  <2> QED
    BY <1>p, <1>3, <1>4, <1>6, <2>1, <2>2
<1>7. CASE ~CanLoad(k)
  <2>1. DeckOK' /\ deck'[d] = k /\ \A x \in Deck : x # d => deck'[x] = deck[x]
    BY <1>p, <1>2, <1>5, <1>7, OneStore DEF Typed
  <2>2. deck[d].empty[mem[d][2]]
    BY <1>1, <1>3, <1>7, Sizes DEF CanLoad
  <2> QED
    BY <1>p, <1>3, <1>7, <2>1, <2>2 DEF Typed, CardOK
<1> QED
  BY <1>6, <1>7

\* What the mount of an opening deck makes of it.
LEMMA ActivatedDoes ==
    ASSUME Typed, opening \in Deck, MountAndActivate
    PROVE  /\ DeckOK'
           /\ \A x \in Deck : x # opening => deck'[x] = deck[x]
           /\ IF deck[opening].state # "idle" THEN deck'[opening] = deck[opening]
              ELSE /\ deck'[opening].state = "selecting" /\ deck'[opening].pre = deck[opening].pre
                   /\ \A s \in Slot : deck'[opening].empty[s] <=> files[<<deck'[opening].tape, s>>] = "none"
<1> DEFINE k == Activated(deck[opening])
           seen == [s \in Slot |-> files[<<k.tape, s>>] = "none"]
           r == [SlotsRead(k) EXCEPT !.empty = seen]
<1>1. deck[opening] \in Stores /\ AtTape(deck[opening])
  BY DEF Typed, DeckOK
<1>2. deck' = [deck EXCEPT ![opening] = IF deck[opening].state # "idle" THEN deck[opening] ELSE r]
  BY DEF MountAndActivate, Typed, DeckOK
<1>3. CASE deck[opening].state # "idle"
  <2>1. deck' = [deck EXCEPT ![opening] = deck[opening]]
    BY <1>2, <1>3
  <2> QED
    BY <1>1, <1>3, <2>1, OneStore DEF Typed
<1>4. CASE deck[opening].state = "idle"
  <2> DEFINE t == IF deck[opening].tape = None THEN 0 ELSE deck[opening].tape
  <2>1. t \in Tape
    BY <1>1, Sizes DEF Stores
  <2>2. k = [deck[opening] EXCEPT !.state = "selecting", !.tape = t]
    BY <1>1, <1>4 DEF Activated, Stores
  <2> HIDE DEF t, k
  <2>3. k \in Stores /\ k.state = "selecting" /\ k.tape = t /\ k.pre = deck[opening].pre
    BY <1>1, <2>1, <2>2 DEF Stores
  <2>4. /\ SlotsRead(k) \in Stores
        /\ SlotsRead(k).state = k.state /\ SlotsRead(k).tape = k.tape /\ SlotsRead(k).pre = k.pre
    BY <2>3, SlotsReadStore
  <2>5. seen \in [Slot -> BOOLEAN] /\ \A s \in Slot : seen[s] <=> files[<<k.tape, s>>] = "none"
    OBVIOUS
  <2> HIDE DEF seen
  <2>6. /\ r \in Stores /\ r.state = "selecting" /\ r.tape = t /\ r.pre = deck[opening].pre
        /\ r.empty = seen
    BY <2>3, <2>4, <2>5 DEF Stores
  <2> HIDE DEF r
  <2>7. AtTape(r)
    BY <2>1, <2>6 DEF AtTape
  <2>8. deck' = [deck EXCEPT ![opening] = r]
    BY <1>2, <1>4
  <2>9. DeckOK' /\ deck'[opening] = r /\ \A x \in Deck : x # opening => deck'[x] = deck[x]
    BY <2>6, <2>7, <2>8, OneStore DEF Typed
  <2> QED
    BY <1>4, <2>3, <2>5, <2>6, <2>9
<1> QED
  BY <1>3, <1>4

LEMMA BootTyped ==
    ASSUME Typed,
           \/ Round \/ ReadSettings \/ PreloadStep \/ PreloadWait
           \/ NotOpening \/ Recognize \/ MountAndActivate \/ MountFails \/ GiveUpOpening \/ Unmount
    PROVE  Typed'
<1> USE DEF Typed
<1>1. CASE Round
  BY <1>1 DEF Round, DeckOK, CardOK, DiskOK, BootOK, LoopOK, Turns, boot, disk
<1>2. CASE ReadSettings
  <2>1. card' \in Cards
    BY <1>2, MountedCard DEF ReadSettings, CardOK
  <2>2. preload' \in Steps
    BY <1>2, WaitSteps DEF ReadSettings, BootOK
  <2>3. counter' \in Nat
    BY <1>2 DEF ReadSettings, BootOK
  <2>4. waited' \in BOOLEAN
    BY <1>2 DEF ReadSettings
  <2>5. DeckOK' /\ DiskOK' /\ LoopOK'
    BY <1>2 DEF ReadSettings, DeckOK, DiskOK, LoopOK, Turns, disk
  <2> QED
    BY <1>2, <2>1, <2>2, <2>3, <2>4, <2>5 DEF ReadSettings, CardOK, BootOK
<1>3. CASE PreloadStep
  <2>1. preload' \in Steps
    BY <1>3 DEF PreloadStep, BootOK, Steps
  <2>2. CASE mem[preload.deck] # NoFile /\ Preload(preload.deck)
    <3>1. preload.deck \in Deck /\ mem[preload.deck] \in File
      BY <2>2 DEF BootOK, DiskOK, Steps
    <3> QED
      BY <1>3, <2>1, <2>2, <3>1, PreloadDoes DEF PreloadStep, CardOK, DiskOK, BootOK, LoopOK, Turns, disk
  <2>3. CASE UNCHANGED <<card, job, deck>>
    BY <1>3, <2>1, <2>3 DEF PreloadStep, DeckOK, CardOK, DiskOK, BootOK, LoopOK, Turns, disk
  <2> QED
    BY <1>3, <2>2, <2>3 DEF PreloadStep
<1>4. CASE PreloadWait
  <2>1. preload' \in Steps
    BY <1>4, WaitSteps DEF PreloadWait, BootOK
  <2> QED
    BY <1>4, <2>1 DEF PreloadWait, DeckOK, CardOK, DiskOK, BootOK, LoopOK, Turns, disk
<1>5. CASE NotOpening
  BY <1>5 DEF NotOpening, DeckOK, CardOK, DiskOK, BootOK, LoopOK, Turns, boot, disk
<1>6. CASE Recognize
  BY <1>6 DEF Recognize, Opening, Tried, DeckOK, CardOK, Cards, DiskOK, BootOK, LoopOK, Turns, disk
<1>7. CASE MountAndActivate
  <2>1. opening \in Deck
    BY <1>7 DEF MountAndActivate, Opening, BootOK
  <2>2. DeckOK'
    BY <1>7, <2>1, ActivatedDoes
  <2> QED
    BY <1>7, <2>2, MountedCard DEF MountAndActivate, Opening, CardOK, DiskOK, BootOK, LoopOK, Turns, disk
<1>8. CASE MountFails
  <2>1. card' \in Cards
    BY <1>8 DEF MountFails, CardOK, Cards
  <2> QED
    BY <1>8, <2>1 DEF MountFails, Opening, Tried, DeckOK, CardOK, DiskOK, BootOK, LoopOK, Turns, disk
<1>9. CASE GiveUpOpening
  BY <1>9 DEF GiveUpOpening, Opening, DeckOK, CardOK, DiskOK, BootOK, LoopOK, Turns, disk
<1>10. CASE Unmount
  BY <1>10 DEF Unmount, DeckOK, CardOK, Cards, DiskOK, BootOK, LoopOK, Turns, boot, disk
<1> QED
  BY <1>1, <1>2, <1>3, <1>4, <1>5, <1>6, <1>7, <1>8, <1>9, <1>10

LEMMA ErrorStore ==
    ASSUME NEW k \in Stores
    PROVE  /\ [k EXCEPT !.state = "error"] \in Stores /\ AtTape([k EXCEPT !.state = "error"])
           /\ [k EXCEPT !.state = "error"].state = "error"
           /\ [k EXCEPT !.state = "error"].pre = k.pre
           /\ [k EXCEPT !.state = "error"].empty = k.empty
BY DEF Stores, AtTape

LEMMA ShownStore ==
    ASSUME DeckOK, NEW x \in Deck
    PROVE  Shown(x) \in Stores /\ AtTape(Shown(x))
BY SlotsReadStore DEF DeckOK, Shown, AtTape

LEMMA TurnTyped ==
    ASSUME Typed, NEW d \in Deck,
           \/ ProcessError(d) \/ ProcessNothing(d)
           \/ ProcessLoad(d) \/ FinishLoad(d)
           \/ ProcessSave(d) \/ FinishSave(d)
    PROVE  Typed'
<1> USE DEF Typed
<1>k. deck[d] \in Stores /\ AtTape(deck[d])
  BY DEF DeckOK
<1>l. LoopOK' /\ UNCHANGED boot
  BY DeckTurnLoop DEF ProcessError, ProcessNothing, ProcessLoad, FinishLoad, ProcessSave, FinishSave
<1>1. CASE ProcessError(d)
  <2>1. deck' = [deck EXCEPT ![d] = [deck[d] EXCEPT !.state = "error"]] \/ deck' = [deck EXCEPT ![d] = Deactivated(deck[d])]
    BY <1>1 DEF ProcessError, DeckOK
  <2>2. DeckOK'
    BY <1>k, <2>1, OneStore, ErrorStore, DeactivatedStore
  <2> QED
    BY <1>1, <1>l, <2>2 DEF ProcessError, CardOK, DiskOK, BootOK, boot, disk
<1>2. CASE ProcessNothing(d)
  BY <1>2, <1>l DEF ProcessNothing, DeckOK, CardOK, DiskOK, BootOK, boot, disk
<1>3. CASE ProcessLoad(d)
  BY <1>3, <1>l, ReadAudioDoes DEF ProcessLoad, DeckOK, CardOK, DiskOK, BootOK, boot, disk
<1>4. CASE ProcessSave(d)
  BY <1>4, <1>l, WriteAudioDoes DEF ProcessSave, DeckOK, CardOK, DiskOK, BootOK, boot
<1>5. CASE FinishLoad(d)
  <2>1. deck' = [deck EXCEPT ![d] = Deactivated(deck[d])]
    BY <1>5 DEF FinishLoad, DeckOK
  <2>2. DeckOK'
    BY <1>k, <2>1, OneStore, DeactivatedStore
  <2>3. CardOK'
    BY <1>5, ZenonT(60) DEF FinishLoad, CardOK, Cards, Takes
  <2>4. DiskOK'
    <3>1. (~deck[d].pre /\ PreloadOn) \in BOOLEAN
      BY StorageAssumption
    <3> QED
      BY <1>5, <3>1, NotedType DEF FinishLoad, DiskOK
  <2> QED
    BY <1>l, <2>2, <2>3, <2>4 DEF BootOK, boot
<1>6. CASE FinishSave(d)
  <2>1. deck' = [x \in Deck |-> IF x = d THEN Deactivated(deck[x])
                                ELSE IF card.notify THEN Shown(x) ELSE deck[x]]
    BY <1>6 DEF FinishSave
  <2>2. DeckOK'
    BY <2>1, ShownStore, DeactivatedStore DEF DeckOK
  <2>3. CardOK'
    BY <1>6 DEF FinishSave, CardOK, Cards
  <2>4. DiskOK'
    <3>1. PreloadOn \in BOOLEAN
      BY StorageAssumption
    <3> QED
      BY <1>6, <3>1, NotedType DEF FinishSave, DiskOK
  <2> QED
    BY <1>l, <2>2, <2>3, <2>4 DEF BootOK, boot
<1> QED
  BY <1>1, <1>2, <1>3, <1>4, <1>5, <1>6

LEMMA StepTyped == ASSUME Typed, [Next]_vars PROVE Typed'
<1>1. ASSUME UNCHANGED vars PROVE Typed'
  BY <1>1 DEF vars, boot, disk, Typed, DeckOK, CardOK, DiskOK, BootOK, LoopOK
<1>2. ASSUME Process PROVE Typed'
  BY <1>2, BootTyped, TurnTyped DEF Process
<1> QED
  BY <1>1, <1>2, UserTyped DEF Next

LEMMA InitTyped == Init => Typed
<1> SUFFICES ASSUME Init PROVE Typed
  OBVIOUS
<1> DEFINE blank == [state |-> "idle", tape |-> None, slot |-> None, rtape |-> None,
                     rslot |-> None, empty |-> [s \in Slot |-> FALSE], pre |-> FALSE]
<1>1. blank \in Stores /\ AtTape(blank)
  <2>1. [s \in Slot |-> FALSE] \in [Slot -> BOOLEAN]
    OBVIOUS
  <2> QED
    BY <2>1 DEF Stores, AtTape
<1>2. deck = [d \in Deck |-> blank]
  BY DEF Init
<1> HIDE DEF blank
<1>3. DeckOK
  BY <1>1, <1>2 DEF DeckOK
<1>4. CardOK
  BY Sizes DEF Init, CardOK, Cards, Jobs, Takes, Deck
<1>5. DiskOK
  BY DEF Init, DiskOK, Content
<1>6. BootOK /\ LoopOK
  <2>1. preload \in Steps /\ turn \in Turns
    BY DEF Init, Steps, Turns, Deck
  <2>2. opening = None /\ counter = 0 /\ ops = 0
    BY DEF Init
  <2>3. waited \in BOOLEAN
    BY DEF Init
  <2>4. ops \in 0 .. MaxOps
    BY <2>2, Sizes
  <2> QED
    BY <2>1, <2>2, <2>3, <2>4 DEF BootOK, LoopOK
<1> QED
  BY <1>3, <1>4, <1>5, <1>6 DEF Typed

(* The types of the store, for every number of tapes, slots, chunks and    *)
(* tries, every user and every card (storage.h, card.h): a deck in use is  *)
(* at a tape of the store, and what the settings name is in it.            *)
THEOREM TypeCorrect == Spec => []TypeOK
BY InitTyped, StepTyped, TypedTypeOK, PTL DEF Spec

-----------------------------------------------------------------------------
(* A user who lets one deck finish before using the other, on a card that  *)
(* does not fail.  Only one deck at a time is loading or saving, during    *)
(* the boot only the one that is preloaded, and none while a deck opens;   *)
(* so the card's one handle and its one notice are always that deck's.     *)

Quiet == ~Faults /\ Waits = {"open", "load", "save"}

Nobody == \A d \in Deck : ~Busy(d)

OneAtATime ==
    /\ \A d, x \in Deck : Busy(d) /\ Busy(x) => d = x
    /\ preload.at \in {"settings", "init"} \/ opening # None => Nobody
    /\ preload.at = "wait" => \A d \in Deck : Busy(d) => d = preload.deck
    /\ preload.at \in {"init", "wait"} => PreloadOn
    /\ preload.at # "done" =>
         /\ opening = None /\ card.st # "failed"
         /\ \A d \in Deck : /\ deck[d].state \in {"idle", "loading"}
                            /\ \A s \in Slot : ~deck[d].empty[s]

Access(state) == IF state = "loading" THEN "read" ELSE "write"

\* The card is at work for the deck, has done it and left its notice, or has
\* refused to open the file.
ServedBy(d) ==
    \/ card.st = "failed" /\ ~audio[d].torn
    \/ /\ job.deck = d /\ job.kind = deck[d].state
       /\ \/ card.st = Access(deck[d].state)
          \/ card.st = "idle" /\ card.notify /\ job.left = 0 /\ ~audio[d].torn

Served ==
    /\ \A d \in Deck : Selecting(d) \/ Busy(d) => card.vol
    /\ \A d \in Deck : Busy(d) => ServedBy(d)
    /\ \A d \in Deck : deck[d].state # "loading" => ~audio[d].torn

\* A save is writing f, or has written it and the decks are not told yet.
Writing(f) == job.file = f /\ deck[job.deck].state = "saving" /\ card.st # "failed"

ShowsFile(k, s) ==
    LET f == <<k.tape, s>>
    IN  /\ ~k.empty[s] => files[f] # "none" \/ Writing(f)
        /\ files[f] = "whole" /\ job.kind = "saving" /\ job.file = f /\ used[job.deck] = f
             => ~k.empty[s] \/ Writing(f)

Shows == \A d \in Deck : Selecting(d) => \A s \in Slot : ShowsFile(deck[d], s)

Written ==
    \A d \in Deck : deck[d].state = "saving" /\ card.st = "idle" /\ job.file # NoFile
                      => files[job.file] = "whole"

Noting ==
    /\ PreloadOn => mem = used
    /\ \A d \in Deck : deck[d].pre => /\ deck[d].state = "loading" /\ card.st # "failed"
                                      /\ PreloadOn /\ mem[d] = Chosen(deck[d])

CalmInv == OneAtATime /\ Served /\ Shows /\ Written /\ Noting

LEMMA PatientAlone ==
    ASSUME Quiet, NEW d \in Deck, NEW event \in {"open", "load", "save"}, Patient(d, event), ~Busy(d)
    PROVE  preload.at = "done" /\ opening = None /\ Nobody
BY DEF Quiet, Patient, Nobody, Other, Deck

\* Steps that leave the decks, the card and the disk alone.
LEMMA StillCalm ==
    ASSUME CalmInv, OneAtATime', UNCHANGED <<card, job, deck, disk, audio, used>>
    PROVE  CalmInv'
BY DEF CalmInv, disk, Served, ServedBy, Busy, Selecting, Shows, ShowsFile, Writing, Written,
       Noting, Chosen

\* Steps of the card while no deck is loading or saving.
LEMMA CardCalm ==
    ASSUME CalmInv, Typed, OneAtATime', Nobody, UNCHANGED <<job, deck, disk, audio, used>>,
           \A d \in Deck : Selecting(d) => card'.vol
    PROVE  CalmInv'
<1>1. job.deck \in Deck /\ \A f : ~Writing(f) /\ ~Writing(f)'
  BY DEF Typed, CardOK, Jobs, Nobody, Busy, Writing
<1>2. Served'
  BY DEF CalmInv, Served, Nobody, Busy, Selecting
<1>3. Shows'
  BY <1>1 DEF CalmInv, Shows, ShowsFile, disk, Selecting
<1>4. Written' /\ Noting'
  BY DEF CalmInv, Written, Noting, Nobody, Busy, disk, Chosen
<1> QED
  BY <1>2, <1>3, <1>4 DEF CalmInv

\* The parts of a loop that only hand the turn on.
LEMMA IdleCalm ==
    ASSUME Quiet, CalmInv, Typed, NEW d \in Deck,
           Round \/ PreloadWait \/ NotOpening \/ GiveUpOpening \/ ProcessNothing(d) \/ Activate(d)
    PROVE  CalmInv'
<1>1. UNCHANGED <<card, job, deck, disk, audio, used>>
  BY DEF Round, PreloadWait, NotOpening, GiveUpOpening, ProcessNothing, Activate
<1>2. CASE Round \/ NotOpening \/ ProcessNothing(d)
  BY <1>1, <1>2, StillCalm
  DEF Round, NotOpening, ProcessNothing, DeckTurn, boot, CalmInv, OneAtATime, Nobody, Busy
<1>3. CASE GiveUpOpening
  BY <1>1, <1>3, StillCalm DEF GiveUpOpening, Opening, CalmInv, OneAtATime, Nobody, Busy
<1>4. CASE Activate(d)
  <2>1. preload.at = "done" /\ Nobody
    BY <1>4, PatientAlone DEF Activate, Busy
  <2> QED
    BY <1>1, <1>4, <2>1, StillCalm DEF Activate, CalmInv, OneAtATime, Nobody, Busy
<1>5. CASE PreloadWait
  <2>1. CASE preload' = preload
    BY <1>1, <1>5, <2>1, StillCalm DEF PreloadWait, CalmInv, OneAtATime, Nobody, Busy
  <2>2. CASE preload' # preload
    <3>1. preload.at = "wait" /\ Released(preload.deck) /\ preload'.at \in {"init", "done"}
      BY <1>5, <2>2 DEF PreloadWait
    <3>2. Nobody
      BY <3>1 DEF CalmInv, OneAtATime, Released, Nobody
    <3> QED
      BY <1>1, <1>5, <3>1, <3>2, StillCalm DEF PreloadWait, CalmInv, OneAtATime, Nobody, Busy
  <2> QED
    BY <2>1, <2>2
<1> QED
  BY <1>2, <1>3, <1>4, <1>5

LEMMA MountCalm ==
    ASSUME Quiet, CalmInv, Typed, ReadSettings \/ Recognize \/ MountFails \/ Unmount
    PROVE  CalmInv'
<1>1. CASE ReadSettings
  <2>1. Nobody /\ preload'.at \in {"init", "done"} /\ opening' = opening /\ opening = None
    BY <1>1 DEF ReadSettings, Quiet, CalmInv, OneAtATime
  <2>2. card' = Mounted(card) /\ card'.st = "idle" /\ card'.vol
    BY <1>1, MountedCard DEF ReadSettings, Quiet, Typed, CardOK
  <2>3. /\ UNCHANGED <<job, deck, disk, audio, used>>
        /\ preload'.at = "init" => PreloadOn
    BY <1>1 DEF ReadSettings, Quiet
  <2>4. preload.at # "done"
    BY <1>1 DEF ReadSettings
  <2>5. OneAtATime'
    BY <2>1, <2>2, <2>3, <2>4 DEF CalmInv, OneAtATime, Nobody, Busy
  <2> QED
    BY <2>1, <2>2, <2>3, <2>5, CardCalm
<1>2. CASE Recognize
  <2>1. Nobody
    BY <1>2 DEF Recognize, Opening, CalmInv, OneAtATime
  <2>2. OneAtATime' /\ card'.vol = card.vol
    BY <1>2 DEF Recognize, CalmInv, OneAtATime, Nobody, Busy, Typed, CardOK, Cards
  <2> QED
    BY <1>2, <2>1, <2>2, CardCalm DEF Recognize, CalmInv, Served
<1>3. CASE MountFails
  BY <1>3 DEF MountFails, Quiet
<1>4. CASE Unmount
  <2>1. OneAtATime'
    BY <1>4 DEF Unmount, boot, CalmInv, OneAtATime, Nobody, Busy
  <2>2. CASE card' = card
    BY <1>4, <2>1, <2>2, StillCalm DEF Unmount
  <2>3. CASE \A d \in Deck : Released(d)
    BY <1>4, <2>1, <2>3, CardCalm DEF Unmount, Released, Nobody
  <2> QED
    BY <1>4, <2>2, <2>3 DEF Unmount
<1> QED
  BY <1>1, <1>2, <1>3, <1>4

\* The mount of an opening deck reads what its tape holds.
LEMMA OpenedCalm ==
    ASSUME Quiet, CalmInv, Typed, MountAndActivate
    PROVE  CalmInv'
<1>1. opening \in Deck /\ Nobody /\ preload.at = "done"
  BY DEF MountAndActivate, Opening, Typed, BootOK, CalmInv, OneAtATime
<1>2. /\ \A x \in Deck : x # opening => deck'[x] = deck[x]
      /\ IF deck[opening].state # "idle" THEN deck'[opening] = deck[opening]
         ELSE /\ deck'[opening].state = "selecting" /\ deck'[opening].pre = deck[opening].pre
              /\ \A s \in Slot : deck'[opening].empty[s] <=> files[<<deck'[opening].tape, s>>] = "none"
  BY <1>1, ActivatedDoes
<1>3. /\ card'.st = "idle" /\ card'.vol /\ preload' = preload /\ opening' = None
      /\ UNCHANGED <<job, files, mem, audio, used>>
  BY MountedCard DEF MountAndActivate, Typed, CardOK, disk
<1>4. \A x \in Deck : deck'[x].state = deck[x].state \/ deck'[x].state = "selecting"
  BY <1>2
<1>5. Nobody'
  BY <1>1, <1>4 DEF Nobody, Busy
<1>6. job.deck \in Deck /\ \A f : ~Writing(f) /\ ~Writing(f)'
  BY <1>1, <1>3, <1>5 DEF Typed, CardOK, Jobs, Nobody, Busy, Writing
<1>7. OneAtATime'
  BY <1>1, <1>3, <1>5 DEF OneAtATime, Nobody
<1>8. Served'
  BY <1>1, <1>3, <1>4, <1>5 DEF CalmInv, Served, Nobody, Busy
<1>9. Shows'
  <2> SUFFICES ASSUME NEW x \in Deck, Selecting(x)', NEW s \in Slot PROVE ShowsFile(deck[x], s)'
    BY DEF Shows
  <2>1. CASE deck'[x] = deck[x]
    BY <1>3, <1>6, <2>1 DEF CalmInv, Shows, ShowsFile, Selecting
  <2>2. CASE deck'[x] # deck[x]
    <3>1. deck'[x].empty[s] <=> files[<<deck'[x].tape, s>>] = "none"
      BY <1>2, <2>2
    <3> QED
      BY <1>3, <3>1 DEF ShowsFile
  <2> QED
    BY <2>1, <2>2
<1>10. Written' /\ Noting'
  <2>1. \A x \in Deck : ~deck[x].pre /\ ~deck'[x].pre
    BY <1>1, <1>2 DEF CalmInv, Noting, Nobody, Busy
  <2> QED
    BY <1>3, <1>5, <2>1 DEF CalmInv, Written, Noting, Nobody, Busy
<1> QED
  BY <1>7, <1>8, <1>9, <1>10 DEF CalmInv

LEMMA SameChosen ==
    ASSUME NEW k, NEW l, k.tape = l.tape, k.slot = l.slot
    PROVE  Chosen(k) = Chosen(l)
BY DEF Chosen

\* The preload of a deck, while the boot has the store for itself.
LEMMA PreloadCalm ==
    ASSUME Quiet, CalmInv, Typed, PreloadStep
    PROVE  CalmInv'
<1> DEFINE p == preload.deck
<1>1. p \in Deck /\ Nobody /\ opening = None /\ preload.at = "init" /\ PreloadOn
  BY DEF PreloadStep, Typed, BootOK, Steps, CalmInv, OneAtATime
<1>2. /\ preload'.at = "wait" /\ preload'.deck = p
      /\ UNCHANGED <<opening, files, mem, audio, used>>
  BY DEF PreloadStep, Typed, BootOK, Steps, disk
<1>3. \A d \in Deck : deck[d].state = "idle" /\ ~Selecting(d)
  BY <1>1 DEF CalmInv, OneAtATime, Nobody, Busy, Selecting
<1>4. CASE UNCHANGED <<card, job, deck>>
  <2>1. OneAtATime'
    BY <1>1, <1>2, <1>4 DEF CalmInv, OneAtATime, Nobody, Busy
  <2> QED
    BY <1>2, <1>4, <2>1, StillCalm DEF disk
<1>5. CASE mem[p] # NoFile /\ Exists(mem[p]) /\ Preload(p)
  <2>1. mem[p] \in File /\ mem[p][2] \in Slot
    BY <1>1, <1>5 DEF Typed, DiskOK, File
  <2>2. /\ \A x \in Deck : x # p => deck'[x] = deck[x]
        /\ deck'[p].tape = mem[p][1] /\ deck'[p].slot = mem[p][2] /\ deck'[p].pre
        /\ deck'[p].empty = deck[p].empty
        /\ InitRead(p, mem[p]) /\ deck'[p].state = "loading"
    <3>1. ~deck[p].empty[mem[p][2]]
      BY <1>1, <2>1 DEF CalmInv, OneAtATime
    <3> QED
      BY <1>1, <1>5, <2>1, <3>1, PreloadDoes
  <2>3. /\ card.vol /\ card'.vol = card.vol /\ card'.st = "read"
        /\ job'.deck = p /\ job'.kind = "loading"
    BY <1>1, <1>5, <2>1, <2>2, InitReadDoes DEF Quiet, Typed, Exists
  <2>4. \A x \in Deck : (Busy(x)' <=> x = p) /\ ~Selecting(x)'
    BY <1>1, <1>3, <2>2 DEF Nobody, Busy, Selecting
  <2>5. OneAtATime'
    BY <1>1, <1>2, <1>3, <2>2, <2>3, <2>4 DEF CalmInv, OneAtATime
  <2>6. Served'
    BY <1>1, <1>2, <2>2, <2>3, <2>4 DEF CalmInv, Served, ServedBy, Access, Nobody
  <2>7. Shows' /\ Written'
    BY <1>3, <2>2, <2>4 DEF Shows, Written
  <2>8. Chosen(deck'[p]) = mem[p]
    <3>1. deck'[p].slot # None /\ mem[p] = <<mem[p][1], mem[p][2]>>
      BY <2>1, <2>2, Sizes DEF File
    <3> QED
      BY <2>2, <3>1 DEF Chosen
  <2>9. Noting'
    <3>1. \A x \in Deck : deck'[x].pre => x = p
      BY <1>1, <1>3, <2>2 DEF CalmInv, Noting
    <3> QED
      BY <1>1, <1>2, <2>2, <2>3, <2>8, <3>1 DEF CalmInv, Noting
  <2> QED
    BY <2>5, <2>6, <2>7, <2>9 DEF CalmInv
<1> QED
  BY <1>4, <1>5 DEF PreloadStep

-----------------------------------------------------------------------------
(* The events of the user.                                                 *)

\* An event on a deck that is not loading or saving and stays so: another
\* state, another tape, another slot, or a take.
LEMMA BrowseCalm ==
    ASSUME Quiet, CalmInv, Typed, NEW d \in Deck,
           ~Busy(d), ~Busy(d)',
           \A x \in Deck : x # d => deck'[x] = deck[x],
           deck'[d].pre => deck[d].pre,
           Selecting(d)' => Selecting(d) /\ \A s \in Slot : ShowsFile(deck'[d], s),
           (deck'[d].state = deck[d].state /\ deck'[d].empty = deck[d].empty) \/ Selecting(d),
           \A x \in Deck : audio'[x].torn => audio[x].torn,
           UNCHANGED <<card, job, boot, disk, used>>
    PROVE  CalmInv'
<1>1. \A x \in Deck : Busy(x)' <=> Busy(x)
  BY DEF Busy
<1>2. \A f : Writing(f)' <=> Writing(f)
  BY DEF Writing, Busy, Typed, CardOK, Jobs
<1>3. OneAtATime'
  <2>1. Selecting(d) => preload.at = "done"
    BY DEF Selecting, CalmInv, OneAtATime
  <2> QED
    BY <1>1, <2>1 DEF CalmInv, OneAtATime, Nobody, boot
<1>4. Served'
  BY <1>1 DEF CalmInv, Served, ServedBy, Selecting, Busy
<1>5. Shows'
  <2> SUFFICES ASSUME NEW x \in Deck, Selecting(x)', NEW s \in Slot PROVE ShowsFile(deck[x], s)'
    BY DEF Shows
  <2>1. ShowsFile(deck'[x], s)
    BY DEF CalmInv, Shows, Selecting
  <2> QED
    BY <1>2, <2>1 DEF ShowsFile, disk
<1>6. Written'
  BY DEF CalmInv, Written, disk, Busy
<1>7. Noting'
  <2>1. ~deck[d].pre
    BY DEF CalmInv, Noting, Busy
  <2> QED
    BY <2>1 DEF CalmInv, Noting, disk
<1> QED
  BY <1>3, <1>4, <1>5, <1>6, <1>7 DEF CalmInv

LEMMA EventCalm ==
    ASSUME Quiet, CalmInv, Typed, NEW d \in Deck,
           Leave(d) \/ TurnTape(d) \/ \E s \in Slot : TurnPitch(d, s)
    PROVE  CalmInv'
<1>k. deck[d] \in Stores /\ AtTape(deck[d]) /\ Selecting(d) /\ ~Busy(d)
  BY DEF Typed, DeckOK, Leave, TurnTape, TurnPitch, Selecting, Busy
<1>u. UNCHANGED <<card, job, boot, disk, audio, used>>
  BY DEF Leave, TurnTape, TurnPitch
<1>1. CASE Leave(d)
  <2>1. deck' = [deck EXCEPT ![d] = Deactivated(deck[d])]
    BY <1>1 DEF Leave, Typed, DeckOK
  <2>2. deck'[d] = Deactivated(deck[d]) /\ \A x \in Deck : x # d => deck'[x] = deck[x]
    BY <1>k, <2>1, OneStore, DeactivatedStore DEF Typed
  <2> QED
    BY <1>k, <1>u, <2>2, DeactivatedStore, BrowseCalm DEF Busy, Selecting
<1>2. CASE TurnTape(d)
  <2>1. PICK t \in {NextTape(deck[d].tape), PreviousTape(deck[d].tape)} :
          deck' = [deck EXCEPT ![d] = SlotsRead([@ EXCEPT !.tape = t])]
    BY <1>2 DEF TurnTape
  <2> DEFINE k == [deck[d] EXCEPT !.tape = t]
  <2>2. t \in Tape
    BY <1>k, Turned DEF Selecting, AtTape
  <2>3. k \in Stores /\ k.state = deck[d].state /\ k.pre = deck[d].pre /\ k.tape = t
    BY <1>k, <2>2 DEF Stores
  <2>4. deck' = [deck EXCEPT ![d] = SlotsRead(k)]
    BY <2>1 DEF Typed, DeckOK
  <2> HIDE DEF k
  <2>5. /\ SlotsRead(k) \in Stores /\ AtTape(SlotsRead(k))
        /\ SlotsRead(k).state = k.state /\ SlotsRead(k).tape = k.tape /\ SlotsRead(k).pre = k.pre
        /\ \A s \in Slot : SlotsRead(k).empty[s] <=> ~Exists(<<k.tape, s>>)
    BY <2>2, <2>3, SlotsReadStore DEF AtTape
  <2>6. deck'[d] = SlotsRead(k) /\ \A x \in Deck : x # d => deck'[x] = deck[x]
    BY <2>4, <2>5, OneStore DEF Typed
  <2>7. card.vol
    BY <1>k DEF CalmInv, Served
  <2>8. \A s \in Slot : ShowsFile(deck'[d], s)
    BY <2>2, <2>3, <2>5, <2>6, <2>7 DEF ShowsFile, Exists, File
  <2> QED
    BY <1>k, <1>u, <2>3, <2>5, <2>6, <2>8, BrowseCalm DEF Busy, Selecting
<1>3. ASSUME NEW n \in Slot, TurnPitch(d, n) PROVE CalmInv'
  <2> DEFINE k == [deck[d] EXCEPT !.slot = n]
  <2>1. deck' = [deck EXCEPT ![d] = k]
    BY <1>3 DEF TurnPitch, Typed, DeckOK
  <2>2. /\ k \in Stores /\ k.state = deck[d].state /\ k.pre = deck[d].pre /\ k.tape = deck[d].tape
        /\ k.empty = deck[d].empty
    BY <1>k, <1>3 DEF Stores
  <2> HIDE DEF k
  <2>3. deck'[d] = k /\ \A x \in Deck : x # d => deck'[x] = deck[x]
    BY <1>k, <2>1, <2>2, OneStore DEF Typed, AtTape
  <2>4. \A s \in Slot : ShowsFile(deck'[d], s)
    BY <1>k, <2>2, <2>3 DEF CalmInv, Shows, ShowsFile
  <2> QED
    BY <1>k, <1>u, <2>2, <2>3, <2>4, BrowseCalm DEF Busy, Selecting
<1> QED
  BY <1>1, <1>2, <1>3

\* A record leaves a busy deck busy.
LEMMA RecordCalm ==
    ASSUME Quiet, CalmInv, Typed, NEW d \in Deck, Record(d)
    PROVE  CalmInv'
<1> DEFINE k == [deck[d] EXCEPT !.rslot = None]
<1>1. deck[d] \in Stores /\ AtTape(deck[d])
  BY DEF Typed, DeckOK
<1>2. /\ k \in Stores /\ k.state = deck[d].state /\ k.pre = deck[d].pre /\ k.tape = deck[d].tape
      /\ k.empty = deck[d].empty /\ k.slot = deck[d].slot
  BY <1>1 DEF Stores
<1>3. deck' = [deck EXCEPT ![d] = k]
  BY DEF Record, Typed, DeckOK
<1> HIDE DEF k
<1>4. deck'[d] = k /\ \A x \in Deck : x # d => deck'[x] = deck[x]
  BY <1>1, <1>2, <1>3, OneStore DEF Typed, AtTape
<1>5. \A x \in Deck : /\ deck'[x].state = deck[x].state /\ deck'[x].pre = deck[x].pre
                      /\ deck'[x].tape = deck[x].tape /\ deck'[x].empty = deck[x].empty
                      /\ deck'[x].slot = deck[x].slot
  BY <1>2, <1>4
<1>6. \A x \in Deck : Chosen(deck'[x]) = Chosen(deck[x])
  BY <1>5 DEF Chosen
<1>7. UNCHANGED <<card, job, preload, opening, files, mem, used>>
  BY DEF Record, boot, disk
<1>8. \A x \in Deck : audio'[x].torn => audio[x].torn
  BY DEF Record, Typed, CardOK, Takes
<1>9. job.deck \in Deck
  BY DEF Typed, CardOK, Jobs
<1>10. OneAtATime' /\ Served'
  BY <1>5, <1>7, <1>8 DEF CalmInv, OneAtATime, Nobody, Busy, Selecting, Served, ServedBy
<1>11. Shows' /\ Written'
  BY <1>5, <1>7, <1>9 DEF CalmInv, Shows, ShowsFile, Writing, Selecting, Written
<1>12. Noting'
  BY <1>5, <1>6, <1>7 DEF CalmInv, Noting
<1> QED
  BY <1>10, <1>11, <1>12 DEF CalmInv

\* A load or a save begins when no deck is busy.
LEMMA BeginCalm ==
    ASSUME Quiet, CalmInv, Typed, NEW d \in Deck, Load(d) \/ Save(d)
    PROVE  CalmInv'
<1> DEFINE st == IF Load(d) THEN "loading" ELSE "saving"
           k == [Remembered(deck[d]) EXCEPT !.state = st]
<1>1. /\ deck[d] \in Stores /\ AtTape(deck[d]) /\ Selecting(d) /\ ~Busy(d)
      /\ Chosen(deck[d]) \in File \cup {NoFile}
  BY ChosenFile DEF Typed, DeckOK, Load, Save, Selecting, Busy
<1>2. preload.at = "done" /\ opening = None /\ Nobody
  BY <1>1, PatientAlone DEF Load, Save
<1>3. /\ k \in Stores /\ k.state = st /\ k.pre = deck[d].pre /\ k.tape = deck[d].tape
      /\ st \in {"loading", "saving"}
  BY <1>1 DEF Remembered, Stores
<1>4. deck' = [deck EXCEPT ![d] = k]
  BY DEF Load, Save, Typed, DeckOK, Event, Selecting, Patient
<1> HIDE DEF k
<1>5. deck'[d] = k /\ \A x \in Deck : x # d => deck'[x] = deck[x]
  BY <1>1, <1>3, <1>4, OneStore DEF Typed, AtTape, Selecting
<1>6. UNCHANGED <<preload, opening, mem, audio, used>>
  BY DEF Load, Save, boot, disk
<1>7. /\ card'.vol = card.vol
      /\ \/ /\ card'.st = Access(st) /\ job'.deck = d /\ job'.kind = st
            /\ \A f \in File : files'[f] = IF st = "saving" /\ job'.file = f THEN "none" ELSE files[f]
         \/ card'.st = "failed" /\ job' = job /\ files' = files
  <2>1. CASE Load(d)
    BY <1>1, <2>1, InitReadDoes DEF Load, Quiet, Typed, Access, disk
  <2>2. CASE ~Load(d) /\ Save(d)
    BY <1>1, <2>2, InitWriteDoes DEF Save, Quiet, Typed, Access
  <2> QED
    BY <2>1, <2>2
<1> HIDE DEF st
<1>8. \A x \in Deck : Busy(x)' <=> x = d
  BY <1>2, <1>3, <1>5 DEF Nobody, Busy
<1>9. \A x \in Deck : Selecting(x)' => Selecting(x) /\ x # d /\ deck'[x] = deck[x]
  BY <1>3, <1>5 DEF Selecting
<1>10. OneAtATime'
  BY <1>2, <1>6, <1>8 DEF OneAtATime
<1>11. Served'
  <2>1. ~audio[d].torn /\ card.vol
    BY <1>1 DEF CalmInv, Served, Selecting
  <2> QED
    BY <1>3, <1>5, <1>6, <1>7, <1>8, <1>9, <2>1 DEF CalmInv, Served, ServedBy
<1>12. Shows'
  <2> SUFFICES ASSUME NEW x \in Deck, Selecting(x)', NEW s \in Slot PROVE ShowsFile(deck[x], s)'
    BY DEF Shows
  <2>1. Selecting(x) /\ x # d /\ deck'[x] = deck[x]
    BY <1>9
  <2> DEFINE f == <<deck[x].tape, s>>
  <2>2. f \in File
    BY <2>1 DEF Typed, DeckOK, AtTape, Selecting, File
  <2>3. ~Writing(f)
    BY <1>2 DEF Nobody, Busy, Writing, Typed, CardOK, Jobs
  <2>4. ShowsFile(deck[x], s)
    BY <2>1 DEF CalmInv, Shows
  <2>5. CASE card'.st = "failed" /\ job' = job /\ files' = files
    BY <1>6, <2>1, <2>3, <2>4, <2>5 DEF ShowsFile
  <2>6. CASE /\ card'.st = Access(st) /\ job'.deck = d /\ job'.kind = st
             /\ \A g \in File : files'[g] = IF st = "saving" /\ job'.file = g THEN "none" ELSE files[g]
    <3>1. Writing(f)' <=> st = "saving" /\ job'.file = f
      BY <1>3, <1>5, <2>1, <2>6 DEF Writing, Access
    <3>2. files'[f] = IF st = "saving" /\ job'.file = f THEN "none" ELSE files[f]
      BY <2>2, <2>6
    <3>3. ~deck[x].empty[s] => files[f] # "none"
      BY <2>3, <2>4 DEF ShowsFile
    <3> QED
      BY <2>1, <2>6, <3>1, <3>2, <3>3 DEF ShowsFile
  <2> QED
    BY <1>7, <2>5, <2>6
<1>13. Written'
  BY <1>7, <1>8 DEF Written, Busy, Access
<1>14. Noting'
  <2>1. \A x \in Deck : ~deck'[x].pre
    BY <1>1, <1>2, <1>3, <1>5 DEF CalmInv, Noting, Nobody, Busy
  <2> QED
    BY <1>6, <2>1 DEF CalmInv, Noting
<1> QED
  BY <1>10, <1>11, <1>12, <1>13, <1>14 DEF CalmInv

\* What MemWritten does on a card that does not fail.
LEMMA MemNoted ==
    ASSUME Quiet, Typed, NEW d \in Deck, NEW f, card.vol, MemWritten(d, f, "idle")
    PROVE  mem' = [mem EXCEPT ![d] = f]
BY DEF MemWritten, Quiet

LEMMA CancelCalm ==
    ASSUME Quiet, CalmInv, Typed, NEW d \in Deck, Cancel(d)
    PROVE  CalmInv'
<1> DEFINE k == [Deactivated(deck[d]) EXCEPT !.rtape = None, !.rslot = None]
<1>1. deck[d] \in Stores /\ AtTape(deck[d]) /\ Busy(d) /\ card.vol /\ ServedBy(d) /\ opening = None
  BY DEF Typed, DeckOK, Cancel, CalmInv, Served, OneAtATime, Nobody
<1>2. k \in Stores /\ k.state = "idle" /\ ~k.pre /\ k.empty = deck[d].empty
  BY <1>1, DeactivatedStore DEF Stores
<1>3. deck' = [deck EXCEPT ![d] = k]
  BY DEF Cancel, Typed, DeckOK
<1> HIDE DEF k
<1>4. deck'[d] = k /\ \A x \in Deck : x # d => deck'[x] = deck[x]
  BY <1>1, <1>2, <1>3, OneStore DEF Typed, AtTape
<1>5. \A x \in Deck : x # d => ~Busy(x)
  BY <1>1 DEF CalmInv, OneAtATime
<1>6. Nobody'
  BY <1>2, <1>4, <1>5 DEF Nobody, Busy
<1>7. /\ card'.st = "idle" /\ card'.vol = card.vol /\ job' = job /\ opening' = opening
  BY DEF Cancel, Typed, CardOK, Cards
<1>8. \A f \in File : files'[f] = IF card.st = "write" /\ job.file = f THEN "part" ELSE files[f]
  BY ClosedFiles DEF Cancel, Typed, Content
<1>9. preload' = IF preload = [at |-> "wait", deck |-> 0]
                 THEN [at |-> "init", deck |-> 1] ELSE [at |-> "done", deck |-> 0]
  BY DEF Cancel
<1>10. mem' = [mem EXCEPT ![d] = NoFile] /\ used' = [used EXCEPT ![d] = NoFile]
  BY <1>1, MemNoted DEF Cancel
<1>11. \A x \in Deck : ~audio'[x].torn
  <2>1. audio' = Emptied(d)
    BY DEF Cancel
  <2> QED
    BY <1>1, <1>5, <2>1 DEF Emptied, CalmInv, Served, Typed, CardOK, Busy
<1>12. OneAtATime'
  <2>1. \/ preload.at = "wait" /\ preload' = [at |-> "init", deck |-> 1]
        \/ preload' = [at |-> "done", deck |-> 0]
    BY <1>9, WaitSteps DEF Typed, BootOK
  <2>2. preload'.at # "done" => preload.at = "wait" /\ preload'.at = "init"
    BY <2>1
  <2> QED
    BY <1>1, <1>2, <1>4, <1>6, <1>7, <2>2 DEF CalmInv, OneAtATime, Nobody
<1>13. Served'
  BY <1>1, <1>2, <1>4, <1>6, <1>7, <1>11 DEF CalmInv, Served, Nobody, Selecting
<1>14. Shows'
  <2> SUFFICES ASSUME NEW x \in Deck, Selecting(x)', NEW s \in Slot PROVE ShowsFile(deck[x], s)'
    BY DEF Shows
  <2>1. Selecting(x) /\ x # d /\ deck'[x] = deck[x]
    BY <1>2, <1>4 DEF Selecting
  <2> DEFINE f == <<deck[x].tape, s>>
  <2>2. f \in File /\ f # NoFile
    BY <2>1, Sizes DEF Typed, DeckOK, AtTape, Selecting, File
  <2>3. ~Writing(f)'
    BY <1>6, <1>7 DEF Nobody, Busy, Writing, Typed, CardOK, Jobs
  <2>4. ShowsFile(deck[x], s)
    BY <2>1 DEF CalmInv, Shows
  <2>5. files'[f] = IF card.st = "write" /\ job.file = f THEN "part" ELSE files[f]
    BY <1>8, <2>2
  <2>6. used'[d] = NoFile /\ \A y \in Deck : y # d => used'[y] = used[y]
    BY <1>10 DEF Typed, DiskOK
  <2>7. job.deck \in Deck
    BY DEF Typed, CardOK, Jobs
  <2> HIDE DEF f
  <2>8. /\ ~deck[x].empty[s] => files[f] # "none" \/ Writing(f)
        /\ files[f] = "whole" /\ job.kind = "saving" /\ job.file = f /\ used[job.deck] = f
             => ~deck[x].empty[s] \/ Writing(f)
    BY <2>4 DEF ShowsFile, f
  <2>9. ~deck[x].empty[s] => files'[f] # "none"
    <3>1. CASE ~Writing(f)
      BY <2>5, <2>8, <3>1
    <3>2. CASE Writing(f)
      <4>1. job.file = f /\ card.st # "failed" /\ deck[job.deck].state = "saving"
        BY <3>2 DEF Writing
      <4>2. job.deck = d /\ (card.st = "write" \/ card.st = "idle")
        BY <1>1, <4>1 DEF ServedBy, Access
      <4>3. card.st = "idle" => files[f] = "whole"
        BY <1>1, <2>2, <4>1, <4>2 DEF CalmInv, Written
      <4> QED
        BY <2>5, <4>1, <4>2, <4>3
    <3> QED
      BY <3>1, <3>2
  <2>10. files'[f] = "whole" /\ job.kind = "saving" /\ job.file = f /\ used'[job.deck] = f
           => ~deck[x].empty[s]
    <3>1. CASE job.deck = d
      BY <2>2, <2>6, <3>1
    <3>2. CASE job.deck # d
      <4>1. card.st = "failed"
        BY <1>1, <3>2 DEF ServedBy
      <4> QED
        BY <2>5, <2>6, <2>7, <2>8, <3>2, <4>1 DEF Writing
    <3> QED
      BY <3>1, <3>2
  <2> QED
    BY <1>7, <2>1, <2>9, <2>10 DEF ShowsFile, f
<1>15. Written'
  BY <1>6 DEF Written, Nobody, Busy
<1>16. Noting'
  <2>1. \A x \in Deck : ~deck'[x].pre
    BY <1>2, <1>4, <1>5 DEF CalmInv, Noting, Busy
  <2> QED
    BY <1>10, <2>1 DEF CalmInv, Noting
<1> QED
  BY <1>12, <1>13, <1>14, <1>15, <1>16 DEF CalmInv

-----------------------------------------------------------------------------
(* The turns of the decks.                                                 *)

LEMMA ErrorCalm ==
    ASSUME Quiet, CalmInv, Typed, NEW d \in Deck, ProcessError(d)
    PROVE  CalmInv'
<1> DEFINE e == [deck[d] EXCEPT !.state = "error"]
<1>1. deck[d] \in Stores
  BY DEF Typed, DeckOK
<1>2. \/ card.st = "failed" /\ deck' = [deck EXCEPT ![d] = e]
      \/ card.st # "failed" /\ deck[d].state = "error" /\ deck' = [deck EXCEPT ![d] = Deactivated(deck[d])]
  BY DEF ProcessError, Typed, DeckOK
<1>3. e \in Stores /\ AtTape(e) /\ e.state = "error" /\ e.pre = deck[d].pre /\ e.empty = deck[d].empty
  BY <1>1, ErrorStore
<1> HIDE DEF e
<1>4. /\ \A x \in Deck : x # d => deck'[x] = deck[x]
      /\ deck'[d].state \in {"idle", "error"} /\ (deck'[d].pre => deck[d].pre)
      /\ card.st # "failed" => deck[d].state = "error"
  BY <1>1, <1>2, <1>3, OneStore, DeactivatedStore DEF Typed
<1>5. UNCHANGED <<card, job, preload, opening, files, mem, audio, used>>
  BY DEF ProcessError, DeckTurn, boot, disk
<1>6. preload.at = "done"
  BY <1>4 DEF CalmInv, OneAtATime
<1>7. \A x \in Deck : Busy(x)' <=> Busy(x) /\ x # d
  BY <1>4 DEF Busy
<1>8. \A f : Writing(f)' <=> Writing(f)
  BY <1>4, <1>5 DEF Writing, Typed, CardOK, Jobs
<1>9. OneAtATime'
  BY <1>5, <1>6, <1>7 DEF CalmInv, OneAtATime, Nobody
<1>10. ~audio[d].torn
  BY <1>4 DEF CalmInv, Served, ServedBy, Busy, Access
<1>11. Served'
  BY <1>4, <1>5, <1>7, <1>10 DEF CalmInv, Served, ServedBy, Selecting
<1>12. Shows'
  <2> SUFFICES ASSUME NEW x \in Deck, Selecting(x)', NEW s \in Slot PROVE ShowsFile(deck[x], s)'
    BY DEF Shows
  <2>1. Selecting(x) /\ deck'[x] = deck[x]
    BY <1>4 DEF Selecting
  <2> QED
    BY <1>5, <1>8, <2>1 DEF CalmInv, Shows, ShowsFile
<1>13. Written'
  BY <1>4, <1>5 DEF CalmInv, Written
<1>14. Noting'
  <2>1. \A x \in Deck : deck'[x].pre => deck'[x] = deck[x] /\ deck[x].pre
    BY <1>4 DEF CalmInv, Noting
  <2> QED
    BY <1>5, <2>1 DEF CalmInv, Noting
<1> QED
  BY <1>9, <1>11, <1>12, <1>13, <1>14 DEF CalmInv

LEMMA LoadCalm ==
    ASSUME Quiet, CalmInv, Typed, NEW d \in Deck, ProcessLoad(d)
    PROVE  CalmInv'
<1>1. Busy(d) /\ deck[d].state = "loading" /\ card.st = "read"
  BY DEF ProcessLoad, Busy
<1>2. job.deck = d /\ job.kind = "loading"
  BY <1>1 DEF CalmInv, Served, ServedBy
<1>3. UNCHANGED <<deck, preload, opening, files, mem, used>>
  BY DEF ProcessLoad, DeckTurn, boot, disk
<1>4. /\ card'.vol = card.vol /\ job'.deck = d /\ job'.kind = "loading"
      /\ \A x \in Deck : x # d => audio'[x] = audio[x]
      /\ \/ card'.st = "read"
         \/ card'.st = "idle" /\ card'.notify /\ job'.left = 0 /\ ~audio'[d].torn
  BY <1>1, <1>2, ReadAudioDoes DEF ProcessLoad, Quiet, Typed
<1>5. \A x \in Deck : Busy(x) => x = d
  BY <1>1 DEF CalmInv, OneAtATime
<1>6. OneAtATime'
  BY <1>3, <1>4 DEF CalmInv, OneAtATime, Nobody, Busy
<1>7. Served'
  BY <1>1, <1>3, <1>4, <1>5 DEF CalmInv, Served, ServedBy, Access, Busy, Selecting
<1>8. \A f : ~Writing(f) /\ ~Writing(f)'
  BY <1>1, <1>2, <1>3, <1>4 DEF Writing
<1>9. Shows'
  BY <1>3, <1>4, <1>8 DEF CalmInv, Shows, ShowsFile, Selecting
<1>10. Written'
  BY <1>1, <1>3, <1>5 DEF Written, Busy
<1>11. Noting'
  BY <1>3, <1>4 DEF CalmInv, Noting, Chosen
<1> QED
  BY <1>6, <1>7, <1>9, <1>10, <1>11 DEF CalmInv

LEMMA SaveCalm ==
    ASSUME Quiet, CalmInv, Typed, NEW d \in Deck, ProcessSave(d)
    PROVE  CalmInv'
<1>1. Busy(d) /\ deck[d].state = "saving" /\ card.st = "write"
  BY DEF ProcessSave, Busy
<1>2. job.deck = d /\ job.kind = "saving"
  BY <1>1 DEF CalmInv, Served, ServedBy
<1>3. UNCHANGED <<deck, preload, opening, mem, used, audio>>
  BY DEF ProcessSave, DeckTurn, boot
<1>4. /\ card'.vol = card.vol /\ job'.deck = d /\ job'.kind = "saving" /\ job'.file = job.file
      /\ \/ card'.st = "write" /\ files' = files
         \/ /\ card'.st = "idle" /\ card'.notify /\ job'.left = 0
            /\ \A f \in File : files'[f] = IF job.file = f THEN "whole" ELSE files[f]
  BY <1>1, <1>2, WriteAudioDoes DEF ProcessSave, Quiet, Typed
<1>5. \A x \in Deck : Busy(x) => x = d
  BY <1>1 DEF CalmInv, OneAtATime
<1>6. OneAtATime'
  BY <1>3, <1>4 DEF CalmInv, OneAtATime, Nobody, Busy
<1>7. ~audio[d].torn
  BY <1>1 DEF CalmInv, Served
<1>8. Served'
  BY <1>1, <1>3, <1>4, <1>5, <1>7 DEF CalmInv, Served, ServedBy, Access, Busy, Selecting
<1>9. \A f : Writing(f) /\ Writing(f)' <=> job.file = f
  BY <1>1, <1>2, <1>3, <1>4 DEF Writing
<1>10. Shows'
  <2> SUFFICES ASSUME NEW x \in Deck, Selecting(x), NEW s \in Slot PROVE ShowsFile(deck[x], s)'
    BY <1>3 DEF Shows, Selecting
  <2> DEFINE f == <<deck[x].tape, s>>
  <2>1. f \in File
    BY DEF Typed, DeckOK, AtTape, Selecting, File
  <2>2. ShowsFile(deck[x], s)
    BY DEF CalmInv, Shows
  <2>3. CASE job.file = f
    BY <1>3, <1>9, <2>3 DEF ShowsFile
  <2>4. CASE job.file # f
    <3>1. files'[f] = files[f] /\ ~Writing(f)
      BY <1>4, <2>1, <2>4 DEF Writing
    <3> QED
      BY <1>3, <1>4, <2>2, <2>4, <3>1 DEF ShowsFile
  <2> QED
    BY <2>3, <2>4
<1>11. Written'
  BY <1>4, <1>3 DEF Written, Typed, CardOK, Jobs
<1>12. Noting'
  BY <1>3, <1>4 DEF CalmInv, Noting, Chosen
<1> QED
  BY <1>6, <1>8, <1>10, <1>11, <1>12 DEF CalmInv

\* The card has left its notice for the deck that finishes.
LEMMA FinishedServed ==
    ASSUME Quiet, CalmInv, Typed, NEW d \in Deck, FinishLoad(d) \/ FinishSave(d)
    PROVE  /\ Busy(d) /\ job.deck = d /\ job.kind = deck[d].state
           /\ card.st = "idle" /\ card.notify /\ job.left = 0 /\ ~audio[d].torn /\ card.vol
           /\ \A x \in Deck : Busy(x) => x = d
BY DEF FinishLoad, FinishSave, Busy, CalmInv, Served, ServedBy, Access, OneAtATime

LEMMA FinishLoadCalm ==
    ASSUME Quiet, CalmInv, Typed, NEW d \in Deck, FinishLoad(d)
    PROVE  CalmInv'
<1>1. /\ Busy(d) /\ job.deck = d /\ job.kind = "loading" /\ deck[d].state = "loading"
      /\ card.st = "idle" /\ card.notify /\ ~audio[d].torn /\ card.vol
      /\ \A x \in Deck : Busy(x) => x = d
  BY FinishedServed DEF FinishLoad
<1>2. UNCHANGED <<job, preload, opening, files>> /\ card'.st = "idle" /\ card'.vol
  BY <1>1 DEF FinishLoad, DeckTurn, boot, Typed, CardOK, Cards
<1>3. deck' = [deck EXCEPT ![d] = Deactivated(deck[d])]
  BY DEF FinishLoad, Typed, DeckOK
<1>4. /\ deck'[d].state = "idle" /\ ~deck'[d].pre /\ deck'[d].empty = deck[d].empty
      /\ \A x \in Deck : x # d => deck'[x] = deck[x]
  BY <1>3, OneStore, DeactivatedStore DEF Typed, DeckOK
<1>5. \A x \in Deck : audio'[x].torn = audio[x].torn
  BY <1>1 DEF FinishLoad, Typed, CardOK, Takes
<1>6. Nobody'
  BY <1>1, <1>4 DEF Nobody, Busy
<1>7. OneAtATime'
  BY <1>2, <1>4, <1>6 DEF CalmInv, OneAtATime, Nobody
<1>8. Served'
  BY <1>1, <1>2, <1>4, <1>5, <1>6 DEF CalmInv, Served, Nobody
<1>9. \A f : ~Writing(f) /\ ~Writing(f)'
  BY <1>1, <1>2, <1>4 DEF Writing
<1>10. Shows'
  <2> SUFFICES ASSUME NEW x \in Deck, Selecting(x)', NEW s \in Slot PROVE ShowsFile(deck[x], s)'
    BY DEF Shows
  <2>1. Selecting(x) /\ deck'[x] = deck[x]
    BY <1>4 DEF Selecting
  <2> QED
    BY <1>1, <1>2, <1>9, <2>1 DEF CalmInv, Shows, ShowsFile
<1>11. Written'
  BY <1>6 DEF Written, Nobody, Busy
<1>12. Noting'
  <2>1. \A x \in Deck : ~deck'[x].pre
    BY <1>1, <1>4 DEF CalmInv, Noting, Busy
  <2>2. used' = [used EXCEPT ![d] = Chosen(deck[d])]
    BY <1>1 DEF FinishLoad, Noted
  <2>3. ASSUME PreloadOn PROVE mem' = used'
    <3>1. mem = used
      BY <2>3 DEF CalmInv, Noting
    <3>2. CASE deck[d].pre
      <4>1. mem' = mem /\ mem[d] = Chosen(deck[d])
        BY <1>1, <3>2 DEF FinishLoad, Noted, CalmInv, Noting
      <4> QED
        BY <2>2, <3>1, <4>1 DEF Typed, DiskOK
    <3>3. CASE ~deck[d].pre
      <4>1. MemWritten(d, Chosen(deck[d]), "idle")
        BY <1>1, <2>3, <3>3 DEF FinishLoad, Noted
      <4> QED
        BY <1>1, <2>2, <3>1, <4>1, MemNoted
    <3> QED
      BY <3>2, <3>3
  <2> QED
    BY <2>1, <2>3 DEF Noting
<1> QED
  BY <1>7, <1>8, <1>10, <1>11, <1>12 DEF CalmInv

LEMMA FinishSaveCalm ==
    ASSUME Quiet, CalmInv, Typed, NEW d \in Deck, FinishSave(d)
    PROVE  CalmInv'
<1>1. /\ Busy(d) /\ job.deck = d /\ job.kind = "saving" /\ deck[d].state = "saving"
      /\ card.st = "idle" /\ card.notify /\ ~audio[d].torn /\ card.vol
      /\ \A x \in Deck : Busy(x) => x = d
  BY FinishedServed DEF FinishSave
<1>2. UNCHANGED <<job, preload, opening, files, audio>> /\ card'.st = "idle" /\ card'.vol
  BY <1>1 DEF FinishSave, DeckTurn, boot, Typed, CardOK, Cards
<1>3. \A x \in Deck : deck'[x] = IF x = d THEN Deactivated(deck[x]) ELSE Shown(x)
  BY <1>1 DEF FinishSave
<1>4. \A x \in Deck : deck[x] \in Stores /\ AtTape(deck[x])
  BY DEF Typed, DeckOK
<1>5. deck'[d].state = "idle" /\ ~deck'[d].pre
  BY <1>3, <1>4, DeactivatedStore
<1>6. \A x \in Deck : x # d =>
        /\ deck'[x].state = deck[x].state /\ deck'[x].pre = deck[x].pre
        /\ deck'[x].tape = deck[x].tape
        /\ Selecting(x) => \A s \in Slot : deck'[x].empty[s] <=> ~Exists(<<deck[x].tape, s>>)
  BY <1>3, <1>4, SlotsReadStore DEF Shown
<1>7. Nobody'
  BY <1>1, <1>5, <1>6 DEF Nobody, Busy
<1>8. preload.at = "done"
  BY <1>1 DEF CalmInv, OneAtATime
<1>9. OneAtATime'
  BY <1>2, <1>7, <1>8 DEF OneAtATime, Nobody
<1>10. Served'
  BY <1>1, <1>2, <1>5, <1>6, <1>7 DEF CalmInv, Served, Nobody
<1>11. Shows'
  <2> SUFFICES ASSUME NEW x \in Deck, Selecting(x)', NEW s \in Slot PROVE ShowsFile(deck[x], s)'
    BY DEF Shows
  <2>1. x # d /\ Selecting(x)
    BY <1>5, <1>6 DEF Selecting
  <2>2. /\ deck'[x].tape = deck[x].tape
        /\ deck'[x].empty[s] <=> ~Exists(<<deck[x].tape, s>>)
    BY <1>6, <2>1
  <2>3. <<deck[x].tape, s>> \in File
    BY <1>4, <2>1 DEF AtTape, Selecting, File
  <2> QED
    BY <1>1, <1>2, <2>2, <2>3 DEF ShowsFile, Exists
<1>12. Written'
  BY <1>7 DEF Written, Nobody, Busy
<1>13. Noting'
  <2>1. \A x \in Deck : ~deck'[x].pre
    BY <1>1, <1>5, <1>6 DEF CalmInv, Noting, Busy
  <2>2. used' = [used EXCEPT ![d] = Chosen(deck[d])]
    BY <1>1 DEF FinishSave, Noted
  <2>3. ASSUME PreloadOn PROVE mem' = used'
    <3>1. mem = used /\ MemWritten(d, Chosen(deck[d]), "idle")
      BY <1>1, <2>3 DEF FinishSave, Noted, CalmInv, Noting
    <3> QED
      BY <1>1, <2>2, <3>1, MemNoted
  <2> QED
    BY <2>1, <2>3 DEF Noting
<1> QED
  BY <1>9, <1>10, <1>11, <1>12, <1>13 DEF CalmInv

-----------------------------------------------------------------------------
(* The invariant and what follows from it.                                 *)

LEMMA InitCalm == ASSUME Init PROVE CalmInv
<1>1. \A d \in Deck : /\ deck[d].state = "idle" /\ ~deck[d].pre
                      /\ \A s \in Slot : ~deck[d].empty[s]
  BY DEF Init
<1>2. \A d \in Deck : ~audio[d].torn
  BY DEF Init
<1>3. preload.at = "settings" /\ opening = None /\ mem = used /\ card.st = "mounting"
  BY DEF Init
<1>4. OneAtATime /\ Served
  BY <1>1, <1>2, <1>3 DEF OneAtATime, Nobody, Served, Busy, Selecting
<1>5. Shows /\ Written /\ Noting
  BY <1>1, <1>3 DEF Shows, Written, Noting, Selecting
<1> QED
  BY <1>4, <1>5 DEF CalmInv

LEMMA StepCalm ==
    ASSUME Quiet, CalmInv, Typed, [Next]_vars
    PROVE  CalmInv'
<1>1. CASE UNCHANGED vars
  <2>1. OneAtATime'
    BY <1>1 DEF vars, boot, CalmInv, OneAtATime, Nobody, Busy
  <2>2. UNCHANGED <<card, job, deck, disk, audio, used>>
    BY <1>1 DEF vars, disk
  <2> QED
    BY <2>1, <2>2, StillCalm
<1>2. ASSUME NEW d \in Deck, User(d) PROVE CalmInv'
  BY <1>2, IdleCalm, EventCalm, CancelCalm, BeginCalm, RecordCalm DEF User
<1>3. CASE Process
  <2>1. 0 \in Deck
    BY DEF Deck
  <2>2. CASE Round \/ PreloadWait \/ NotOpening \/ GiveUpOpening
    BY <2>1, <2>2, IdleCalm
  <2>3. CASE ReadSettings \/ Recognize \/ MountFails \/ Unmount
    BY <2>3, MountCalm
  <2>4. CASE PreloadStep \/ MountAndActivate
    BY <2>4, PreloadCalm, OpenedCalm
  <2>5. ASSUME NEW d \in Deck, \/ ProcessError(d) \/ ProcessNothing(d)
                               \/ ProcessLoad(d) \/ FinishLoad(d)
                               \/ ProcessSave(d) \/ FinishSave(d)
        PROVE  CalmInv'
    BY <2>5, ErrorCalm, IdleCalm, LoadCalm, FinishLoadCalm, SaveCalm, FinishSaveCalm
  <2> QED
    BY <1>3, <2>2, <2>3, <2>4, <2>5 DEF Process
<1> QED
  BY <1>1, <1>2, <1>3 DEF Next

LEMMA CalmFacts ==
    ASSUME CalmInv, Typed
    PROVE  Consistent /\ SlotsFresh /\ MemIsLastUsed /\ BufferIsWhole
<1>1. Consistent
  BY TypedTypeOK DEF Consistent, HandleMatchesDeck, CalmInv, Served, ServedBy, Access, Busy
<1>2. SlotsFresh
  <2>1. ASSUME ~\E d \in Deck : deck[d].state = "saving" PROVE \A f : ~Writing(f)
    BY <2>1 DEF Writing, Typed, CardOK, Jobs
  <2> QED
    BY <2>1 DEF SlotsFresh, CalmInv, Shows, ShowsFile
<1>3. MemIsLastUsed /\ BufferIsWhole
  BY DEF MemIsLastUsed, BufferIsWhole, CalmInv, Noting, Served
<1> QED
  BY <1>1, <1>2, <1>3

LEMMA EndsByItself ==
    ASSUME Quiet, CalmInv, Typed, [Next]_vars
    PROVE  EndedByItself
<1> SUFFICES ASSUME NEW d \in Deck, Busy(d), ~Busy(d)'
             PROVE  (card.notify /\ job.deck = d /\ job.left = 0) \/ ops' # ops \/ card.st = "failed"
  BY DEF EndedByItself
<1>1. deck' # deck
  BY DEF Busy
<1>2. ASSUME NEW x \in Deck, User(x) PROVE ops' # ops
  <2>1. Event
    BY <1>2 DEF User, Activate, Leave, Cancel, TurnTape, TurnPitch, Load, Save, Record
  <2> QED
    BY <2>1, EventLoop DEF Typed
<1>3. CASE Process
  <2>1. ~(PreloadStep \/ MountAndActivate)
    BY DEF PreloadStep, MountAndActivate, Opening, CalmInv, OneAtATime, Nobody
  <2>2. PICK x \in Deck : ProcessError(x) \/ FinishLoad(x) \/ FinishSave(x)
    BY <1>1, <1>3, <2>1
    DEF Process, Round, ReadSettings, PreloadWait, NotOpening, Recognize, MountFails, GiveUpOpening,
        Unmount, ProcessNothing, ProcessLoad, ProcessSave
  <2>3. CASE ProcessError(x)
    <3>1. CASE x = d
      BY <2>3, <3>1 DEF ProcessError, Busy
    <3>2. CASE x # d
      BY <2>3, <3>2 DEF ProcessError, Busy, Typed, DeckOK
    <3> QED
      BY <3>1, <3>2
  <2>4. CASE FinishLoad(x) \/ FinishSave(x)
    BY <2>4, FinishedServed
  <2> QED
    BY <2>2, <2>3, <2>4
<1> QED
  BY <1>1, <1>2, <1>3 DEF Next, vars

LEMMA CalmInvariance == ASSUME Quiet PROVE Spec => [](Typed /\ CalmInv)
<1>1. Init => Typed /\ CalmInv
  BY InitTyped, InitCalm
<1>2. Typed /\ CalmInv /\ [Next]_vars => (Typed /\ CalmInv)'
  BY StepTyped, StepCalm
<1> QED
  BY <1>1, <1>2, PTL DEF Spec

\* In the setting "calm", whose constants are free.
InCalm == setting = "calm" => Typed /\ CalmInv

LEMMA MCInvariance == ASSUME Quiet PROVE MCSpec => []InCalm
<1>1. MCInit => InCalm
  BY InitTyped, InitCalm DEF MCInit, Calm, InRough, InCalm
<1>2. InCalm /\ [MCNext]_MCVars => InCalm'
  <2>1. ASSUME setting = "calm", InCalm, [MCNext]_MCVars PROVE Typed' /\ CalmInv'
    <3>1. [Next]_vars /\ Typed /\ CalmInv
      BY <2>1 DEF InCalm, MCNext, MCVars, Calm, InRough
    <3> QED
      BY <3>1, StepTyped, StepCalm
  <2> QED
    BY <2>1 DEF InCalm, MCNext, MCVars
<1> QED
  BY <1>1, <1>2, PTL DEF MCSpec

(* Storage::load and save refuse while the card is busy: for a user who    *)
(* lets one deck finish first, on a card that does not fail, the card's    *)
(* one handle serves the deck that is loading or saving, whatever the      *)
(* tapes, slots, chunks and tries, and however the boot preloads.          *)
THEOREM StoreServes ==
    ASSUME Quiet
    PROVE  /\ Spec => []Consistent
           /\ MCSpec /\ setting = "calm" => []StorageConsistent
<1>1. Typed /\ CalmInv => Consistent
  BY CalmFacts
<1>2. setting = "calm" /\ [MCNext]_MCVars => (setting = "calm")'
  BY DEF MCNext, MCVars
<1>3. setting = "calm" /\ InCalm => StorageConsistent
  BY CalmFacts DEF InCalm, StorageConsistent
<1> QED
  BY <1>1, <1>2, <1>3, CalmInvariance, MCInvariance, PTL DEF MCSpec

(* _read_slots and _on_audio_saved: what a deck shows of its tape is what  *)
(* the card holds; and SK/MEM names what each deck used last.              *)
THEOREM ShownAndNoted ==
    ASSUME Quiet
    PROVE  /\ Spec => [](SlotsFresh /\ MemIsLastUsed)
           /\ MCSpec => []ShownIsThere
<1>1. Typed /\ CalmInv => SlotsFresh /\ MemIsLastUsed
  BY CalmFacts
<1>2. InCalm => ShownIsThere
  BY CalmFacts DEF InCalm, ShownIsThere
<1> QED
  BY <1>1, <1>2, CalmInvariance, MCInvariance, PTL

(* No deck is left with the first part of a file over an older take:       *)
(* Storage::cancel clears the buffer of a load that is cut short.          *)
THEOREM NoHalfBuffers ==
    ASSUME Quiet
    PROVE  /\ Spec => []BufferIsWhole
           /\ MCSpec => []BuffersWhole
<1>1. Typed /\ CalmInv => BufferIsWhole
  BY CalmFacts
<1>2. InCalm => BuffersWhole
  BY CalmFacts DEF InCalm, BuffersWhole
<1> QED
  BY <1>1, <1>2, CalmInvariance, MCInvariance, PTL

(* A load or a save ends by the notice of its own finished file, by the    *)
(* user's cancel or by a refusing card; nothing the other deck or the boot *)
(* does takes it off the card.                                             *)
THEOREM EndsComplete ==
    ASSUME Quiet
    PROVE  /\ Spec => OperationsComplete
           /\ MCSpec => NothingCutShort
<1>1. Typed /\ CalmInv /\ [Next]_vars => [EndedByItself]_vars
  BY EndsByItself
<1>2. InCalm /\ [MCNext]_MCVars => [setting = "calm" => EndedByItself]_MCVars
  BY EndsByItself DEF InCalm, MCNext, Calm, InRough
<1> QED
  BY <1>1, <1>2, CalmInvariance, MCInvariance, PTL
  DEF Spec, MCSpec, OperationsComplete, NothingCutShort

===========================================================================
