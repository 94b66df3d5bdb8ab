----------------------------- MODULE StreamDeck -----------------------------
(***************************************************************************)
(* hw/stream_deck.{h,cpp} with the streams, readers and writers it owns:   *)
(* decks that play a file of the card or record one, each through a ring   *)
(* shared by the audio interrupt and the main loop.                        *)
(*                                                                         *)
(* The interrupt runs whole between two steps of the main loop, and the    *)
(* main loop takes one step per access to what the interrupt can see: a    *)
(* ring, a mode, an EOF flag.  A ring is the queue that SpscRing is proved *)
(* to implement; its bytes are frames, named by their place in their file. *)
(* Underrun and overrun counters, which nothing reads, are left out.       *)
(***************************************************************************)
EXTENDS Naturals, Sequences

CONSTANTS NDecks,      \* decks, in the order the pump serves them
          RingCap,     \* frames a ring holds
          ScratchCap,  \* frames the shared scratch holds
          StageCap,    \* frames the converter stages per read
          Files,       \* the files that can be played
          Faults,      \* the card may fail a read, a write or a seek
          KeepsUp,     \* the card is faster than the audio
          Block,       \* bound: frames an interrupt moves at once
          Preempt,     \* bound: interrupts during one deck's pump
          MaxTake,     \* bound: frames recorded in one take
          MaxOps       \* bound: control calls

Deck == 0..(NDecks - 1)

\* A file: the frames its header states, those really on the card, whether it
\* is opened by the raw reader (a scanned bank) or by the float-WAV reader,
\* and whether its format needs the converter.
FileType == [hdr: Nat, len: Nat, raw: BOOLEAN, conv: BOOLEAN]

ASSUME CountAssumption ==
    /\ NDecks \in Nat \ {0} /\ MaxTake \in Nat /\ MaxOps \in Nat
    /\ {RingCap, ScratchCap, StageCap, Block, Preempt} \subseteq Nat \ {0}
ASSUME FilesAssumption == Files \subseteq FileType /\ {Faults, KeepsUp} \subseteq BOOLEAN

VARIABLES mode,        \* Deck::mode, written by the main loop only
          finalizing,  \* Deck::finalizing
          ring,        \* Deck::ring, oldest frame first
          eof,         \* PlayStream::_eof
          loop,        \* PlayStream::_loop
          handle,      \* Deck::file: closed, or open to read or to write
          src,         \* the open file and its reader
          stopping,    \* RecordStream::_stopping
          done,        \* RecordStream::_done
          take,        \* the frames of the deck's take on the card
          header,      \* the length its header states
          scratch,     \* the staging buffer both decks share
          main,        \* where the main loop is
          ops,         \* control calls so far
          blocks,      \* interrupts since the pump of a deck began
          due,         \* ghost: the frame a listener should hear next
          accepted     \* ghost: frames of the take the ring has accepted

fileVars == <<handle, src>>
takeVars == <<take, header>>
playVars == <<eof, loop>>
recVars  == <<stopping, done>>
vars == <<mode, finalizing, ring, playVars, fileVars, recVars, takeVars,
          scratch, main, ops, blocks, due, accepted>>

Least(m, n) == IF m <= n THEN m ELSE n
Drop(s, n)  == SubSeq(s, n + 1, Len(s))
Frames(first, n) == [k \in 1..n |-> first + k - 1]

At(pc, d) == main.pc = pc /\ main.deck = d
Goto(pc, d) == main' = [pc |-> pc, deck |-> d, rewinds |-> 0]
InControl == main.pc = "control"

\* The rest of process(): the next deck, or back to the top of the loop.
Return(d) == IF d + 1 < NDecks THEN Goto("service", d + 1) ELSE Goto("control", 0)

NoFile == [hdr |-> 0, pos |-> 0, len |-> 0, left |-> 0,
           raw |-> FALSE, conv |-> FALSE, stage |-> << >>]

Init ==
    /\ mode = [d \in Deck |-> "idle"]
    /\ finalizing = [d \in Deck |-> FALSE]
    /\ ring = [d \in Deck |-> << >>]
    /\ eof = [d \in Deck |-> FALSE]
    /\ loop = [d \in Deck |-> FALSE]
    /\ handle = [d \in Deck |-> "closed"]
    /\ src = [d \in Deck |-> NoFile]
    /\ stopping = [d \in Deck |-> FALSE]
    /\ done = [d \in Deck |-> FALSE]
    /\ take = [d \in Deck |-> << >>]
    /\ header = [d \in Deck |-> 0]
    /\ scratch = << >>
    /\ main = [pc |-> "control", deck |-> 0, rewinds |-> 0]
    /\ ops = 0 /\ blocks = 0
    /\ due = [d \in Deck |-> 0]
    /\ accepted = [d \in Deck |-> 0]

-----------------------------------------------------------------------------
(* FatFile: one handle per deck, and a card that may fail.                  *)

\* Mutant: a file that is never let go of.
CloseLeaks(d) == UNCHANGED handle

Open(d, access) == handle[d] = "closed" /\ handle' = [handle EXCEPT ![d] = access]
Close(d) == handle' = [handle EXCEPT ![d] = "closed"]

\* What a read of n frames, a write of n frames, a seek to frame p may do.
CanRead(n)  == {n} \cup (IF Faults THEN {0} ELSE {})
CanWrite(n) == IF Faults THEN 0..n ELSE {n}
CanSeek(p)  == {p} \cup (IF Faults THEN {0} ELSE {})

-----------------------------------------------------------------------------
(* Control calls, made by the engine from the main loop.                   *)

Call == InControl /\ ops < MaxOps /\ ops' = ops + 1

\* Mutant: a raw reader that trusts the header.
BodyUnclamped(f) == f.hdr

\* The frames a reader will hand out: the raw reader clamps the header's
\* length to the file, the float-WAV reader takes it as it is.
Body(f) == IF f.raw THEN Least(f.hdr, f.len) ELSE f.hdr

\* The frame heard first from a reader at frame p.
FirstFrame(p, hdr) == IF p < hdr THEN p ELSE 0

\* Mutant: a start that leaves the EOF latch of the last play.
PlayStartStillEof(d) ==
    /\ ring' = [ring EXCEPT ![d] = << >>]
    /\ UNCHANGED eof

\* PlayStream::start: bind the source, clear the EOF latch, empty the ring.
PlayStart(d) ==
    /\ eof' = [eof EXCEPT ![d] = FALSE]
    /\ ring' = [ring EXCEPT ![d] = << >>]

\* Mutant: a seek that keeps what the converter staged before it.
MovedKeepingStage(s, p) == [s EXCEPT !.pos = p, !.left = s.hdr - p]

\* seek_to_frame and reset_carry: the reader at frame p, nothing staged.
Moved(s, p) == [s EXCEPT !.pos = p, !.left = s.hdr - p, !.stage = << >>]

\* start_play (k = 0, the loop flag as it is), start_play_raw, start_play_wav.
\* A file that cannot be opened or served changes nothing; a card that refuses
\* the seek of the raw starts goes unnoticed and leaves the deck at the top.
StartPlay(d, f, k, l) ==
    /\ Call
    /\ mode[d] = "idle" /\ ~finalizing[d]
    /\ Open(d, "read")
    /\ f.raw => Body(f) > 0
    /\ f.raw \/ (k = 0 /\ l = loop[d])
    /\ LET n == Body(f)
       IN  \E p \in CanSeek(Least(k, n)) :
             /\ src' = [src EXCEPT ![d] =
                          Moved([NoFile EXCEPT !.hdr = n, !.len = f.len,
                                               !.raw = f.raw, !.conv = f.conv], p)]
             /\ due' = [due EXCEPT ![d] = FirstFrame(p, n)]
    /\ loop' = [loop EXCEPT ![d] = l]
    /\ PlayStart(d)
    /\ Goto("armplay", d)
    /\ UNCHANGED <<mode, finalizing, recVars, takeVars, scratch, blocks, accepted>>

\* The store that lets the interrupt in, the last thing a start does.
ArmPlay(d) ==
    /\ At("armplay", d)
    /\ mode' = [mode EXCEPT ![d] = "play"]
    /\ Goto("control", 0)
    /\ UNCHANGED <<finalizing, ring, playVars, fileVars, recVars, takeVars,
                   scratch, ops, blocks, due, accepted>>

\* Mutant: a record that begins on what the last play left in the ring.
RecordStartOnOldRing(d) ==
    /\ stopping' = [stopping EXCEPT ![d] = FALSE]
    /\ done' = [done EXCEPT ![d] = FALSE]
    /\ accepted' = [accepted EXCEPT ![d] = 0]
    /\ UNCHANGED ring

\* RecordStream::start.
RecordStart(d) ==
    /\ stopping' = [stopping EXCEPT ![d] = FALSE]
    /\ done' = [done EXCEPT ![d] = FALSE]
    /\ accepted' = [accepted EXCEPT ![d] = 0]
    /\ ring' = [ring EXCEPT ![d] = << >>]

\* start_record: create the file, write the placeholder header, empty the
\* ring.  When the placeholder cannot be written the file is left, truncated.
StartRecord(d) ==
    /\ Call
    /\ mode[d] = "idle" /\ ~finalizing[d]
    /\ handle[d] = "closed"
    /\ take' = [take EXCEPT ![d] = << >>]
    /\ header' = [header EXCEPT ![d] = 0]
    /\ \/ /\ Open(d, "write")
          /\ RecordStart(d)
          /\ Goto("armrecord", d)
       \/ /\ Faults
          /\ UNCHANGED <<handle, recVars, ring, accepted, main>>
    /\ UNCHANGED <<mode, finalizing, playVars, src, scratch, blocks, due>>

ArmRecord(d) ==
    /\ At("armrecord", d)
    /\ mode' = [mode EXCEPT ![d] = "record"]
    /\ Goto("control", 0)
    /\ UNCHANGED <<finalizing, ring, playVars, fileVars, recVars, takeVars,
                   scratch, ops, blocks, due, accepted>>

\* stop() of a playing deck.
StopPlay(d) ==
    /\ Call
    /\ mode[d] = "play"
    /\ mode' = [mode EXCEPT ![d] = "idle"]
    /\ Close(d)
    /\ UNCHANGED <<finalizing, ring, playVars, src, recVars, takeVars, scratch,
                   main, blocks, due, accepted>>

\* stop() of a recording deck: ask for the end of the record...
StopRecord(d) ==
    /\ Call
    /\ mode[d] = "record"
    /\ stopping' = [stopping EXCEPT ![d] = TRUE]
    /\ Goto("stoprecord", d)
    /\ UNCHANGED <<mode, finalizing, ring, playVars, fileVars, done, takeVars,
                   scratch, blocks, due, accepted>>

\* Mutant: a stop that closes the file with the tail still in the ring.
LeaveRecordAtOnce(d) ==
    /\ At("stoprecord", d)
    /\ mode' = [mode EXCEPT ![d] = "idle"]
    /\ Close(d)
    /\ Goto("control", 0)
    /\ UNCHANGED <<finalizing, ring, playVars, src, recVars, takeVars, scratch,
                   ops, blocks, due, accepted>>

\* ...shut the interrupt out and leave the tail to the pump.
LeaveRecord(d) ==
    /\ At("stoprecord", d)
    /\ mode' = [mode EXCEPT ![d] = "idle"]
    /\ finalizing' = [finalizing EXCEPT ![d] = TRUE]
    /\ Goto("control", 0)
    /\ UNCHANGED <<ring, playVars, fileVars, recVars, takeVars, scratch, ops,
                   blocks, due, accepted>>

SetLoop(d, l) ==
    /\ Call
    /\ loop[d] # l
    /\ loop' = [loop EXCEPT ![d] = l]
    /\ UNCHANGED <<mode, finalizing, ring, eof, fileVars, recVars, takeVars,
                   scratch, main, blocks, due, accepted>>

\* Mutant: a seek that lets the interrupt go on.
SeekPlayUnshielded(d) ==
    /\ Call
    /\ mode[d] = "play" /\ ~finalizing[d]
    /\ src[d].raw /\ handle[d] # "closed"
    /\ Goto("seek", d)
    /\ UNCHANGED <<mode, finalizing, ring, playVars, fileVars, recVars, takeVars,
                   scratch, blocks, due, accepted>>

\* seek_play: shut the interrupt out first...
SeekPlay(d) ==
    /\ Call
    /\ mode[d] = "play" /\ ~finalizing[d]
    /\ src[d].raw /\ handle[d] # "closed"
    /\ mode' = [mode EXCEPT ![d] = "idle"]
    /\ Goto("seek", d)
    /\ UNCHANGED <<finalizing, ring, playVars, fileVars, recVars, takeVars,
                   scratch, blocks, due, accepted>>

\* ...move the file, drop what the converter staged and what the ring holds...
SeekTo(d, k) ==
    /\ At("seek", d)
    /\ LET p == Least(k, src[d].hdr)
       IN  /\ src' = [src EXCEPT ![d] = Moved(@, p)]
           /\ due' = [due EXCEPT ![d] = FirstFrame(p, src[d].hdr)]
    /\ PlayStart(d)
    /\ Goto("armplay", d)
    /\ UNCHANGED <<mode, finalizing, loop, handle, recVars, takeVars, scratch,
                   ops, blocks, accepted>>

\* Mutant: a failed seek that has already emptied the ring.
SeekFailsFlushed(d) ==
    /\ At("seek", d)
    /\ Faults
    /\ mode' = [mode EXCEPT ![d] = "play"]
    /\ PlayStart(d)
    /\ Goto("control", 0)
    /\ UNCHANGED <<finalizing, loop, fileVars, recVars, takeVars, scratch, ops,
                   blocks, due, accepted>>

\* ...or, when the card refuses, let the deck go on as it was.
SeekFails(d) ==
    /\ At("seek", d)
    /\ Faults
    /\ mode' = [mode EXCEPT ![d] = "play"]
    /\ Goto("control", 0)
    /\ UNCHANGED <<finalizing, ring, playVars, fileVars, recVars, takeVars,
                   scratch, ops, blocks, due, accepted>>

-----------------------------------------------------------------------------
(* process(): the main loop serves the decks one after the other.          *)

Process ==
    /\ InControl
    /\ Goto("service", 0)
    /\ UNCHANGED <<mode, finalizing, ring, playVars, fileVars, recVars,
                   takeVars, scratch, ops, blocks, due, accepted>>

\* Mutant: a pump that forgets a deck once it is idle.
RecordsOnly(d) == mode[d] = "record"

\* A deck whose record has frames to write: while it runs and after its stop.
Records(d) == mode[d] = "record" \/ finalizing[d]

\* The head of _pump: which stream this deck's mode calls for.
Service(d) ==
    /\ At("service", d)
    /\ blocks' = 0
    /\ \/ mode[d] = "play" /\ Goto(IF eof[d] THEN "check" ELSE "fill", d)
       \/ mode[d] # "play" /\ Records(d) /\ Goto("drain", d)
       \/ mode[d] # "play" /\ ~Records(d) /\ Return(d)
    /\ UNCHANGED <<mode, finalizing, ring, playVars, fileVars, recVars,
                   takeVars, scratch, ops, due, accepted>>

Space(d) == RingCap - Len(ring[d])

\* What a reader can still get from the card, and its eof().
OnCard(s)  == Least(s.left, IF s.pos < s.len THEN s.len - s.pos ELSE 0)
AtEnd(s)   == s.left = 0 /\ s.stage = << >>

\* The frames a request for `want` takes from the card: as many as it is
\* short of, in whole stages when the converter is between.
Needed(s, want) ==
    LET short == IF want <= Len(s.stage) THEN 0 ELSE want - Len(s.stage)
        unit  == IF s.conv THEN StageCap ELSE 1
    IN  Least(OnCard(s), unit * ((short + unit - 1) \div unit))

\* Mutant: a read that asks for a scratchful whatever room the ring has.
WantedScratchful(d) == ScratchCap

\* What one read asks for.
Wanted(d) == Least(Space(d), ScratchCap)

\* PlayStream::pump: one read of the source into the scratch.
FillRead(d) ==
    /\ At("fill", d)
    /\ Space(d) > 0
    /\ LET s    == src[d]
           want == Wanted(d)
       IN  \E n \in CanRead(Needed(s, want)) :
             LET all == s.stage \o Frames(s.pos, n)
                 got == Least(want, Len(all))
             IN  /\ got > 0
                 /\ scratch' = SubSeq(all, 1, got)
                 /\ src' = [src EXCEPT ![d] = [s EXCEPT !.pos = s.pos + n, !.left = s.left - n,
                                                        !.stage = Drop(all, got)]]
    /\ main' = [main EXCEPT !.pc = "put"]
    /\ UNCHANGED <<mode, finalizing, ring, playVars, handle, recVars, takeVars,
                   ops, blocks, due, accepted>>

\* Mutant: rewinds counted over the whole call, not since the last frame read.
FillWriteCounting(d) ==
    /\ At("put", d)
    /\ ring' = [ring EXCEPT ![d] =
                  @ \o SubSeq(scratch, 1, Least(Len(scratch), Space(d)))]
    /\ main' = [main EXCEPT !.pc = "fill"]
    /\ UNCHANGED <<mode, finalizing, playVars, fileVars, recVars, takeVars,
                   scratch, ops, blocks, due, accepted>>

\* ...and one write of it into the ring, whose return value is not looked at.
FillWrite(d) ==
    /\ At("put", d)
    /\ ring' = [ring EXCEPT ![d] =
                  @ \o SubSeq(scratch, 1, Least(Len(scratch), Space(d)))]
    /\ Goto("fill", d)
    /\ UNCHANGED <<mode, finalizing, playVars, fileVars, recVars, takeVars,
                   scratch, ops, blocks, due, accepted>>

\* A read that gives nothing: at the end of a looping source, rewind it (a
\* card that refuses the seek leaves it at the end)...
FillRewind(d) ==
    /\ At("fill", d)
    /\ Space(d) > 0
    /\ AtEnd(src[d])
    /\ loop[d] /\ main.rewinds < 2
    /\ \/ src' = [src EXCEPT ![d] = [src[d] EXCEPT !.pos = 0, !.left = src[d].hdr]]
       \/ Faults /\ UNCHANGED src
    /\ main' = [main EXCEPT !.rewinds = @ + 1]
    /\ UNCHANGED <<mode, finalizing, ring, playVars, handle, recVars, takeVars,
                   scratch, ops, blocks, due, accepted>>

\* ...at the end of any other, latch EOF...
FillEof(d) ==
    /\ At("fill", d)
    /\ Space(d) > 0
    /\ AtEnd(src[d])
    /\ ~loop[d] \/ main.rewinds >= 2
    /\ eof' = [eof EXCEPT ![d] = TRUE]
    /\ Goto("check", d)
    /\ UNCHANGED <<mode, finalizing, ring, loop, fileVars, recVars, takeVars,
                   scratch, ops, blocks, due, accepted>>

\* ...short of the end, try again in the next round.
FillDry(d) ==
    /\ At("fill", d)
    /\ Space(d) > 0
    /\ ~AtEnd(src[d])
    /\ src[d].stage = << >>
    /\ OnCard(src[d]) = 0 \/ Faults
    /\ Goto("check", d)
    /\ UNCHANGED <<mode, finalizing, ring, playVars, fileVars, recVars,
                   takeVars, scratch, ops, blocks, due, accepted>>

\* Mutant: a pump that waits for the interrupt to make room.
FillFullWaits(d) ==
    /\ At("fill", d)
    /\ Space(d) = 0
    /\ UNCHANGED vars

\* The ring is full: the read-ahead is satisfied.
FillFull(d) ==
    /\ At("fill", d)
    /\ Space(d) = 0
    /\ Goto("check", d)
    /\ UNCHANGED <<mode, finalizing, ring, playVars, fileVars, recVars,
                   takeVars, scratch, ops, blocks, due, accepted>>

\* PlayStream::finished.
Finished(d) == eof[d] /\ ring[d] = << >>

\* The end of a playing deck's pump: a finished deck goes idle and lets go
\* of its file.
CheckFinished(d) ==
    /\ At("check", d)
    /\ IF Finished(d)
       THEN /\ mode' = [mode EXCEPT ![d] = "idle"]
            /\ Close(d)
       ELSE UNCHANGED <<mode, handle>>
    /\ Return(d)
    /\ UNCHANGED <<finalizing, ring, playVars, src, recVars, takeVars, scratch,
                   ops, blocks, due, accepted>>

\* RecordStream::pump: one scratchful from the ring to the card.  A failing
\* card takes fewer bytes, and the rest of them is gone.
Drain(d) ==
    /\ At("drain", d)
    /\ ring[d] # << >> /\ ~done[d]
    /\ LET got == Least(Len(ring[d]), ScratchCap)
       IN  /\ scratch' = SubSeq(ring[d], 1, got)
           /\ ring' = [ring EXCEPT ![d] = Drop(@, got)]
           /\ \E w \in CanWrite(got) :
                take' = [take EXCEPT ![d] = @ \o SubSeq(ring[d], 1, w)]
    /\ UNCHANGED <<mode, finalizing, playVars, fileVars, recVars, header, main,
                   ops, blocks, due, accepted>>

\* Nothing left to drain: after a stop, patch the header (unless the card
\* refuses), and close the file of a deck that was finalizing.
DrainEnd(d) ==
    /\ At("drain", d)
    /\ ring[d] = << >> \/ done[d]
    /\ IF stopping[d] /\ ~done[d]
       THEN /\ done' = [done EXCEPT ![d] = TRUE]
            /\ \/ header' = [header EXCEPT ![d] = Len(take[d])]
               \/ Faults /\ UNCHANGED header
       ELSE UNCHANGED <<done, header>>
    /\ IF finalizing[d] /\ done'[d]
       THEN /\ Close(d)
            /\ finalizing' = [finalizing EXCEPT ![d] = FALSE]
       ELSE UNCHANGED <<handle, finalizing>>
    /\ Return(d)
    /\ UNCHANGED <<mode, ring, playVars, src, stopping, take, scratch, ops,
                   blocks, due, accepted>>

-----------------------------------------------------------------------------
(* The audio interrupt.                                                    *)

\* When the card keeps up with the audio, the pump of a deck is interrupted
\* at most Preempt times for that deck; otherwise any number of times.
Interrupts(d) ==
    IF KeepsUp /\ main.pc \in {"fill", "put", "drain"} /\ main.deck = d
    THEN blocks < Preempt /\ blocks' = blocks + 1
    ELSE UNCHANGED blocks

NextFrame(d, k) == IF k + 1 < src[d].hdr THEN k + 1 ELSE 0

\* play_consume: take up to n frames; silence makes up for the rest.
PlayConsume(d, n) ==
    /\ mode[d] = "play"
    /\ ring[d] # << >>
    /\ Interrupts(d)
    /\ LET got == Least(n, Len(ring[d]))
       IN  /\ ring' = [ring EXCEPT ![d] = Drop(@, got)]
           /\ due' = [due EXCEPT ![d] = NextFrame(d, ring[d][got])]
    /\ UNCHANGED <<mode, finalizing, playVars, fileVars, recVars, takeVars,
                   scratch, main, ops, accepted>>

\* Mutant: a full ring that is written all the same.
AcceptedUnclipped(d, n) == n

\* What the ring accepts of n frames.
Accepted(d, n) == Least(n, Space(d))

\* record_produce: push n frames; those that do not fit are dropped.
RecordProduce(d, n) ==
    /\ mode[d] = "record"
    /\ accepted[d] + n <= MaxTake
    /\ Interrupts(d)
    /\ LET put == Accepted(d, n)
       IN  /\ ring' = [ring EXCEPT ![d] = @ \o Frames(accepted[d], put)]
           /\ accepted' = [accepted EXCEPT ![d] = @ + put]
    /\ UNCHANGED <<mode, finalizing, playVars, fileVars, recVars, takeVars,
                   scratch, main, ops, due>>

-----------------------------------------------------------------------------
\* The seek targets worth telling apart: every frame, and past the end.
Target(f) == 0..(f.hdr + 1)

Control(d) ==
    \/ \E f \in Files, l \in BOOLEAN : \E k \in Target(f) : StartPlay(d, f, k, l)
    \/ ArmPlay(d)
    \/ StartRecord(d) \/ ArmRecord(d)
    \/ StopPlay(d)
    \/ StopRecord(d) \/ LeaveRecord(d)
    \/ \E l \in BOOLEAN : SetLoop(d, l)
    \/ SeekPlay(d)
    \/ \E k \in Target(src[d]) : SeekTo(d, k)
    \/ SeekFails(d)

Pump(d) ==
    \/ Service(d)
    \/ FillRead(d) \/ FillWrite(d) \/ FillRewind(d) \/ FillEof(d)
    \/ FillDry(d) \/ FillFull(d) \/ CheckFinished(d)
    \/ Drain(d) \/ DrainEnd(d)

Interrupt(d) ==
    \E n \in 1..Block : PlayConsume(d, n) \/ RecordProduce(d, n)

Next ==
    \/ Process
    \/ \E d \in Deck : Control(d) \/ Pump(d) \/ Interrupt(d)

\* The main loop never stops and the interrupt keeps coming.  The engine owes
\* no control call, but finishes one that it has begun.
MainStep == Process \/ \E d \in Deck :
    \/ Pump(d)
    \/ ArmPlay(d) \/ ArmRecord(d) \/ LeaveRecord(d)
    \/ SeekFails(d) \/ \E k \in Target(src[d]) : SeekTo(d, k)

Spec == Init /\ [][Next]_vars
FairSpec ==
    /\ Spec
    /\ WF_vars(MainStep)
    /\ \A d \in Deck : WF_vars(\E n \in 1..Block : PlayConsume(d, n))

-----------------------------------------------------------------------------
Pcs == {"control", "service", "armplay", "armrecord", "stoprecord", "seek",
        "fill", "put", "check", "drain"}

SrcType == [hdr: Nat, pos: Nat, len: Nat, left: Nat,
            raw: BOOLEAN, conv: BOOLEAN, stage: Seq(Nat)]

TypeOK ==
    /\ mode \in [Deck -> {"idle", "play", "record"}]
    /\ finalizing \in [Deck -> BOOLEAN]
    /\ ring \in [Deck -> Seq(Nat)] /\ \A d \in Deck : Len(ring[d]) <= RingCap
    /\ eof \in [Deck -> BOOLEAN] /\ loop \in [Deck -> BOOLEAN]
    /\ handle \in [Deck -> {"closed", "read", "write"}]
    /\ src \in [Deck -> SrcType]
    /\ stopping \in [Deck -> BOOLEAN] /\ done \in [Deck -> BOOLEAN]
    /\ take \in [Deck -> Seq(Nat)] /\ header \in [Deck -> Nat]
    /\ scratch \in Seq(Nat) /\ Len(scratch) <= ScratchCap
    /\ main \in [pc: Pcs, deck: Nat, rewinds: 0..2] /\ main.deck \in Deck
    /\ ops \in 0..MaxOps /\ blocks \in 0..Preempt
    /\ due \in [Deck -> Nat] /\ accepted \in [Deck -> 0..MaxTake]

\* The frames on their way to the listener: in the ring, in the scratch, and
\* staged in the converter.
InFlight(d) ==
    ring[d] \o (IF At("put", d) THEN scratch ELSE << >>) \o src[d].stage

\* The frame that follows the frames in flight is the next one on the card.
NextOnCard(d) ==
    IF InFlight(d) = << >> THEN due[d]
    ELSE NextFrame(d, InFlight(d)[Len(InFlight(d))])

\* The listener hears the file: what is in flight of a playing deck begins
\* with the frame that is due, runs on frame by frame (through the seam of a
\* loop) and goes on where the card is about to be read, so no interleaving
\* of the interrupt with the pump, a seek, a rewind or a restart makes the
\* deck skip, repeat or mix in a frame (stream_deck.cpp, audio_stream.h).
PlaybackInOrder == \A d \in Deck : mode[d] = "play" =>
    LET q == InFlight(d)
    IN  /\ q # << >> => q[1] = due[d]
        /\ \A k \in 1..(Len(q) - 1) : q[k + 1] = NextFrame(d, q[k])
        /\ src[d].left > 0 => NextOnCard(d) = src[d].pos

\* A take is what was recorded, on a card that does not fail: while it is being
\* written the file and the ring together hold every frame the ring accepted, in
\* order, and from then on the file holds them all under a header that tells its
\* length, so the placeholder is always patched, and after the last frame
\* (RecordStream, _pump, finalize).
TakeIsWhole ==
    ~Faults => \A d \in Deck :
        IF handle[d] = "write" THEN take[d] \o ring[d] = Frames(0, accepted[d])
        ELSE header[d] = Len(take[d]) /\ accepted[d] = Len(take[d])

\* The pump never drops what it has read: the ring has room for the whole
\* scratch although the room was measured before the read, and the return
\* value of write() is not looked at (audio_stream.h, pump).
ScratchFits == \A d \in Deck : At("put", d) => Len(scratch) <= Space(d)

\* A deck holds a file exactly while it needs one.  A handle left open would
\* refuse every later open_read and open_write of the deck, a handle closed
\* early would cut the tail of a take (FatFile::_open, stream_deck.cpp).
HandleMatchesMode == \A d \in Deck :
    handle[d] =
        IF mode[d] = "play" \/ At("armplay", d) \/ At("seek", d) THEN "read"
        ELSE IF mode[d] = "record" \/ finalizing[d] \/ At("armrecord", d)
             THEN "write"
        ELSE "closed"

\* A deck that has latched EOF has nothing more to read: neither a seek, nor
\* a restart, nor a loop switched on late leaves a playing deck with frames
\* of its file that the pump will never fetch.
EofMeansExhausted == \A d \in Deck :
    mode[d] = "play" /\ eof[d] => AtEnd(src[d])

\* What the modules around this one rely on: types and sizes, the handle and the
\* mode, the room the pump has measured, the file that is read out.
Consistent == TypeOK /\ ScratchFits /\ HandleMatchesMode /\ EofMeansExhausted

\* A loop goes on: the pump never ends a deck whose loop is on, whatever the
\* length of the file beside the ring's, as long as the card does not fail
\* and there is a frame to repeat (the `rewinds` guard of audio_stream.h).
NoEarlyEnd == ~Faults => \A d \in Deck : eof'[d] /\ ~eof[d] => ~loop[d] \/ src[d].hdr = 0
LoopGoesOn == [][NoEarlyEnd]_vars

\* SpscRing's reset is called with nobody inside the ring: from the moment a
\* control call has shut the interrupt out until it arms the deck, only the
\* main loop touches the ring (the order of the stores in start_play,
\* start_record and seek_play).
OnlyMain ==
    \A d \in Deck :
        /\ main.deck = d /\ main.pc \in {"seek", "armplay", "armrecord"}
        /\ ring'[d] # ring[d]
        => main' # main
RingLeftAlone == [][OnlyMain]_vars

\* Every take is finished: a deck that flushes its tail closes the file and
\* becomes free again, even on a card that fails (the finalizing window, in
\* which every start is refused, ends).
FinalizingEnds == \A d \in Deck : finalizing[d] ~> ~finalizing[d]

\* A deck that plays to the end of its file becomes free again, unless it is
\* looped (_pump: "file reached EOF + drained"; tape_engine.cpp, prepare).
PlaybackEnds == \A d \in Deck :
    mode[d] = "play" ~> (mode[d] = "idle" \/ loop[d])

\* One call of pump comes to its end and the main loop goes on, "bounded per
\* call by the ring's free space" (audio_stream.h).
PumpReturns == main.pc \in {"fill", "put", "drain"} ~> InControl
=============================================================================
