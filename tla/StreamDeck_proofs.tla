-------------------------- MODULE StreamDeck_proofs --------------------------
(* Proofs about StreamDeck, for any number of decks, any sizes of ring,    *)
(* scratch and stage, any files, and a card that may fail any call; and    *)
(* about two clients of it: TapeEngine, which is the instance T here, and  *)
(* Softcut, which is the instance S.                                       *)
EXTENDS MCStreamDeck, MCTapeEngine, MCSoftcut, SequenceTheorems, TLAPS

-----------------------------------------------------------------------------
(* Who holds the deck: what the mode, the handle and the pump say of each  *)
(* other.                                                                  *)

Holding == {"seek", "armplay", "armrecord"}

ControlType ==
    /\ mode \in [Deck -> {"idle", "play", "record"}]
    /\ finalizing \in [Deck -> BOOLEAN]
    /\ handle \in [Deck -> {"closed", "read", "write"}]
    /\ main \in [pc : Pcs, deck : Deck, rewinds : Nat]

(* From where the main loop is follows what the deck it serves is doing.   *)
PlaceOfMain ==
    /\ main.pc \in Holding => mode[main.deck] = "idle" /\ ~finalizing[main.deck]
    /\ main.pc = "stoprecord" => mode[main.deck] = "record"
    /\ main.pc \in {"fill", "put", "check"} => mode[main.deck] = "play"
    /\ main.pc = "drain" => mode[main.deck] = "record" \/ finalizing[main.deck]
    /\ \A d \in Deck : finalizing[d] => mode[d] = "idle"

HInv == ControlType /\ PlaceOfMain /\ HandleMatchesMode

LEMMA FirstDeck == 0 \in Deck /\ \A d \in Deck : d + 1 < NDecks => d + 1 \in Deck
  BY CountAssumption DEF Deck

LEMMA HInit == Init => HInv
  BY FirstDeck DEF Init, HInv, ControlType, PlaceOfMain, HandleMatchesMode, Holding, Pcs, At

LEMMA Returning ==
    ASSUME NEW d \in Deck, Return(d)
    PROVE  main' \in [pc : {"service", "control"}, deck : Deck, rewinds : Nat]
  BY FirstDeck DEF Return, Goto

LEMMA HStep == HInv /\ [Next]_vars => HInv'
  <1> SUFFICES ASSUME HInv, [Next]_vars PROVE HInv'
    OBVIOUS
  <1> USE DEF HInv, ControlType, PlaceOfMain, HandleMatchesMode, Holding, Pcs, At
  <1>1. CASE Process
    BY <1>1, FirstDeck DEF Process, Goto, InControl, fileVars
  <1>2. ASSUME NEW d \in Deck, Control(d) PROVE HInv'
    <2>1. ASSUME NEW f \in Files, NEW l \in BOOLEAN, NEW k \in Target(f), StartPlay(d, f, k, l)
          PROVE  HInv'
      BY <2>1 DEF StartPlay, Call, InControl, Open, Goto
    <2>2. CASE ArmPlay(d)
      BY <2>2, FirstDeck DEF ArmPlay, Goto, fileVars
    <2>3. CASE StartRecord(d)
      BY <2>3 DEF StartRecord, Call, InControl, Open, Goto
    <2>4. CASE ArmRecord(d)
      BY <2>4, FirstDeck DEF ArmRecord, Goto, fileVars
    <2>5. CASE StopPlay(d)
      BY <2>5 DEF StopPlay, Call, InControl, Close
    <2>6. CASE StopRecord(d)
      BY <2>6 DEF StopRecord, Call, InControl, Goto, fileVars
    <2>7. CASE LeaveRecord(d)
      BY <2>7, FirstDeck DEF LeaveRecord, Goto, fileVars
    <2>8. ASSUME NEW l \in BOOLEAN, SetLoop(d, l) PROVE HInv'
      BY <2>8 DEF SetLoop, fileVars
    <2>9. CASE SeekPlay(d)
      BY <2>9 DEF SeekPlay, Call, InControl, Goto, fileVars
    <2>10. ASSUME NEW k \in Target(src[d]), SeekTo(d, k) PROVE HInv'
      BY <2>10 DEF SeekTo, Goto
    <2>11. CASE SeekFails(d)
      BY <2>11, FirstDeck DEF SeekFails, Goto, fileVars
    <2> QED
      BY <1>2, <2>1, <2>2, <2>3, <2>4, <2>5, <2>6, <2>7, <2>8, <2>9, <2>10, <2>11 DEF Control
  <1>3. ASSUME NEW d \in Deck, Pump(d) PROVE HInv'
    <2>1. CASE Service(d)
      <3>1. CASE mode[d] = "play" /\ Goto(IF eof[d] THEN "check" ELSE "fill", d)
        BY <2>1, <3>1 DEF Service, Goto, fileVars
      <3>2. CASE mode[d] # "play" /\ Records(d) /\ Goto("drain", d)
        BY <2>1, <3>2 DEF Service, Records, Goto, fileVars
      <3>3. CASE mode[d] # "play" /\ ~Records(d) /\ Return(d)
        BY <2>1, <3>3, Returning DEF Service, fileVars
      <3> QED
        BY <2>1, <3>1, <3>2, <3>3 DEF Service
    <2>2. CASE FillRead(d)
      BY <2>2 DEF FillRead
    <2>3. CASE FillWrite(d)
      BY <2>3 DEF FillWrite, Goto, fileVars
    <2>4. CASE FillRewind(d)
      BY <2>4 DEF FillRewind
    <2>5. CASE FillEof(d)
      BY <2>5 DEF FillEof, Goto, fileVars
    <2>6. CASE FillDry(d)
      BY <2>6 DEF FillDry, Goto, fileVars
    <2>7. CASE FillFull(d)
      BY <2>7 DEF FillFull, Goto, fileVars
    <2>8. CASE CheckFinished(d)
      BY <2>8, Returning DEF CheckFinished, Close
    <2>9. CASE Drain(d)
      BY <2>9 DEF Drain, fileVars
    <2>10. CASE DrainEnd(d)
      <3>1. CASE finalizing[d] /\ done'[d]
        <4>1. handle' = [handle EXCEPT ![d] = "closed"] /\ finalizing' = [finalizing EXCEPT ![d] = FALSE]
          BY <2>10, <3>1 DEF DrainEnd, Close
        <4>2. UNCHANGED mode /\ main' \in [pc : {"service", "control"}, deck : Deck, rewinds : Nat]
          BY <2>10, Returning DEF DrainEnd
        <4>3. main.deck = d /\ main.pc = "drain" /\ mode[d] = "idle"
          BY <2>10, <3>1 DEF DrainEnd
        <4> QED
          BY <4>1, <4>2, <4>3
      <3>2. CASE ~(finalizing[d] /\ done'[d])
        BY <2>10, <3>2, Returning DEF DrainEnd
      <3> QED
        BY <3>1, <3>2
    <2> QED
      BY <1>3, <2>1, <2>2, <2>3, <2>4, <2>5, <2>6, <2>7, <2>8, <2>9, <2>10 DEF Pump
  <1>4. ASSUME NEW d \in Deck, Interrupt(d) PROVE HInv'
    <2>1. UNCHANGED <<mode, finalizing, handle, main>>
      BY <1>4 DEF Interrupt, PlayConsume, RecordProduce, fileVars
    <2> QED
      BY <2>1
  <1>5. CASE UNCHANGED vars
    BY <1>5 DEF vars, fileVars
  <1> QED
    BY <1>1, <1>2, <1>3, <1>4, <1>5 DEF Next

(* The handle of a deck is open just as long, and just for what, its mode  *)
(* and its place in a control call ask (FatFile, stream_deck.cpp).         *)
THEOREM HandleCorrect == Spec => []HandleMatchesMode
  <1>1. HInv => HandleMatchesMode
    BY DEF HInv
  <1> QED
    BY <1>1, HInit, HStep, PTL DEF Spec

-----------------------------------------------------------------------------
(* What the main loop may do to a ring, and when it may give a deck up.    *)

RingShape == DOMAIN ring = Deck

LEMMA RingShapeHolds == (Init => RingShape) /\ (RingShape /\ [Next]_vars => RingShape')
  <1>1. Init => RingShape
    BY DEF Init, RingShape
  <1>2. ASSUME RingShape, [Next]_vars PROVE RingShape'
    <2> USE DEF RingShape, fileVars, playVars, recVars, takeVars
    <2>1. CASE Process
      BY <1>2, <2>1 DEF Process
    <2>2. ASSUME NEW d \in Deck, Control(d) PROVE RingShape'
      BY <1>2, <2>2 DEF Control, StartPlay, ArmPlay, StartRecord, ArmRecord, StopPlay, StopRecord,
         LeaveRecord, SetLoop, SeekPlay, SeekTo, SeekFails, PlayStart, RecordStart
    <2>3. ASSUME NEW d \in Deck, Pump(d) PROVE RingShape'
      BY <1>2, <2>3 DEF Pump, Service, FillRead, FillWrite, FillRewind, FillEof, FillDry, FillFull,
         CheckFinished, Drain, DrainEnd
    <2>4. ASSUME NEW d \in Deck, Interrupt(d) PROVE RingShape'
      BY <1>2, <2>4 DEF Interrupt, PlayConsume, RecordProduce
    <2>5. CASE UNCHANGED vars
      BY <1>2, <2>5 DEF vars
    <2> QED
      BY <1>2, <2>1, <2>2, <2>3, <2>4, <2>5 DEF Next
  <1> QED
    BY <1>1, <1>2

(* SpscRing's reset is called with nobody inside the ring (start_play,     *)
(* start_record, seek_play): while a control call holds the deck, only a   *)
(* step of the main loop changes its ring.                                 *)
THEOREM RingAlone == Spec => RingLeftAlone
  <1>1. HInv /\ RingShape /\ [Next]_vars => [OnlyMain]_vars
    <2> SUFFICES ASSUME HInv, RingShape, Next, NEW c \in Deck, main.deck = c, main.pc \in Holding,
                        ring'[c] # ring[c]
                 PROVE  main' # main
      BY DEF OnlyMain, Holding
    <2> USE DEF HInv, ControlType, PlaceOfMain, Holding, At
    <2>1. CASE Process
      BY <2>1 DEF Process
    <2>2. ASSUME NEW d \in Deck, Control(d) PROVE main' # main
      <3>1. ASSUME NEW k \in Target(src[d]), SeekTo(d, k) PROVE main' # main
        BY <3>1 DEF SeekTo, Goto
      <3>2. CASE ~\E k \in Target(src[d]) : SeekTo(d, k)
        BY <2>2, <3>2 DEF Control, StartPlay, ArmPlay, StartRecord, ArmRecord, StopPlay, StopRecord,
             LeaveRecord, SetLoop, SeekPlay, SeekFails, Call, InControl
      <3> QED
        BY <3>1, <3>2
    <2>3. ASSUME NEW d \in Deck, Pump(d) PROVE main' # main
      BY <2>3 DEF Pump, Service, FillRead, FillWrite, FillRewind, FillEof, FillDry, FillFull,
           CheckFinished, Drain, DrainEnd
    <2>4. ASSUME NEW d \in Deck, Interrupt(d) PROVE main' # main
      <3>1. d = c
        BY <2>4 DEF Interrupt, PlayConsume, RecordProduce, RingShape
      <3> QED
        BY <2>4, <3>1 DEF Interrupt, PlayConsume, RecordProduce
    <2> QED
      BY <2>1, <2>2, <2>3, <2>4 DEF Next
  <1> QED
    BY <1>1, HInit, HStep, RingShapeHolds, PTL DEF Spec, RingLeftAlone

(* A rewind that the card did not refuse leaves the reader short of its    *)
(* end, unless the file is empty: the second rewind of a call never comes. *)
Fields == {"hdr", "pos", "len", "left", "raw", "conv", "stage"}
LoopInv ==
    /\ DOMAIN src = Deck /\ \A d \in Deck : DOMAIN src[d] = Fields
    /\ DOMAIN eof = Deck
    /\ ~Faults /\ main.pc = "fill" /\ main.rewinds # 0 /\ src[main.deck].hdr # 0
          => ~AtEnd(src[main.deck])

LEMMA LoopInit == Init => LoopInv
  BY FirstDeck DEF Init, LoopInv, NoFile, Fields

LEMMA MovedShape ==
    ASSUME NEW s, DOMAIN s = Fields, NEW p
    PROVE  DOMAIN Moved(s, p) = Fields /\ Moved(s, p).hdr = s.hdr
  BY DEF Moved, Fields

LEMMA LoopStep == HInv /\ LoopInv /\ [Next]_vars => LoopInv'
  <1> SUFFICES ASSUME HInv, LoopInv, [Next]_vars PROVE LoopInv'
    OBVIOUS
  <1> USE DEF LoopInv, At
  <1>1. CASE Process
    BY <1>1 DEF Process, Goto, fileVars, playVars
  <1>2. ASSUME NEW d \in Deck, Control(d) PROVE LoopInv'
    <2>1. ASSUME NEW f \in Files, NEW l \in BOOLEAN, NEW k \in Target(f), StartPlay(d, f, k, l)
          PROVE  LoopInv'
      <3> DEFINE n == Body(f)
                 s == [NoFile EXCEPT !.hdr = n, !.len = f.len, !.raw = f.raw, !.conv = f.conv]
      <3>1. PICK p \in CanSeek(Least(k, n)) : src' = [src EXCEPT ![d] = Moved(s, p)]
        BY <2>1 DEF StartPlay
      <3>2. DOMAIN s = Fields /\ s.hdr = n
        BY DEF NoFile, Fields
      <3> HIDE DEF n, s
      <3>4. DOMAIN Moved(s, p) = Fields /\ Moved(s, p).hdr = n
        BY <3>2, MovedShape
      <3> QED
        BY <2>1, <3>1, <3>4 DEF StartPlay, Open, PlayStart, Goto, HInv, ControlType
    <2>2. CASE ArmPlay(d) \/ ArmRecord(d) \/ LeaveRecord(d) \/ SeekFails(d)
      BY <2>2 DEF ArmPlay, ArmRecord, LeaveRecord, SeekFails, Goto, fileVars, playVars
    <2>3. CASE StartRecord(d)
      BY <2>3 DEF StartRecord, Call, InControl, Open, Goto, playVars, HInv, ControlType
    <2>4. CASE StopPlay(d)
      BY <2>4 DEF StopPlay, Call, InControl, Close, playVars, HInv, ControlType
    <2>5. CASE StopRecord(d) \/ SeekPlay(d)
      BY <2>5 DEF StopRecord, SeekPlay, Goto, fileVars, playVars
    <2>6. ASSUME NEW l \in BOOLEAN, SetLoop(d, l) PROVE LoopInv'
      BY <2>6 DEF SetLoop, Call, InControl, fileVars
    <2>7. ASSUME NEW k \in Target(src[d]), SeekTo(d, k) PROVE LoopInv'
      <3> DEFINE p == Least(k, src[d].hdr)
      <3>1. src' = [src EXCEPT ![d] = Moved(src[d], p)]
        BY <2>7 DEF SeekTo
      <3> HIDE DEF p
      <3>2. DOMAIN Moved(src[d], p) = Fields /\ Moved(src[d], p).hdr = src[d].hdr
        BY MovedShape
      <3> QED
        BY <2>7, <3>1, <3>2 DEF SeekTo, PlayStart, Goto
    <2> QED
      BY <1>2, <2>1, <2>2, <2>3, <2>4, <2>5, <2>6, <2>7 DEF Control
  <1>3. ASSUME NEW d \in Deck, Pump(d) PROVE LoopInv'
    <2>1. CASE Service(d)
      BY <2>1 DEF Service, Return, Goto, fileVars, playVars
    <2>2. CASE FillRead(d)
      <3>1. DOMAIN src' = Deck /\ \A c \in Deck : DOMAIN src'[c] = Fields /\ src'[c].hdr = src[c].hdr
        BY <2>2 DEF FillRead, Fields
      <3>2. main'.pc = "put"
        BY <2>2 DEF FillRead, HInv, ControlType
      <3>3. UNCHANGED <<handle, eof>>
        BY <2>2 DEF FillRead, playVars
      <3> QED
        BY <3>1, <3>2, <3>3
    <2>3. CASE FillRewind(d)
      <3>1. CASE src' = [src EXCEPT ![d] = [src[d] EXCEPT !.pos = 0, !.left = src[d].hdr]]
        <4>1. main'.deck = d /\ handle[d] = "read"
          BY <2>3 DEF FillRewind, HInv, ControlType, PlaceOfMain, HandleMatchesMode
        <4>2. UNCHANGED <<handle, eof>>
          BY <2>3 DEF FillRewind, playVars
        <4> QED
          BY <3>1, <4>1, <4>2 DEF Fields, AtEnd
      <3>2. CASE Faults /\ UNCHANGED src
        BY <2>3, <3>2 DEF FillRewind, playVars
      <3> QED
        BY <2>3, <3>1, <3>2 DEF FillRewind
    <2>4. CASE FillWrite(d) \/ FillEof(d) \/ FillDry(d) \/ FillFull(d)
      BY <2>4 DEF FillWrite, FillEof, FillDry, FillFull, Goto, fileVars, playVars
    <2>5. CASE CheckFinished(d)
      BY <2>5 DEF CheckFinished, Close, Return, Goto, playVars, HInv, ControlType
    <2>6. CASE Drain(d)
      BY <2>6 DEF Drain, fileVars, playVars
    <2>7. CASE DrainEnd(d)
      BY <2>7 DEF DrainEnd, Close, Return, Goto, playVars, HInv, ControlType
    <2> QED
      BY <1>3, <2>1, <2>2, <2>3, <2>4, <2>5, <2>6, <2>7 DEF Pump
  <1>4. ASSUME NEW d \in Deck, Interrupt(d) PROVE LoopInv'
    BY <1>4 DEF Interrupt, PlayConsume, RecordProduce, fileVars, playVars
  <1>5. CASE UNCHANGED vars
    BY <1>5 DEF vars, fileVars, playVars
  <1> QED
    BY <1>1, <1>2, <1>3, <1>4, <1>5 DEF Next

(* A loop goes on, whatever the length of its file (the `rewinds` guard of *)
(* audio_stream.h, pump): on a card that does not fail, the pump latches   *)
(* the end only of a deck whose loop is off, or whose file is empty.       *)
THEOREM LoopsOn == Spec => LoopGoesOn
  <1>1. HInv /\ LoopInv /\ [Next]_vars => [NoEarlyEnd]_vars
    <2> SUFFICES ASSUME HInv, LoopInv, Next, ~Faults, NEW c \in Deck, eof'[c], ~eof[c]
                 PROVE  ~loop[c] \/ src[c].hdr = 0
      BY DEF NoEarlyEnd
    <2>1. ASSUME NEW d \in Deck, FillEof(d) PROVE ~loop[c] \/ src[c].hdr = 0
      <3>1. d = c
        BY <2>1 DEF FillEof, LoopInv
      <3>2. main.rewinds = 0 \/ src[c].hdr = 0
        BY <2>1, <3>1 DEF FillEof, LoopInv, At
      <3> QED
        BY <2>1, <3>1, <3>2 DEF FillEof
    <2>2. ASSUME NEW d \in Deck, Control(d) PROVE eof'[c] => eof[c]
      BY <2>2 DEF Control, StartPlay, ArmPlay, StartRecord, ArmRecord, StopPlay, StopRecord, LeaveRecord,
           SetLoop, SeekPlay, SeekTo, SeekFails, PlayStart, playVars, LoopInv
    <2>3. ASSUME NEW d \in Deck, Pump(d), ~FillEof(d) PROVE UNCHANGED eof
      BY <2>3 DEF Pump, Service, FillRead, FillWrite, FillRewind, FillDry, FillFull,
           CheckFinished, Drain, DrainEnd, playVars
    <2>4. ASSUME NEW d \in Deck, Interrupt(d) PROVE UNCHANGED eof
      BY <2>4 DEF Interrupt, PlayConsume, RecordProduce, playVars
    <2>5. CASE Process
      BY <2>5 DEF Process, playVars
    <2> QED
      BY <2>1, <2>2, <2>3, <2>4, <2>5 DEF Next
  <1> QED
    BY <1>1, HInit, HStep, LoopInit, LoopStep, PTL DEF Spec, LoopGoesOn

-----------------------------------------------------------------------------
(* Types and sizes.                                                        *)

LEMMA Sizes ==
    /\ RingCap \in Nat \ {0} /\ ScratchCap \in Nat \ {0} /\ StageCap \in Nat \ {0}
    /\ Block \in Nat \ {0} /\ Preempt \in Nat \ {0} /\ MaxTake \in Nat /\ MaxOps \in Nat
  BY CountAssumption

LEMMA LeastType ==
    ASSUME NEW m \in Nat, NEW n \in Nat
    PROVE  Least(m, n) \in Nat /\ Least(m, n) <= m /\ Least(m, n) <= n
  BY DEF Least

LEMMA DropType ==
    ASSUME NEW q \in Seq(Nat), NEW n \in 0 .. Len(q)
    PROVE  Drop(q, n) \in Seq(Nat) /\ Len(Drop(q, n)) = Len(q) - n
  BY SubSeqProperties DEF Drop

LEMMA PrefixType ==
    ASSUME NEW q \in Seq(Nat), NEW n \in 0 .. Len(q)
    PROVE  SubSeq(q, 1, n) \in Seq(Nat) /\ Len(SubSeq(q, 1, n)) = n
  BY SubSeqProperties

LEMMA FramesType ==
    ASSUME NEW first \in Nat, NEW n \in Nat
    PROVE  /\ Frames(first, n) \in Seq(Nat) /\ Len(Frames(first, n)) = n
           /\ \A k \in 1 .. n : Frames(first, n)[k] = first + k - 1
  <1>1. Frames(first, n) \in [1 .. n -> Nat]
    BY DEF Frames
  <1>2. \A k \in 1 .. n : Frames(first, n)[k] = first + k - 1
    BY DEF Frames
  <1>3. Frames(first, n) \in Seq(Nat)
    BY <1>1
  <1> QED
    BY <1>1, <1>2, <1>3

LEMMA CatType ==
    ASSUME NEW q \in Seq(Nat), NEW r \in Seq(Nat)
    PROVE  q \o r \in Seq(Nat) /\ Len(q \o r) = Len(q) + Len(r)
  BY ConcatProperties

LEMMA LenType == \A q \in Seq(Nat) : Len(q) \in Nat
  BY LenProperties

LEMMA OnCardType ==
    ASSUME NEW s \in SrcType
    PROVE  OnCard(s) \in Nat /\ OnCard(s) <= s.left
  <1> DEFINE here == IF s.pos < s.len THEN s.len - s.pos ELSE 0
  <1>1. s.left \in Nat /\ here \in Nat
    BY DEF SrcType
  <1> QED
    BY <1>1, LeastType DEF OnCard

LEMMA StagesType ==
    ASSUME NEW k \in Nat, NEW unit \in Nat \ {0}
    PROVE  unit * ((k + unit - 1) \div unit) \in Nat
  <1>1. k + unit - 1 \in Nat
    OBVIOUS
  <1>2. (k + unit - 1) \div unit \in Nat
    BY <1>1
  <1> QED
    BY <1>2

LEMMA NeededType ==
    ASSUME NEW s \in SrcType, NEW want \in Nat
    PROVE  Needed(s, want) \in Nat /\ Needed(s, want) <= OnCard(s)
  <1> DEFINE short == IF want <= Len(s.stage) THEN 0 ELSE want - Len(s.stage)
             unit == IF s.conv THEN StageCap ELSE 1
  <1>1. short \in Nat /\ unit \in Nat \ {0}
    BY LenType, Sizes DEF SrcType
  <1>2. unit * ((short + unit - 1) \div unit) \in Nat
    BY <1>1, StagesType
  <1> QED
    BY <1>2, OnCardType, LeastType DEF Needed

Data ==
    /\ ring \in [Deck -> Seq(Nat)] /\ \A d \in Deck : Len(ring[d]) <= RingCap
    /\ src \in [Deck -> SrcType]
    /\ take \in [Deck -> Seq(Nat)] /\ header \in [Deck -> Nat]
    /\ scratch \in Seq(Nat) /\ Len(scratch) <= ScratchCap
    /\ due \in [Deck -> Nat] /\ accepted \in [Deck -> 0..MaxTake]

dataVars == <<ring, src, take, header, scratch, due, accepted>>

LEMMA DataKept == Data /\ UNCHANGED dataVars => Data'
  BY DEF Data, dataVars

LEMMA Empty == << >> \in Seq(Nat) /\ Len(<< >>) = 0
  OBVIOUS

(* One ring changes to another that fits.                                  *)
LEMMA RingChange ==
    ASSUME ring \in [Deck -> Seq(Nat)], \A c \in Deck : Len(ring[c]) <= RingCap,
           NEW d \in Deck, NEW q \in Seq(Nat), Len(q) <= RingCap,
           ring' = [ring EXCEPT ![d] = q]
    PROVE  ring' \in [Deck -> Seq(Nat)] /\ \A c \in Deck : Len(ring'[c]) <= RingCap
  OBVIOUS

LEMMA MovedType ==
    ASSUME NEW s \in SrcType, NEW p \in Nat, p <= s.hdr
    PROVE  Moved(s, p) \in SrcType
  <1>1. s.hdr \in Nat /\ s.hdr - p \in Nat
    BY DEF SrcType
  <1> QED
    BY <1>1, Empty DEF Moved, SrcType

LEMMA BodyType == ASSUME NEW f \in FileType PROVE Body(f) \in Nat
  <1>1. f.hdr \in Nat /\ f.len \in Nat
    BY DEF FileType
  <1> QED
    BY <1>1, LeastType DEF Body

LEMMA FrameType == ASSUME NEW p \in Nat, NEW h \in Nat PROVE FirstFrame(p, h) \in Nat
  BY DEF FirstFrame

LEMMA SeekType ==
    ASSUME NEW k \in Nat, NEW h \in Nat, NEW p \in CanSeek(Least(k, h))
    PROVE  p \in Nat /\ p <= h
  <1>1. Least(k, h) \in Nat /\ Least(k, h) <= h
    BY LeastType
  <1> QED
    BY <1>1 DEF CanSeek

LEMMA DataStartPlay ==
    ASSUME Data, NEW d \in Deck, NEW f \in Files, NEW k \in Target(f), NEW l \in BOOLEAN,
           StartPlay(d, f, k, l)
    PROVE  Data'
  <1> DEFINE n == Body(f)
             s == [NoFile EXCEPT !.hdr = n, !.len = f.len, !.raw = f.raw, !.conv = f.conv]
  <1>1. f \in FileType /\ n \in Nat
    BY FilesAssumption, BodyType
  <1>2. k \in Nat
    BY <1>1 DEF Target, FileType
  <1>3. PICK p \in CanSeek(Least(k, n)) : /\ src' = [src EXCEPT ![d] = Moved(s, p)]
                                          /\ due' = [due EXCEPT ![d] = FirstFrame(p, n)]
    BY DEF StartPlay
  <1>4. s \in SrcType /\ s.hdr = n
    <2>1. f.len \in Nat /\ f.raw \in BOOLEAN /\ f.conv \in BOOLEAN
      BY <1>1 DEF FileType
    <2>2. NoFile \in SrcType
      BY Empty DEF NoFile, SrcType
    <2> HIDE DEF n
    <2> QED
      BY <1>1, <2>1, <2>2 DEF SrcType
  <1> HIDE DEF n, s
  <1>5. p \in Nat /\ p <= n
    BY <1>1, <1>2, SeekType
  <1>6. Moved(s, p) \in SrcType /\ FirstFrame(p, n) \in Nat
    BY <1>1, <1>4, <1>5, MovedType, FrameType
  <1>7. src' \in [Deck -> SrcType] /\ due' \in [Deck -> Nat]
    BY <1>3, <1>6 DEF Data
  <1>8. ring' = [ring EXCEPT ![d] = << >>] /\ UNCHANGED <<take, header, scratch, accepted>>
    BY DEF StartPlay, PlayStart, takeVars
  <1>9. ring' \in [Deck -> Seq(Nat)] /\ \A c \in Deck : Len(ring'[c]) <= RingCap
    BY <1>8, RingChange, Empty, Sizes DEF Data
  <1> QED
    BY <1>7, <1>8, <1>9 DEF Data

LEMMA DataStartRecord ==
    ASSUME Data, NEW d \in Deck, StartRecord(d)
    PROVE  Data'
  <1>1. /\ take' = [take EXCEPT ![d] = << >>] /\ header' = [header EXCEPT ![d] = 0]
        /\ UNCHANGED <<src, scratch, due>>
    BY DEF StartRecord
  <1>2. take' \in [Deck -> Seq(Nat)] /\ header' \in [Deck -> Nat]
    BY <1>1, Empty DEF Data
  <1>3. CASE ring' = [ring EXCEPT ![d] = << >>] /\ accepted' = [accepted EXCEPT ![d] = 0]
    <2>1. ring' \in [Deck -> Seq(Nat)] /\ \A c \in Deck : Len(ring'[c]) <= RingCap
      BY <1>3, RingChange, Empty, Sizes DEF Data
    <2>2. accepted' \in [Deck -> 0..MaxTake]
      BY <1>3, Sizes DEF Data
    <2> QED
      BY <1>1, <1>2, <2>1, <2>2 DEF Data
  <1>4. CASE UNCHANGED <<ring, accepted>>
    BY <1>1, <1>2, <1>4 DEF Data
  <1> QED
    BY <1>3, <1>4 DEF StartRecord, RecordStart

LEMMA DataSeekTo ==
    ASSUME Data, NEW d \in Deck, NEW k \in Target(src[d]), SeekTo(d, k)
    PROVE  Data'
  <1> DEFINE p == Least(k, src[d].hdr)
  <1>1. src[d] \in SrcType /\ src[d].hdr \in Nat
    BY DEF Data, SrcType
  <1>2. k \in Nat
    BY <1>1 DEF Target
  <1>3. p \in Nat /\ p <= src[d].hdr
    BY <1>1, <1>2, LeastType
  <1>4. src' = [src EXCEPT ![d] = Moved(src[d], p)] /\ due' = [due EXCEPT ![d] = FirstFrame(p, src[d].hdr)]
    BY DEF SeekTo
  <1> HIDE DEF p
  <1>5. Moved(src[d], p) \in SrcType /\ FirstFrame(p, src[d].hdr) \in Nat
    BY <1>1, <1>3, MovedType, FrameType
  <1>6. src' \in [Deck -> SrcType] /\ due' \in [Deck -> Nat]
    BY <1>4, <1>5 DEF Data
  <1>7. ring' = [ring EXCEPT ![d] = << >>] /\ UNCHANGED <<take, header, scratch, accepted>>
    BY DEF SeekTo, PlayStart, takeVars
  <1>8. ring' \in [Deck -> Seq(Nat)] /\ \A c \in Deck : Len(ring'[c]) <= RingCap
    BY <1>7, RingChange, Empty, Sizes DEF Data
  <1> QED
    BY <1>6, <1>7, <1>8 DEF Data

LEMMA ReadType ==
    ASSUME NEW s \in SrcType, NEW x \in Nat, NEW y \in Nat, NEW z \in Seq(Nat)
    PROVE  [s EXCEPT !.pos = x, !.left = y, !.stage = z] \in SrcType
  BY DEF SrcType

(* One read of the source: the frames it hands out and those that stay     *)
(* staged are those that were staged and those that come from the card.    *)
LEMMA DataFillRead ==
    ASSUME Data, NEW d \in Deck, FillRead(d)
    PROVE  Data' /\ Len(scratch') <= Space(d)
  <1> DEFINE want == Wanted(d)
             all(n) == src[d].stage \o Frames(src[d].pos, n)
             got(n) == Least(want, Len(all(n)))
             next(n) == [src[d] EXCEPT !.pos = src[d].pos + n, !.left = src[d].left - n,
                                       !.stage = Drop(all(n), got(n))]
  <1>1. src[d] \in SrcType /\ Space(d) \in Nat /\ want \in Nat /\ want <= Space(d) /\ want <= ScratchCap
    <2>1. src[d] \in SrcType /\ Len(ring[d]) \in Nat /\ Len(ring[d]) <= RingCap
      BY LenType DEF Data
    <2>2. Space(d) \in Nat
      BY <2>1, Sizes DEF Space
    <2> QED
      BY <2>1, <2>2, Sizes, LeastType DEF Wanted
  <1>2. PICK n \in CanRead(Needed(src[d], want)) :
          /\ scratch' = SubSeq(all(n), 1, got(n))
          /\ src' = [src EXCEPT ![d] = next(n)]
    BY DEF FillRead
  <1>3. UNCHANGED <<ring, take, header, due, accepted>>
    BY DEF FillRead, takeVars
  <1> HIDE DEF want
  <1>4. n \in Nat /\ n <= src[d].left
    <2>1. /\ Needed(src[d], want) \in Nat /\ Needed(src[d], want) <= OnCard(src[d])
          /\ OnCard(src[d]) \in Nat /\ OnCard(src[d]) <= src[d].left
      BY <1>1, NeededType, OnCardType
    <2>2. src[d].left \in Nat
      BY <1>1 DEF SrcType
    <2> QED
      BY <2>1, <2>2 DEF CanRead
  <1>5. all(n) \in Seq(Nat) /\ got(n) \in 0 .. Len(all(n)) /\ got(n) <= want
    <2>1. src[d].stage \in Seq(Nat) /\ src[d].pos \in Nat
      BY <1>1 DEF SrcType
    <2>2. all(n) \in Seq(Nat)
      BY <1>4, <2>1, FramesType, CatType
    <2> HIDE DEF all
    <2>3. Len(all(n)) \in Nat
      BY <2>2, LenType
    <2> QED
      BY <1>1, <2>2, <2>3, LeastType
  <1>6. SubSeq(all(n), 1, got(n)) \in Seq(Nat) /\ Len(SubSeq(all(n), 1, got(n))) = got(n)
    BY <1>5, PrefixType
  <1>7. Drop(all(n), got(n)) \in Seq(Nat)
    BY <1>5, DropType
  <1>7a. src[d].pos + n \in Nat /\ src[d].left - n \in Nat
    BY <1>1, <1>4 DEF SrcType
  <1> HIDE DEF all, got
  <1>8. next(n) \in SrcType
    BY <1>1, <1>4, <1>7, <1>7a, ReadType
  <1>9. src' \in [Deck -> SrcType]
    <2> HIDE DEF next
    <2> QED
      BY <1>2, <1>8 DEF Data
  <1>10. scratch' \in Seq(Nat) /\ Len(scratch') <= ScratchCap /\ Len(scratch') <= Space(d)
    <2> HIDE DEF next
    <2>1. Len(scratch') = got(n) /\ got(n) \in Nat
      BY <1>2, <1>5, <1>6, LenType
    <2> QED
      BY <1>1, <1>2, <1>5, <1>6, <2>1, Sizes
  <1> QED
    BY <1>3, <1>9, <1>10 DEF Data

LEMMA DataFillWrite ==
    ASSUME Data, NEW d \in Deck, FillWrite(d)
    PROVE  Data'
  <1> DEFINE put == Least(Len(scratch), Space(d))
             q == ring[d] \o SubSeq(scratch, 1, put)
  <1>1. /\ ring[d] \in Seq(Nat) /\ Len(ring[d]) \in Nat /\ Len(ring[d]) <= RingCap
        /\ scratch \in Seq(Nat) /\ Len(scratch) \in Nat
    BY LenType DEF Data
  <1>2. Space(d) \in Nat /\ Len(ring[d]) + Space(d) = RingCap
    BY <1>1, Sizes DEF Space
  <1>3. put \in 0 .. Len(scratch) /\ put <= Space(d)
    BY <1>1, <1>2, LeastType
  <1>4. ring' = [ring EXCEPT ![d] = q] /\ UNCHANGED <<src, take, header, scratch, due, accepted>>
    BY DEF FillWrite, fileVars, takeVars
  <1> HIDE DEF put
  <1>5. SubSeq(scratch, 1, put) \in Seq(Nat) /\ Len(SubSeq(scratch, 1, put)) = put
    BY <1>1, <1>3, PrefixType
  <1>6. q \in Seq(Nat) /\ Len(q) = Len(ring[d]) + put
    BY <1>1, <1>5, CatType
  <1> HIDE DEF q
  <1>7. Len(q) <= RingCap
    BY <1>1, <1>2, <1>3, <1>6, Sizes
  <1>8. ring' \in [Deck -> Seq(Nat)] /\ \A c \in Deck : Len(ring'[c]) <= RingCap
    BY <1>4, <1>6, <1>7, RingChange DEF Data
  <1> QED
    BY <1>4, <1>8 DEF Data

LEMMA DataFillRewind ==
    ASSUME Data, NEW d \in Deck, FillRewind(d)
    PROVE  Data'
  <1>1. UNCHANGED <<ring, take, header, scratch, due, accepted>>
    BY DEF FillRewind, takeVars
  <1>2. [src[d] EXCEPT !.pos = 0, !.left = src[d].hdr] \in SrcType
    BY DEF Data, SrcType
  <1>3. src' \in [Deck -> SrcType]
    BY <1>2 DEF FillRewind, Data
  <1> QED
    BY <1>1, <1>3 DEF Data

(* What is left of a ring when n frames are taken off it.                  *)
LEMMA Shorter ==
    ASSUME Data, NEW d \in Deck, NEW n \in 0 .. Len(ring[d]),
           ring' = [ring EXCEPT ![d] = Drop(ring[d], n)]
    PROVE  /\ ring' \in [Deck -> Seq(Nat)] /\ \A c \in Deck : Len(ring'[c]) <= RingCap
           /\ \A c \in Deck : Len(ring'[c]) <= Len(ring[c])
  <1>1. ring[d] \in Seq(Nat) /\ Len(ring[d]) \in Nat /\ Len(ring[d]) <= RingCap
    BY LenType DEF Data
  <1>2. Drop(ring[d], n) \in Seq(Nat) /\ Len(Drop(ring[d], n)) = Len(ring[d]) - n
    BY <1>1, DropType
  <1>3. Len(Drop(ring[d], n)) <= RingCap /\ Len(Drop(ring[d], n)) <= Len(ring[d])
    BY <1>1, <1>2, Sizes
  <1>4. ring' \in [Deck -> Seq(Nat)] /\ \A c \in Deck : Len(ring'[c]) <= RingCap
    BY <1>2, <1>3, RingChange DEF Data
  <1>5. ASSUME NEW c \in Deck PROVE Len(ring'[c]) <= Len(ring[c])
    <2>1. CASE c = d
      BY <1>3, <2>1 DEF Data
    <2>2. CASE c # d
      <3>1. ring'[c] = ring[c] /\ Len(ring[c]) \in Nat
        BY <2>2, LenType DEF Data
      <3> QED
        BY <3>1
    <2> QED
      BY <2>1, <2>2
  <1> QED
    BY <1>4, <1>5

LEMMA DataDrain ==
    ASSUME Data, NEW d \in Deck, Drain(d)
    PROVE  Data'
  <1> DEFINE got == Least(Len(ring[d]), ScratchCap)
  <1>1. ring[d] \in Seq(Nat) /\ Len(ring[d]) \in Nat /\ take[d] \in Seq(Nat)
    BY LenType DEF Data
  <1>2. got \in 0 .. Len(ring[d]) /\ got <= ScratchCap
    BY <1>1, Sizes DEF Least
  <1>3. /\ scratch' = SubSeq(ring[d], 1, got)
        /\ ring' = [ring EXCEPT ![d] = Drop(ring[d], got)]
        /\ UNCHANGED <<src, header, due, accepted>>
    BY DEF Drain, fileVars
  <1>4. PICK w \in CanWrite(got) : take' = [take EXCEPT ![d] = take[d] \o SubSeq(ring[d], 1, w)]
    BY DEF Drain
  <1> HIDE DEF got
  <1>5. w \in 0 .. Len(ring[d])
    BY <1>1, <1>2 DEF CanWrite
  <1>6. scratch' \in Seq(Nat) /\ Len(scratch') <= ScratchCap
    BY <1>1, <1>2, <1>3, PrefixType
  <1>7. ring' \in [Deck -> Seq(Nat)] /\ \A c \in Deck : Len(ring'[c]) <= RingCap
    BY <1>2, <1>3, Shorter
  <1>8. take[d] \o SubSeq(ring[d], 1, w) \in Seq(Nat)
    BY <1>1, <1>5, PrefixType, CatType
  <1>9. take' \in [Deck -> Seq(Nat)]
    BY <1>4, <1>8 DEF Data
  <1> QED
    BY <1>3, <1>6, <1>7, <1>9 DEF Data

LEMMA DataDrainEnd ==
    ASSUME Data, NEW d \in Deck, DrainEnd(d)
    PROVE  Data'
  <1>1. UNCHANGED <<ring, src, take, scratch, due, accepted>>
    BY DEF DrainEnd
  <1>2. Len(take[d]) \in Nat
    BY LenType DEF Data
  <1>3. header' \in [Deck -> Nat]
    BY <1>2 DEF DrainEnd, Data
  <1> QED
    BY <1>1, <1>3 DEF Data

LEMMA DataPlayConsume ==
    ASSUME Data, NEW d \in Deck, NEW n \in 1 .. Block, PlayConsume(d, n)
    PROVE  Data' /\ \A c \in Deck : Len(ring'[c]) <= Len(ring[c])
  <1> DEFINE got == Least(n, Len(ring[d]))
  <1>1. /\ ring[d] \in Seq(Nat) /\ Len(ring[d]) \in Nat /\ ring[d] # << >>
        /\ src[d].hdr \in Nat
    BY LenType DEF PlayConsume, Data, SrcType
  <1>2. Len(ring[d]) > 0
    BY <1>1, EmptySeq
  <1>3. got \in 1 .. Len(ring[d])
    BY <1>1, <1>2, Sizes DEF Least
  <1>4. /\ ring' = [ring EXCEPT ![d] = Drop(ring[d], got)]
        /\ due' = [due EXCEPT ![d] = NextFrame(d, ring[d][got])]
        /\ UNCHANGED <<src, take, header, scratch, accepted>>
    BY DEF PlayConsume, fileVars, takeVars
  <1> HIDE DEF got
  <1>5. /\ ring' \in [Deck -> Seq(Nat)] /\ \A c \in Deck : Len(ring'[c]) <= RingCap
        /\ \A c \in Deck : Len(ring'[c]) <= Len(ring[c])
    <2>1. got \in 0 .. Len(ring[d])
      BY <1>1, <1>3
    <2> QED
      BY <1>4, <2>1, Shorter
  <1>6. ring[d][got] \in Nat
    BY <1>1, <1>3
  <1>7. NextFrame(d, ring[d][got]) \in Nat
    BY <1>1, <1>6 DEF NextFrame
  <1>8. due' \in [Deck -> Nat]
    BY <1>4, <1>7 DEF Data
  <1> QED
    BY <1>4, <1>5, <1>8 DEF Data

LEMMA DataRecordProduce ==
    ASSUME Data, NEW d \in Deck, NEW n \in 1 .. Block, RecordProduce(d, n)
    PROVE  Data'
  <1>1. /\ ring[d] \in Seq(Nat) /\ Len(ring[d]) \in Nat /\ Len(ring[d]) <= RingCap
        /\ accepted[d] \in Nat /\ accepted[d] + n <= MaxTake
    BY LenType, Sizes DEF RecordProduce, Data
  <1>2. Space(d) \in Nat /\ Len(ring[d]) + Space(d) = RingCap
    <2>1. Space(d) = RingCap - Len(ring[d])
      BY DEF Space
    <2>2. PICK m \in Nat : m = Len(ring[d])
      BY <1>1
    <2>3. RingCap \in Nat
      BY Sizes
    <2>4. m <= RingCap
      BY <1>1, <2>2
    <2>5. RingCap - m \in Nat /\ m + (RingCap - m) = RingCap
      BY <2>3, <2>4
    <2> QED
      BY <2>1, <2>2, <2>5
  <1> DEFINE put == Accepted(d, n)
             q == ring[d] \o Frames(accepted[d], put)
  <1>3. put \in Nat /\ put <= Space(d) /\ put <= n
    BY <1>2, Sizes, LeastType DEF Accepted
  <1>4. /\ ring' = [ring EXCEPT ![d] = q]
        /\ accepted' = [accepted EXCEPT ![d] = accepted[d] + put]
        /\ UNCHANGED <<src, take, header, scratch, due>>
    BY DEF RecordProduce, fileVars, takeVars
  <1> HIDE DEF put
  <1>5. Frames(accepted[d], put) \in Seq(Nat) /\ Len(Frames(accepted[d], put)) = put
    BY <1>1, <1>3, FramesType
  <1>5a. q \in Seq(Nat) /\ Len(q) = Len(ring[d]) + put
    BY <1>1, <1>5, CatType
  <1> HIDE DEF q
  <1>6. Len(q) <= RingCap
    BY <1>1, <1>2, <1>3, <1>5a, Sizes
  <1>7. ring' \in [Deck -> Seq(Nat)] /\ \A c \in Deck : Len(ring'[c]) <= RingCap
    BY <1>4, <1>5a, <1>6, RingChange DEF Data
  <1>8. accepted[d] + put \in 0 .. MaxTake
    BY <1>1, <1>3, Sizes
  <1>9. accepted' \in [Deck -> 0 .. MaxTake]
    BY <1>4, <1>8 DEF Data
  <1> QED
    BY <1>4, <1>7, <1>9 DEF Data

(* The steps that leave the data alone.                                    *)
Untouched(d) ==
    \/ ArmPlay(d) \/ ArmRecord(d) \/ StopPlay(d) \/ StopRecord(d) \/ LeaveRecord(d)
    \/ \E l \in BOOLEAN : SetLoop(d, l)
    \/ SeekPlay(d) \/ SeekFails(d)
    \/ Service(d) \/ FillEof(d) \/ FillDry(d) \/ FillFull(d) \/ CheckFinished(d)

LEMMA DataUntouched ==
    ASSUME NEW d \in Deck, Process \/ Untouched(d)
    PROVE  UNCHANGED dataVars /\ main'.pc # "put"
  <1> USE DEF fileVars, takeVars, playVars, dataVars, Goto, Return
  <1>1. CASE Process
    BY <1>1 DEF Process
  <1>2. CASE Untouched(d)
    <2>1. CASE ArmPlay(d)
      BY <2>1 DEF ArmPlay
    <2>2. CASE ArmRecord(d)
      BY <2>2 DEF ArmRecord
    <2>3. CASE StopPlay(d)
      BY <2>3 DEF StopPlay, Call, InControl
    <2>4. CASE StopRecord(d)
      BY <2>4 DEF StopRecord
    <2>5. CASE LeaveRecord(d)
      BY <2>5 DEF LeaveRecord
    <2>6. CASE \E l \in BOOLEAN : SetLoop(d, l)
      BY <2>6 DEF SetLoop, Call, InControl
    <2>7. CASE SeekPlay(d)
      BY <2>7 DEF SeekPlay
    <2>8. CASE SeekFails(d)
      BY <2>8 DEF SeekFails
    <2>9. CASE Service(d)
      BY <2>9 DEF Service
    <2>10. CASE FillEof(d)
      BY <2>10 DEF FillEof
    <2>11. CASE FillDry(d)
      BY <2>11 DEF FillDry
    <2>12. CASE FillFull(d)
      BY <2>12 DEF FillFull
    <2>13. CASE CheckFinished(d)
      BY <2>13 DEF CheckFinished
    <2> QED
      BY <1>2, <2>1, <2>2, <2>3, <2>4, <2>5, <2>6, <2>7, <2>8, <2>9, <2>10, <2>11, <2>12, <2>13 DEF Untouched
  <1> QED
    BY <1>1, <1>2

LEMMA Steps ==
    ASSUME Next
    PROVE  \/ Process
           \/ \E d \in Deck :
                \/ Untouched(d)
                \/ \E f \in Files, l \in BOOLEAN : \E k \in Target(f) : StartPlay(d, f, k, l)
                \/ StartRecord(d)
                \/ \E k \in Target(src[d]) : SeekTo(d, k)
                \/ FillRead(d) \/ FillWrite(d) \/ FillRewind(d)
                \/ Drain(d) \/ DrainEnd(d)
                \/ \E n \in 1..Block : PlayConsume(d, n) \/ RecordProduce(d, n)
  <1>1. \A d \in Deck : Control(d) =>
          \/ Untouched(d)
          \/ \E f \in Files, l \in BOOLEAN : \E k \in Target(f) : StartPlay(d, f, k, l)
          \/ StartRecord(d)
          \/ \E k \in Target(src[d]) : SeekTo(d, k)
    BY DEF Control, Untouched
  <1>2. \A d \in Deck : Pump(d) =>
          \/ Untouched(d) \/ FillRead(d) \/ FillWrite(d) \/ FillRewind(d)
          \/ Drain(d) \/ DrainEnd(d)
    BY DEF Pump, Untouched
  <1> QED
    BY <1>1, <1>2 DEF Next, Interrupt

FInv == Data /\ ScratchFits

LEMMA FInit == Init => FInv
  <1> SUFFICES ASSUME Init PROVE FInv
    OBVIOUS
  <1>1. NoFile \in SrcType
    BY Empty DEF NoFile, SrcType
  <1>2. Data
    BY <1>1, Empty, Sizes DEF Init, Data
  <1>3. ScratchFits
    BY DEF Init, ScratchFits, At
  <1> QED
    BY <1>2, <1>3 DEF FInv

LEMMA FStep == HInv /\ FInv /\ [Next]_vars => FInv'
  <1> SUFFICES ASSUME HInv, FInv, [Next]_vars PROVE Data' /\ ScratchFits'
    BY DEF FInv
  <1> USE DEF FInv
  <1>1. CASE UNCHANGED vars
    <2>1. UNCHANGED dataVars /\ UNCHANGED main
      BY <1>1 DEF vars, dataVars, fileVars, takeVars
    <2> QED
      BY <2>1, DataKept DEF ScratchFits, Space, At, dataVars
  <1>2. CASE Process
    <2>1. UNCHANGED dataVars /\ main'.pc # "put"
      BY <1>2, FirstDeck, DataUntouched
    <2> QED
      BY <2>1, DataKept DEF ScratchFits, At
  <1>3. ASSUME NEW d \in Deck, Untouched(d) PROVE Data' /\ ScratchFits'
    <2>1. UNCHANGED dataVars /\ main'.pc # "put"
      BY <1>3, DataUntouched
    <2> QED
      BY <2>1, DataKept DEF ScratchFits, At
  <1>4. ASSUME NEW d \in Deck, NEW f \in Files, NEW l \in BOOLEAN, NEW k \in Target(f), StartPlay(d, f, k, l)
        PROVE  Data' /\ ScratchFits'
    BY <1>4, DataStartPlay DEF StartPlay, Goto, ScratchFits, At
  <1>5. ASSUME NEW d \in Deck, StartRecord(d) PROVE Data' /\ ScratchFits'
    <2>1. main'.pc # "put"
      BY <1>5 DEF StartRecord, Call, InControl, Goto
    <2> QED
      BY <1>5, <2>1, DataStartRecord DEF ScratchFits, At
  <1>6. ASSUME NEW d \in Deck, NEW k \in Target(src[d]), SeekTo(d, k) PROVE Data' /\ ScratchFits'
    BY <1>6, DataSeekTo DEF SeekTo, Goto, ScratchFits, At
  <1>7. ASSUME NEW d \in Deck, FillRead(d) PROVE Data' /\ ScratchFits'
    <2>1. Data' /\ Len(scratch') <= Space(d)
      BY <1>7, DataFillRead
    <2>2. main.deck = d /\ main'.deck = d /\ UNCHANGED ring
      BY <1>7 DEF FillRead, At, HInv, ControlType
    <2> QED
      BY <2>1, <2>2 DEF ScratchFits, At, Space
  <1>8. ASSUME NEW d \in Deck, FillWrite(d) PROVE Data' /\ ScratchFits'
    BY <1>8, DataFillWrite DEF FillWrite, Goto, ScratchFits, At
  <1>9. ASSUME NEW d \in Deck, FillRewind(d) PROVE Data' /\ ScratchFits'
    <2>1. main'.pc # "put"
      BY <1>9 DEF FillRewind, At, HInv, ControlType
    <2> QED
      BY <1>9, <2>1, DataFillRewind DEF ScratchFits, At
  <1>10. ASSUME NEW d \in Deck, Drain(d) PROVE Data' /\ ScratchFits'
    <2>1. main'.pc # "put"
      BY <1>10 DEF Drain, At
    <2> QED
      BY <1>10, <2>1, DataDrain DEF ScratchFits, At
  <1>11. ASSUME NEW d \in Deck, DrainEnd(d) PROVE Data' /\ ScratchFits'
    BY <1>11, DataDrainEnd DEF DrainEnd, Return, Goto, ScratchFits, At
  <1>12. ASSUME NEW d \in Deck, NEW n \in 1 .. Block, PlayConsume(d, n) PROVE Data' /\ ScratchFits'
    <2>1. Data' /\ \A c \in Deck : Len(ring'[c]) <= Len(ring[c])
      BY <1>12, DataPlayConsume
    <2>2. UNCHANGED <<main, scratch>>
      BY <1>12 DEF PlayConsume
    <2>3. ASSUME NEW c \in Deck, Len(scratch) <= Space(c) PROVE Len(scratch) <= RingCap - Len(ring'[c])
      <3>1. Len(scratch) \in Nat /\ Len(ring[c]) \in Nat /\ Len(ring'[c]) \in Nat
        BY <2>1, LenType DEF Data
      <3> QED
        BY <2>1, <2>3, <3>1, Sizes DEF Space
    <2> QED
      BY <2>1, <2>2, <2>3 DEF ScratchFits, At, Space
  <1>13. ASSUME NEW d \in Deck, NEW n \in 1 .. Block, RecordProduce(d, n) PROVE Data' /\ ScratchFits'
    <2>1. UNCHANGED <<main, scratch>> /\ mode[d] = "record" /\ \A c \in Deck : c # d => ring'[c] = ring[c]
      BY <1>13 DEF RecordProduce, Data
    <2>2. ~At("put", d)
      BY <2>1 DEF At, HInv, PlaceOfMain
    <2> QED
      BY <1>13, <2>1, <2>2, DataRecordProduce DEF ScratchFits, At, Space
  <1>14. ASSUME Next PROVE Data' /\ ScratchFits'
    BY <1>2, <1>3, <1>4, <1>5, <1>6, <1>7, <1>8, <1>9, <1>10, <1>11, <1>12, <1>13, <1>14, Steps
  <1> QED
    BY <1>1, <1>14

-----------------------------------------------------------------------------
(* The latches, the counters, and what a latched end means.               *)

Bits ==
    /\ eof \in [Deck -> BOOLEAN] /\ loop \in [Deck -> BOOLEAN]
    /\ stopping \in [Deck -> BOOLEAN] /\ done \in [Deck -> BOOLEAN]
Counts == main.rewinds \in 0..2 /\ ops \in 0..MaxOps /\ blocks \in 0..Preempt

(* A latched end is the end of the file, wherever the latch may still be   *)
(* looked at.                                                              *)
EndLatched ==
    /\ main.pc \in {"armplay", "fill", "put"} => ~eof[main.deck]
    /\ \A d \in Deck : (mode[d] = "play" \/ At("seek", d)) /\ eof[d] => AtEnd(src[d])

EInv == Bits /\ Counts /\ EndLatched

LEMMA EInit == Init => EInv
  BY Sizes, FirstDeck DEF Init, EInv, Bits, Counts, EndLatched

LEMMA EStep == HInv /\ FInv /\ EInv /\ [Next]_vars => EInv'
  <1> SUFFICES ASSUME HInv, FInv, EInv, [Next]_vars PROVE EInv'
    OBVIOUS
  <1> USE DEF EInv, At, playVars, fileVars, recVars, takeVars
  <1>1. Bits'
    <2>1. CASE Process
      BY <2>1 DEF Process, Bits
    <2>2. ASSUME NEW d \in Deck, Control(d) PROVE Bits'
      <3> USE <2>2 DEF Control, StartPlay, ArmPlay, StartRecord, ArmRecord, StopPlay, StopRecord,
            LeaveRecord, SetLoop, SeekPlay, SeekTo, SeekFails, PlayStart, RecordStart
      <3>1. eof' \in [Deck -> BOOLEAN]
        BY DEF Bits
      <3>2. loop' \in [Deck -> BOOLEAN]
        BY ZenonT(60) DEF Bits
      <3>3. stopping' \in [Deck -> BOOLEAN] /\ done' \in [Deck -> BOOLEAN]
        BY DEF Bits
      <3> QED
        BY <3>1, <3>2, <3>3 DEF Bits
    <2>3. ASSUME NEW d \in Deck, Pump(d) PROVE Bits'
      <3> USE <2>3 DEF Pump, Service, FillRead, FillWrite, FillRewind, FillEof, FillDry, FillFull,
            CheckFinished, Drain, DrainEnd
      <3>1. eof' \in [Deck -> BOOLEAN] /\ loop' \in [Deck -> BOOLEAN]
        BY DEF Bits
      <3>2. stopping' \in [Deck -> BOOLEAN] /\ done' \in [Deck -> BOOLEAN]
        BY DEF Bits
      <3> QED
        BY <3>1, <3>2 DEF Bits
    <2>4. ASSUME NEW d \in Deck, Interrupt(d) PROVE Bits'
      BY <2>4 DEF Interrupt, PlayConsume, RecordProduce, Bits
    <2>5. CASE UNCHANGED vars
      BY <2>5 DEF vars, Bits
    <2> QED
      BY <2>1, <2>2, <2>3, <2>4, <2>5 DEF Next
  <1>2. Counts'
    <2>1. CASE Process
      BY <2>1 DEF Process, Goto, Counts
    <2>2. ASSUME NEW d \in Deck, Control(d) PROVE Counts'
      <3>1. main'.rewinds \in {0, main.rewinds}
        <4>1. ASSUME NEW f \in Files, NEW l \in BOOLEAN, NEW k \in Target(f), StartPlay(d, f, k, l)
              PROVE  main'.rewinds = 0
          BY <4>1 DEF StartPlay, Goto
        <4>2. ASSUME NEW k \in Target(src[d]), SeekTo(d, k) PROVE main'.rewinds = 0
          BY <4>2 DEF SeekTo, Goto
        <4>3. CASE ArmPlay(d) \/ ArmRecord(d) \/ StopRecord(d) \/ LeaveRecord(d) \/ SeekPlay(d) \/ SeekFails(d)
          BY <4>3 DEF ArmPlay, ArmRecord, StopRecord, LeaveRecord, SeekPlay, SeekFails, Goto
        <4>4. CASE StartRecord(d)
          BY <4>4 DEF StartRecord, Goto
        <4>5. CASE StopPlay(d) \/ \E l \in BOOLEAN : SetLoop(d, l)
          BY <4>5 DEF StopPlay, SetLoop
        <4> QED
          BY <2>2, <4>1, <4>2, <4>3, <4>4, <4>5 DEF Control
      <3>2. /\ ops' = ops \/ (ops < MaxOps /\ ops' = ops + 1)
            /\ blocks' = blocks
        BY <2>2 DEF Control, StartPlay, ArmPlay, StartRecord, ArmRecord, StopPlay, StopRecord,
            LeaveRecord, SetLoop, SeekPlay, SeekTo, SeekFails, Call
      <3> QED
        BY <3>1, <3>2, Sizes DEF Counts
    <2>3. ASSUME NEW d \in Deck, Pump(d) PROVE Counts'
      <3>1. ops' = ops /\ (blocks' = blocks \/ blocks' = 0)
        BY <2>3 DEF Pump, Service, FillRead, FillWrite, FillRewind, FillEof, FillDry, FillFull,
            CheckFinished, Drain, DrainEnd
      <3>2. CASE FillRewind(d)
        <4>1. main' = [main EXCEPT !.rewinds = main.rewinds + 1] /\ main.rewinds \in 0 .. 2 /\ main.rewinds < 2
          BY <3>2 DEF FillRewind, Counts
        <4>2. main'.rewinds = main.rewinds + 1
          BY <4>1 DEF HInv, ControlType
        <4> QED
          BY <3>1, <4>1, <4>2, Sizes DEF Counts
      <3>3. CASE FillRead(d)
        <4>1. main'.rewinds = main.rewinds
          BY <3>3 DEF FillRead, HInv, ControlType
        <4> QED
          BY <3>1, <4>1, Sizes DEF Counts
      <3>4. CASE ~FillRewind(d) /\ ~FillRead(d)
        <4>1. main'.rewinds \in {0, main.rewinds}
          BY <2>3, <3>4 DEF Pump, Service, FillWrite, FillEof, FillDry, FillFull,
              CheckFinished, Drain, DrainEnd, Goto, Return
        <4> QED
          BY <3>1, <4>1, Sizes DEF Counts
      <3> QED
        BY <3>2, <3>3, <3>4
    <2>4. ASSUME NEW d \in Deck, Interrupt(d) PROVE Counts'
      <3>1. UNCHANGED <<main, ops>> /\ (blocks' = blocks \/ (blocks < Preempt /\ blocks' = blocks + 1))
        BY <2>4 DEF Interrupt, PlayConsume, RecordProduce, Interrupts
      <3> QED
        BY <3>1, Sizes DEF Counts
    <2>5. CASE UNCHANGED vars
      BY <2>5 DEF vars, Counts
    <2> QED
      BY <2>1, <2>2, <2>3, <2>4, <2>5 DEF Next
  <1>3. EndLatched'
    <2> USE DEF EndLatched
    <2>1. CASE Process
      BY <2>1 DEF Process, Goto
    <2>2. ASSUME NEW d \in Deck, Control(d) PROVE EndLatched'
      <3>1. ASSUME NEW f \in Files, NEW l \in BOOLEAN, NEW k \in Target(f), StartPlay(d, f, k, l)
            PROVE  EndLatched'
        <4>1. mode[d] = "idle" /\ mode' = mode /\ main'.pc = "armplay" /\ main'.deck = d
          BY <3>1 DEF StartPlay, Goto
        <4>2. eof' = [eof EXCEPT ![d] = FALSE]
          BY <3>1 DEF StartPlay, PlayStart
        <4>3. \A c \in Deck : c # d => src'[c] = src[c]
          BY <3>1 DEF StartPlay, FInv, Data
        <4> QED
          BY <4>1, <4>2, <4>3 DEF Bits, AtEnd
      <3>2. CASE ArmPlay(d)
        BY <3>2 DEF ArmPlay, Goto, HInv, ControlType
      <3>3. CASE StartRecord(d)
        <4>1. UNCHANGED <<mode, eof, src>> /\ main.pc = "control" /\ (main'.pc = "armrecord" \/ main' = main)
          BY <3>3 DEF StartRecord, Call, InControl, Goto
        <4> QED
          BY <4>1
      <3>4. CASE ArmRecord(d)
        BY <3>4 DEF ArmRecord, Goto, HInv, ControlType
      <3>5. CASE StopPlay(d)
        BY <3>5 DEF StopPlay, Call, InControl, HInv, ControlType
      <3>6. CASE StopRecord(d)
        BY <3>6 DEF StopRecord, Goto
      <3>7. CASE LeaveRecord(d)
        BY <3>7 DEF LeaveRecord, Goto, HInv, ControlType
      <3>8. ASSUME NEW l \in BOOLEAN, SetLoop(d, l) PROVE EndLatched'
        BY <3>8 DEF SetLoop
      <3>9. CASE SeekPlay(d)
        BY <3>9 DEF SeekPlay, Goto, HInv, ControlType
      <3>10. ASSUME NEW k \in Target(src[d]), SeekTo(d, k) PROVE EndLatched'
        <4>1. mode[d] = "idle" /\ mode' = mode /\ main'.pc = "armplay" /\ main'.deck = d
          BY <3>10 DEF SeekTo, Goto, HInv, PlaceOfMain, Holding
        <4>2. eof' = [eof EXCEPT ![d] = FALSE]
          BY <3>10 DEF SeekTo, PlayStart
        <4>3. \A c \in Deck : c # d => src'[c] = src[c]
          BY <3>10 DEF SeekTo, FInv, Data
        <4> QED
          BY <4>1, <4>2, <4>3 DEF Bits, AtEnd
      <3>11. CASE SeekFails(d)
        BY <3>11 DEF SeekFails, Goto, HInv, ControlType
      <3> QED
        BY <2>2, <3>1, <3>2, <3>3, <3>4, <3>5, <3>6, <3>7, <3>8, <3>9, <3>10, <3>11 DEF Control
    <2>3. ASSUME NEW d \in Deck, Pump(d) PROVE EndLatched'
      <3>1. CASE Service(d)
        BY <3>1 DEF Service, Goto, Return
      <3>2. CASE FillRead(d)
        <4>1. main.pc = "fill" /\ main.deck = d /\ main'.pc = "put" /\ main'.deck = d /\ UNCHANGED <<mode, eof>>
          BY <3>2 DEF FillRead, HInv, ControlType
        <4>2. \A c \in Deck : c # d => src'[c] = src[c]
          BY <3>2 DEF FillRead, FInv, Data
        <4> QED
          BY <4>1, <4>2 DEF AtEnd
      <3>3. CASE FillRewind(d)
        <4>1. main.pc = "fill" /\ main.deck = d /\ main'.pc = "fill" /\ main'.deck = d /\ UNCHANGED <<mode, eof>>
          BY <3>3 DEF FillRewind, HInv, ControlType
        <4>2. \A c \in Deck : c # d => src'[c] = src[c]
          BY <3>3 DEF FillRewind, FInv, Data
        <4> QED
          BY <4>1, <4>2 DEF AtEnd
      <3>4. CASE FillWrite(d)
        BY <3>4 DEF FillWrite, Goto
      <3>5. CASE FillEof(d)
        BY <3>5 DEF FillEof, Goto, Bits
      <3>6. CASE FillDry(d) \/ FillFull(d)
        BY <3>6 DEF FillDry, FillFull, Goto
      <3>7. CASE CheckFinished(d)
        BY <3>7 DEF CheckFinished, Goto, Return, HInv, ControlType
      <3>8. CASE Drain(d)
        BY <3>8 DEF Drain
      <3>9. CASE DrainEnd(d)
        BY <3>9 DEF DrainEnd, Goto, Return
      <3> QED
        BY <2>3, <3>1, <3>2, <3>3, <3>4, <3>5, <3>6, <3>7, <3>8, <3>9 DEF Pump
    <2>4. ASSUME NEW d \in Deck, Interrupt(d) PROVE EndLatched'
      BY <2>4 DEF Interrupt, PlayConsume, RecordProduce, AtEnd
    <2>5. CASE UNCHANGED vars
      BY <2>5 DEF vars, AtEnd
    <2> QED
      BY <2>1, <2>2, <2>3, <2>4, <2>5 DEF Next
  <1> QED
    BY <1>1, <1>2, <1>3

(* What the modules around this one rely on (Consistent) holds of any      *)
(* decks, any files and a card that fails at will.                         *)
THEOREM StaysConsistent == Spec => []Consistent
  <1>1. HInv /\ FInv /\ EInv => Consistent
    <2> SUFFICES ASSUME HInv, FInv, EInv PROVE Consistent
      OBVIOUS
    <2>1. main \in [pc : Pcs, deck : Nat, rewinds : 0..2] /\ main.deck \in Deck
      <3>1. main \in [pc : Pcs, deck : Deck, rewinds : Nat] /\ main.rewinds \in 0..2 /\ Deck \subseteq Nat
        BY CountAssumption DEF HInv, ControlType, EInv, Counts, Deck
      <3> QED
        BY <3>1
    <2>2. TypeOK
      BY <2>1 DEF TypeOK, HInv, ControlType, FInv, Data, EInv, Bits, Counts
    <2>3. ScratchFits /\ HandleMatchesMode /\ EofMeansExhausted
      BY DEF HInv, FInv, EInv, EndLatched, EofMeansExhausted
    <2> QED
      BY <2>2, <2>3 DEF Consistent
  <1> QED
    BY <1>1, HInit, HStep, FInit, FStep, EInit, EStep, PTL DEF Spec

-----------------------------------------------------------------------------
(* The take.                                                              *)

LEMMA SameSeq ==
    ASSUME NEW q \in Seq(Nat), NEW r \in Seq(Nat), Len(q) = Len(r), \A k \in 1 .. Len(q) : q[k] = r[k]
    PROVE  q = r
  BY SeqEqual

LEMMA CatAssoc ==
    ASSUME NEW q \in Seq(Nat), NEW r \in Seq(Nat), NEW t \in Seq(Nat)
    PROVE  (q \o r) \o t = q \o (r \o t)
  BY ConcatAssociative, SMTT(30)

LEMMA CutInTwo ==
    ASSUME NEW q \in Seq(Nat), NEW n \in 0 .. Len(q)
    PROVE  SubSeq(q, 1, n) \o Drop(q, n) = q
  <1>1. Len(q) \in Nat
    BY LenType
  <1>2. 1 \in 1 .. Len(q) + 1 /\ n \in 1 - 1 .. Len(q) /\ Len(q) \in n .. Len(q)
    BY <1>1
  <1>3. SubSeq(q, 1, n) \o SubSeq(q, n + 1, Len(q)) = SubSeq(q, 1, Len(q))
    BY <1>2, ConcatAdjacentSubSeq
  <1>4. SubSeq(q, 1, Len(q)) = q
    BY SubSeqFull
  <1> QED
    BY <1>3, <1>4 DEF Drop

LEMMA FramesJoin ==
    ASSUME NEW m \in Nat, NEW n \in Nat
    PROVE  Frames(0, m) \o Frames(m, n) = Frames(0, m + n)
  <1> DEFINE p == Frames(0, m)
             q == Frames(m, n)
             r == Frames(0, m + n)
  <1>1. p \in Seq(Nat) /\ Len(p) = m /\ \A k \in 1 .. m : p[k] = 0 + k - 1
    BY FramesType
  <1>2. q \in Seq(Nat) /\ Len(q) = n /\ \A k \in 1 .. n : q[k] = m + k - 1
    BY FramesType
  <1>3. r \in Seq(Nat) /\ Len(r) = m + n /\ \A k \in 1 .. (m + n) : r[k] = 0 + k - 1
    <2>1. m + n \in Nat
      OBVIOUS
    <2> QED
      BY <2>1, FramesType
  <1> HIDE DEF p, q, r
  <1>4. p \o q \in Seq(Nat) /\ Len(p \o q) = m + n
    BY <1>1, <1>2, CatType
  <1>5. ASSUME NEW k \in 1 .. (m + n) PROVE (p \o q)[k] = r[k]
    <2>1. (p \o q)[k] = IF k <= m THEN p[k] ELSE q[k - m]
      BY <1>1, <1>2, ConcatProperties
    <2>2. CASE k <= m
      BY <1>1, <1>3, <2>1, <2>2
    <2>3. CASE ~(k <= m)
      <3>1. k - m \in 1 .. n /\ q[k - m] = m + (k - m) - 1
        BY <1>2, <2>3
      <3> QED
        BY <1>3, <2>1, <2>3, <3>1
    <2> QED
      BY <2>2, <2>3
  <1>6. p \o q = r
    BY <1>3, <1>4, <1>5, SameSeq
  <1> QED
    BY <1>6 DEF p, q, r

(* A take before, while and after it is written.                           *)
TakePart(d) ==
    IF handle[d] = "write" THEN take[d] \o ring[d] = Frames(0, accepted[d]) /\ ~done[d]
    ELSE header[d] = Len(take[d]) /\ accepted[d] = Len(take[d])
EndPart(d) ==
    /\ mode[d] = "record" /\ ~At("stoprecord", d) => ~stopping[d]
    /\ finalizing[d] \/ At("stoprecord", d) => stopping[d]
    /\ At("armrecord", d) => ~stopping[d]
WInv == ~Faults => \A d \in Deck : TakePart(d) /\ EndPart(d)

LEMMA WInit == Init => WInv
  BY Empty DEF Init, WInv, TakePart, EndPart, At

LEMMA PartKept ==
    ASSUME NEW c \in Deck, TakePart(c), EndPart(c),
           UNCHANGED <<handle[c], take[c], header[c], accepted[c], done[c]>>,
           handle[c] = "write" => ring'[c] = ring[c]
    PROVE  TakePart(c)'
  BY DEF TakePart

LEMMA WStep == HInv /\ FInv /\ EInv /\ WInv /\ [Next]_vars => WInv'
  <1> SUFFICES ASSUME HInv, FInv, EInv, WInv, [Next]_vars, ~Faults, NEW c \in Deck
               PROVE  TakePart(c)' /\ EndPart(c)'
    BY DEF WInv
  <1> USE DEF At, playVars, fileVars, recVars, takeVars
  <1>0. /\ TakePart(c) /\ EndPart(c)
        /\ handle[c] = IF mode[c] = "play" \/ At("armplay", c) \/ At("seek", c) THEN "read"
                       ELSE IF mode[c] = "record" \/ finalizing[c] \/ At("armrecord", c) THEN "write"
                       ELSE "closed"
    BY DEF WInv, HInv, HandleMatchesMode
  <1>1. CASE UNCHANGED vars
    <2>1. UNCHANGED <<handle, take, header, accepted, done, ring, mode, main, stopping, finalizing>>
      BY <1>1 DEF vars
    <2> QED
      BY <1>0, <2>1 DEF TakePart, EndPart
  <1>2. CASE Process
    <2>1. UNCHANGED <<handle, take, header, accepted, done, ring, mode, stopping, finalizing>>
          /\ main'.pc = "service" /\ main.pc = "control"
      BY <1>2 DEF Process, Goto, InControl
    <2> QED
      BY <1>0, <2>1 DEF TakePart, EndPart
  <1>3. ASSUME NEW d \in Deck, Control(d) PROVE TakePart(c)' /\ EndPart(c)'
    <2>1. ASSUME NEW f \in Files, NEW l \in BOOLEAN, NEW k \in Target(f), StartPlay(d, f, k, l)
          PROVE  TakePart(c)' /\ EndPart(c)'
      <3>1. /\ UNCHANGED <<take, header, accepted, done, mode, stopping, finalizing>>
            /\ main'.pc = "armplay" /\ main.pc = "control" /\ mode[d] = "idle"
            /\ handle' = [handle EXCEPT ![d] = "read"] /\ handle[d] = "closed"
            /\ ring' = [ring EXCEPT ![d] = << >>]
        BY <2>1 DEF StartPlay, PlayStart, Goto, Call, InControl, Open
      <3> QED
        BY <1>0, <3>1 DEF TakePart, EndPart, HInv, ControlType, FInv, Data
    <2>2. CASE ArmPlay(d)
      <3>1. /\ UNCHANGED <<handle, take, header, accepted, done, ring, stopping, finalizing>>
            /\ main'.pc = "control" /\ main.pc = "armplay"
            /\ mode' = [mode EXCEPT ![d] = "play"]
        BY <2>2 DEF ArmPlay, Goto
      <3> QED
        BY <1>0, <3>1 DEF TakePart, EndPart, HInv, ControlType
    <2>3. CASE StartRecord(d)
      <3>1. /\ UNCHANGED <<mode, finalizing>> /\ mode[d] = "idle" /\ ~finalizing[d]
            /\ main'.pc = "armrecord" /\ main'.deck = d /\ main.pc = "control"
            /\ handle' = [handle EXCEPT ![d] = "write"]
            /\ ring' = [ring EXCEPT ![d] = << >>] /\ take' = [take EXCEPT ![d] = << >>]
            /\ header' = [header EXCEPT ![d] = 0] /\ accepted' = [accepted EXCEPT ![d] = 0]
            /\ stopping' = [stopping EXCEPT ![d] = FALSE] /\ done' = [done EXCEPT ![d] = FALSE]
        BY <2>3 DEF StartRecord, RecordStart, Goto, Call, InControl, Open
      <3>2. Frames(0, 0) = << >> /\ << >> \o << >> = << >>
        BY DEF Frames
      <3>3. EndPart(c)'
        BY <1>0, <3>1 DEF EndPart, EInv, Bits
      <3>4. CASE c = d
        <4>1. /\ handle'[d] = "write" /\ take'[d] = << >> /\ ring'[d] = << >>
              /\ accepted'[d] = 0 /\ ~done'[d]
          BY <3>1 DEF HInv, ControlType, FInv, Data, EInv, Bits
        <4> QED
          BY <3>2, <3>3, <3>4, <4>1 DEF TakePart
      <3>5. CASE c # d
        <4>1. /\ UNCHANGED <<handle[c], take[c], header[c], accepted[c], done[c]>>
              /\ ring'[c] = ring[c]
          BY <3>1, <3>5 DEF HInv, ControlType, FInv, Data, EInv, Bits
        <4> QED
          BY <1>0, <3>3, <4>1, PartKept
      <3> QED
        BY <3>3, <3>4, <3>5
    <2>4. CASE ArmRecord(d)
      <3>1. /\ UNCHANGED <<handle, take, header, accepted, done, ring, stopping, finalizing>>
            /\ main'.pc = "control" /\ main.pc = "armrecord" /\ main.deck = d
            /\ mode' = [mode EXCEPT ![d] = "record"]
        BY <2>4 DEF ArmRecord, Goto
      <3> QED
        BY <1>0, <3>1 DEF TakePart, EndPart, HInv, ControlType
    <2>5. CASE StopPlay(d)
      <3>1. /\ UNCHANGED <<take, header, accepted, done, ring, stopping, finalizing, main>>
            /\ mode[d] = "play" /\ mode' = [mode EXCEPT ![d] = "idle"]
            /\ handle' = [handle EXCEPT ![d] = "closed"]
        BY <2>5 DEF StopPlay, Close
      <3> QED
        BY <1>0, <3>1 DEF TakePart, EndPart, HInv, ControlType
    <2>6. CASE StopRecord(d)
      <3>1. /\ UNCHANGED <<handle, take, header, accepted, done, ring, mode, finalizing>>
            /\ main'.pc = "stoprecord" /\ main'.deck = d /\ main.pc = "control" /\ mode[d] = "record"
            /\ stopping' = [stopping EXCEPT ![d] = TRUE]
        BY <2>6 DEF StopRecord, Goto, Call, InControl
      <3> QED
        BY <1>0, <3>1 DEF TakePart, EndPart, EInv, Bits
    <2>7. CASE LeaveRecord(d)
      <3>1. /\ UNCHANGED <<handle, take, header, accepted, done, ring, stopping>>
            /\ main'.pc = "control" /\ main.pc = "stoprecord" /\ main.deck = d
            /\ mode' = [mode EXCEPT ![d] = "idle"] /\ finalizing' = [finalizing EXCEPT ![d] = TRUE]
        BY <2>7 DEF LeaveRecord, Goto
      <3>2. stopping[d]
        BY <3>1 DEF WInv, EndPart
      <3> QED
        BY <1>0, <3>1, <3>2 DEF TakePart, EndPart, HInv, ControlType
    <2>8. ASSUME NEW l \in BOOLEAN, SetLoop(d, l) PROVE TakePart(c)' /\ EndPart(c)'
      <3>1. UNCHANGED <<handle, take, header, accepted, done, ring, mode, main, stopping, finalizing>>
        BY <2>8 DEF SetLoop
      <3> QED
        BY <1>0, <3>1 DEF TakePart, EndPart
    <2>9. CASE SeekPlay(d)
      <3>1. /\ UNCHANGED <<handle, take, header, accepted, done, ring, stopping, finalizing>>
            /\ main'.pc = "seek" /\ main.pc = "control" /\ mode' = [mode EXCEPT ![d] = "idle"]
        BY <2>9 DEF SeekPlay, Goto, Call, InControl
      <3> QED
        BY <1>0, <3>1 DEF TakePart, EndPart, HInv, ControlType
    <2>10. ASSUME NEW k \in Target(src[d]), SeekTo(d, k) PROVE TakePart(c)' /\ EndPart(c)'
      <3>1. /\ UNCHANGED <<handle, take, header, accepted, done, mode, stopping, finalizing>>
            /\ main'.pc = "armplay" /\ main.pc = "seek" /\ main.deck = d
            /\ ring' = [ring EXCEPT ![d] = << >>]
        BY <2>10 DEF SeekTo, Goto, PlayStart
      <3> QED
        BY <1>0, <3>1 DEF TakePart, EndPart, FInv, Data
    <2>11. CASE SeekFails(d)
      BY <2>11 DEF SeekFails
    <2> QED
      BY <1>3, <2>1, <2>2, <2>3, <2>4, <2>5, <2>6, <2>7, <2>8, <2>9, <2>10, <2>11 DEF Control
  <1>4. ASSUME NEW d \in Deck, Pump(d) PROVE TakePart(c)' /\ EndPart(c)'
    <2>1. CASE Service(d) \/ FillEof(d) \/ FillDry(d) \/ FillFull(d) \/ FillRead(d) \/ FillRewind(d)
      <3>1. UNCHANGED <<handle, take, header, accepted, done, ring, mode, stopping, finalizing>>
        BY <2>1 DEF Service, FillEof, FillDry, FillFull, FillRead, FillRewind
      <3>2. main.pc \in {"service", "fill"} /\ main'.pc \notin {"armrecord", "stoprecord"}
        <4>1. CASE Service(d)
          BY <4>1 DEF Service, Goto, Return
        <4>2. CASE FillEof(d) \/ FillDry(d) \/ FillFull(d)
          BY <4>2 DEF FillEof, FillDry, FillFull, Goto
        <4>3. CASE FillRead(d) \/ FillRewind(d)
          BY <4>3 DEF FillRead, FillRewind, HInv, ControlType
        <4> QED
          BY <2>1, <4>1, <4>2, <4>3
      <3> QED
        BY <1>0, <3>1, <3>2 DEF TakePart, EndPart
    <2>2. CASE FillWrite(d)
      <3>1. /\ UNCHANGED <<handle, take, header, accepted, done, mode, stopping, finalizing>>
            /\ main'.pc = "fill" /\ main.pc = "put" /\ main.deck = d
            /\ \A b \in Deck : b # d => ring'[b] = ring[b]
        BY <2>2 DEF FillWrite, Goto, FInv, Data
      <3>2. mode[d] = "play"
        BY <3>1 DEF HInv, PlaceOfMain
      <3> QED
        BY <1>0, <3>1, <3>2 DEF TakePart, EndPart
    <2>3. CASE CheckFinished(d)
      <3>1. /\ UNCHANGED <<take, header, accepted, done, ring, stopping, finalizing>>
            /\ main'.pc \in {"service", "control"} /\ main.pc = "check" /\ main.deck = d
            /\ \/ mode' = [mode EXCEPT ![d] = "idle"] /\ handle' = [handle EXCEPT ![d] = "closed"]
               \/ UNCHANGED <<mode, handle>>
        BY <2>3 DEF CheckFinished, Close, Return, Goto
      <3>2. mode[d] = "play"
        BY <3>1 DEF HInv, PlaceOfMain
      <3> QED
        BY <1>0, <3>1, <3>2 DEF TakePart, EndPart, HInv, ControlType
    <2>4. CASE Drain(d)
      <3> DEFINE got == Least(Len(ring[d]), ScratchCap)
      <3>1. /\ UNCHANGED <<handle, header, accepted, done, mode, main, stopping, finalizing>>
            /\ ring' = [ring EXCEPT ![d] = Drop(ring[d], got)]
            /\ main.pc = "drain" /\ main.deck = d
        BY <2>4 DEF Drain
      <3>2. take' = [take EXCEPT ![d] = take[d] \o SubSeq(ring[d], 1, got)]
        BY <2>4 DEF Drain, CanWrite
      <3>3. EndPart(c)'
        BY <1>0, <3>1 DEF EndPart
      <3>4. CASE c # d
        <4>1. ring'[c] = ring[c] /\ take'[c] = take[c]
          BY <3>1, <3>2, <3>4 DEF FInv, Data
        <4> QED
          BY <1>0, <3>1, <3>3, <4>1, PartKept
      <3>5. CASE c = d
        <4>1. ring[d] \in Seq(Nat) /\ Len(ring[d]) \in Nat /\ take[d] \in Seq(Nat) /\ got \in 0 .. Len(ring[d])
          BY LenType, Sizes DEF FInv, Data, Least
        <4>2. handle[d] = "write"
          BY <1>0, <3>1, <3>5 DEF HInv, PlaceOfMain
        <4> HIDE DEF got
        <4>3. /\ SubSeq(ring[d], 1, got) \in Seq(Nat) /\ Drop(ring[d], got) \in Seq(Nat)
              /\ SubSeq(ring[d], 1, got) \o Drop(ring[d], got) = ring[d]
          BY <4>1, PrefixType, DropType, CutInTwo
        <4>4. (take[d] \o SubSeq(ring[d], 1, got)) \o Drop(ring[d], got) = take[d] \o ring[d]
          <5> DEFINE a == SubSeq(ring[d], 1, got)
                     b == Drop(ring[d], got)
          <5>1. a \in Seq(Nat) /\ b \in Seq(Nat) /\ a \o b = ring[d]
            BY <4>3
          <5> HIDE DEF a, b
          <5>2. (take[d] \o a) \o b = take[d] \o (a \o b)
            BY <4>1, <5>1, CatAssoc
          <5>3. (take[d] \o a) \o b = take[d] \o ring[d]
            BY <5>1, <5>2
          <5> QED
            BY <5>3 DEF a, b
        <4>5. ring'[d] = Drop(ring[d], got) /\ take'[d] = take[d] \o SubSeq(ring[d], 1, got)
          BY <3>1, <3>2 DEF FInv, Data
        <4> QED
          BY <1>0, <3>1, <3>3, <3>5, <4>2, <4>4, <4>5 DEF TakePart
      <3> QED
        BY <3>3, <3>4, <3>5
    <2>5. CASE DrainEnd(d)
      <3>1. /\ UNCHANGED <<mode, ring, stopping, take, accepted>>
            /\ main'.pc \in {"service", "control"} /\ main.pc = "drain" /\ main.deck = d
            /\ ring[d] = << >> \/ done[d]
        BY <2>5 DEF DrainEnd, Return, Goto
      <3>2. CASE stopping[d] /\ ~done[d]
        <4>1. done' = [done EXCEPT ![d] = TRUE] /\ header' = [header EXCEPT ![d] = Len(take[d])]
          BY <2>5, <3>2 DEF DrainEnd
        <4>2. finalizing[d] /\ handle[d] = "write" /\ ring[d] = << >>
          BY <3>1, <3>2 DEF WInv, EndPart, HInv, PlaceOfMain, HandleMatchesMode
        <4>3. done'[d]
          BY <4>1 DEF EInv, Bits
        <4>4. handle' = [handle EXCEPT ![d] = "closed"] /\ finalizing' = [finalizing EXCEPT ![d] = FALSE]
          BY <2>5, <4>2, <4>3 DEF DrainEnd, Close
        <4>5. EndPart(c)'
          BY <1>0, <3>1, <4>4 DEF EndPart, HInv, ControlType
        <4>6. CASE c # d
          BY <1>0, <3>1, <4>1, <4>4, <4>5, <4>6 DEF TakePart, HInv, ControlType, FInv, Data, EInv, Bits
        <4>7. CASE c = d
          <5>1. take[d] \in Seq(Nat) /\ take[d] \o << >> = take[d] /\ accepted[d] \in Nat
            BY Sizes, ConcatEmptySeq DEF FInv, Data
          <5>2. take[d] = Frames(0, accepted[d])
            BY <1>0, <4>2, <4>7, <5>1 DEF TakePart
          <5>3. Len(take[d]) = accepted[d]
            BY <5>1, <5>2, FramesType, ZenonT(60)
          <5> QED
            BY <3>1, <4>1, <4>4, <4>5, <4>7, <5>3 DEF TakePart, HInv, ControlType, FInv, Data
        <4> QED
          BY <4>6, <4>7
      <3>3. CASE ~(stopping[d] /\ ~done[d])
        <4>1. UNCHANGED <<done, header>>
          BY <2>5, <3>3 DEF DrainEnd
        <4>2. handle[d] = "write" /\ ~done[d]
          BY <3>1 DEF WInv, TakePart, HInv, PlaceOfMain, HandleMatchesMode
        <4>3. UNCHANGED <<handle, finalizing>>
          BY <2>5, <4>1, <4>2 DEF DrainEnd
        <4> QED
          BY <1>0, <3>1, <4>1, <4>3 DEF TakePart, EndPart
      <3> QED
        BY <3>2, <3>3
    <2> QED
      BY <1>4, <2>1, <2>2, <2>3, <2>4, <2>5 DEF Pump
  <1>5. ASSUME NEW d \in Deck, NEW n \in 1 .. Block, PlayConsume(d, n) PROVE TakePart(c)' /\ EndPart(c)'
    <2>1. /\ UNCHANGED <<handle, take, header, accepted, done, mode, main, stopping, finalizing>>
          /\ mode[d] = "play" /\ \A b \in Deck : b # d => ring'[b] = ring[b]
      BY <1>5 DEF PlayConsume, FInv, Data
    <2> QED
      BY <1>0, <2>1 DEF TakePart, EndPart
  <1>6. ASSUME NEW d \in Deck, NEW n \in 1 .. Block, RecordProduce(d, n) PROVE TakePart(c)' /\ EndPart(c)'
    <2> DEFINE put == Accepted(d, n)
    <2>1. /\ UNCHANGED <<handle, take, header, done, mode, main, stopping, finalizing>>
          /\ mode[d] = "record"
          /\ ring' = [ring EXCEPT ![d] = ring[d] \o Frames(accepted[d], put)]
          /\ accepted' = [accepted EXCEPT ![d] = accepted[d] + put]
      BY <1>6 DEF RecordProduce
    <2>2. EndPart(c)'
      BY <1>0, <2>1 DEF EndPart
    <2>3. CASE c # d
      BY <1>0, <2>1, <2>2, <2>3 DEF TakePart, FInv, Data
    <2>4. CASE c = d
      <3>1. take[d] \in Seq(Nat) /\ ring[d] \in Seq(Nat) /\ accepted[d] \in Nat /\ Len(ring[d]) \in Nat
            /\ Len(ring[d]) <= RingCap
        BY LenType, Sizes DEF FInv, Data
      <3>2. put \in Nat
        <4>1. Space(d) \in Nat /\ n \in Nat
          BY <3>1, Sizes DEF Space
        <4> QED
          BY <4>1, LeastType DEF Accepted
      <3> HIDE DEF put
      <3>3. Frames(accepted[d], put) \in Seq(Nat)
        BY <3>1, <3>2, FramesType
      <3>4. take[d] \o (ring[d] \o Frames(accepted[d], put)) = (take[d] \o ring[d]) \o Frames(accepted[d], put)
        BY <3>1, <3>3, CatAssoc
      <3>5. handle[d] = "write" /\ take[d] \o ring[d] = Frames(0, accepted[d]) /\ ~done[d]
        BY <1>0, <2>1, <2>4 DEF TakePart, HInv, PlaceOfMain, Holding
      <3>6. take[d] \o (ring[d] \o Frames(accepted[d], put)) = Frames(0, accepted[d] + put)
        BY <3>1, <3>2, <3>4, <3>5, FramesJoin
      <3>7. ring'[d] = ring[d] \o Frames(accepted[d], put) /\ accepted'[d] = accepted[d] + put
        BY <2>1 DEF FInv, Data
      <3> QED
        BY <2>1, <2>2, <2>4, <3>5, <3>6, <3>7 DEF TakePart
    <2> QED
      BY <2>3, <2>4
  <1> QED
    BY <1>1, <1>2, <1>3, <1>4, <1>5, <1>6 DEF Next, Interrupt

(* A take is what was recorded (RecordStream, _pump, finalize): on a card  *)
(* that does not fail the file and the ring hold every accepted frame in   *)
(* order, and a file that is let go of holds them all under a header that  *)
(* tells its length.                                                       *)
THEOREM WholeTakes == Spec => []TakeIsWhole
  <1>1. WInv => TakeIsWhole
    BY DEF WInv, TakePart, TakeIsWhole
  <1> QED
    BY <1>1, HInit, HStep, FInit, FStep, EInit, EStep, WInit, WStep, PTL DEF Spec

-----------------------------------------------------------------------------
(* Frames in flight, as a sequence and a run of the file.                  *)

LEMMA DropAt ==
    ASSUME NEW q \in Seq(Nat), NEW n \in 0 .. Len(q), NEW k \in 1 .. (Len(q) - n)
    PROVE  Drop(q, n)[k] = q[n + k]
  <1>1. Len(q) \in Nat
    BY LenType
  <1>2. \A i \in (n + 1) .. Len(q) : q[i] \in Nat
    BY <1>1
  <1>3. \A j \in 1 .. (Len(q) - (n + 1) + 1) :
          SubSeq(q, n + 1, Len(q))[j] = q[(n + 1) + j - 1]
    BY <1>1, <1>2, SubSeqProperties
  <1>4. k \in 1 .. (Len(q) - (n + 1) + 1) /\ (n + 1) + k - 1 = n + k
    BY <1>1
  <1> QED
    BY <1>3, <1>4 DEF Drop

(* The frames in flight of a file of h frames, read up to frame p.         *)
NextOf(h, k) == IF k + 1 < h THEN k + 1 ELSE 0
Runs(q, h) == \A k \in 1 .. (Len(q) - 1) : q[k + 1] = NextOf(h, q[k])
Begins(q, first, p, h) == IF q = << >> THEN first = FirstFrame(p, h) ELSE q[1] = first
Ends(q, p, h) == q # << >> => NextOf(h, q[Len(q)]) = FirstFrame(p, h)
Stream(q, first, p, h) == Runs(q, h) /\ Begins(q, first, p, h) /\ Ends(q, p, h)

LEMMA StreamEmpty ==
    ASSUME NEW p \in Nat, NEW h \in Nat
    PROVE  Stream(<< >>, FirstFrame(p, h), p, h)
  BY DEF Stream, Runs, Begins, Ends

LEMMA StreamRead ==
    ASSUME NEW q \in Seq(Nat), NEW first \in Nat, NEW p \in Nat, NEW h \in Nat, NEW n \in Nat,
           p + n <= h, Stream(q, first, p, h)
    PROVE  Stream(q \o Frames(p, n), first, p + n, h)
  <1> DEFINE f == Frames(p, n)
             r == q \o f
  <1>1. f \in Seq(Nat) /\ Len(f) = n /\ \A k \in 1 .. n : f[k] = p + k - 1
    BY FramesType
  <1>2. Len(q) \in Nat /\ (q = << >> <=> Len(q) = 0)
    BY EmptySeq, LenType
  <1> HIDE DEF f
  <1>3. r \in Seq(Nat) /\ Len(r) = Len(q) + n
    BY <1>1, CatType
  <1>4. \A k \in 1 .. (Len(q) + n) : r[k] = IF k <= Len(q) THEN q[k] ELSE f[k - Len(q)]
    BY <1>1, ConcatProperties
  <1> HIDE DEF r
  <1>5. CASE n = 0
    <2>1. f = << >>
      BY <1>1, <1>5, EmptySeq
    <2>2. r = q
      BY <2>1, ConcatEmptySeq DEF r
    <2>3. q \o Frames(p, n) = q /\ p + n = p
      BY <1>5, <2>2 DEF f, r
    <2> QED
      BY <2>3
  <1>6. CASE n # 0
    <2>1. FirstFrame(p, h) = p /\ p < h
      BY <1>6 DEF FirstFrame
    <2>2. r # << >>
      BY <1>2, <1>3, <1>6, EmptySeq
    <2>3. Runs(r, h)
      <3> SUFFICES ASSUME NEW k \in 1 .. (Len(q) + n - 1) PROVE r[k + 1] = NextOf(h, r[k])
        BY <1>3 DEF Runs
      <3>1. CASE k < Len(q)
        <4>1. r[k] = q[k] /\ r[k + 1] = q[k + 1] /\ k \in 1 .. (Len(q) - 1)
          BY <1>2, <1>4, <3>1
        <4> QED
          BY <4>1 DEF Stream, Runs
      <3>2. CASE k = Len(q)
        <4>1. r[k] = q[Len(q)] /\ r[k + 1] = f[1] /\ f[1] = p /\ q # << >>
          <5>1. /\ k \in 1 .. (Len(q) + n) /\ k + 1 \in 1 .. (Len(q) + n)
                /\ ~(k + 1 <= Len(q)) /\ k + 1 - Len(q) = 1 /\ 1 \in 1 .. n /\ Len(q) # 0
            BY <1>2, <1>6, <3>2
          <5>2. r[k] = q[k]
            BY <1>4, <3>2, <5>1
          <5>3. r[k + 1] = f[k + 1 - Len(q)]
            BY <1>4, <5>1
          <5>4. f[1] = p + 1 - 1
            BY <1>1, <5>1
          <5> QED
            BY <1>2, <3>2, <5>1, <5>2, <5>3, <5>4
        <4> QED
          BY <2>1, <4>1 DEF Stream, Ends
      <3>3. CASE k > Len(q)
        <4>1. r[k] = f[k - Len(q)] /\ r[k + 1] = f[k - Len(q) + 1]
          <5>1. /\ k \in 1 .. (Len(q) + n) /\ k + 1 \in 1 .. (Len(q) + n)
                /\ ~(k <= Len(q)) /\ ~(k + 1 <= Len(q)) /\ k + 1 - Len(q) = k - Len(q) + 1
            BY <1>2, <3>3
          <5>2. r[k] = f[k - Len(q)] /\ r[k + 1] = f[k + 1 - Len(q)]
            BY <1>4, <5>1
          <5> QED
            BY <5>1, <5>2
        <4>2. k - Len(q) \in 1 .. (n - 1)
          BY <1>2, <3>3
        <4>3. f[k - Len(q)] = p + (k - Len(q)) - 1 /\ f[k - Len(q) + 1] = p + (k - Len(q) + 1) - 1
          BY <1>1, <4>2
        <4> QED
          BY <4>1, <4>2, <4>3 DEF NextOf
      <3> QED
        BY <1>2, <3>1, <3>2, <3>3
    <2>4. r[1] = first
      <3>1. CASE q = << >>
        <4>1. r[1] = f[1] /\ f[1] = p
          BY <1>1, <1>2, <1>4, <1>6, <3>1
        <4> QED
          BY <2>1, <3>1, <4>1 DEF Stream, Begins
      <3>2. CASE q # << >>
        <4>1. r[1] = q[1]
          BY <1>2, <1>4, <3>2
        <4> QED
          BY <3>2, <4>1 DEF Stream, Begins
      <3> QED
        BY <3>1, <3>2
    <2>5. NextOf(h, r[Len(r)]) = FirstFrame(p + n, h)
      <3>1. r[Len(r)] = f[n] /\ f[n] = p + n - 1
        BY <1>1, <1>2, <1>3, <1>4, <1>6, SMTT(30)
      <3> QED
        BY <3>1 DEF NextOf, FirstFrame
    <2> QED
      BY <2>2, <2>3, <2>4, <2>5 DEF Stream, Begins, Ends, f, r
  <1> QED
    BY <1>5, <1>6

LEMMA StreamConsume ==
    ASSUME NEW q \in Seq(Nat), NEW first \in Nat, NEW p \in Nat, NEW h \in Nat,
           NEW m \in 1 .. Len(q), Stream(q, first, p, h)
    PROVE  Stream(Drop(q, m), NextOf(h, q[m]), p, h)
  <1> DEFINE r == Drop(q, m)
  <1>1. Len(q) \in Nat /\ q # << >>
    BY EmptySeq, LenType
  <1>2. r \in Seq(Nat) /\ Len(r) = Len(q) - m
    BY <1>1, DropType
  <1>3. \A k \in 1 .. (Len(q) - m) : r[k] = q[m + k]
    BY <1>1, DropAt
  <1> HIDE DEF r
  <1>4. Runs(r, h)
    <2> SUFFICES ASSUME NEW k \in 1 .. (Len(r) - 1) PROVE r[k + 1] = NextOf(h, r[k])
      BY DEF Runs
    <2>1. r[k] = q[m + k] /\ r[k + 1] = q[m + k + 1] /\ m + k \in 1 .. (Len(q) - 1)
      <3>1. /\ k \in 1 .. (Len(q) - m) /\ k + 1 \in 1 .. (Len(q) - m)
            /\ m + (k + 1) = m + k + 1 /\ m + k \in 1 .. (Len(q) - 1)
        BY <1>1, <1>2
      <3>2. r[k] = q[m + k] /\ r[k + 1] = q[m + (k + 1)]
        BY <1>3, <3>1
      <3> QED
        BY <3>1, <3>2
    <2> QED
      BY <2>1 DEF Stream, Runs
  <1>5. CASE m = Len(q)
    <2>1. r = << >>
      BY <1>1, <1>2, <1>5, EmptySeq
    <2> QED
      BY <1>1, <1>4, <1>5, <2>1 DEF Stream, Begins, Ends, r
  <1>6. CASE m < Len(q)
    <2>1. r # << >>
      BY <1>1, <1>2, <1>6, EmptySeq
    <2>2. r[1] = q[m + 1] /\ r[Len(r)] = q[Len(q)]
      <3>1. 1 \in 1 .. (Len(q) - m) /\ Len(r) \in 1 .. (Len(q) - m) /\ m + Len(r) = Len(q)
        BY <1>1, <1>2, <1>6
      <3> QED
        BY <1>3, <3>1
    <2>3. q[m + 1] = NextOf(h, q[m])
      BY <1>1, <1>6 DEF Stream, Runs
    <2> QED
      BY <1>1, <1>4, <2>1, <2>2, <2>3 DEF Stream, Begins, Ends, r
  <1> QED
    BY <1>1, <1>5, <1>6

LEMMA DropOfCat ==
    ASSUME NEW q \in Seq(Nat), NEW r \in Seq(Nat), NEW n \in 0 .. Len(q)
    PROVE  Drop(q, n) \o r = Drop(q \o r, n)
  <1>1. Len(q) \in Nat /\ Len(r) \in Nat
    BY LenType
  <1>2. q \o r \in Seq(Nat) /\ Len(q \o r) = Len(q) + Len(r)
    BY CatType
  <1>3. n \in 0 .. Len(q \o r)
    BY <1>1, <1>2
  <1>4. SubSeq(q, 1, n) \in Seq(Nat) /\ Drop(q, n) \in Seq(Nat) /\ SubSeq(q, 1, n) \o Drop(q, n) = q
    BY PrefixType, DropType, CutInTwo
  <1>5. /\ Drop(q \o r, n) \in Seq(Nat) /\ Len(Drop(q \o r, n)) = Len(q) + Len(r) - n
        /\ Drop(q, n) \o r \in Seq(Nat) /\ Len(Drop(q, n) \o r) = Len(q) - n + Len(r)
    <2>1. Drop(q \o r, n) \in Seq(Nat) /\ Len(Drop(q \o r, n)) = Len(q) + Len(r) - n
      <3> DEFINE t == q \o r
      <3>1. t \in Seq(Nat) /\ n \in 0 .. Len(t) /\ Len(t) = Len(q) + Len(r)
        BY <1>2, <1>3
      <3> HIDE DEF t
      <3>2. Drop(t, n) \in Seq(Nat) /\ Len(Drop(t, n)) = Len(t) - n
        BY <3>1, DropType
      <3> QED
        BY <3>1, <3>2 DEF t
    <2>2. Drop(q, n) \in Seq(Nat) /\ Len(Drop(q, n)) = Len(q) - n
      BY DropType
    <2> QED
      BY <2>1, <2>2, CatType
  <1>6. ASSUME NEW k \in 1 .. (Len(q) + Len(r) - n) PROVE (Drop(q, n) \o r)[k] = Drop(q \o r, n)[k]
    <2>1. Drop(q \o r, n)[k] = (q \o r)[n + k]
      <3> DEFINE t == q \o r
      <3>1. t \in Seq(Nat) /\ n \in 0 .. Len(t) /\ k \in 1 .. (Len(t) - n)
        BY <1>1, <1>2, <1>3
      <3> HIDE DEF t
      <3>2. Drop(t, n)[k] = t[n + k]
        BY <3>1, DropAt
      <3> QED
        BY <3>2 DEF t
    <2>2. (q \o r)[n + k] = IF n + k <= Len(q) THEN q[n + k] ELSE r[n + k - Len(q)]
      BY <1>1, ConcatProperties
    <2>3. Drop(q, n) \in Seq(Nat) /\ Len(Drop(q, n)) = Len(q) - n
      BY DropType
    <2>4. (Drop(q, n) \o r)[k] = IF k <= Len(q) - n THEN Drop(q, n)[k] ELSE r[k - (Len(q) - n)]
      BY <1>1, <2>3, ConcatProperties
    <2>5. CASE k <= Len(q) - n
      <3>2. k \in 1 .. (Len(q) - n)
        BY <1>1, <2>5
      <3>3. Drop(q, n)[k] = q[n + k]
        BY <3>2, DropAt
      <3>4. n + k <= Len(q)
        BY <1>1, <2>5
      <3> QED
        BY <2>1, <2>2, <2>4, <2>5, <3>3, <3>4
    <2>6. CASE ~(k <= Len(q) - n)
      BY <1>1, <2>1, <2>2, <2>4, <2>6
    <2> QED
      BY <2>5, <2>6
  <1>7. Len(Drop(q, n) \o r) = Len(Drop(q \o r, n)) /\ Len(Drop(q, n) \o r) = Len(q) + Len(r) - n
    BY <1>1, <1>5
  <1> DEFINE a == Drop(q, n) \o r
             b == Drop(q \o r, n)
  <1>8. /\ a \in Seq(Nat) /\ b \in Seq(Nat) /\ Len(a) = Len(b) /\ Len(a) = Len(q) + Len(r) - n
        /\ \A k \in 1 .. (Len(q) + Len(r) - n) : a[k] = b[k]
    BY <1>5, <1>6, <1>7
  <1> HIDE DEF a, b
  <1>9. a = b
    BY <1>8, SameSeq
  <1> QED
    BY <1>9 DEF a, b

-----------------------------------------------------------------------------
(* A deck that holds its file to read: its reader is where it says, and    *)
(* the frames in flight are the run of the file between the listener and   *)
(* the card.                                                               *)
Mid(d) == IF At("put", d) THEN scratch ELSE << >>
PlayPart(d) == handle[d] = "read" =>
    /\ src[d].pos + src[d].left = src[d].hdr
    /\ Stream(InFlight(d), due[d], src[d].pos, src[d].hdr)
PInv == \A d \in Deck : PlayPart(d)

LEMMA FlightParts ==
    ASSUME Data, NEW d \in Deck
    PROVE  /\ ring[d] \in Seq(Nat) /\ Mid(d) \in Seq(Nat) /\ src[d].stage \in Seq(Nat)
           /\ InFlight(d) = ring[d] \o Mid(d) \o src[d].stage /\ InFlight(d) \in Seq(Nat)
           /\ src[d].hdr \in Nat /\ src[d].pos \in Nat /\ src[d].left \in Nat /\ due[d] \in Nat
  <1>1. src[d] \in SrcType /\ ring[d] \in Seq(Nat) /\ scratch \in Seq(Nat) /\ due[d] \in Nat
    BY DEF Data
  <1>2. src[d].stage \in Seq(Nat) /\ src[d].hdr \in Nat /\ src[d].pos \in Nat /\ src[d].left \in Nat
    BY <1>1 DEF SrcType
  <1>3. Mid(d) \in Seq(Nat)
    BY <1>1, Empty DEF Mid
  <1>4. InFlight(d) = ring[d] \o Mid(d) \o src[d].stage
    BY DEF InFlight, Mid
  <1>5. ring[d] \o Mid(d) \in Seq(Nat)
    BY <1>1, <1>3, CatType
  <1>6. (ring[d] \o Mid(d)) \o src[d].stage \in Seq(Nat)
    BY <1>2, <1>5, CatType
  <1> QED
    BY <1>1, <1>2, <1>3, <1>4, <1>6

LEMMA PInit == Init => PInv
  BY DEF Init, PInv, PlayPart

LEMMA PlayKept ==
    ASSUME NEW c \in Deck, PlayPart(c), handle'[c] = "read" => handle[c] = "read",
           handle'[c] = "read" => ring'[c] = ring[c],
           UNCHANGED <<src[c], due[c]>>, Mid(c)' = Mid(c)
    PROVE  PlayPart(c)'
  BY DEF PlayPart, InFlight, Mid

(* A reader at frame p of a file of h frames, with nothing in flight.      *)
LEMMA PlayBegins ==
    ASSUME NEW c \in Deck, NEW s, DOMAIN s = Fields, NEW p \in Nat, s.hdr \in Nat, p <= s.hdr,
           src'[c] = Moved(s, p), due'[c] = FirstFrame(p, s.hdr), ring'[c] = << >>, main'.pc # "put"
    PROVE  PlayPart(c)'
  <1>1. /\ src'[c].hdr = s.hdr /\ src'[c].pos = p /\ src'[c].left = s.hdr - p
        /\ src'[c].stage = << >>
    BY DEF Moved, Fields
  <1>2. InFlight(c)' = << >>
    <2>1. << >> \o << >> \o << >> = << >>
      OBVIOUS
    <2> QED
      BY <1>1, <2>1 DEF InFlight, At
  <1>3. Stream(<< >>, FirstFrame(p, s.hdr), p, s.hdr)
    BY StreamEmpty
  <1> QED
    BY <1>1, <1>2, <1>3 DEF PlayPart

LEMMA PStep == HInv /\ FInv /\ EInv /\ LoopInv /\ PInv /\ [Next]_vars => PInv'
  <1> SUFFICES ASSUME HInv, FInv, EInv, LoopInv, PInv, [Next]_vars, NEW c \in Deck
               PROVE  PlayPart(c)'
    BY DEF PInv
  <1> USE DEF playVars, fileVars, recVars, takeVars
  <1>0. PlayPart(c) /\ Data /\ ScratchFits
    BY DEF PInv, FInv
  <1>1. CASE UNCHANGED vars
    <2>1. UNCHANGED <<handle, ring, src, due, scratch, main>>
      BY <1>1 DEF vars
    <2> QED
      BY <1>0, <2>1, PlayKept DEF Mid, At
  <1>2. CASE Process
    <2>1. UNCHANGED <<handle, ring, src, due>> /\ main'.pc # "put" /\ main.pc # "put"
      BY <1>2 DEF Process, Goto, InControl
    <2> QED
      BY <1>0, <2>1, PlayKept DEF Mid, At
  <1>3. ASSUME NEW d \in Deck, Control(d) PROVE PlayPart(c)'
    <2>1. ASSUME NEW f \in Files, NEW l \in BOOLEAN, NEW k \in Target(f), StartPlay(d, f, k, l)
          PROVE  PlayPart(c)'
      <3> DEFINE n == Body(f)
                 s == [NoFile EXCEPT !.hdr = n, !.len = f.len, !.raw = f.raw, !.conv = f.conv]
      <3>1. n \in Nat /\ k \in Nat
        <4>1. f \in FileType
          BY FilesAssumption
        <4>2. n \in Nat /\ f.hdr \in Nat
          BY <4>1, BodyType DEF FileType
        <4> QED
          BY <2>1, <4>2 DEF StartPlay, Target
      <3>2. PICK p \in CanSeek(Least(k, n)) : /\ src' = [src EXCEPT ![d] = Moved(s, p)]
                                              /\ due' = [due EXCEPT ![d] = FirstFrame(p, n)]
        BY <2>1 DEF StartPlay
      <3>3. DOMAIN s = Fields /\ s.hdr = n
        BY DEF NoFile, Fields
      <3>4. /\ handle' = [handle EXCEPT ![d] = "read"] /\ ring' = [ring EXCEPT ![d] = << >>]
            /\ main'.pc = "armplay" /\ main.pc = "control"
        BY <2>1 DEF StartPlay, Open, PlayStart, Goto, Call, InControl
      <3> HIDE DEF n, s
      <3>5. p \in Nat /\ p <= n
        BY <3>1, <3>2, SeekType
      <3>6. CASE c = d
        <4>1. src'[c] = Moved(s, p) /\ due'[c] = FirstFrame(p, s.hdr) /\ ring'[c] = << >>
          BY <1>0, <3>2, <3>3, <3>4, <3>6 DEF Data
        <4> QED
          BY <3>1, <3>3, <3>4, <3>5, <4>1, PlayBegins
      <3>7. CASE c # d
        <4>1. UNCHANGED <<src[c], due[c], ring[c], handle[c]>>
          BY <1>0, <3>2, <3>4, <3>7 DEF Data, HInv, ControlType
        <4> QED
          BY <1>0, <3>4, <4>1, PlayKept DEF Mid, At
      <3> QED
        BY <3>6, <3>7
    <2>2. CASE ArmPlay(d) \/ ArmRecord(d) \/ StopRecord(d) \/ LeaveRecord(d) \/ SeekPlay(d) \/ SeekFails(d)
      <3>1. UNCHANGED <<handle, ring, src, due>> /\ main'.pc # "put" /\ main.pc # "put"
        BY <2>2 DEF ArmPlay, ArmRecord, StopRecord, LeaveRecord, SeekPlay, SeekFails, Goto, At, Call, InControl
      <3> QED
        BY <1>0, <3>1, PlayKept DEF Mid, At
    <2>3. CASE StartRecord(d)
      <3>1. UNCHANGED <<src, due>> /\ main'.pc # "put" /\ main.pc # "put"
        BY <2>3 DEF StartRecord, Goto, Call, InControl
      <3>2. \/ UNCHANGED <<handle, ring>>
            \/ handle' = [handle EXCEPT ![d] = "write"] /\ ring' = [ring EXCEPT ![d] = << >>]
        BY <2>3 DEF StartRecord, Open, RecordStart
      <3>3. /\ handle'[c] = "read" => handle[c] = "read"
            /\ handle'[c] = "read" => ring'[c] = ring[c]
        BY <1>0, <3>2 DEF HInv, ControlType, Data
      <3> QED
        BY <1>0, <3>1, <3>3, PlayKept DEF Mid, At
    <2>4. CASE StopPlay(d)
      <3>1. /\ UNCHANGED <<src, due, ring, scratch, main>>
            /\ handle' = [handle EXCEPT ![d] = "closed"]
        BY <2>4 DEF StopPlay, Close
      <3>2. handle'[c] = "read" => handle[c] = "read"
        BY <3>1 DEF HInv, ControlType
      <3> QED
        BY <1>0, <3>1, <3>2, PlayKept DEF Mid, At
    <2>5. ASSUME NEW l \in BOOLEAN, SetLoop(d, l) PROVE PlayPart(c)'
      <3>1. UNCHANGED <<handle, ring, src, due, scratch, main>>
        BY <2>5 DEF SetLoop
      <3> QED
        BY <1>0, <3>1, PlayKept DEF Mid, At
    <2>6. ASSUME NEW k \in Target(src[d]), SeekTo(d, k) PROVE PlayPart(c)'
      <3> DEFINE p == Least(k, src[d].hdr)
      <3>1. /\ src' = [src EXCEPT ![d] = Moved(src[d], p)]
            /\ due' = [due EXCEPT ![d] = FirstFrame(p, src[d].hdr)]
            /\ ring' = [ring EXCEPT ![d] = << >>] /\ UNCHANGED handle
            /\ main'.pc = "armplay" /\ main.pc = "seek" /\ main.deck = d
        BY <2>6 DEF SeekTo, PlayStart, Goto, At
      <3>2. src[d].hdr \in Nat /\ k \in Nat
        <4>1. src[d].hdr \in Nat
          BY <1>0, FlightParts
        <4> QED
          BY <4>1 DEF Target
      <3>3. p \in Nat /\ p <= src[d].hdr
        BY <3>2, LeastType
      <3> HIDE DEF p
      <3>4. DOMAIN src[d] = Fields
        BY DEF LoopInv
      <3>5. CASE c = d
        <4>1. src'[c] = Moved(src[d], p) /\ due'[c] = FirstFrame(p, src[d].hdr) /\ ring'[c] = << >>
          BY <1>0, <3>1, <3>5 DEF Data
        <4> QED
          BY <3>1, <3>2, <3>3, <3>4, <4>1, PlayBegins
      <3>6. CASE c # d
        <4>1. UNCHANGED <<src[c], due[c], ring[c], handle[c]>>
          BY <1>0, <3>1, <3>6 DEF Data
        <4> QED
          BY <1>0, <3>1, <4>1, PlayKept DEF Mid, At
      <3> QED
        BY <3>5, <3>6
    <2> QED
      BY <1>3, <2>1, <2>2, <2>3, <2>4, <2>5, <2>6 DEF Control
  <1>4. ASSUME NEW d \in Deck, FillRead(d) PROVE PlayPart(c)'
    <2> DEFINE want == Wanted(d)
               all(n) == src[d].stage \o Frames(src[d].pos, n)
               got(n) == Least(want, Len(all(n)))
               next(n) == [src[d] EXCEPT !.pos = src[d].pos + n, !.left = src[d].left - n,
                                         !.stage = Drop(all(n), got(n))]
    <2>1. /\ UNCHANGED <<handle, ring, due>> /\ main.pc = "fill" /\ main.deck = d
          /\ main'.pc = "put" /\ main'.deck = d
      BY <1>4 DEF FillRead, At, HInv, ControlType
    <2>2. PICK n \in CanRead(Needed(src[d], want)) :
            /\ scratch' = SubSeq(all(n), 1, got(n))
            /\ src' = [src EXCEPT ![d] = next(n)]
      BY <1>4 DEF FillRead
    <2> HIDE DEF want
    <2>3. CASE c # d
      <3>1. src'[c] = src[c] /\ Mid(c)' = Mid(c)
        BY <1>0, <2>1, <2>2, <2>3 DEF Data, Mid, At
      <3> QED
        BY <1>0, <2>1, <3>1, PlayKept
    <2>4. CASE c = d
      <3>1. n \in Nat /\ n <= src[d].left
        <4>1. src[d] \in SrcType /\ want \in Nat
          <5>1. src[d] \in SrcType /\ Len(ring[d]) \in Nat /\ Len(ring[d]) <= RingCap
            BY <1>0, LenType DEF Data
          <5>2. Space(d) \in Nat
            BY <5>1, Sizes DEF Space
          <5> QED
            BY <5>1, <5>2, Sizes, LeastType DEF Wanted, want
        <4>2. /\ Needed(src[d], want) \in Nat /\ Needed(src[d], want) <= OnCard(src[d])
              /\ OnCard(src[d]) \in Nat /\ OnCard(src[d]) <= src[d].left /\ src[d].left \in Nat
          BY <4>1, NeededType, OnCardType DEF SrcType
        <4> QED
          BY <4>2 DEF CanRead
      <3>2. all(n) \in Seq(Nat) /\ got(n) \in 0 .. Len(all(n))
        <4>1. src[d].stage \in Seq(Nat) /\ src[d].pos \in Nat
          BY <1>0, FlightParts
        <4>2. Frames(src[d].pos, n) \in Seq(Nat)
          BY <3>1, <4>1, FramesType
        <4>3. all(n) \in Seq(Nat)
          BY <4>1, <4>2, CatType
        <4> HIDE DEF all
        <4>4. Len(all(n)) \in Nat /\ want \in Nat
          <5>1. Len(ring[d]) \in Nat /\ Len(ring[d]) <= RingCap
            BY <1>0, LenType DEF Data
          <5>2. Space(d) \in Nat
            BY <5>1, Sizes DEF Space
          <5>3. want \in Nat
            BY <5>2, Sizes, LeastType DEF Wanted, want
          <5> QED
            BY <4>3, <5>3, LenType
        <4> QED
          BY <4>3, <4>4, LeastType
      <3>3. /\ SubSeq(all(n), 1, got(n)) \in Seq(Nat) /\ Drop(all(n), got(n)) \in Seq(Nat)
            /\ SubSeq(all(n), 1, got(n)) \o Drop(all(n), got(n)) = all(n)
        BY <3>2, PrefixType, DropType, CutInTwo
      <3>4. /\ ring[d] \in Seq(Nat) /\ src[d].stage \in Seq(Nat) /\ InFlight(d) \in Seq(Nat)
            /\ src[d].pos \in Nat /\ src[d].hdr \in Nat /\ src[d].left \in Nat /\ due[d] \in Nat
        BY <1>0, FlightParts
      <3>5. InFlight(d) = ring[d] \o src[d].stage
        <4>1. ring[d] \o << >> = ring[d]
          BY <3>4, ConcatEmptySeq
        <4> QED
          BY <2>1, <4>1 DEF InFlight, At
      <3>6. handle[d] = "read"
        BY <2>1 DEF HInv, PlaceOfMain, HandleMatchesMode
      <3>7. /\ src[d].pos + src[d].left = src[d].hdr
            /\ Stream(InFlight(d), due[d], src[d].pos, src[d].hdr)
        BY <1>0, <2>4, <3>6 DEF PlayPart
      <3>8. /\ src'[d].pos = src[d].pos + n /\ src'[d].left = src[d].left - n
            /\ src'[d].stage = Drop(all(n), got(n)) /\ src'[d].hdr = src[d].hdr
        <4> DEFINE z == Drop(all(n), got(n))
        <4> HIDE DEF z
        <4>1. src'[d] = [src[d] EXCEPT !.pos = src[d].pos + n, !.left = src[d].left - n, !.stage = z]
          BY <1>0, <2>2 DEF Data, z
        <4>2. DOMAIN src[d] = Fields
          BY DEF LoopInv
        <4> QED
          BY <4>1, <4>2 DEF Fields, z
      <3>9. InFlight(d)' = InFlight(d) \o Frames(src[d].pos, n)
        <4> DEFINE a == SubSeq(all(n), 1, got(n))
                   b == Drop(all(n), got(n))
                   f == Frames(src[d].pos, n)
        <4>1. InFlight(d)' = ring[d] \o a \o b
          BY <2>1, <2>2, <3>8 DEF InFlight, At
        <4>2. a \in Seq(Nat) /\ b \in Seq(Nat) /\ f \in Seq(Nat) /\ a \o b = src[d].stage \o f
          BY <3>1, <3>3, <3>4, FramesType
        <4> HIDE DEF a, b, f
        <4>3. (ring[d] \o a) \o b = ring[d] \o (a \o b)
          BY <3>4, <4>2, CatAssoc, ZenonT(60)
        <4>4. (ring[d] \o src[d].stage) \o f = ring[d] \o (src[d].stage \o f)
          BY <3>4, <4>2, CatAssoc, ZenonT(60)
        <4> QED
          BY <3>5, <4>1, <4>2, <4>3, <4>4 DEF f
      <3>10. Stream(InFlight(d) \o Frames(src[d].pos, n), due[d], src[d].pos + n, src[d].hdr)
        <4>1. src[d].pos + n <= src[d].hdr
          BY <3>1, <3>4, <3>7
        <4> QED
          BY <3>1, <3>4, <3>7, <4>1, StreamRead
      <3>11. (src[d].pos + n) + (src[d].left - n) = src[d].hdr
        BY <3>1, <3>4, <3>7
      <3> QED
        BY <2>1, <2>4, <3>7, <3>8, <3>9, <3>10, <3>11 DEF PlayPart
    <2> QED
      BY <2>3, <2>4
  <1>5. ASSUME NEW d \in Deck, FillWrite(d) PROVE PlayPart(c)'
    <2> DEFINE put == Least(Len(scratch), Space(d))
    <2>1. /\ UNCHANGED <<handle, src, due, scratch>> /\ main.pc = "put" /\ main.deck = d /\ main'.pc = "fill"
          /\ ring' = [ring EXCEPT ![d] = ring[d] \o SubSeq(scratch, 1, put)]
      BY <1>5 DEF FillWrite, At, Goto
    <2>2. put = Len(scratch)
      <3>1. Len(scratch) <= Space(d)
        BY <1>0, <2>1 DEF ScratchFits, At
      <3> QED
        BY <3>1 DEF Least
    <2> HIDE DEF put
    <2>3. SubSeq(scratch, 1, put) = scratch
      BY <1>0, <2>2, SubSeqFull DEF Data
    <2>4. CASE c = d
      <3>1. ring[c] \in Seq(Nat) /\ scratch \in Seq(Nat) /\ ring[c] \o scratch \in Seq(Nat)
        BY <1>0, CatType DEF Data
      <3>2. InFlight(c) = (ring[c] \o scratch) \o src[c].stage
        BY <2>1, <2>4 DEF InFlight, At
      <3>3. ring'[c] = ring[c] \o scratch
        BY <1>0, <2>1, <2>3, <2>4 DEF Data
      <3>4. (ring[c] \o scratch) \o << >> = ring[c] \o scratch
        BY <3>1, ConcatEmptySeq
      <3>5. InFlight(c)' = InFlight(c)
        BY <2>1, <3>2, <3>3, <3>4 DEF InFlight, At
      <3> QED
        BY <1>0, <2>1, <3>5 DEF PlayPart
    <2>5. CASE c # d
      <3>1. ring'[c] = ring[c]
        BY <1>0, <2>1, <2>5 DEF Data
      <3> QED
        BY <1>0, <2>1, <2>5, <3>1, PlayKept DEF Mid, At
    <2> QED
      BY <2>4, <2>5
  <1>6. ASSUME NEW d \in Deck, FillRewind(d) PROVE PlayPart(c)'
    <2>1. /\ UNCHANGED <<handle, ring, due>> /\ main.pc = "fill" /\ main.deck = d /\ main'.pc = "fill"
          /\ AtEnd(src[d])
      BY <1>6 DEF FillRewind, At, HInv, ControlType
    <2>2. CASE UNCHANGED src
      BY <1>0, <2>1, <2>2, PlayKept DEF Mid, At
    <2>3. CASE src' = [src EXCEPT ![d] = [src[d] EXCEPT !.pos = 0, !.left = src[d].hdr]]
      <3>1. CASE c # d
        <4>1. src'[c] = src[c]
          BY <1>0, <2>3, <3>1 DEF Data
        <4> QED
          BY <1>0, <2>1, <4>1, PlayKept DEF Mid, At
      <3>2. CASE c = d
        <4>1. /\ src'[d].pos = 0 /\ src'[d].left = src[d].hdr /\ src'[d].hdr = src[d].hdr
              /\ src'[d].stage = src[d].stage
          BY <1>0, <2>3 DEF Data, LoopInv, Fields
        <4>2. handle[d] = "read"
          BY <2>1 DEF HInv, PlaceOfMain, HandleMatchesMode
        <4>3. /\ src[d].pos \in Nat /\ src[d].hdr \in Nat /\ src[d].left = 0
              /\ src[d].pos + src[d].left = src[d].hdr
              /\ Stream(InFlight(d), due[d], src[d].pos, src[d].hdr)
          BY <1>0, <2>1, <3>2, <4>2, FlightParts DEF PlayPart, AtEnd
        <4>4. FirstFrame(src[d].pos, src[d].hdr) = 0 /\ FirstFrame(0, src[d].hdr) = 0
          BY <4>3 DEF FirstFrame
        <4>5. Stream(InFlight(d), due[d], 0, src[d].hdr)
          BY <4>3, <4>4 DEF Stream, Begins, Ends
        <4>6. InFlight(d)' = InFlight(d)
          BY <2>1, <4>1 DEF InFlight, At
        <4> QED
          BY <2>1, <3>2, <4>1, <4>3, <4>5, <4>6 DEF PlayPart
      <3> QED
        BY <3>1, <3>2
    <2> QED
      BY <1>6, <2>2, <2>3 DEF FillRewind
  <1>7. ASSUME NEW d \in Deck,
               Service(d) \/ FillEof(d) \/ FillDry(d) \/ FillFull(d) \/ CheckFinished(d) \/ DrainEnd(d) \/ Drain(d)
        PROVE  PlayPart(c)'
    <2>1. UNCHANGED <<src, due>> /\ (~Drain(d) => UNCHANGED ring)
      BY <1>7 DEF Service, FillEof, FillDry, FillFull, CheckFinished, DrainEnd, Drain
    <2>2. main.pc # "put" /\ main'.pc # "put"
      BY <1>7 DEF Service, FillEof, FillDry, FillFull, CheckFinished, DrainEnd, Drain, Goto, Return, At
    <2>3. UNCHANGED handle \/ handle' = [handle EXCEPT ![d] = "closed"]
      BY <1>7 DEF Service, FillEof, FillDry, FillFull, CheckFinished, DrainEnd, Drain, Close
    <2>4. handle'[c] = "read" => handle[c] = "read"
      BY <2>3 DEF HInv, ControlType
    <2>5. handle'[c] = "read" => ring'[c] = ring[c]
      <3>1. CASE Drain(d)
        <4>1. handle[d] = "write" \/ handle[d] = "closed"
          BY <3>1 DEF Drain, At, HInv, PlaceOfMain, HandleMatchesMode
        <4>2. \A b \in Deck : b # d => ring'[b] = ring[b]
          BY <1>0, <3>1 DEF Drain, Data
        <4> QED
          BY <2>4, <4>1, <4>2
      <3> QED
        BY <2>1, <3>1
    <2> QED
      BY <1>0, <2>1, <2>2, <2>4, <2>5, PlayKept DEF Mid, At
  <1>8. ASSUME NEW d \in Deck, NEW n \in 1 .. Block, PlayConsume(d, n) PROVE PlayPart(c)'
    <2> DEFINE got == Least(n, Len(ring[d]))
    <2>1. /\ UNCHANGED <<handle, src, scratch, main>> /\ mode[d] = "play" /\ ring[d] # << >>
          /\ ring' = [ring EXCEPT ![d] = Drop(ring[d], got)]
          /\ due' = [due EXCEPT ![d] = NextFrame(d, ring[d][got])]
      BY <1>8 DEF PlayConsume
    <2>2. CASE c # d
      <3>1. ring'[c] = ring[c] /\ due'[c] = due[c]
        BY <1>0, <2>1, <2>2 DEF Data
      <3> QED
        BY <1>0, <2>1, <3>1, PlayKept DEF Mid, At
    <2>3. CASE c = d
      <3>1. /\ ring[d] \in Seq(Nat) /\ Mid(d) \in Seq(Nat) /\ src[d].stage \in Seq(Nat)
            /\ InFlight(d) = (ring[d] \o Mid(d)) \o src[d].stage /\ InFlight(d) \in Seq(Nat)
            /\ src[d].hdr \in Nat /\ src[d].pos \in Nat /\ due[d] \in Nat /\ Len(ring[d]) \in Nat
        BY <1>0, FlightParts, LenType
      <3>2. got \in 1 .. Len(ring[d])
        <4>1. Len(ring[d]) > 0
          BY <2>1, <3>1, EmptySeq
        <4> QED
          BY <3>1, <4>1, Sizes DEF Least
      <3> HIDE DEF got
      <3> DEFINE r == ring[d]
                 m == Mid(d)
                 t == src[d].stage
      <3>3. r \in Seq(Nat) /\ m \in Seq(Nat) /\ t \in Seq(Nat) /\ got \in 1 .. Len(r) /\ Len(r) \in Nat
            /\ InFlight(d) = (r \o m) \o t
        BY <3>1, <3>2
      <3>4. ring'[d] = Drop(r, got) /\ due'[d] = NextFrame(d, r[got])
        BY <1>0, <2>1 DEF Data
      <3>5. InFlight(d)' = (Drop(r, got) \o m) \o t
        BY <2>1, <3>4 DEF InFlight, Mid, At
      <3> HIDE DEF r, m, t
      <3>6. /\ r \o m \in Seq(Nat) /\ Len(r \o m) = Len(r) + Len(m) /\ Len(m) \in Nat
            /\ (r \o m) \o t \in Seq(Nat) /\ Len((r \o m) \o t) = Len(r \o m) + Len(t) /\ Len(t) \in Nat
        <4>1. r \o m \in Seq(Nat) /\ Len(r \o m) = Len(r) + Len(m) /\ Len(m) \in Nat
          BY <3>3, CatType, LenType
        <4> QED
          BY <3>3, <4>1, CatType, LenType
      <3>7. got \in 0 .. Len(r) /\ got \in 0 .. Len(r \o m) /\ got \in 1 .. Len((r \o m) \o t)
        BY <3>3, <3>6
      <3>8. Drop(r, got) \o m = Drop(r \o m, got)
        BY <3>3, <3>7, DropOfCat
      <3>9. Drop(r \o m, got) \o t = Drop((r \o m) \o t, got)
        BY <3>3, <3>6, <3>7, DropOfCat
      <3>10. ((r \o m) \o t)[got] = r[got]
        <4>1. (r \o m)[got] = r[got]
          BY <3>3, <3>6, <3>7, ConcatProperties
        <4>2. got \in 1 .. Len(r \o m) + Len(t) /\ got <= Len(r \o m)
          BY <3>3, <3>6
        <4>3. ((r \o m) \o t)[got] = (r \o m)[got]
          BY <3>3, <3>6, <4>2, ConcatProperties
        <4> QED
          BY <4>1, <4>3
      <3>11. InFlight(d)' = Drop(InFlight(d), got) /\ got \in 1 .. Len(InFlight(d))
             /\ due'[d] = NextOf(src[d].hdr, InFlight(d)[got])
        BY <3>3, <3>4, <3>5, <3>7, <3>8, <3>9, <3>10 DEF NextFrame, NextOf
      <3>12. handle[d] = "read"
        BY <2>1 DEF HInv, HandleMatchesMode
      <3>13. /\ src[d].pos + src[d].left = src[d].hdr
             /\ Stream(InFlight(d), due[d], src[d].pos, src[d].hdr)
        BY <1>0, <2>3, <3>12 DEF PlayPart
      <3>14. Stream(Drop(InFlight(d), got), NextOf(src[d].hdr, InFlight(d)[got]), src[d].pos, src[d].hdr)
        BY <3>1, <3>11, <3>13, StreamConsume
      <3> QED
        BY <2>1, <2>3, <3>11, <3>13, <3>14 DEF PlayPart
    <2> QED
      BY <2>2, <2>3
  <1>9. ASSUME NEW d \in Deck, NEW n \in 1 .. Block, RecordProduce(d, n) PROVE PlayPart(c)'
    <2>1. UNCHANGED <<handle, src, due, scratch, main>> /\ mode[d] = "record"
          /\ \A b \in Deck : b # d => ring'[b] = ring[b]
      BY <1>0, <1>9 DEF RecordProduce, Data
    <2>2. handle[d] # "read"
      BY <2>1 DEF HInv, PlaceOfMain, HandleMatchesMode, At, Holding
    <2> QED
      BY <1>0, <2>1, <2>2, PlayKept DEF Mid, At
  <1>10. ASSUME NEW d \in Deck, Pump(d) PROVE PlayPart(c)'
    BY <1>10, <1>4, <1>5, <1>6, <1>7 DEF Pump
  <1> QED
    BY <1>1, <1>2, <1>3, <1>8, <1>9, <1>10 DEF Next, Interrupt

(* The listener hears the file (stream_deck.cpp, audio_stream.h): whatever *)
(* the interleaving of the interrupt with the pump, with seeks, rewinds,   *)
(* restarts and calls the card fails, what is in flight of a playing deck  *)
(* begins with the frame that is due, runs on frame by frame and goes on   *)
(* where the card is about to be read.                                     *)
THEOREM HeardInOrder == Spec => []PlaybackInOrder
  <1>1. HInv /\ FInv /\ PInv => PlaybackInOrder
    <2> SUFFICES ASSUME HInv, FInv, PInv, NEW d \in Deck, mode[d] = "play"
                 PROVE  /\ InFlight(d) # << >> => InFlight(d)[1] = due[d]
                        /\ \A k \in 1 .. (Len(InFlight(d)) - 1) :
                             InFlight(d)[k + 1] = NextFrame(d, InFlight(d)[k])
                        /\ src[d].left > 0 => NextOnCard(d) = src[d].pos
      BY DEF PlaybackInOrder
    <2>1. handle[d] = "read" /\ Data
      BY DEF HInv, HandleMatchesMode, FInv
    <2>2. src[d].pos + src[d].left = src[d].hdr /\ Stream(InFlight(d), due[d], src[d].pos, src[d].hdr)
      BY <2>1 DEF PInv, PlayPart
    <2>3. src[d].pos \in Nat /\ src[d].left \in Nat /\ src[d].hdr \in Nat
      BY <2>1, FlightParts
    <2>4. src[d].left > 0 => FirstFrame(src[d].pos, src[d].hdr) = src[d].pos
      BY <2>2, <2>3 DEF FirstFrame
    <2>5. src[d].left > 0 => NextOnCard(d) = src[d].pos
      BY <2>2, <2>4 DEF Stream, Begins, Ends, NextOnCard, NextOf, NextFrame
    <2> QED
      BY <2>2, <2>5 DEF Stream, Runs, Begins, NextOf, NextFrame
  <1> QED
    BY <1>1, HInit, HStep, FInit, FStep, EInit, EStep, LoopInit, LoopStep, PInit, PStep, PTL DEF Spec

-----------------------------------------------------------------------------
(* What the run checks of MCStreamDeck's setting "slow", whose constants   *)
(* are free: decks of any number, on a card that may fail and may be       *)
(* slower than the audio.                                                  *)

InSlow == setting = "slow"

LEMMA SlowInit == MCInit /\ InSlow => Init
  BY DEF MCInit, InSlow, Slow, InTwo, InFailing

LEMMA SlowStep == InSlow /\ [MCNext]_MCVars => InSlow' /\ [Next]_vars
  BY DEF MCNext, MCVars, InSlow, Slow, InTwo, InFailing

LEMMA SlowSpec == MCSpec /\ InSlow => Spec /\ []InSlow
  BY SlowInit, SlowStep, PTL DEF MCSpec, Spec

(* Types, sizes, handles and modes agree in every state of "slow".         *)
THEOREM SlowConsistent == MCSpec /\ setting = "slow" => []DecksConsistent
  <1>1. Consistent /\ InSlow => DecksConsistent
    BY DEF InSlow, DecksConsistent, Either
  <1> QED
    BY <1>1, SlowSpec, StaysConsistent, PTL DEF InSlow

(* The listener hears the file in order, and a take is what was recorded,  *)
(* in every state of "slow".                                               *)
THEOREM SlowFaithful == MCSpec /\ setting = "slow" => []DecksFaithful
  <1>1. PlaybackInOrder /\ TakeIsWhole /\ InSlow => DecksFaithful
    BY DEF InSlow, DecksFaithful, Either
  <1> QED
    BY <1>1, SlowSpec, HeardInOrder, WholeTakes, PTL DEF InSlow

(* The pump of "slow" never ends a deck whose loop is on, and only the     *)
(* main loop touches a ring that is being reset.                           *)
THEOREM SlowUndisturbed == MCSpec /\ setting = "slow" => StreamsUndisturbed
  <1>1. InSlow /\ [NoEarlyEnd]_vars /\ [OnlyMain]_vars /\ [MCNext]_MCVars
          => [Either(NoEarlyEnd /\ OnlyMain, Two!NoEarlyEnd /\ Two!OnlyMain,
                     Failing!NoEarlyEnd /\ Failing!OnlyMain)]_MCVars
    <2>1. UNCHANGED vars => NoEarlyEnd /\ OnlyMain
      BY DEF vars, playVars, NoEarlyEnd, OnlyMain
    <2> QED
      BY <2>1 DEF InSlow, Either, MCVars
  <1> QED
    BY <1>1, SlowSpec, LoopsOn, RingAlone, PTL
    DEF InSlow, MCSpec, StreamsUndisturbed, LoopGoesOn, RingLeftAlone

-----------------------------------------------------------------------------
(* A client of the stream, TapeEngine (the instance T): what is due next   *)
(* is the head of the ring or the place on the card, and the engine's      *)
(* account of a loop is of that frame.                                     *)

TapeKeeps == [loop : T!Modes, primed : BOOLEAN, cur : Int, next : Int, pos : Nat,
              faded : 0 .. Floor, want : BOOLEAN]
ReelKeeps == [mode : {"idle", "play", "record"}, finalizing : BOOLEAN, looping : BOOLEAN,
              eof : BOOLEAN, ring : Seq(Nat), length : Nat, read : Nat]
PlayKeeps == [steady : BOOLEAN, fripp : BOOLEAN, passes : Nat, ended : BOOLEAN, primed : BOOLEAN]

\* The frame after f, and the one a file goes on with.
After(d, f) == IF f + 1 = d.length THEN 0 ELSE f + 1
OnReel(d) == IF d.read = d.length THEN 0 ELSE d.read
Due(d) == IF d.ring = <<>> THEN OnReel(d) ELSE Head(d.ring)

\* A file that is played: the ring holds the frames before the one on the card.
RunsOn(d) ==
    /\ d.length >= 3
    /\ \A i \in 1 .. Len(d.ring) :
          /\ d.ring[i] < d.length
          /\ After(d, d.ring[i]) = IF i = Len(d.ring) THEN OnReel(d) ELSE d.ring[i + 1]

\* The engine's account of the loop.
Agrees(z) ==
    z.past.steady => /\ z.tape.pos = Due(z.deck)
                     /\ z.past.fripp => z.tape.faded = z.past.passes

Views == [tape : TapeKeeps, deck : ReelKeeps, past : PlayKeeps]
Within(z) == Len(z.deck.ring) <= ReelCap /\ z.deck.read <= z.deck.length
Modal(z) == /\ z.past.fripp => z.tape.loop = "fripp"
            /\ z.past.steady => z.tape.loop \in T!Shaped

Keeps(z) ==
    /\ z \in Views /\ Within(z) /\ Modal(z)
    /\ z.deck.mode = "play" => /\ RunsOn(z.deck) /\ Agrees(z)
                               /\ ~z.tape.primed => Due(z.deck) = 0

\* The same of three values.
Holds(t, d, p) ==
    /\ t \in TapeKeeps /\ d \in ReelKeeps /\ p \in PlayKeeps
    /\ Len(d.ring) <= ReelCap /\ d.read <= d.length
    /\ p.fripp => t.loop = "fripp"
    /\ p.steady => t.loop \in T!Shaped
    /\ d.mode = "play" =>
          /\ RunsOn(d)
          /\ p.steady => /\ t.pos = Due(d)
                         /\ p.fripp => t.faded = p.passes
          /\ ~t.primed => Due(d) = 0

TapeInv == Holds(tape, reel, play)

-----------------------------------------------------------------------------
(* The ring: a frame is pulled from it, frames are added to it.            *)

LEMMA Reels ==
    /\ ReelCap \in Nat \ {0} /\ Floor \in Nat \ {0}
    /\ \A l \in Lengths : l \in Nat /\ l >= 3
  BY TapeParameters DEF T!TapeAssumption

LEMMA ModOf ==
    ASSUME NEW n \in Nat \ {0}, NEW q \in Nat, NEW r \in 0 .. n - 1
    PROVE  ((n * q) + r) % n = r
  OBVIOUS

LEMMA ModNext ==
    ASSUME NEW n \in Nat \ {0}, NEW a \in Nat
    PROVE  /\ a % n \in 0 .. n - 1
           /\ (a + 1) % n = IF (a % n) + 1 = n THEN 0 ELSE (a % n) + 1
<1>1. /\ a \div n \in Nat /\ a % n \in 0 .. n - 1
      /\ a = (n * (a \div n)) + (a % n)
  OBVIOUS
<1>2. CASE (a % n) + 1 = n
  <2>1. (n * ((a \div n) + 1)) + 0 = a + 1
    BY <1>1, <1>2
  <2>2. ((n * ((a \div n) + 1)) + 0) % n = 0
    BY <1>1, ModOf
  <2> QED
    BY <1>1, <1>2, <2>1, <2>2
<1>3. CASE (a % n) + 1 # n
  <2>1. (n * (a \div n)) + ((a % n) + 1) = a + 1
    BY <1>1
  <2>2. (a % n) + 1 \in 0 .. n - 1
    BY <1>1, <1>3
  <2>3. ((n * (a \div n)) + ((a % n) + 1)) % n = (a % n) + 1
    BY <1>1, <2>2, ModOf
  <2> QED
    BY <1>1, <1>3, <2>1, <2>3
<1> QED
  BY <1>2, <1>3

LEMMA ModLow ==
    ASSUME NEW n \in Nat \ {0}, NEW a \in 0 .. n
    PROVE  a % n = IF a = n THEN 0 ELSE a
  OBVIOUS

LEMMA TailIs ==
    ASSUME NEW q \in Seq(Nat), q # <<>>
    PROVE  /\ Len(q) \in Nat \ {0} /\ Len(Tail(q)) = Len(q) - 1
           /\ Tail(q) \in Seq(Nat) /\ Head(q) = q[1]
           /\ \A i \in 1 .. Len(q) - 1 : Tail(q)[i] = q[i + 1]
<1>1. Len(q) \in Nat \ {0}
  BY EmptySeq
<1>2. /\ Tail(q) \in Seq(Nat) /\ Len(Tail(q)) = Len(q) - 1
      /\ \A i \in 1 .. Len(Tail(q)) : Tail(q)[i] = q[i + 1]
  BY HeadTailProperties
<1>3. Head(q) = q[1]
  BY SMT
<1> QED
  BY <1>1, <1>2, <1>3

LEMMA NoneLeft == \A q \in Seq(Nat) : Len(q) \in Nat /\ (q = <<>> <=> Len(q) = 0)
  BY EmptySeq, LenProperties

\* A frame is pulled.
LEMMA TailRuns ==
    ASSUME NEW d \in ReelKeeps, RunsOn(d), d.ring # <<>>,
           NEW e, e = [d EXCEPT !.ring = Tail(@)]
    PROVE  /\ e \in ReelKeeps /\ RunsOn(e) /\ Len(e.ring) + 1 = Len(d.ring)
           /\ e.read = d.read /\ e.length = d.length /\ e.mode = d.mode
           /\ Due(d) = Head(d.ring) /\ Due(d) \in 0 .. d.length - 1
           /\ Due(e) = After(d, Due(d))
<1> DEFINE r == d.ring
           t == Tail(d.ring)
<1>1. r \in Seq(Nat) /\ d.length \in Nat /\ r # <<>>
  BY DEF ReelKeeps
<1>2. /\ Len(r) \in Nat \ {0} /\ Len(t) = Len(r) - 1 /\ t \in Seq(Nat) /\ Head(r) = r[1]
      /\ \A i \in 1 .. Len(r) - 1 : t[i] = r[i + 1]
  BY <1>1, TailIs
<1>3. /\ e \in ReelKeeps /\ e.ring = t /\ e.read = d.read /\ e.length = d.length
      /\ e.mode = d.mode
  BY <1>2 DEF ReelKeeps
<1>4. /\ d.length >= 3
      /\ \A i \in 1 .. Len(r) : /\ r[i] < d.length
                                /\ After(d, r[i]) = IF i = Len(r) THEN OnReel(d) ELSE r[i + 1]
  BY DEF RunsOn
<1>5. OnReel(e) = OnReel(d) /\ \A f : After(e, f) = After(d, f)
  BY <1>3 DEF OnReel, After
<1> HIDE DEF r, t
<1>6. \A i \in 1 .. Len(t) : /\ t[i] < d.length
                             /\ After(d, t[i]) = IF i = Len(t) THEN OnReel(d) ELSE t[i + 1]
  <2> TAKE i \in 1 .. Len(t)
  <2>1. i \in 1 .. Len(r) - 1 /\ i + 1 \in 1 .. Len(r)
    BY <1>2
  <2>2. t[i] = r[i + 1]
    BY <1>2, <2>1
  <2>4. ASSUME i # Len(t) PROVE t[i + 1] = r[(i + 1) + 1]
    <3>1. i + 1 \in 1 .. Len(r) - 1
      BY <1>2, <2>4
    <3> QED
      BY <1>2, <3>1
  <2>3. /\ r[i + 1] < d.length
        /\ After(d, r[i + 1]) = IF i + 1 = Len(r) THEN OnReel(d) ELSE r[(i + 1) + 1]
    BY <1>4, <2>1
  <2>5. i = Len(t) <=> i + 1 = Len(r)
    BY <1>2
  <2>6. CASE i = Len(t)
    BY <2>2, <2>3, <2>5, <2>6
  <2>7. CASE i # Len(t)
    BY <2>2, <2>3, <2>4, <2>5, <2>7
  <2> QED
    BY <2>6, <2>7
<1>7. RunsOn(e)
  <2>1. e.length >= 3
    BY <1>3, <1>4
  <2>2. e.ring = t /\ e.length = d.length /\ OnReel(e) = OnReel(d)
    BY <1>3, <1>5
  <2>3. ASSUME NEW i \in 1 .. Len(e.ring)
        PROVE  /\ e.ring[i] < e.length
               /\ After(e, e.ring[i]) = IF i = Len(e.ring) THEN OnReel(e) ELSE e.ring[i + 1]
    <3>1. /\ t[i] < d.length
          /\ After(d, t[i]) = IF i = Len(t) THEN OnReel(d) ELSE t[i + 1]
      BY <1>6, <2>2, <2>3
    <3>2. After(e, t[i]) = After(d, t[i])
      BY <1>5
    <3> QED
      BY <2>2, <3>1, <3>2
  <2> QED
    BY <2>1, <2>3 DEF RunsOn
<1>8. r[1] \in Nat
  BY <1>1, <1>2, ElementOfSeq
<1>9. /\ Due(d) = Head(r) /\ Due(d) = r[1] /\ r[1] \in 0 .. d.length - 1
      /\ After(d, r[1]) = IF 1 = Len(r) THEN OnReel(d) ELSE r[2]
  <2>1. Due(d) = Head(r)
    BY DEF Due, r
  <2>2. 1 \in 1 .. Len(r)
    BY <1>2
  <2>3. /\ r[1] < d.length
        /\ After(d, r[1]) = IF 1 = Len(r) THEN OnReel(d) ELSE r[1 + 1]
    BY <1>4, <2>2
  <2> QED
    BY <1>1, <1>2, <1>8, <2>1, <2>3
<1>10. Due(e) = After(d, Due(d))
  <2>1. t = <<>> <=> Len(r) = 1
    BY <1>2, NoneLeft
  <2>2. t # <<>> => Head(t) = t[1] /\ t[1] = r[2]
    BY <1>2, <2>1, TailIs
  <2> QED
    BY <1>3, <1>5, <1>9, <2>1, <2>2 DEF Due
<1> QED
  BY <1>2, <1>3, <1>7, <1>9, <1>10 DEF r

\* What the pump reads from place k on, around the seam.
LEMMA FramesIs ==
    ASSUME NEW d \in ReelKeeps, d.length >= 3, NEW k \in Nat, NEW n \in Nat
    PROVE  /\ T!FramesFrom(d, k, n) \in Seq(Nat) /\ Len(T!FramesFrom(d, k, n)) = n
           /\ \A i \in 1 .. n : T!FramesFrom(d, k, n)[i] = (k + (i - 1)) % d.length
<1>1. d.length \in Nat \ {0}
  BY DEF ReelKeeps
<1>2. \A i \in 1 .. n : (k + i - 1) = k + (i - 1) /\ (k + i - 1) \in Nat
  OBVIOUS
<1>3. \A i \in 1 .. n : (k + i - 1) % d.length \in Nat
  <2> TAKE i \in 1 .. n
  <2>1. PICK m \in Nat : m = k + i - 1
    BY <1>2
  <2>2. m % d.length \in 0 .. d.length - 1
    BY <1>1, ModNext
  <2> QED
    BY <1>1, <2>1, <2>2
<1>4. T!FramesFrom(d, k, n) \in [1 .. n -> Nat]
  BY <1>3 DEF T!FramesFrom
<1>5. T!FramesFrom(d, k, n) \in Seq(Nat) /\ Len(T!FramesFrom(d, k, n)) = n
  BY <1>4
<1>6. \A i \in 1 .. n : T!FramesFrom(d, k, n)[i] = (k + (i - 1)) % d.length
  BY <1>2 DEF T!FramesFrom
<1> QED
  BY <1>5, <1>6

\* The pump adds the frames that come next, and moves on by as many.
Room(d) == ReelCap - Len(d.ring)
Added(d) == IF d.looping \/ Room(d) <= d.length - d.read THEN Room(d) ELSE d.length - d.read
ReadOn(d) == IF Added(d) <= d.length - d.read THEN d.read + Added(d)
             ELSE ((d.read + Added(d) - 1) % d.length) + 1
Full(d) == [d EXCEPT !.ring = @ \o T!FramesFrom(d, d.read, Added(d)), !.read = ReadOn(d),
                     !.eof = Added(d) < Room(d)]

LEMMA PumpedIs ==
    ASSUME NEW d \in ReelKeeps
    PROVE  T!Pumped(d) =
             CASE d.mode = "play" /\ ~d.eof ->
                    IF Full(d).eof /\ Full(d).ring = <<>> THEN [Full(d) EXCEPT !.mode = "idle"]
                    ELSE Full(d)
               [] d.mode = "play" /\ d.eof ->
                    IF d.ring = <<>> THEN [d EXCEPT !.mode = "idle"] ELSE d
               [] OTHER -> [d EXCEPT !.finalizing = FALSE]
BY DEF T!Pumped, Full, ReadOn, Added, Room

LEMMA AddedIs ==
    ASSUME NEW d \in ReelKeeps, d.length >= 3, d.read <= d.length, Len(d.ring) <= ReelCap
    PROVE  /\ Added(d) \in Nat /\ Added(d) <= Room(d)
           /\ ReadOn(d) \in 0 .. d.length
           /\ Added(d) = 0 => ReadOn(d) = d.read
           /\ (IF ReadOn(d) = d.length THEN 0 ELSE ReadOn(d)) = (d.read + Added(d)) % d.length
<1> DEFINE L == d.length
           k == d.read
           n == Added(d)
<1>1. L \in Nat \ {0} /\ k \in 0 .. L /\ d.ring \in Seq(Nat)
  BY DEF ReelKeeps
<1>2. Room(d) \in Nat
  BY <1>1, Reels, LenProperties DEF Room
<1>3. n \in Nat /\ n <= Room(d)
  BY <1>1, <1>2 DEF Added
<1> HIDE DEF L, k, n
<1>4. ReadOn(d) = IF n <= L - k THEN k + n ELSE ((k + n - 1) % L) + 1
  BY DEF ReadOn, n, L, k
<1>5. CASE n <= L - k
  <2>1. k + n \in 0 .. L
    BY <1>1, <1>3, <1>5
  <2>2. (k + n) % L = IF k + n = L THEN 0 ELSE k + n
    BY <1>1, <2>1, ModLow
  <2> QED
    BY <1>1, <1>3, <1>4, <1>5, <2>1, <2>2 DEF n, L, k
<1>6. CASE ~(n <= L - k)
  <2>1. k + n - 1 \in Nat /\ n # 0 /\ (k + n - 1) + 1 = k + n
    BY <1>1, <1>3, <1>6
  <2>2. PICK m \in Nat : m = k + n - 1
    BY <2>1
  <2>3. m % L \in 0 .. L - 1 /\ (m + 1) % L = IF (m % L) + 1 = L THEN 0 ELSE (m % L) + 1
    BY <1>1, ModNext
  <2>4. ReadOn(d) = (m % L) + 1 /\ m + 1 = k + n
    BY <1>4, <1>6, <2>1, <2>2
  <2> QED
    BY <1>1, <1>3, <2>1, <2>3, <2>4 DEF n, L, k
<1> QED
  BY <1>5, <1>6

LEMMA FullRuns ==
    ASSUME NEW d \in ReelKeeps, RunsOn(d), d.read <= d.length, Len(d.ring) <= ReelCap
    PROVE  /\ Full(d) \in ReelKeeps /\ RunsOn(Full(d)) /\ Due(Full(d)) = Due(d)
           /\ Full(d).read <= Full(d).length /\ Len(Full(d).ring) <= ReelCap
<1> DEFINE L == d.length
           k == d.read
           n == Added(d)
           q == d.ring
           f == T!FramesFrom(d, k, n)
           e == Full(d)
           s == q \o f
<1>1. /\ L \in Nat \ {0} /\ L >= 3 /\ k \in 0 .. L /\ q \in Seq(Nat) /\ Len(q) \in Nat
  BY NoneLeft DEF ReelKeeps, RunsOn
<1>2. /\ n \in Nat /\ n <= ReelCap - Len(q) /\ ReadOn(d) \in 0 .. L
      /\ n = 0 => ReadOn(d) = k
      /\ (IF ReadOn(d) = L THEN 0 ELSE ReadOn(d)) = (k + n) % L
  BY <1>1, AddedIs DEF Room
<1>3. /\ f \in Seq(Nat) /\ Len(f) = n
      /\ \A i \in 1 .. n : f[i] = (k + (i - 1)) % L
  <2>1. k \in Nat /\ n \in Nat /\ d.length >= 3
    BY <1>1, <1>2
  <2> QED
    BY <2>1, FramesIs, Zenon
<1>4. /\ s \in Seq(Nat) /\ Len(s) = Len(q) + n
      /\ \A i \in 1 .. Len(q) + n : s[i] = IF i <= Len(q) THEN q[i] ELSE f[i - Len(q)]
  <2>1. q \in Seq(Nat) /\ f \in Seq(Nat) /\ Len(f) = n
    BY <1>1, <1>3, Zenon
  <2> HIDE DEF q, f
  <2>2. /\ q \o f \in Seq(Nat) /\ Len(q \o f) = Len(q) + Len(f)
        /\ \A i \in 1 .. Len(q) + Len(f) :
              (q \o f)[i] = IF i <= Len(q) THEN q[i] ELSE f[i - Len(q)]
    BY <2>1, ConcatProperties
  <2> QED
    BY <2>1, <2>2
<1>5. ReadOn(d) \in Nat /\ (n < Room(d)) \in BOOLEAN
  BY <1>1, <1>2
<1>6. /\ e \in ReelKeeps /\ e.ring = s /\ e.read = ReadOn(d) /\ e.length = L
  BY <1>4, <1>5 DEF ReelKeeps, Full
<1>7. Len(s) <= ReelCap /\ e.read <= e.length
  BY <1>1, <1>2, <1>4, <1>6, Reels
<1>8. OnReel(d) = k % L /\ OnReel(e) = (k + n) % L /\ \A x : After(e, x) = After(d, x)
  BY <1>1, <1>2, <1>6, ModLow DEF OnReel, After
<1>9. \A i \in 1 .. Len(q) : /\ q[i] < L
                             /\ After(d, q[i]) = IF i = Len(q) THEN OnReel(d) ELSE q[i + 1]
  BY DEF RunsOn
<1>10. \A i \in 1 .. n : /\ f[i] < L
                         /\ After(d, f[i]) = IF i = n THEN OnReel(e) ELSE f[i + 1]
  <2> TAKE i \in 1 .. n
  <2>1. PICK m \in Nat : m = k + (i - 1)
    BY <1>1, <1>2
  <2>2. m % L \in 0 .. L - 1 /\ (m + 1) % L = IF (m % L) + 1 = L THEN 0 ELSE (m % L) + 1
    BY <1>1, ModNext
  <2>3. f[i] = m % L
    BY <1>3, <2>1
  <2>4. After(d, f[i]) = (m + 1) % L
    BY <2>2, <2>3 DEF After
  <2>5. CASE i = n
    <3>1. m + 1 = k + n
      BY <1>1, <1>2, <2>1, <2>5
    <3> QED
      BY <1>1, <1>8, <2>2, <2>3, <2>4, <2>5, <3>1
  <2>6. CASE i # n
    <3>1. i + 1 \in 1 .. n /\ k + ((i + 1) - 1) = m + 1
      BY <1>1, <1>2, <2>1, <2>6
    <3>2. f[i + 1] = (m + 1) % L
      BY <1>3, <3>1
    <3> QED
      BY <1>1, <2>2, <2>3, <2>4, <2>6, <3>2
  <2> QED
    BY <2>5, <2>6
<1>11. n # 0 => f[1] = OnReel(d)
  <2> SUFFICES ASSUME n # 0 PROVE f[1] = OnReel(d)
    OBVIOUS
  <2>1. 1 \in 1 .. n /\ k + (1 - 1) = k
    BY <1>1, <1>2
  <2>2. f[1] = k % L
    BY <1>3, <2>1
  <2> QED
    BY <1>8, <2>2
<1>12. n = 0 => OnReel(e) = OnReel(d)
  BY <1>2, <1>6 DEF OnReel
<1> HIDE DEF L, k, n, q, f, e, s
<1>13. ASSUME NEW i \in 1 .. Len(s)
       PROVE  /\ s[i] < L
              /\ After(d, s[i]) = IF i = Len(s) THEN OnReel(e) ELSE s[i + 1]
  <2>4. Len(q) \in Nat /\ n \in Nat /\ Len(s) = Len(q) + n
    BY <1>1, <1>2, <1>4
  <2>1. CASE i > Len(q)
    <3>1. i - Len(q) \in 1 .. n /\ s[i] = f[i - Len(q)]
      BY <1>1, <1>2, <1>4, <2>1
    <3>2. PICK j \in 1 .. n : j = i - Len(q)
      BY <3>1
    <3>3. f[j] < L /\ After(d, f[j]) = IF j = n THEN OnReel(e) ELSE f[j + 1]
      BY <1>10
    <3>4. i = Len(s) <=> j = n
      BY <1>1, <1>2, <1>4, <3>2
    <3>5. ASSUME i # Len(s) PROVE s[i + 1] = f[j + 1]
      <4>1. i + 1 \in 1 .. Len(q) + n /\ ~(i + 1 <= Len(q)) /\ (i + 1) - Len(q) = j + 1
        BY <2>1, <2>4, <3>2, <3>5
      <4>2. s[i + 1] = f[(i + 1) - Len(q)]
        BY <1>4, <4>1
      <4> QED
        BY <4>1, <4>2
    <3> QED
      BY <3>1, <3>2, <3>3, <3>4, <3>5
  <2>2. CASE i < Len(q)
    <3>1. /\ i \in 1 .. Len(q) /\ i # Len(q) /\ i # Len(s)
          /\ i \in 1 .. Len(q) + n /\ i + 1 \in 1 .. Len(q) + n /\ i <= Len(q) /\ i + 1 <= Len(q)
      BY <2>2, <2>4
    <3>2. s[i] = q[i] /\ s[i + 1] = q[i + 1]
      BY <1>4, <3>1
    <3> QED
      BY <1>9, <3>1, <3>2
  <2>3. CASE i = Len(q)
    <3>1. i \in 1 .. Len(q) /\ i \in 1 .. Len(q) + n /\ i <= Len(q)
      BY <1>1, <1>2, <1>4, <2>3
    <3>2. s[i] = q[i] /\ q[i] < L /\ After(d, q[i]) = OnReel(d)
      BY <1>4, <1>9, <2>3, <3>1
    <3>3. i = Len(s) <=> n = 0
      BY <1>1, <1>2, <1>4, <2>3
    <3>4. ASSUME n # 0 PROVE s[i + 1] = f[1]
      <4>1. i + 1 \in 1 .. Len(q) + n /\ ~(i + 1 <= Len(q)) /\ (i + 1) - Len(q) = 1
        BY <1>1, <1>2, <2>3, <3>4
      <4> QED
        BY <1>4, <4>1
    <3> QED
      BY <1>11, <1>12, <3>2, <3>3, <3>4
  <2> QED
    BY <1>1, <1>2, <1>4, <2>1, <2>2, <2>3
<1>14. RunsOn(e)
  BY <1>1, <1>6, <1>8, <1>13 DEF RunsOn
<1>15. Due(e) = Due(d)
  <2>1. CASE q # <<>>
    <3>1. Len(q) # 0 /\ Head(q) = q[1]
      BY <1>1, <2>1, TailIs
    <3>2. 1 \in 1 .. Len(q) + n /\ 1 <= Len(q) /\ s # <<>>
      BY <1>1, <1>2, <1>4, <3>1, NoneLeft
    <3>3. Head(s) = s[1] /\ s[1] = q[1]
      BY <1>4, <3>2, TailIs
    <3> QED
      BY <1>6, <2>1, <3>1, <3>2, <3>3 DEF Due, q
  <2>2. CASE q = <<>> /\ n # 0
    <3>1. Len(q) = 0
      BY <1>1, <2>2, NoneLeft
    <3>2. 1 \in 1 .. Len(q) + n /\ ~(1 <= Len(q)) /\ s # <<>> /\ 1 - Len(q) = 1
      BY <1>1, <1>2, <1>4, <2>2, <3>1, NoneLeft
    <3>3. Head(s) = s[1] /\ s[1] = f[1]
      BY <1>4, <3>2, TailIs
    <3> QED
      BY <1>6, <1>11, <2>2, <3>2, <3>3 DEF Due, q
  <2>3. CASE q = <<>> /\ n = 0
    <3>1. s = <<>>
      BY <1>1, <1>4, <2>3, NoneLeft
    <3> QED
      BY <1>6, <1>12, <2>3, <3>1 DEF Due, q
  <2> QED
    BY <2>1, <2>2, <2>3
<1> QED
  BY <1>6, <1>7, <1>14, <1>15 DEF e

\* Whatever the deck is doing, the pump leaves the frame that is due.
LEMMA PumpedRuns ==
    ASSUME NEW d \in ReelKeeps, d.read <= d.length, Len(d.ring) <= ReelCap,
           d.mode = "play" => RunsOn(d)
    PROVE  /\ T!Pumped(d) \in ReelKeeps
           /\ T!Pumped(d).read <= T!Pumped(d).length /\ Len(T!Pumped(d).ring) <= ReelCap
           /\ T!Pumped(d).mode = "play" => /\ d.mode = "play"
                                         /\ RunsOn(T!Pumped(d)) /\ Due(T!Pumped(d)) = Due(d)
<1>1. CASE d.mode = "play" /\ ~d.eof
  <2> DEFINE e == Full(d)
  <2>1. /\ e \in ReelKeeps /\ RunsOn(e) /\ Due(e) = Due(d)
        /\ e.read <= e.length /\ Len(e.ring) <= ReelCap
    BY <1>1, FullRuns
  <2> HIDE DEF e
  <2>2. T!Pumped(d) = [e EXCEPT !.mode = "idle"] \/ T!Pumped(d) = e
    BY <1>1, PumpedIs DEF e
  <2>3. CASE T!Pumped(d) = e
    BY <1>1, <2>1, <2>3
  <2>4. CASE T!Pumped(d) = [e EXCEPT !.mode = "idle"]
    BY <2>1, <2>4 DEF ReelKeeps
  <2> QED
    BY <2>2, <2>3, <2>4
<1>2. CASE d.mode = "play" /\ d.eof
  <2>1. T!Pumped(d) = [d EXCEPT !.mode = "idle"] \/ T!Pumped(d) = d
    BY <1>2, PumpedIs
  <2>2. CASE T!Pumped(d) = d
    BY <1>2, <2>2
  <2>3. CASE T!Pumped(d) = [d EXCEPT !.mode = "idle"]
    BY <2>3 DEF ReelKeeps
  <2> QED
    BY <2>1, <2>2, <2>3
<1>3. CASE d.mode # "play"
  <2>1. T!Pumped(d) = [d EXCEPT !.finalizing = FALSE]
    BY <1>3, PumpedIs
  <2> QED
    BY <1>3, <2>1 DEF ReelKeeps
<1> QED
  BY <1>1, <1>2, <1>3

-----------------------------------------------------------------------------
(* The interrupt.                                                          *)

Runner(z) == z \in Views /\ Within(z) /\ z.deck.mode = "play" /\ RunsOn(z.deck)
Ready(z) == Runner(z) /\ Modal(z) /\ Agrees(z)

LEMMA LeftIs ==
    ASSUME NEW z, Runner(z), NEW y, y = T!Left(z)
    PROVE  /\ Runner(y) /\ y.tape = z.tape /\ y.deck.length = z.deck.length
           /\ T!Pulled(z) \in Int
           /\ y.past.steady <=> z.past.steady /\ z.deck.ring # <<>>
           /\ y.past.fripp <=> z.past.fripp
           /\ z.deck.ring # <<>> =>
                 /\ Due(z.deck) \in 0 .. z.deck.length - 1
                 /\ Due(y.deck) = After(z.deck, Due(z.deck))
                 /\ y.past.passes = IF Due(z.deck) = z.deck.length - 1 /\ z.past.passes < Floor
                                    THEN z.past.passes + 1 ELSE z.past.passes
<1>1. /\ z \in Views /\ z.tape \in TapeKeeps /\ z.deck \in ReelKeeps /\ z.past \in PlayKeeps
      /\ Within(z) /\ z.deck.mode = "play" /\ RunsOn(z.deck)
  BY DEF Runner, Views
<1> DEFINE e == [z.deck EXCEPT !.ring = IF @ = <<>> THEN @ ELSE Tail(@)]
           n == IF T!Pulled(z) = z.deck.length - 1 /\ z.past.passes < Floor
                THEN z.past.passes + 1 ELSE z.past.passes
           b == z.past.steady /\ z.deck.ring # <<>>
           h == [z.past EXCEPT !.steady = b, !.passes = n]
<1>2. y = [z EXCEPT !.deck = e, !.past = h]
  BY <1>1 DEF T!Left, Views, PlayKeeps
<1>3. n \in Nat /\ b \in BOOLEAN
  BY <1>1 DEF PlayKeeps
<1>4. /\ h \in PlayKeeps /\ h.passes = n /\ (h.steady <=> b) /\ (h.fripp <=> z.past.fripp)
  <2> HIDE DEF n, b
  <2> QED
    BY <1>1, <1>3 DEF PlayKeeps
<1>5. CASE z.deck.ring = <<>>
  <2>1. e = z.deck
    BY <1>1, <1>5 DEF ReelKeeps
  <2>2. T!Pulled(z) \in Int /\ ~b
    BY <1>5 DEF T!Pulled, T!Silence
  <2> HIDE DEF e, h, b, n
  <2>3. y \in Views /\ y.deck = z.deck /\ y.tape = z.tape /\ y.past = h
    BY <1>1, <1>2, <1>4, <2>1 DEF Views
  <2> QED
    BY <1>1, <1>4, <1>5, <2>2, <2>3 DEF Runner, Within, b
<1>6. CASE z.deck.ring # <<>>
  <2>1. e = [z.deck EXCEPT !.ring = Tail(@)] /\ T!Pulled(z) = Head(z.deck.ring)
    BY <1>1, <1>6 DEF T!Pulled
  <2> HIDE DEF e, h, b, n
  <2>2. /\ e \in ReelKeeps /\ RunsOn(e) /\ Len(e.ring) + 1 = Len(z.deck.ring)
        /\ e.read = z.deck.read /\ e.length = z.deck.length /\ e.mode = z.deck.mode
        /\ Due(z.deck) = Head(z.deck.ring) /\ Due(z.deck) \in 0 .. z.deck.length - 1
        /\ Due(e) = After(z.deck, Due(z.deck))
    BY <1>1, <1>6, <2>1, TailRuns
  <2>3. y \in Views /\ y.deck = e /\ y.tape = z.tape /\ y.past = h
    BY <1>1, <1>2, <1>4, <2>2 DEF Views
  <2>4. Len(e.ring) <= ReelCap
    <3>1. e.ring \in Seq(Nat) /\ z.deck.ring \in Seq(Nat)
      BY <1>1, <2>2 DEF ReelKeeps
    <3>2. Len(e.ring) \in Nat /\ Len(z.deck.ring) \in Nat /\ Len(z.deck.ring) <= ReelCap
      BY <1>1, <3>1, NoneLeft DEF Within
    <3> QED
      BY <2>2, <3>2, Reels
  <2>5. Runner(y)
    BY <1>1, <2>2, <2>3, <2>4 DEF Runner, Within
  <2>6. T!Pulled(z) \in Int /\ n = IF Due(z.deck) = z.deck.length - 1 /\ z.past.passes < Floor
                                 THEN z.past.passes + 1 ELSE z.past.passes
    BY <1>1, <2>1, <2>2 DEF n
  <2> QED
    BY <1>4, <1>6, <2>2, <2>3, <2>5, <2>6 DEF b
<1> QED
  BY <1>5, <1>6

LEMMA PrimedReady ==
    ASSUME NEW z, Runner(z), Due(z.deck) = 0
    PROVE  Ready(T!Primed(z)) /\ T!Primed(z).tape.primed
<1> DEFINE y == T!Begun(z)
           u == T!Left(y)
           w == T!Left(u)
           t == [w.tape EXCEPT !.cur = T!Pulled(y), !.next = T!Pulled(u), !.primed = TRUE,
                               !.pos = 2, !.faded = 0]
<1>1. /\ z \in Views /\ z.tape \in TapeKeeps /\ z.deck \in ReelKeeps /\ z.past \in PlayKeeps
      /\ z.deck.length \in Nat /\ z.deck.length >= 3
  BY DEF Runner, Views, ReelKeeps, RunsOn
<1>2. /\ Runner(y) /\ y.tape = z.tape /\ y.deck = z.deck /\ y.past.passes = 0
      /\ y.past.steady <=> z.tape.loop \in T!Shaped
      /\ y.past.fripp <=> z.tape.loop = "fripp"
  <2> DEFINE b == z.tape.loop \in T!Shaped
             c == z.tape.loop = "fripp"
             h == [primed |-> TRUE, steady |-> b, fripp |-> c, passes |-> 0, ended |-> FALSE]
  <2>1. y = [z EXCEPT !.past = h]
    BY DEF T!Begun
  <2>2. b \in BOOLEAN /\ c \in BOOLEAN
    OBVIOUS
  <2>3. h \in PlayKeeps /\ (h.steady <=> b) /\ (h.fripp <=> c) /\ h.passes = 0
    <3> HIDE DEF b, c
    <3> QED
      BY <2>2 DEF PlayKeeps
  <2> HIDE DEF h, y
  <2>4. y \in Views /\ y.tape = z.tape /\ y.deck = z.deck /\ y.past = h
    BY <1>1, <2>1, <2>3 DEF Views
  <2> QED
    BY <2>3, <2>4 DEF Runner, Within
<1>3. T!Primed(z) = [w EXCEPT !.tape = t]
  BY DEF T!Primed
<1> HIDE DEF y, u, w
<1>4. /\ Runner(u) /\ u.tape = y.tape /\ u.deck.length = y.deck.length
      /\ T!Pulled(y) \in Int
      /\ u.past.steady <=> y.past.steady /\ y.deck.ring # <<>>
      /\ u.past.fripp <=> y.past.fripp
      /\ y.deck.ring # <<>> =>
            /\ Due(u.deck) = After(y.deck, Due(y.deck))
            /\ u.past.passes = IF Due(y.deck) = y.deck.length - 1 /\ y.past.passes < Floor
                               THEN y.past.passes + 1 ELSE y.past.passes
  BY <1>2, LeftIs DEF u
<1>5. /\ Runner(w) /\ w.tape = u.tape /\ w.deck.length = u.deck.length
      /\ T!Pulled(u) \in Int
      /\ w.past.steady <=> u.past.steady /\ u.deck.ring # <<>>
      /\ w.past.fripp <=> u.past.fripp
      /\ u.deck.ring # <<>> =>
            /\ Due(w.deck) = After(u.deck, Due(u.deck))
            /\ w.past.passes = IF Due(u.deck) = u.deck.length - 1 /\ u.past.passes < Floor
                               THEN u.past.passes + 1 ELSE u.past.passes
  BY <1>4, LeftIs DEF w
<1>6. w.tape = z.tape /\ w \in Views
  BY <1>2, <1>4, <1>5 DEF Runner
<1>7. /\ t \in TapeKeeps /\ t.pos = 2 /\ t.faded = 0 /\ t.primed /\ t.loop = z.tape.loop
  <2>1. t = [z.tape EXCEPT !.cur = T!Pulled(y), !.next = T!Pulled(u), !.primed = TRUE,
                           !.pos = 2, !.faded = 0]
    BY <1>6
  <2> HIDE DEF t
  <2>2. 0 \in 0 .. Floor
    BY Reels
  <2> QED
    BY <1>1, <1>4, <1>5, <2>1, <2>2 DEF TapeKeeps
<1> HIDE DEF t
<1>8. /\ T!Primed(z) \in Views /\ T!Primed(z).tape = t /\ T!Primed(z).deck = w.deck
      /\ T!Primed(z).past = w.past
  BY <1>3, <1>6, <1>7 DEF Views
<1>9. ASSUME w.past.steady PROVE Due(w.deck) = 2 /\ w.past.passes = 0
  <2>1. y.deck.ring # <<>> /\ u.deck.ring # <<>>
    BY <1>4, <1>5, <1>9
  <2>2. Due(u.deck) = 1 /\ u.past.passes = 0
    BY <1>1, <1>2, <1>4, <2>1 DEF After
  <2> QED
    BY <1>1, <1>2, <1>4, <1>5, <2>1, <2>2 DEF After
<1>10. Runner(T!Primed(z))
  BY <1>5, <1>8 DEF Runner, Within
<1>11. Modal(T!Primed(z))
  BY <1>2, <1>4, <1>5, <1>7, <1>8 DEF Modal
<1>12. Agrees(T!Primed(z))
  BY <1>7, <1>8, <1>9 DEF Agrees
<1> QED
  BY <1>7, <1>8, <1>10, <1>11, <1>12 DEF Ready

LEMMA AdvancedReady ==
    ASSUME NEW z, Ready(z), z.tape.primed
    PROVE  Ready(T!Advanced(z)) /\ T!Advanced(z).tape.primed
<1> DEFINE l == T!Left(z)
           t == [z.tape EXCEPT !.cur = z.tape.next, !.next = T!Pulled(z)]
           y == [T!Left(z) EXCEPT !.tape.cur = z.tape.next, !.tape.next = T!Pulled(z)]
           a == T!Advanced(z)
           round == z.tape.pos + 1 >= z.deck.length
<1>1. /\ z \in Views /\ z.tape \in TapeKeeps /\ z.deck \in ReelKeeps /\ z.past \in PlayKeeps
      /\ z.deck.length \in Nat /\ z.deck.length >= 3 /\ Runner(z) /\ Modal(z) /\ Agrees(z)
  BY DEF Ready, Runner, Views, ReelKeeps, RunsOn
<1>2. /\ Runner(l) /\ l.tape = z.tape /\ l.deck.length = z.deck.length
      /\ T!Pulled(z) \in Int
      /\ l.past.steady <=> z.past.steady /\ z.deck.ring # <<>>
      /\ l.past.fripp <=> z.past.fripp
      /\ z.deck.ring # <<>> =>
            /\ Due(z.deck) \in 0 .. z.deck.length - 1
            /\ Due(l.deck) = After(z.deck, Due(z.deck))
            /\ l.past.passes = IF Due(z.deck) = z.deck.length - 1 /\ z.past.passes < Floor
                               THEN z.past.passes + 1 ELSE z.past.passes
  BY <1>1, LeftIs
<1>3. l \in Views /\ l.past \in PlayKeeps /\ l.deck \in ReelKeeps
  BY <1>2 DEF Runner, Views
<1>4. a = IF z.tape.loop \notin T!Shaped THEN y
          ELSE IF ~round THEN [y EXCEPT !.tape.pos = @ + 1]
          ELSE IF z.tape.loop # "fripp" THEN [y EXCEPT !.tape.pos = 0]
          ELSE [[y EXCEPT !.tape.pos = 0] EXCEPT
                  !.tape = T!Quieter(@), !.past.ended = @ \/ z.tape.faded + 1 >= Floor]
  BY DEF T!Advanced
<1>5. /\ t \in TapeKeeps /\ t.pos = z.tape.pos /\ t.loop = z.tape.loop
      /\ t.faded = z.tape.faded /\ t.primed
  BY <1>1, <1>2 DEF TapeKeeps
<1>6. y = [l EXCEPT !.tape = t]
  BY <1>1, <1>2, <1>3 DEF Views, TapeKeeps
<1> HIDE DEF l, t, y, round
<1>7. y \in Views /\ y.tape = t /\ y.deck = l.deck /\ y.past = l.past
  BY <1>3, <1>5, <1>6 DEF Views
<1>8. \* the account of the loop, whichever way it goes on
      ASSUME a \in Views, a.deck = l.deck, a.tape.primed, a.tape.loop = z.tape.loop,
             a.past.steady <=> l.past.steady, a.past.fripp <=> l.past.fripp,
             a.past.passes = l.past.passes,
             z.tape.loop \in T!Shaped => a.tape.pos = IF round THEN 0 ELSE z.tape.pos + 1,
             z.tape.loop = "fripp" =>
                a.tape.faded = IF round /\ z.tape.faded < Floor THEN z.tape.faded + 1
                               ELSE z.tape.faded
      PROVE  Ready(a) /\ a.tape.primed
  <2>1. Runner(a)
    BY <1>2, <1>8 DEF Runner, Within
  <2>2. Modal(a)
    BY <1>1, <1>2, <1>8 DEF Modal
  <2>3. ASSUME a.past.steady
        PROVE  a.tape.pos = Due(a.deck) /\ (a.past.fripp => a.tape.faded = a.past.passes)
    <3>1. z.past.steady /\ z.deck.ring # <<>> /\ z.tape.loop \in T!Shaped
      BY <1>1, <1>2, <1>8, <2>3 DEF Modal
    <3>2. /\ z.tape.pos = Due(z.deck)
          /\ z.past.fripp => z.tape.faded = z.past.passes
      BY <1>1, <3>1 DEF Agrees
    <3>3. round <=> Due(z.deck) = z.deck.length - 1
      BY <1>1, <1>2, <3>1, <3>2 DEF round
    <3>4. a.tape.pos = Due(a.deck)
      BY <1>1, <1>2, <1>8, <3>1, <3>2, <3>3 DEF After
    <3>5. ASSUME a.past.fripp PROVE a.tape.faded = a.past.passes
      <4>1. z.past.fripp /\ z.tape.loop = "fripp"
        BY <1>1, <1>2, <1>8, <3>5 DEF Modal
      <4> QED
        BY <1>1, <1>2, <1>8, <3>1, <3>2, <3>3, <4>1
    <3> QED
      BY <3>4, <3>5
  <2> QED
    BY <1>8, <2>1, <2>2, <2>3 DEF Ready, Agrees
<1>9. CASE z.tape.loop \notin T!Shaped
  <2>1. a = y
    BY <1>4, <1>9
  <2>2. z.tape.loop # "fripp"
    BY <1>9 DEF T!Shaped
  <2> HIDE DEF a
  <2> QED
    BY <1>5, <1>7, <1>8, <1>9, <2>1, <2>2 DEF a
<1>10. CASE z.tape.loop \in T!Shaped /\ ~round
  <2> DEFINE s == [t EXCEPT !.pos = @ + 1]
  <2>1. s \in TapeKeeps /\ s.pos = z.tape.pos + 1 /\ s.loop = z.tape.loop
        /\ s.faded = z.tape.faded /\ s.primed
    BY <1>1, <1>5 DEF TapeKeeps
  <2>2. a = [y EXCEPT !.tape = s]
    BY <1>4, <1>7, <1>10 DEF Views
  <2> HIDE DEF a, s
  <2>3. a \in Views /\ a.tape = s /\ a.deck = l.deck /\ a.past = l.past
    BY <1>7, <2>1, <2>2 DEF Views
  <2> QED
    BY <1>8, <1>10, <2>1, <2>3 DEF a
<1>11. CASE z.tape.loop \in T!Shaped /\ round /\ z.tape.loop # "fripp"
  <2> DEFINE s == [t EXCEPT !.pos = 0]
  <2>1. s \in TapeKeeps /\ s.pos = 0 /\ s.loop = z.tape.loop
        /\ s.faded = z.tape.faded /\ s.primed
    BY <1>1, <1>5 DEF TapeKeeps
  <2>2. a = [y EXCEPT !.tape = s]
    BY <1>4, <1>7, <1>11 DEF Views
  <2> HIDE DEF a, s
  <2>3. a \in Views /\ a.tape = s /\ a.deck = l.deck /\ a.past = l.past
    BY <1>7, <2>1, <2>2 DEF Views
  <2> QED
    BY <1>8, <1>11, <2>1, <2>3 DEF a
<1>12. CASE z.tape.loop \in T!Shaped /\ round /\ z.tape.loop = "fripp"
  <2> DEFINE s == [t EXCEPT !.pos = 0]
             q == T!Quieter(s)
             b == l.past.ended \/ z.tape.faded + 1 >= Floor
             h == [l.past EXCEPT !.ended = b]
  <2>1. s \in TapeKeeps /\ s.pos = 0 /\ s.loop = z.tape.loop
        /\ s.faded = z.tape.faded /\ s.primed
    BY <1>1, <1>5 DEF TapeKeeps
  <2>2. a = [y EXCEPT !.tape = q, !.past = h]
    BY <1>4, <1>7, <1>12 DEF Views
  <2>3. /\ q \in TapeKeeps /\ q.pos = 0 /\ q.loop = z.tape.loop /\ q.primed
        /\ q.faded = IF z.tape.faded < Floor THEN z.tape.faded + 1 ELSE z.tape.faded
    <3> HIDE DEF s
    <3> DEFINE c == s.want \/ s.faded + 1 >= Floor
    <3>1. c \in BOOLEAN
      BY <2>1 DEF TapeKeeps
    <3> DEFINE n == IF s.faded < Floor THEN s.faded + 1 ELSE s.faded
    <3>2. n \in 0 .. Floor
      BY <2>1, Reels DEF TapeKeeps
    <3>3. q = [s EXCEPT !.faded = n, !.want = c]
      BY <2>1 DEF T!Quieter, TapeKeeps
    <3>4. n = IF z.tape.faded < Floor THEN z.tape.faded + 1 ELSE z.tape.faded
      BY <2>1
    <3> HIDE DEF c, q, n
    <3>5. q \in TapeKeeps /\ q.pos = 0 /\ q.loop = z.tape.loop /\ q.primed /\ q.faded = n
      BY <2>1, <3>1, <3>2, <3>3 DEF TapeKeeps
    <3> QED
      BY <3>4, <3>5
  <2>4. b \in BOOLEAN
    BY <1>3 DEF PlayKeeps
  <2>5. /\ h \in PlayKeeps /\ (h.steady <=> l.past.steady) /\ (h.fripp <=> l.past.fripp)
        /\ h.passes = l.past.passes
    <3> HIDE DEF b
    <3> QED
      BY <1>3, <2>4 DEF PlayKeeps
  <2> HIDE DEF a, q, h
  <2>6. a \in Views /\ a.tape = q /\ a.deck = l.deck /\ a.past = h
    BY <1>7, <2>2, <2>3, <2>5 DEF Views
  <2> QED
    BY <1>8, <1>12, <2>3, <2>5, <2>6 DEF a
<1> QED
  BY <1>9, <1>10, <1>11, <1>12

\* A block: the two frames it begins with, if it has to, and then as many as it renders.
LEMMA RenderedKeeps ==
    ASSUME NEW z, Keeps(z), z.deck.mode = "play", NEW frames \in 0 .. 2
    PROVE  Keeps(T!Rendered(z, frames))
<1> DEFINE y == IF z.tape.primed THEN z ELSE T!Primed(z)
<1>1. Ready(y) /\ y.tape.primed
  <2>1. CASE z.tape.primed
    BY <2>1 DEF Keeps, Ready, Runner
  <2>2. CASE ~z.tape.primed
    <3>1. Runner(z) /\ Due(z.deck) = 0
      BY <2>2 DEF Keeps, Runner
    <3> QED
      BY <2>2, <3>1, PrimedReady
  <2> QED
    BY <2>1, <2>2
<1>2. /\ Ready(T!Advanced(y)) /\ T!Advanced(y).tape.primed
      /\ Ready(T!Advanced(T!Advanced(y))) /\ T!Advanced(T!Advanced(y)).tape.primed
  <2> HIDE DEF y
  <2>1. Ready(T!Advanced(y)) /\ T!Advanced(y).tape.primed
    BY <1>1, AdvancedReady
  <2> QED
    BY <2>1, AdvancedReady
<1>3. T!Rendered(z, frames) \in {y, T!Advanced(y), T!Advanced(T!Advanced(y))}
  BY DEF T!Rendered
<1>4. \A x : Ready(x) /\ x.tape.primed => Keeps(x)
  BY DEF Keeps, Ready, Runner
<1> HIDE DEF y
<1> QED
  BY <1>1, <1>2, <1>3, <1>4

\* The three values apart, and the record the handlers work on.
LEMMA HoldsIs ==
    ASSUME NEW t, NEW d, NEW p
    PROVE  Holds(t, d, p) <=> Keeps([tape |-> t, deck |-> d, past |-> p])
<1> DEFINE z == [tape |-> t, deck |-> d, past |-> p]
<1>1. z.tape = t /\ z.deck = d /\ z.past = p
  OBVIOUS
<1>2. z \in Views <=> t \in TapeKeeps /\ d \in ReelKeeps /\ p \in PlayKeeps
  BY DEF Views
<1> HIDE DEF z
<1>3. Holds(t, d, p) <=> Keeps(z)
  BY <1>1, <1>2 DEF Keeps, Holds, Within, Modal, Agrees
<1> QED
  BY <1>3 DEF z

LEMMA InterruptKeeps ==
    ASSUME TapeInv, NEW frames \in 0 .. 2, T!Interrupt(frames)
    PROVE  TapeInv'
<1> DEFINE z == IF T!Playing THEN T!Rendered(T!Here, frames) ELSE [T!Here EXCEPT !.tape.primed = FALSE]
<1>0. Keeps(T!Here)
  BY HoldsIs DEF TapeInv, T!Here
<1>1. Keeps(z)
  <2>1. CASE T!Playing
    <3>1. T!Here.deck.mode = "play"
      BY <2>1 DEF T!Playing, T!Here
    <3> QED
      BY <1>0, <2>1, <3>1, RenderedKeeps
  <2>2. CASE ~T!Playing
    <3> DEFINE t == [tape EXCEPT !.primed = FALSE]
    <3>1. T!Here \in Views /\ T!Here.tape = tape /\ T!Here.deck = reel /\ T!Here.past = play
      BY <1>0 DEF Keeps, T!Here
    <3>2. t \in TapeKeeps /\ t.loop = tape.loop
      BY <3>1 DEF Views, TapeKeeps
    <3>3. z = [T!Here EXCEPT !.tape = t]
      BY <2>2, <3>1 DEF Views
    <3> HIDE DEF t, z
    <3>4. z \in Views /\ z.tape = t /\ z.deck = reel /\ z.past = play
      BY <3>1, <3>2, <3>3 DEF Views
    <3> QED
      BY <1>0, <2>2, <3>1, <3>2, <3>4 DEF Keeps, Within, Modal, T!Playing
  <2> QED
    BY <2>1, <2>2
<1>2. tape' = z.tape /\ reel' = z.deck /\ play' = z.past
  BY DEF T!Interrupt
<1> HIDE DEF z
<1>3. z = [tape |-> z.tape, deck |-> z.deck, past |-> z.past]
  BY <1>1 DEF Keeps, Views
<1> QED
  BY <1>1, <1>2, <1>3, HoldsIs DEF TapeInv

-----------------------------------------------------------------------------
(* The main loop.                                                          *)

LEMMA TapeInit == T!Init => TapeInv
<1> SUFFICES ASSUME T!Init PROVE TapeInv
  OBVIOUS
<1>1. tape \in TapeKeeps
  BY Reels DEF T!Init, TapeKeeps, T!Modes, T!Silence
<1>2. reel \in ReelKeeps /\ Len(reel.ring) <= ReelCap /\ reel.read <= reel.length
  BY Reels DEF T!Init, ReelKeeps
<1>3. play \in PlayKeeps
  BY DEF T!Init, PlayKeeps
<1> QED
  BY <1>1, <1>2, <1>3 DEF T!Init, TapeInv, Holds

\* A stop, from a pad or from the engine's own request.
LEMMA StoppedKeeps ==
    ASSUME TapeInv, reel' = T!Stopped(reel), UNCHANGED <<tape, play>>
    PROVE  TapeInv'
<1>2. reel' \in ReelKeeps /\ reel'.mode = "idle" /\ reel'.ring = reel.ring
      /\ reel'.read = reel.read /\ reel'.length = reel.length
  <2> DEFINE b == reel.finalizing \/ reel.mode = "record"
  <2>1. reel' = [reel EXCEPT !.mode = "idle", !.finalizing = b] /\ reel \in ReelKeeps
    BY DEF T!Stopped, ReelKeeps, TapeInv, Holds
  <2>2. b \in BOOLEAN
    BY <2>1 DEF ReelKeeps
  <2> HIDE DEF b
  <2> QED
    BY <2>1, <2>2 DEF ReelKeeps
<1> QED
  BY <1>2 DEF TapeInv, Holds

LEMMA TapeStep == TapeInv /\ [T!Next]_(T!vars) => TapeInv'
<1> SUFFICES ASSUME TapeInv, [T!Next]_(T!vars) PROVE TapeInv'
  OBVIOUS
<1>1. CASE T!PanelDone
  BY <1>1 DEF T!PanelDone, TapeInv, Holds
<1>2. CASE T!SetLoop
  <2> DEFINE b == tape.loop # "none"
  <2>1. reel' = [reel EXCEPT !.looping = b] /\ UNCHANGED <<tape, play>> /\ b \in BOOLEAN
    BY <1>2 DEF T!SetLoop
  <2> HIDE DEF b
  <2>2. /\ reel' \in ReelKeeps /\ reel'.ring = reel.ring /\ reel'.mode = reel.mode
        /\ reel'.read = reel.read /\ reel'.length = reel.length
    BY <2>1 DEF ReelKeeps, TapeInv, Holds
  <2>3. (RunsOn(reel) <=> RunsOn(reel')) /\ Due(reel') = Due(reel)
    BY <2>2 DEF RunsOn, Due, OnReel, After
  <2> QED
    BY <2>1, <2>2, <2>3 DEF TapeInv, Holds
<1>3. CASE T!WantStop
  <2>1. /\ tape' \in TapeKeeps /\ tape'.loop = tape.loop /\ tape'.pos = tape.pos
        /\ tape'.faded = tape.faded /\ (tape'.primed <=> tape.primed)
    BY <1>3 DEF T!WantStop, TapeKeeps, TapeInv, Holds
  <2>2. UNCHANGED <<reel, play>>
    BY <1>3 DEF T!WantStop
  <2> QED
    BY <2>1, <2>2 DEF TapeInv, Holds
<1>4. CASE T!StopWanted
  BY <1>4, StoppedKeeps DEF T!StopWanted
<1>5. CASE T!Pump
  <2>1. reel' = T!Pumped(reel) /\ UNCHANGED <<tape, play>>
    BY <1>5 DEF T!Pump
  <2> QED
    <3>1. /\ reel \in ReelKeeps /\ reel.read <= reel.length /\ Len(reel.ring) <= ReelCap
          /\ reel.mode = "play" => RunsOn(reel)
      BY DEF TapeInv, Holds
    <3>2. /\ reel' \in ReelKeeps /\ reel'.read <= reel'.length /\ Len(reel'.ring) <= ReelCap
          /\ reel'.mode = "play" => reel.mode = "play" /\ RunsOn(reel') /\ Due(reel') = Due(reel)
      BY <2>1, <3>1, PumpedRuns
    <3> QED
      BY <2>1, <3>2 DEF TapeInv, Holds
<1>6. CASE \E frames \in 0 .. 2 : T!Interrupt(frames)
  BY <1>6, InterruptKeeps
<1>7. CASE T!PlayPad
  <2>1. CASE reel' = T!Stopped(reel) /\ UNCHANGED <<tape, play>>
    BY <2>1, StoppedKeeps
  <2>2. ASSUME NEW l \in Lengths, reel' = T!Started(reel, l), UNCHANGED tape,
               play' = [play EXCEPT !.primed = FALSE, !.steady = FALSE, !.ended = FALSE]
        PROVE  TapeInv'
    <3>1. l \in Nat /\ l >= 3
      BY Reels
    <3>2. /\ reel' \in ReelKeeps /\ reel'.ring = <<>> /\ reel'.read = 0 /\ reel'.length = l
      <4>1. reel \in ReelKeeps /\ <<>> \in Seq(Nat)
        BY EmptySeq DEF TapeInv, Holds
      <4>2. reel' = [reel EXCEPT !.mode = "play", !.length = l, !.read = 0, !.ring = <<>>,
                                 !.eof = FALSE]
        BY <2>2 DEF T!Started
      <4> QED
        BY <3>1, <4>1, <4>2 DEF ReelKeeps
    <3>3. play' \in PlayKeeps /\ ~play'.steady /\ (play'.fripp <=> play.fripp)
      BY <2>2 DEF PlayKeeps, TapeInv, Holds
    <3>4. RunsOn(reel') /\ Due(reel') = 0
      BY <3>1, <3>2 DEF RunsOn, Due, OnReel
    <3>5. Len(reel'.ring) <= ReelCap /\ reel'.read <= reel'.length
      BY <3>1, <3>2, Reels
    <3> QED
      BY <2>2, <3>2, <3>3, <3>4, <3>5 DEF TapeInv, Holds
  <2> QED
    BY <1>7, <2>1, <2>2 DEF T!PlayPad
<1>8. CASE T!RecordPad
  <2>1. CASE reel' = T!Stopped(reel) /\ UNCHANGED <<tape, play>>
    BY <2>1, StoppedKeeps
  <2>2. CASE reel' = [reel EXCEPT !.mode = "record"] /\ UNCHANGED <<tape, play>>
    <3>1. /\ reel' \in ReelKeeps /\ reel'.mode = "record" /\ reel'.ring = reel.ring
          /\ reel'.read = reel.read /\ reel'.length = reel.length
      BY <2>2 DEF ReelKeeps, TapeInv, Holds
    <3> QED
      BY <2>2, <3>1 DEF TapeInv, Holds
  <2> QED
    BY <1>8, <2>1, <2>2 DEF T!RecordPad
<1>9. ASSUME NEW m \in T!Modes, T!TurnEnv(m) PROVE TapeInv'
  <2>1. /\ tape' \in TapeKeeps /\ tape'.loop = m /\ tape'.pos = tape.pos
        /\ tape'.faded = tape.faded /\ (tape'.primed <=> tape.primed)
    BY <1>9 DEF T!TurnEnv, TapeKeeps, TapeInv, Holds
  <2> DEFINE b == play.steady /\ m \in T!Shaped
  <2>2. play' = [play EXCEPT !.steady = b, !.fripp = FALSE] /\ b \in BOOLEAN /\ UNCHANGED reel
    BY <1>9 DEF T!TurnEnv, PlayKeeps, TapeInv, Holds
  <2> HIDE DEF b
  <2>3. play' \in PlayKeeps /\ (play'.steady <=> b) /\ ~play'.fripp
    BY <2>2 DEF PlayKeeps, TapeInv, Holds
  <2>4. b => play.steady /\ m \in T!Shaped
    BY DEF b
  <2> QED
    BY <2>1, <2>2, <2>3, <2>4 DEF TapeInv, Holds
<1>10. CASE UNCHANGED T!vars
  BY <1>10 DEF T!vars, TapeInv, Holds
<1> QED
  BY <1>1, <1>2, <1>3, <1>4, <1>5, <1>6, <1>7, <1>8, <1>9, <1>10 DEF T!Next, T!MainLoop

LEMMA ShapeHolds == TapeInv => T!ShapeFollowsTape
<1> SUFFICES ASSUME TapeInv PROVE T!ShapeFollowsTape
  OBVIOUS
<1> USE DEF TapeInv, Holds
<1>1. T!TapeType
  BY DEF T!TapeType, TapeKeeps, ReelKeeps
<1>2. ASSUME T!Playing PROVE T!NextFrame = Due(reel)
  <2>1. reel.length \in Nat \ {0} /\ reel.read \in 0 .. reel.length
    BY <1>2 DEF T!Playing, ReelKeeps, RunsOn
  <2>2. reel.read % reel.length = OnReel(reel)
    BY <2>1, ModLow DEF OnReel
  <2> QED
    BY <2>2 DEF T!NextFrame, Due
<1> QED
  BY <1>1, <1>2 DEF T!ShapeFollowsTape, T!Playing

(* The seam of the loop and the passes it has been faded by, as the engine  *)
(* counts them, are those of the frames the stream delivers, for any ring,  *)
(* files and floor (tape_engine.cpp, the loop shape), also while the pump,  *)
(* the pads and the mode knob come between two interrupts.                  *)
THEOREM ShapeFollows == TapeSpec => []ShapeFollowsTape
<1>1. TapeInv => ShapeFollowsTape
  BY ShapeHolds DEF ShapeFollowsTape
<1> QED
  BY <1>1, TapeInit, TapeStep, PTL DEF TapeSpec, T!FairSpec, T!Spec

-----------------------------------------------------------------------------
(* The overdub looper, the instance S: two voices, their loads and saves    *)
(* share the deck's stream.                                                 *)

\* What a chunk of audio is, and the views that the handlers work on.
Chunk == S!Slots \cup {-1, -2}
VoiceKeeps == [len : 0 .. Cap, overdub : BOOLEAN, defining : BOOLEAN, head : 0 .. Cap,
               load : {"idle", "priming", "draining"}, wpos : 0 .. Cap, slot : S!Slots,
               buf : [1 .. Cap -> Chunk]]
LooperKeeps == [active : S!Tracks, held : BOOLEAN, dirty : BOOLEAN,
                armed : {"no", "waiting", "due"}, boot : {"none", "card", "late"},
                next : 0 .. 2, save : {"idle", "writing", "finalize"},
                saveVoice : S!Tracks \cup {-1}, savePos : 0 .. Cap, saveEnd : 0 .. Cap]
StreamKeeps == [mode : {"idle", "play", "record"}, finalizing : BOOLEAN, slot : S!Slots,
                pos : Nat, eof : BOOLEAN, ring : Seq(Chunk)]
ClipKeeps == [frames : Nat, data : Seq(Chunk), there : BOOLEAN]
StoryKeeps == [from : [S!Tracks -> S!Slots \cup {-1}], whole : Seq(Chunk), clean : BOOLEAN,
               erased : [S!Tracks -> BOOLEAN], picked : S!Tracks \cup {-1}, astray : BOOLEAN]
Scenes == [voice : [S!Tracks -> VoiceKeeps], deck : LooperKeeps, stream : StreamKeeps,
           card : [S!Slots -> ClipKeeps], past : StoryKeeps]

Busy(z, v) == z.voice[v].load # "idle"
Storing(z) == z.stream.mode = "record" \/ z.stream.finalizing
OnStream(z) == z.card[z.stream.slot]

\* What the stream does is for one of them.
ForOne(z) ==
    /\ z.stream.mode = "record" <=> z.deck.save # "idle"
    /\ z.stream.mode # "idle" => ~z.stream.finalizing
    /\ z.stream.mode = "play" => \E v \in S!Tracks : Busy(z, v)
    /\ Storing(z) => \A v \in S!Tracks : ~Busy(z, v)
    /\ z.deck.save # "idle" => z.deck.saveVoice \in S!Tracks

\* A file that is not being written is complete; one that is read is there.
Complete(z) ==
    /\ \A k \in S!Slots : z.card[k].there /\ ~(Storing(z) /\ k = z.stream.slot)
          => z.card[k].frames = Len(z.card[k].data) /\ z.card[k].frames # 0
    /\ z.stream.mode = "play" => OnStream(z).there /\ z.stream.pos <= OnStream(z).frames
    /\ Len(z.stream.ring) <= Read

\* A voice that loads has of its file what the ring has not, and waits for the rest.
Served(z, v) ==
    /\ z.stream.mode = "play"
    /\ \A u \in S!Tracks : Busy(z, u) => u = v
    /\ z.voice[v].wpos < OnStream(z).frames /\ z.voice[v].wpos < Cap
    /\ z.voice[v].wpos + Len(z.stream.ring) = z.stream.pos
    /\ z.stream.eof => z.stream.pos = OnStream(z).frames
    /\ \A i \in 1 .. Len(z.stream.ring) :
          z.stream.ring[i] = OnStream(z).data[z.voice[v].wpos + i]
LoadsServed(z) == ~z.past.astray => \A v \in S!Tracks : Busy(z, v) => Served(z, v)

\* A voice whose file is known has as much of it as it has got.
StartsAs(q, p, n) == n <= Len(p) /\ \A i \in 1 .. n : q[i] = p[i]
HasFile(z, v, k) ==
    /\ z.card[k].there /\ ~(Storing(z) /\ k = z.stream.slot)
    /\ Busy(z, v) => /\ ~z.past.astray /\ k = z.stream.slot
                     /\ StartsAs(z.voice[v].buf, z.card[k].data, z.voice[v].wpos)
    /\ ~Busy(z, v) =>
          /\ z.voice[v].len = IF z.card[k].frames < Cap THEN z.card[k].frames ELSE Cap
          /\ StartsAs(z.voice[v].buf, z.card[k].data, z.voice[v].len)
VoicesHold(z) == \A v \in S!Tracks : z.past.from[v] # -1 => HasFile(z, v, z.past.from[v])

\* A save has put on the card and in the ring what it has passed of its window.
Rest(z) == IF z.deck.save = "writing" THEN z.deck.saveEnd - z.deck.savePos ELSE 0
Passed(z) == Len(OnStream(z).data) + Len(z.stream.ring)
SaveGoesOn(z) ==
    Storing(z) =>
       /\ z.deck.save = "writing" => z.deck.savePos < z.deck.saveEnd
       /\ Passed(z) + Rest(z) = Len(z.past.whole) /\ Len(z.past.whole) # 0
       /\ z.past.clean =>
             /\ \A i \in 1 .. Len(OnStream(z).data) : z.past.whole[i] = OnStream(z).data[i]
             /\ \A i \in 1 .. Len(z.stream.ring) :
                   z.past.whole[Len(OnStream(z).data) + i] = z.stream.ring[i]
             /\ \A i \in 1 .. Rest(z) :
                   z.past.whole[Passed(z) + i]
                     = z.voice[z.deck.saveVoice].buf[z.deck.savePos + i]

Shares(z) == ForOne(z) /\ Complete(z) /\ LoadsServed(z) /\ VoicesHold(z) /\ SaveGoesOn(z)
Sound(z) == z \in Scenes /\ Shares(z)
SoftInv == Sound([voice |-> voice, deck |-> looper, stream |-> stream, card |-> card, past |-> story])

LEMMA Sized ==
    /\ Cap \in Nat \ {0} /\ Read \in Nat \ {0} /\ S!Tracks = {0, 1}
    /\ S!Tracks \subseteq S!Slots /\ \A k \in S!Slots : Clips[k] \in Nat
    /\ Torn \in BOOLEAN
  BY SoftcutParameters DEF S!SoftcutAssumption, S!Tracks

\* A handler that leaves the stream and its files alone, and takes the file from
\* a voice whose buffer it touches.
LEMMA TouchedShares ==
    ASSUME NEW z, NEW y, Shares(z),
           y.stream = z.stream, y.card = z.card,
           y.deck.save = z.deck.save, y.deck.saveVoice = z.deck.saveVoice,
           y.deck.savePos = z.deck.savePos, y.deck.saveEnd = z.deck.saveEnd,
           y.past.whole = z.past.whole, y.past.astray <=> z.past.astray,
           \A v \in S!Tracks :
              /\ y.voice[v].load = "idle" <=> z.voice[v].load = "idle"
              /\ Busy(z, v) => y.voice[v].wpos = z.voice[v].wpos
              /\ y.past.from[v] # -1 => /\ y.past.from[v] = z.past.from[v]
                                        /\ y.voice[v].len = z.voice[v].len
                                        /\ y.voice[v].buf = z.voice[v].buf,
           y.past.clean => /\ z.past.clean
                           /\ z.deck.save # "idle" =>
                                 y.voice[z.deck.saveVoice].buf = z.voice[z.deck.saveVoice].buf
    PROVE  Shares(y)
<1>1. /\ \A v \in S!Tracks : Busy(y, v) <=> Busy(z, v)
      /\ Storing(y) <=> Storing(z)
      /\ OnStream(y) = OnStream(z) /\ Passed(y) = Passed(z) /\ Rest(y) = Rest(z)
  BY DEF Busy, Storing, OnStream, Passed, Rest
<1>2. ForOne(y)
  BY <1>1 DEF Shares, ForOne
<1>3. Complete(y)
  BY <1>1 DEF Shares, Complete
<1>4. LoadsServed(y)
  <2> SUFFICES ASSUME ~y.past.astray, NEW v \in S!Tracks, Busy(y, v) PROVE Served(y, v)
    BY DEF LoadsServed
  <2>1. Served(z, v)
    BY <1>1 DEF Shares, LoadsServed
  <2>2. y.voice[v].wpos = z.voice[v].wpos
    BY <1>1
  <2> QED
    BY <1>1, <2>1, <2>2 DEF Served
<1>5. VoicesHold(y)
  <2> SUFFICES ASSUME NEW v \in S!Tracks, y.past.from[v] # -1 PROVE HasFile(y, v, y.past.from[v])
    BY DEF VoicesHold
  <2>1. /\ y.past.from[v] = z.past.from[v] /\ y.voice[v].len = z.voice[v].len
        /\ y.voice[v].buf = z.voice[v].buf
        /\ Busy(z, v) => y.voice[v].wpos = z.voice[v].wpos
    OBVIOUS
  <2>2. HasFile(z, v, z.past.from[v])
    BY <2>1 DEF Shares, VoicesHold
  <2> QED
    BY <1>1, <2>1, <2>2 DEF HasFile
<1>6. SaveGoesOn(y)
  <2> SUFFICES ASSUME Storing(y) PROVE
       /\ y.deck.save = "writing" => y.deck.savePos < y.deck.saveEnd
       /\ Passed(y) + Rest(y) = Len(y.past.whole) /\ Len(y.past.whole) # 0
       /\ y.past.clean =>
             /\ \A i \in 1 .. Len(OnStream(y).data) : y.past.whole[i] = OnStream(y).data[i]
             /\ \A i \in 1 .. Len(y.stream.ring) :
                   y.past.whole[Len(OnStream(y).data) + i] = y.stream.ring[i]
             /\ \A i \in 1 .. Rest(y) :
                   y.past.whole[Passed(y) + i]
                     = y.voice[y.deck.saveVoice].buf[y.deck.savePos + i]
    BY DEF SaveGoesOn
  <2>1. SaveGoesOn(z)
    BY DEF Shares
  <2>2. CASE z.deck.save = "writing"
    BY <1>1, <2>1, <2>2 DEF SaveGoesOn
  <2>3. CASE z.deck.save # "writing"
    <3>1. Rest(z) = 0
      BY <2>3 DEF Rest
    <3>2. \A i : i \notin 1 .. 0
      OBVIOUS
    <3> QED
      BY <1>1, <2>1, <2>3, <3>1, <3>2 DEF SaveGoesOn
  <2> QED
    BY <2>2, <2>3
<1> QED
  BY <1>2, <1>3, <1>4, <1>5, <1>6 DEF Shares

\* A view with one part put in.
LEMMA PutVoice ==
    ASSUME NEW z \in Scenes, NEW v \in S!Tracks, NEW c \in VoiceKeeps, NEW y,
           y = [z EXCEPT !.voice[v] = c]
    PROVE  /\ y \in Scenes /\ y.voice[v] = c
           /\ \A u \in S!Tracks : u # v => y.voice[u] = z.voice[u]
           /\ y.deck = z.deck /\ y.stream = z.stream /\ y.card = z.card /\ y.past = z.past
  BY DEF Scenes

LEMMA PutDeck ==
    ASSUME NEW z \in Scenes, NEW c \in LooperKeeps, NEW y, y = [z EXCEPT !.deck = c]
    PROVE  /\ y \in Scenes /\ y.deck = c /\ y.voice = z.voice
           /\ y.stream = z.stream /\ y.card = z.card /\ y.past = z.past
  BY DEF Scenes

LEMMA PutStream ==
    ASSUME NEW z \in Scenes, NEW c \in StreamKeeps, NEW y, y = [z EXCEPT !.stream = c]
    PROVE  /\ y \in Scenes /\ y.stream = c /\ y.voice = z.voice
           /\ y.deck = z.deck /\ y.card = z.card /\ y.past = z.past
  BY DEF Scenes

LEMMA PutCard ==
    ASSUME NEW z \in Scenes, NEW k \in S!Slots, NEW c \in ClipKeeps, NEW y,
           y = [z EXCEPT !.card[k] = c]
    PROVE  /\ y \in Scenes /\ y.card[k] = c
           /\ \A l \in S!Slots : l # k => y.card[l] = z.card[l]
           /\ y.deck = z.deck /\ y.stream = z.stream /\ y.voice = z.voice /\ y.past = z.past
  BY DEF Scenes

LEMMA PutPast ==
    ASSUME NEW z \in Scenes, NEW c \in StoryKeeps, NEW y, y = [z EXCEPT !.past = c]
    PROVE  /\ y \in Scenes /\ y.past = c /\ y.voice = z.voice
           /\ y.stream = z.stream /\ y.card = z.card /\ y.deck = z.deck
  BY DEF Scenes

LEMMA Parts ==
    ASSUME NEW z \in Scenes
    PROVE  /\ z.voice \in [S!Tracks -> VoiceKeeps] /\ z.deck \in LooperKeeps
           /\ z.stream \in StreamKeeps /\ z.card \in [S!Slots -> ClipKeeps]
           /\ z.past \in StoryKeeps
           /\ z = [voice |-> z.voice, deck |-> z.deck, stream |-> z.stream, card |-> z.card,
                   past |-> z.past]
  BY DEF Scenes

LEMMA Scene ==
    ASSUME NEW v \in [S!Tracks -> VoiceKeeps], NEW d \in LooperKeeps, NEW s \in StreamKeeps,
           NEW c \in [S!Slots -> ClipKeeps], NEW p \in StoryKeeps
    PROVE  [voice |-> v, deck |-> d, stream |-> s, card |-> c, past |-> p] \in Scenes
  BY DEF Scenes

LEMMA StopIs ==
    ASSUME NEW z \in Scenes
    PROVE  /\ S!StopStream(z) \in Scenes /\ S!StopStream(z).voice = z.voice
           /\ S!StopStream(z).deck = z.deck /\ S!StopStream(z).card = z.card
           /\ S!StopStream(z).past = z.past
           /\ S!StopStream(z).stream.mode = "idle"
           /\ S!StopStream(z).stream.finalizing
                <=> z.stream.finalizing \/ z.stream.mode = "record"
           /\ S!StopStream(z).stream.slot = z.stream.slot
           /\ S!StopStream(z).stream.ring = z.stream.ring
<1> DEFINE b == z.stream.finalizing \/ z.stream.mode = "record"
           s == [z.stream EXCEPT !.mode = "idle", !.finalizing = b]
<1>1. z.stream \in StreamKeeps /\ b \in BOOLEAN
  BY Parts DEF StreamKeeps
<1>2. S!StopStream(z) = [z EXCEPT !.stream = s]
  BY DEF S!StopStream, Scenes
<1>3. (b <=> z.stream.finalizing \/ z.stream.mode = "record")
  OBVIOUS
<1> HIDE DEF b
<1>4. /\ s \in StreamKeeps /\ s.mode = "idle" /\ (s.finalizing <=> b)
      /\ s.slot = z.stream.slot /\ s.ring = z.stream.ring
  BY <1>1 DEF StreamKeeps
<1> HIDE DEF s
<1> QED
  BY <1>2, <1>3, <1>4, PutStream

\* A save that is done leaves its tail to be drained.
LEMMA FinalizedKeeps ==
    ASSUME NEW z, Sound(z)
    PROVE  Sound(S!Finalized(z))
<1> DEFINE y == S!Finalized(z)
           s == S!StopStream(z)
           d == [z.deck EXCEPT !.save = "idle", !.saveVoice = -1]
<1>1. z \in Scenes /\ Shares(z)
  BY DEF Sound
<1>2. CASE z.deck.save # "finalize"
  BY <1>1, <1>2 DEF S!Finalized, Sound
<1>3. CASE z.deck.save = "finalize"
  <2>1. /\ s \in Scenes /\ s.voice = z.voice /\ s.deck = z.deck /\ s.card = z.card
        /\ s.past = z.past /\ s.stream.mode = "idle"
        /\ s.stream.finalizing <=> z.stream.finalizing \/ z.stream.mode = "record"
        /\ s.stream.slot = z.stream.slot /\ s.stream.ring = z.stream.ring
    BY <1>1, StopIs
  <2>2. d \in LooperKeeps /\ d.save = "idle"
    <3>1. z.deck \in LooperKeeps
      BY <1>1, Parts
    <3> HIDE DEF s, y
    <3> QED
      BY <3>1 DEF LooperKeeps
  <2>3. y = [s EXCEPT !.deck = d]
    BY <1>3, <2>1 DEF S!Finalized, Scenes, S!None
  <2> HIDE DEF y, s, d
  <2>4. /\ y \in Scenes /\ y.deck = d /\ y.voice = z.voice /\ y.stream = s.stream
        /\ y.card = z.card /\ y.past = z.past
    BY <2>1, <2>2, <2>3, PutDeck
  <2>5. /\ z.stream.mode = "record" /\ Storing(z) /\ Storing(y) /\ OnStream(y) = OnStream(z)
        /\ \A v \in S!Tracks : ~Busy(z, v) /\ (Busy(y, v) <=> Busy(z, v))
    BY <1>1, <1>3, <2>1, <2>4 DEF Shares, ForOne, Storing, OnStream, Busy
  <2>6. Passed(y) = Passed(z) /\ Rest(y) = 0 /\ Rest(z) = 0
    BY <1>3, <2>1, <2>2, <2>4, <2>5 DEF Passed, Rest
  <2>7. ForOne(y)
    BY <2>1, <2>2, <2>4, <2>5 DEF ForOne
  <2>8. Complete(y)
    BY <1>1, <2>1, <2>4, <2>5 DEF Shares, Complete
  <2>9. LoadsServed(y)
    BY <2>5 DEF LoadsServed
  <2>10. VoicesHold(y)
    BY <1>1, <2>1, <2>4, <2>5 DEF Shares, VoicesHold, HasFile
  <2>11. SaveGoesOn(y)
    <3>1. SaveGoesOn(z)
      BY <1>1 DEF Shares
    <3>2. \A i : i \notin 1 .. 0
      OBVIOUS
    <3> QED
      BY <2>1, <2>2, <2>4, <2>5, <2>6, <3>1, <3>2 DEF SaveGoesOn
  <2> QED
    BY <2>4, <2>7, <2>8, <2>9, <2>10, <2>11 DEF Sound, Shares, y
<1> QED
  BY <1>2, <1>3

\* The window of a voice.
LEMMA WindowIs ==
    ASSUME NEW z \in Scenes, NEW v \in S!Tracks, NEW from \in Nat, NEW to \in 1 .. Cap,
           from < to
    PROVE  /\ S!Window(z, v, from, to) \in Seq(Chunk)
           /\ Len(S!Window(z, v, from, to)) = to - from
           /\ \A i \in 1 .. to - from :
                 S!Window(z, v, from, to)[i] = z.voice[v].buf[from + i]
<1> DEFINE q == z.voice[v].buf
           w == S!Window(z, v, from, to)
<1>1. q \in [1 .. Cap -> Chunk]
  BY Parts DEF VoiceKeeps
<1>2. /\ from + 1 \in Int /\ to \in Int /\ from + 1 <= to /\ to - (from + 1) + 1 = to - from
      /\ \A i \in from + 1 .. to : q[i] \in Chunk
  BY <1>1, Sized
<1>3. w = SubSeq(q, from + 1, to)
  BY DEF S!Window
<1> HIDE DEF q, w
<1>4. /\ w \in Seq(Chunk) /\ Len(w) = to - from
      /\ \A i \in 1 .. to - (from + 1) + 1 : w[i] = q[from + 1 + i - 1]
  BY <1>2, <1>3, SubSeqProperties
<1>5. \A i \in 1 .. to - from : from + 1 + i - 1 = from + i
  OBVIOUS
<1>6. \A i \in 1 .. to - from : w[i] = q[from + i]
  BY <1>2, <1>4, <1>5
<1> QED
  BY <1>4, <1>6 DEF q, w

LEMMA EmptyFile ==
    LET f == [S!NoFile EXCEPT !.there = TRUE] IN f \in ClipKeeps /\ f.data = <<>>
<1>1. S!NoFile \in ClipKeeps /\ S!NoFile.data = <<>>
  BY EmptySeq DEF S!NoFile, ClipKeeps
<1> QED
  BY <1>1 DEF ClipKeeps

LEMMA StartRecordIs ==
    ASSUME NEW z \in Scenes, NEW k \in S!Slots
    PROVE  S!StartRecord(z, k) =
             [voice |-> z.voice, deck |-> z.deck,
              stream |-> [z.stream EXCEPT !.mode = "record", !.slot = k, !.ring = <<>>],
              card |-> [z.card EXCEPT ![k] = [S!NoFile EXCEPT !.there = TRUE]],
              past |-> z.past]
<1> DEFINE s == [z.stream EXCEPT !.mode = "record", !.slot = k, !.ring = <<>>]
           f == [S!NoFile EXCEPT !.there = TRUE]
           x == [z EXCEPT !.stream = s]
<1>1. S!StartRecord(z, k) = [x EXCEPT !.card[k] = f]
  BY DEF S!StartRecord
<1> HIDE DEF s, f
<1>2. x = [voice |-> z.voice, deck |-> z.deck, stream |-> s, card |-> z.card, past |-> z.past]
  BY DEF Scenes
<1>3. x.card = z.card
  BY <1>2
<1> HIDE DEF x
<1>4. [x EXCEPT !.card[k] = f]
        = [voice |-> z.voice, deck |-> z.deck, stream |-> s,
           card |-> [z.card EXCEPT ![k] = f], past |-> z.past]
  BY <1>2, <1>3
<1> QED
  BY <1>1, <1>4 DEF s, f

\* A save begins when the stream is free and no voice loads.
LEMMA StartSaveKeeps ==
    ASSUME NEW z, Sound(z), NEW from \in Nat, NEW to \in 0 .. Cap
    PROVE  Sound(S!StartSave(z, from, to, FALSE))
<1> DEFINE y == S!StartSave(z, from, to, FALSE)
           v == z.deck.active
           k == z.voice[v].slot
<1>0. z \in Scenes /\ Shares(z) /\ v \in S!Tracks /\ k \in S!Slots
  BY Parts DEF Sound, LooperKeeps, VoiceKeeps
<1>1. CASE \/ z.deck.save # "idle" \/ \E u \in S!Tracks : z.voice[u].load # "idle"
           \/ z.voice[v].len = 0 \/ to <= from \/ ~S!Free(z)
  BY <1>1 DEF S!StartSave
<1>2. CASE ~(\/ z.deck.save # "idle" \/ \E u \in S!Tracks : z.voice[u].load # "idle"
             \/ z.voice[v].len = 0 \/ to <= from \/ ~S!Free(z))
  <2> DEFINE c == [z.voice[v] EXCEPT !.overdub = FALSE]
             d == [z.deck EXCEPT !.save = "writing", !.saveVoice = v, !.savePos = from,
                                 !.saveEnd = to]
             s == [z.stream EXCEPT !.mode = "record", !.slot = k, !.ring = <<>>]
             f == [S!NoFile EXCEPT !.there = TRUE]
             w == S!Window(z, v, from, to)
             g == [u \in S!Tracks |-> IF z.past.from[u] = k THEN -1 ELSE z.past.from[u]]
             p == [z.past EXCEPT !.whole = w, !.clean = TRUE, !.from = g]
  <2>1. /\ z.deck.save = "idle" /\ z.stream.mode = "idle" /\ ~z.stream.finalizing
        /\ from < to /\ to \in 1 .. Cap /\ \A u \in S!Tracks : ~Busy(z, u)
    BY <1>2, Sized DEF S!Free, Busy
  <2> DEFINE x == S!StartRecord(z, k)
             cs == [z.card EXCEPT ![k] = f]
             vs == [z.voice EXCEPT ![v] = c]
  <2>2. x = [voice |-> z.voice, deck |-> z.deck, stream |-> s, card |-> cs, past |-> z.past]
    BY <1>0, StartRecordIs
  <2>y. y = [voice |-> vs, deck |-> d, stream |-> s, card |-> cs, past |-> p]
    <3>1. y = [x EXCEPT !.voice[v].overdub = FALSE,
                        !.deck.save = "writing", !.deck.saveVoice = v,
                        !.deck.savePos = from, !.deck.saveEnd = to,
                        !.past.whole = w, !.past.clean = TRUE,
                        !.past.from = [u \in S!Tracks |-> IF @[u] = k THEN -1 ELSE @[u]]]
      BY <1>2 DEF S!StartSave, S!None
    <3> HIDE DEF x, y, w, cs, s
    <3>2. x.past = z.past /\ x.voice = z.voice /\ x.deck = z.deck
      BY <2>2
    <3>3. y = [voice |-> [x.voice EXCEPT ![v].overdub = FALSE],
               deck |-> [x.deck EXCEPT !.save = "writing", !.saveVoice = v,
                                       !.savePos = from, !.saveEnd = to],
               stream |-> s, card |-> cs,
               past |-> [x.past EXCEPT !.whole = w, !.clean = TRUE,
                           !.from = [u \in S!Tracks |-> IF @[u] = k THEN -1 ELSE @[u]]]]
      <4>1. x \in [voice : {x.voice}, deck : {x.deck}, stream : {s}, card : {cs}, past : {x.past}]
        BY <2>2, <3>2
      <4> QED
        BY <3>1, <4>1
    <3>4. [x.voice EXCEPT ![v].overdub = FALSE] = vs
      BY <3>2
    <3>5. [x.past EXCEPT !.whole = w, !.clean = TRUE,
                         !.from = [u \in S!Tracks |-> IF @[u] = k THEN -1 ELSE @[u]]] = p
      BY <3>2
    <3> QED
      BY <3>2, <3>3, <3>4, <3>5
  <2>3. /\ z.deck \in LooperKeeps /\ z.stream \in StreamKeeps /\ z.past \in StoryKeeps
        /\ z.voice \in [S!Tracks -> VoiceKeeps] /\ z.card \in [S!Slots -> ClipKeeps]
    BY <1>0, Parts
  <2>4. <<>> \in Seq(Chunk) /\ Len(<<>>) = 0
    BY EmptySeq
  <2>5. /\ w \in Seq(Chunk) /\ Len(w) = to - from
        /\ \A i \in 1 .. to - from : w[i] = z.voice[v].buf[from + i]
    BY <1>0, <2>1, WindowIs
  <2>z. from \in 0 .. Cap /\ to \in 0 .. Cap
    BY <2>1, Sized
  <2> HIDE DEF v, k, w, y, x
  <2>6. /\ c \in VoiceKeeps /\ c.load = z.voice[v].load /\ c.len = z.voice[v].len
        /\ c.buf = z.voice[v].buf
    BY <1>0, <2>3 DEF VoiceKeeps
  <2>7. /\ d \in LooperKeeps /\ d.save = "writing" /\ d.saveVoice = v /\ d.savePos = from
        /\ d.saveEnd = to
    BY <1>0, <2>3, <2>z DEF LooperKeeps
  <2>8. /\ s \in StreamKeeps /\ s.mode = "record" /\ s.slot = k /\ s.ring = <<>>
        /\ s.finalizing = z.stream.finalizing
    BY <1>0, <2>3, <2>4 DEF StreamKeeps
  <2>9. f \in ClipKeeps /\ f.data = <<>>
    BY EmptyFile
  <2>10. /\ g \in [S!Tracks -> S!Slots \cup {-1}]
         /\ \A u \in S!Tracks : g[u] # -1 => g[u] = z.past.from[u] /\ g[u] # k
    BY <1>0, <2>3 DEF StoryKeeps
  <2> HIDE DEF g
  <2>11. /\ p \in StoryKeeps /\ p.whole = w /\ p.from = g
         /\ p.astray = z.past.astray
    BY <2>3, <2>5, <2>10 DEF StoryKeeps
  <2> HIDE DEF c, d, s, f, p
  <2>12. /\ vs \in [S!Tracks -> VoiceKeeps] /\ vs[v] = c
         /\ \A u \in S!Tracks : u # v => vs[u] = z.voice[u]
    BY <1>0, <2>3, <2>6
  <2>13. /\ cs \in [S!Slots -> ClipKeeps] /\ cs[k] = f
         /\ \A l \in S!Slots : l # k => cs[l] = z.card[l]
    BY <1>0, <2>3, <2>9
  <2> HIDE DEF vs, cs
  <2>16. /\ y \in Scenes /\ y.stream = s /\ y.voice = vs /\ y.deck = d
         /\ y.card = cs /\ y.past = p
    BY <2>7, <2>8, <2>11, <2>12, <2>13, <2>y, Scene
  <2>17. /\ Storing(y) /\ ~Storing(z) /\ OnStream(y) = f /\ y.stream.slot = k
         /\ \A u \in S!Tracks : ~Busy(y, u)
    BY <1>0, <2>1, <2>6, <2>8, <2>12, <2>13, <2>16 DEF Storing, OnStream, Busy
  <2>18. ForOne(y)
    BY <1>0, <2>1, <2>7, <2>8, <2>16, <2>17 DEF ForOne
  <2>19. Complete(y)
    BY <1>0, <2>4, <2>8, <2>13, <2>16, <2>17, Sized DEF Shares, Complete
  <2>20. LoadsServed(y)
    BY <2>17 DEF LoadsServed
  <2>21. VoicesHold(y)
    <3> SUFFICES ASSUME NEW u \in S!Tracks, y.past.from[u] # -1
                 PROVE  HasFile(y, u, y.past.from[u])
      BY DEF VoicesHold
    <3>1. /\ y.past.from[u] = z.past.from[u] /\ y.past.from[u] # k
          /\ y.past.from[u] \in S!Slots
      BY <2>10, <2>11, <2>16
    <3>2. HasFile(z, u, z.past.from[u])
      BY <1>0, <3>1 DEF Shares, VoicesHold
    <3>3. y.voice[u].len = z.voice[u].len /\ y.voice[u].buf = z.voice[u].buf
      BY <2>6, <2>12, <2>16
    <3>4. y.card[y.past.from[u]] = z.card[z.past.from[u]]
      BY <2>13, <2>16, <3>1
    <3> QED
      BY <2>1, <2>17, <3>1, <3>2, <3>3, <3>4 DEF HasFile
  <2>22. SaveGoesOn(y)
    <3>1. /\ y.deck.save = "writing" /\ y.deck.savePos = from /\ y.deck.saveEnd = to
          /\ y.deck.saveVoice = v /\ y.past.whole = w
          /\ OnStream(y).data = <<>> /\ y.stream.ring = <<>>
          /\ y.voice[v].buf = z.voice[v].buf
      BY <2>6, <2>7, <2>8, <2>9, <2>11, <2>12, <2>16, <2>17
    <3>2. Passed(y) = 0 /\ Rest(y) = to - from /\ to - from \in Nat /\ to - from # 0
      BY <2>1, <2>4, <3>1 DEF Passed, Rest
    <3>3. \A i \in 1 .. to - from : 0 + i = i
      OBVIOUS
    <3>4. \A i : i \notin 1 .. 0
      OBVIOUS
    <3> QED
      BY <2>1, <2>4, <2>5, <3>1, <3>2, <3>3, <3>4 DEF SaveGoesOn
  <2> QED
    BY <2>16, <2>18, <2>19, <2>20, <2>21, <2>22 DEF Sound, Shares, y
<1> QED
  BY <1>1, <1>2

LEMMA DeferredKeeps ==
    ASSUME NEW z, Sound(z)
    PROVE  Sound(S!Deferred(z, FALSE))
<1> DEFINE d == [z.deck EXCEPT !.armed = "no"]
           y == [z EXCEPT !.deck = d]
<1>1. z \in Scenes /\ Shares(z)
  BY DEF Sound
<1>2. /\ d \in LooperKeeps /\ d.save = z.deck.save /\ d.saveVoice = z.deck.saveVoice
      /\ d.savePos = z.deck.savePos /\ d.saveEnd = z.deck.saveEnd
  BY <1>1, Parts DEF LooperKeeps
<1>3. S!Deferred(z, FALSE)
        = IF z.deck.armed # "due" THEN z
          ELSE S!StartSave(y, 0, y.voice[y.deck.active].len, FALSE)
  BY DEF S!Deferred
<1> HIDE DEF d
<1>4. /\ y \in Scenes /\ y.deck = d /\ y.voice = z.voice /\ y.stream = z.stream
      /\ y.card = z.card /\ y.past = z.past
  BY <1>1, <1>2, PutDeck
<1> HIDE DEF y
<1>5. Sound(y)
  <2>1. Shares(y)
    BY <1>1, <1>2, <1>4, TouchedShares
  <2> QED
    BY <1>4, <2>1 DEF Sound
<1>6. y.voice[y.deck.active].len \in 0 .. Cap
  BY <1>4, Parts DEF LooperKeeps, VoiceKeeps
<1>7. Sound(S!StartSave(y, 0, y.voice[y.deck.active].len, FALSE))
  BY <1>5, <1>6, StartSaveKeeps
<1> QED
  BY <1>3, <1>7

\* A load begins when the stream is free: beside others only if those have gone
\* astray.
LEMMA RequestLoadKeeps ==
    ASSUME NEW z, Sound(z), NEW v \in S!Tracks, NEW k \in S!Slots
    PROVE  Sound(S!RequestLoad(z, v, k))
<1> DEFINE y == S!RequestLoad(z, v, k)
<1>0. z \in Scenes /\ Shares(z)
  BY DEF Sound
<1>1. CASE ~S!Free(z) \/ ~z.card[k].there
  BY <1>1 DEF S!RequestLoad
<1>2. CASE S!Free(z) /\ z.card[k].there
  <2> DEFINE c == [z.voice[v] EXCEPT !.load = "priming", !.wpos = 0, !.len = 0, !.overdub = FALSE]
             s == [z.stream EXCEPT !.mode = "play", !.slot = k, !.pos = 0, !.eof = FALSE,
                                   !.ring = <<>>]
             a == S!Astray(z)
             n == IF a THEN -1 ELSE k
             q == [z.past EXCEPT !.from[v] = n, !.erased[v] = FALSE, !.astray = a]
             x == S!StartPlay(z, k)
             vs == [z.voice EXCEPT ![v] = c]
  <2>1. /\ z.deck \in LooperKeeps /\ z.stream \in StreamKeeps /\ z.past \in StoryKeeps
        /\ z.voice \in [S!Tracks -> VoiceKeeps] /\ z.card \in [S!Slots -> ClipKeeps]
        /\ z = [voice |-> z.voice, deck |-> z.deck, stream |-> z.stream, card |-> z.card,
                past |-> z.past]
    BY <1>0, Parts
  <2>2. <<>> \in Seq(Chunk) /\ Len(<<>>) = 0
    BY EmptySeq
  <2>3. y = [x EXCEPT !.voice[v] = [@ EXCEPT !.load = "priming", !.wpos = 0, !.len = 0,
                                             !.overdub = FALSE],
                      !.past = [@ EXCEPT !.from[v] = n, !.erased[v] = FALSE, !.astray = a]]
    BY <1>2 DEF S!RequestLoad, S!None
  <2>4. x = [z EXCEPT !.stream = s]
    BY DEF S!StartPlay
  <2>5. (a <=> z.past.astray /\ \E u \in S!Tracks : Busy(z, u)) /\ a \in BOOLEAN
    BY DEF S!Astray, Busy
  <2> HIDE DEF x, y, a
  <2>6. /\ s \in StreamKeeps /\ s.mode = "play" /\ s.slot = k /\ s.pos = 0 /\ ~s.eof
        /\ s.ring = <<>> /\ (s.finalizing <=> z.stream.finalizing)
    BY <2>1, <2>2 DEF StreamKeeps
  <2> HIDE DEF s
  <2>7. /\ x \in Scenes /\ x.stream = s /\ x.voice = z.voice /\ x.deck = z.deck
        /\ x.card = z.card /\ x.past = z.past
    BY <1>0, <2>4, <2>6, PutStream
  <2>8. y = [voice |-> vs, deck |-> z.deck, stream |-> s, card |-> z.card, past |-> q]
    <3>1. y = [voice |-> [x.voice EXCEPT ![v] = [@ EXCEPT !.load = "priming", !.wpos = 0,
                                                         !.len = 0, !.overdub = FALSE]],
               deck |-> x.deck, stream |-> x.stream, card |-> x.card,
               past |-> [x.past EXCEPT !.from[v] = n, !.erased[v] = FALSE, !.astray = a]]
      BY <2>3, <2>7 DEF Scenes
    <3> QED
      BY <2>7, <3>1
  <2>9. /\ c \in VoiceKeeps /\ c.load = "priming" /\ c.wpos = 0
    <3>1. 0 \in 0 .. Cap /\ z.voice[v] \in VoiceKeeps
      BY <2>1, Sized
    <3> QED
      BY <3>1 DEF VoiceKeeps
  <2> HIDE DEF c
  <2>10. /\ vs \in [S!Tracks -> VoiceKeeps] /\ vs[v] = c
         /\ \A u \in S!Tracks : u # v => vs[u] = z.voice[u]
    BY <2>1, <2>9
  <2>11. n \in S!Slots \cup {-1} /\ (n # -1 => ~a /\ n = k)
    OBVIOUS
  <2> HIDE DEF n, vs
  <2>12. /\ q \in StoryKeeps /\ (q.astray <=> a) /\ q.whole = z.past.whole
         /\ (q.clean <=> z.past.clean) /\ q.from[v] = n
         /\ \A u \in S!Tracks : u # v => q.from[u] = z.past.from[u]
    BY <2>1, <2>5, <2>11 DEF StoryKeeps
  <2> HIDE DEF q
  <2>13. /\ y \in Scenes /\ y.stream = s /\ y.voice = vs /\ y.deck = z.deck
         /\ y.card = z.card /\ y.past = q
    BY <2>1, <2>6, <2>8, <2>10, <2>12, Scene
  <2>14. /\ z.stream.mode = "idle" /\ ~z.stream.finalizing /\ ~Storing(z) /\ ~Storing(y)
         /\ z.deck.save = "idle" /\ z.card[k].frames = Len(z.card[k].data)
         /\ z.card[k].frames # 0 /\ OnStream(y) = z.card[k]
    BY <1>0, <1>2, <2>6, <2>13 DEF S!Free, Storing, OnStream, Shares, ForOne, Complete
  <2>15. /\ Busy(y, v) /\ \A u \in S!Tracks : u # v => (Busy(y, u) <=> Busy(z, u))
         /\ ~a => \A u \in S!Tracks : ~Busy(z, u)
    <3>1. ~z.past.astray => \A u \in S!Tracks : ~Busy(z, u)
      BY <1>0, <2>14 DEF Shares, LoadsServed, Served
    <3> QED
      BY <2>5, <2>9, <2>10, <2>13, <3>1 DEF Busy
  <2>16. z.card[k].frames \in Nat
    BY <2>1 DEF ClipKeeps
  <2>17. ForOne(y)
    BY <2>6, <2>13, <2>14, <2>15 DEF ForOne
  <2>18. Complete(y)
    <3>1. \A l \in S!Slots : z.card[l].there
             => z.card[l].frames = Len(z.card[l].data) /\ z.card[l].frames # 0
      BY <1>0, <2>14 DEF Shares, Complete
    <3> QED
      BY <1>2, <2>2, <2>6, <2>13, <2>14, <2>16, <3>1, Sized DEF Complete
  <2>19. LoadsServed(y)
    <3> SUFFICES ASSUME ~y.past.astray, NEW u \in S!Tracks, Busy(y, u) PROVE Served(y, u)
      BY DEF LoadsServed
    <3>1. u = v /\ \A w \in S!Tracks : Busy(y, w) => w = v
      BY <2>12, <2>13, <2>15
    <3>2. y.voice[v].wpos = 0
      BY <2>9, <2>10, <2>13
    <3>3. \A i : i \notin 1 .. 0
      OBVIOUS
    <3> QED
      BY <2>2, <2>6, <2>13, <2>14, <2>16, <3>1, <3>2, <3>3, Sized DEF Served
  <2>20. VoicesHold(y)
    <3> SUFFICES ASSUME NEW u \in S!Tracks, y.past.from[u] # -1
                 PROVE  HasFile(y, u, y.past.from[u])
      BY DEF VoicesHold
    <3>1. CASE u = v
      <4>1. y.past.from[u] = k /\ ~y.past.astray /\ y.voice[u].wpos = 0
        BY <2>9, <2>10, <2>11, <2>12, <2>13, <3>1
      <4>2. StartsAs(y.voice[u].buf, y.card[k].data, 0)
        <5>1. Len(y.card[k].data) \in Nat
          BY <2>13, <2>14, <2>16
        <5>2. \A i : i \notin 1 .. 0
          OBVIOUS
        <5> QED
          BY <5>1, <5>2 DEF StartsAs
      <4> QED
        BY <1>2, <2>6, <2>13, <2>14, <2>15, <3>1, <4>1, <4>2 DEF HasFile
    <3>2. CASE u # v
      <4>1. y.past.from[u] = z.past.from[u] /\ y.voice[u] = z.voice[u]
        BY <2>10, <2>12, <2>13, <3>2
      <4>2. HasFile(z, u, z.past.from[u])
        BY <1>0, <4>1 DEF Shares, VoicesHold
      <4>3. ~Busy(z, u)
        BY <2>5, <2>15, <4>2 DEF HasFile
      <4> QED
        BY <2>13, <2>14, <2>15, <3>2, <4>1, <4>2, <4>3 DEF HasFile
    <3> QED
      BY <3>1, <3>2
  <2>21. SaveGoesOn(y)
    BY <2>14 DEF SaveGoesOn
  <2> QED
    BY <2>13, <2>17, <2>18, <2>19, <2>20, <2>21 DEF Sound, Shares, y
<1> QED
  BY <1>1, <1>2

LEMMA PreloadedKeeps ==
    ASSUME NEW z, Sound(z)
    PROVE  Sound(S!Preloaded(z))
<1> DEFINE v == z.deck.next
           d == [z.deck EXCEPT !.next = v + 1]
           y == [z EXCEPT !.deck = d]
           c == [z.voice[v] EXCEPT !.slot = v]
           x == [y EXCEPT !.voice[v] = c]
<1>1. z \in Scenes /\ Shares(z)
  BY DEF Sound
<1>2. CASE v \notin S!Tracks
  BY <1>2 DEF S!Preloaded
<1>3. CASE v \in S!Tracks
  <2>1. S!Preloaded(z) \in {z, y, S!RequestLoad(x, v, v)}
    <3>1. [y EXCEPT !.voice[v].slot = v] = x
      BY <1>1 DEF Scenes
    <3> QED
      BY <1>3, <3>1 DEF S!Preloaded
  <2>2. v \in 0 .. 1 /\ v \in S!Slots /\ v + 1 \in 0 .. 2
    BY <1>3, Sized
  <2>3. z.deck \in LooperKeeps /\ z.voice \in [S!Tracks -> VoiceKeeps]
    BY <1>1, Parts
  <2> HIDE DEF v
  <2>4. /\ d \in LooperKeeps /\ d.save = z.deck.save /\ d.saveVoice = z.deck.saveVoice
        /\ d.savePos = z.deck.savePos /\ d.saveEnd = z.deck.saveEnd
    BY <2>2, <2>3 DEF LooperKeeps
  <2>5. /\ c \in VoiceKeeps /\ c.load = z.voice[v].load /\ c.wpos = z.voice[v].wpos
        /\ c.len = z.voice[v].len /\ c.buf = z.voice[v].buf
    BY <1>3, <2>2, <2>3 DEF VoiceKeeps
  <2> HIDE DEF d, c
  <2>6. /\ y \in Scenes /\ y.deck = d /\ y.voice = z.voice /\ y.stream = z.stream
        /\ y.card = z.card /\ y.past = z.past
    BY <1>1, <2>4, PutDeck
  <2>7. Shares(y)
    BY <1>1, <2>4, <2>6, TouchedShares
  <2> HIDE DEF y, x
  <2>8. /\ x \in Scenes /\ x.voice[v] = c
        /\ \A u \in S!Tracks : u # v => x.voice[u] = y.voice[u]
        /\ x.deck = y.deck /\ x.stream = y.stream /\ x.card = y.card /\ x.past = y.past
    <3> DEFINE vs == [y.voice EXCEPT ![v] = c]
    <3>1. x = [voice |-> vs, deck |-> y.deck, stream |-> y.stream, card |-> y.card, past |-> y.past]
      BY <2>6 DEF x, Scenes
    <3>2. /\ vs \in [S!Tracks -> VoiceKeeps] /\ vs[v] = c
          /\ \A u \in S!Tracks : u # v => vs[u] = y.voice[u]
      BY <1>3, <2>3, <2>5, <2>6
    <3> HIDE DEF vs
    <3>3. x \in Scenes
      BY <2>6, <3>1, <3>2, Parts, Scene
    <3> QED
      BY <3>1, <3>2, <3>3
  <2>9. \A u \in S!Tracks : /\ x.voice[u].load = y.voice[u].load
                            /\ x.voice[u].wpos = y.voice[u].wpos
                            /\ x.voice[u].len = y.voice[u].len
                            /\ x.voice[u].buf = y.voice[u].buf
    BY <1>3, <2>5, <2>6, <2>8
  <2>10. Shares(x)
    <3>1. y.deck.save # "idle" => y.deck.saveVoice \in S!Tracks
      BY <2>7 DEF Shares, ForOne
    <3> QED
      BY <2>7, <2>8, <2>9, <3>1, TouchedShares
  <2>11. Sound(x) /\ Sound(y)
    BY <2>6, <2>7, <2>8, <2>10 DEF Sound
  <2>12. Sound(S!RequestLoad(x, v, v))
    BY <1>3, <2>2, <2>11, RequestLoadKeeps
  <2> QED
    BY <2>1, <2>11, <2>12
<1> QED
  BY <1>2, <1>3

LEMMA CommittedKeeps ==
    ASSUME NEW z, Sound(z)
    PROVE  Sound(S!Committed(z))
<1> DEFINE v == z.deck.active
           k == z.voice[v].slot
           d == [z.deck EXCEPT !.dirty = FALSE]
           y == [z EXCEPT !.deck = d]
<1>1. z \in Scenes /\ Shares(z)
  BY DEF Sound
<1>2. S!Committed(z) \in {z, S!RequestLoad(y, v, k)}
  BY DEF S!Committed
<1>3. v \in S!Tracks /\ k \in S!Slots
  BY <1>1, Parts DEF LooperKeeps, VoiceKeeps
<1> HIDE DEF v, k
<1>4. /\ d \in LooperKeeps /\ d.save = z.deck.save /\ d.saveVoice = z.deck.saveVoice
      /\ d.savePos = z.deck.savePos /\ d.saveEnd = z.deck.saveEnd
  BY <1>1, Parts DEF LooperKeeps
<1> HIDE DEF d
<1>5. /\ y \in Scenes /\ y.deck = d /\ y.voice = z.voice /\ y.stream = z.stream
      /\ y.card = z.card /\ y.past = z.past
  BY <1>1, <1>4, PutDeck
<1>6. Shares(y)
  BY <1>1, <1>4, <1>5, TouchedShares
<1> HIDE DEF y
<1>7. Sound(S!RequestLoad(y, v, k))
  BY <1>3, <1>5, <1>6, RequestLoadKeeps DEF Sound
<1> QED
  BY <1>2, <1>7

\* A load that has been asked for learns how long its file is, or gives up.
LEMMA PrimedKeeps ==
    ASSUME NEW z, Sound(z), NEW v \in S!Tracks
    PROVE  Sound(S!Primed(z, v))
<1>1. z \in Scenes /\ Shares(z) /\ z.voice \in [S!Tracks -> VoiceKeeps] /\ z.past \in StoryKeeps
  BY Parts DEF Sound
<1> DEFINE c == [z.voice[v] EXCEPT !.load = "draining"]
           e == [z.voice[v] EXCEPT !.load = "idle"]
           p == [z.past EXCEPT !.from[v] = -1]
           cs == [z.voice EXCEPT ![v] = c]
           es == [z.voice EXCEPT ![v] = e]
           y == [voice |-> cs, deck |-> z.deck, stream |-> z.stream, card |-> z.card,
                 past |-> z.past]
           x == [voice |-> es, deck |-> z.deck, stream |-> z.stream, card |-> z.card,
                 past |-> p]
<1>2. /\ S!Primed(z, v) \in {z, y, x}
      /\ S!Primed(z, v) # z =>
            /\ z.voice[v].load = "priming"
            /\ S!Primed(z, v) = y \/ ~S!Playing(z)
  <2>1. [z EXCEPT !.voice[v].load = "draining"] = y
    BY <1>1 DEF Scenes
  <2>2. [z EXCEPT !.voice[v].load = "idle", !.past.from[v] = -1] = x
    <3> DEFINE m == [z EXCEPT !.voice[v].load = "idle"]
    <3>1. m = [voice |-> es, deck |-> z.deck, stream |-> z.stream, card |-> z.card,
               past |-> z.past]
      BY <1>1 DEF Scenes
    <3>2. [z EXCEPT !.voice[v].load = "idle", !.past.from[v] = -1]
            = [m EXCEPT !.past.from[v] = -1]
      OBVIOUS
    <3> HIDE DEF m, es
    <3>3. m.past = z.past
      BY <3>1
    <3>4. [m EXCEPT !.past.from[v] = -1] = x
      BY <3>1, <3>3
    <3> QED
      BY <3>2, <3>4
  <2> HIDE DEF x, y
  <2> QED
    BY <2>1, <2>2 DEF S!Primed, S!None
<1>3. /\ c \in VoiceKeeps /\ c.load = "draining" /\ c.wpos = z.voice[v].wpos
      /\ c.len = z.voice[v].len /\ c.buf = z.voice[v].buf
  BY <1>1 DEF VoiceKeeps
<1>4. e \in VoiceKeeps /\ e.load = "idle"
  BY <1>1 DEF VoiceKeeps
<1> HIDE DEF c, e
<1>5. /\ cs \in [S!Tracks -> VoiceKeeps] /\ cs[v] = c
      /\ es \in [S!Tracks -> VoiceKeeps] /\ es[v] = e
      /\ \A u \in S!Tracks : u # v => cs[u] = z.voice[u] /\ es[u] = z.voice[u]
  BY <1>1, <1>3, <1>4
<1>6. /\ p \in StoryKeeps /\ p.from[v] = -1 /\ p.whole = z.past.whole
      /\ (p.astray <=> z.past.astray)
      /\ \A u \in S!Tracks : u # v => p.from[u] = z.past.from[u]
  BY <1>1 DEF StoryKeeps
<1> HIDE DEF cs, es, p
<1>7. y \in Scenes /\ x \in Scenes
  BY <1>1, <1>5, <1>6, Parts, Scene
<1>8. ASSUME z.voice[v].load = "priming" PROVE Sound(y)
  <2>1. \A u \in S!Tracks : /\ y.voice[u].load = "idle" <=> z.voice[u].load = "idle"
                            /\ y.voice[u].wpos = z.voice[u].wpos
                            /\ y.voice[u].len = z.voice[u].len
                            /\ y.voice[u].buf = z.voice[u].buf
    BY <1>3, <1>5, <1>8
  <2>2. /\ y.deck = z.deck /\ y.stream = z.stream /\ y.card = z.card /\ y.past = z.past
    OBVIOUS
  <2> HIDE DEF y
  <2>3. z.deck.save # "idle" => z.deck.saveVoice \in S!Tracks
    BY <1>1 DEF Shares, ForOne
  <2>4. Shares(y)
    BY <1>1, <2>1, <2>2, <2>3, TouchedShares
  <2> QED
    BY <1>7, <2>4 DEF Sound
<1>9. ASSUME z.voice[v].load = "priming", ~S!Playing(z) PROVE Sound(x)
  <2>1. Busy(z, v) /\ z.stream.mode # "play"
    BY <1>9 DEF Busy, S!Playing
  <2>2. /\ z.past.astray /\ ~Storing(z) /\ z.deck.save = "idle"
    BY <1>1, <2>1 DEF Shares, LoadsServed, Served, ForOne, Storing
  <2>3. /\ x.deck = z.deck /\ x.stream = z.stream /\ x.card = z.card /\ x.past = p
        /\ x.voice = es
    OBVIOUS
  <2> HIDE DEF x
  <2>4. /\ \A u \in S!Tracks : u # v => (Busy(x, u) <=> Busy(z, u)) /\ x.voice[u] = z.voice[u]
        /\ ~Storing(x) /\ x.past.astray
    BY <1>5, <1>6, <2>2, <2>3 DEF Busy, Storing
  <2>5. ForOne(x)
    BY <1>1, <2>1, <2>2, <2>3, <2>4 DEF Shares, ForOne, Storing
  <2>6. Complete(x)
    BY <1>1, <2>2, <2>3, <2>4 DEF Shares, Complete, OnStream
  <2>7. LoadsServed(x)
    BY <2>4 DEF LoadsServed
  <2>8. VoicesHold(x)
    <3> SUFFICES ASSUME NEW u \in S!Tracks, x.past.from[u] # -1
                 PROVE  HasFile(x, u, x.past.from[u])
      BY DEF VoicesHold
    <3>1. u # v /\ x.past.from[u] = z.past.from[u]
      BY <1>6, <2>3
    <3>2. HasFile(z, u, z.past.from[u])
      BY <1>1, <3>1 DEF Shares, VoicesHold
    <3> QED
      BY <2>2, <2>3, <2>4, <3>1, <3>2 DEF HasFile
  <2>9. SaveGoesOn(x)
    BY <2>4 DEF SaveGoesOn
  <2> QED
    BY <1>7, <2>5, <2>6, <2>7, <2>8, <2>9 DEF Sound, Shares
<1> QED
  <2> HIDE DEF x, y
  <2> QED
    BY <1>2, <1>8, <1>9

LEMMA ChunkTail ==
    ASSUME NEW q \in Seq(Chunk), q # <<>>
    PROVE  /\ Len(q) \in Nat \ {0} /\ Len(Tail(q)) = Len(q) - 1
           /\ Tail(q) \in Seq(Chunk) /\ Head(q) = q[1] /\ q[1] \in Chunk
           /\ \A i \in 1 .. Len(q) - 1 : Tail(q)[i] = q[i + 1]
<1>1. Len(q) \in Nat \ {0}
  BY EmptySeq
<1>2. /\ Tail(q) \in Seq(Chunk) /\ Len(Tail(q)) = Len(q) - 1 /\ Head(q) \in Chunk
      /\ \A i \in 1 .. Len(Tail(q)) : Tail(q)[i] = q[i + 1]
  BY HeadTailProperties
<1>3. Head(q) = q[1]
  BY SMT
<1> QED
  BY <1>1, <1>2, <1>3

\* A chunk goes from the ring to the voice, if there is one and room for it.
LEMMA DrawnIs ==
    ASSUME NEW z, Sound(z), NEW v \in S!Tracks, Busy(z, v)
    PROVE  LET y == S!Drawn(z, v) IN
           /\ y \in Scenes /\ y.deck = z.deck /\ y.card = z.card /\ y.past = z.past
           /\ \A u \in S!Tracks : u # v => y.voice[u] = z.voice[u]
           /\ y.voice[v].load = z.voice[v].load
           /\ y.stream.mode = z.stream.mode /\ y.stream.slot = z.stream.slot
           /\ y.stream.pos = z.stream.pos /\ (y.stream.eof <=> z.stream.eof)
           /\ (y.stream.finalizing <=> z.stream.finalizing)
           /\ Len(y.stream.ring) <= Read
           /\ ~z.past.astray =>
                 /\ y.voice[v].wpos <= OnStream(z).frames /\ y.voice[v].wpos <= Cap
                 /\ y.voice[v].wpos + Len(y.stream.ring) = z.stream.pos
                 /\ \A i \in 1 .. Len(y.stream.ring) :
                       y.stream.ring[i] = OnStream(z).data[y.voice[v].wpos + i]
                 /\ z.past.from[v] # -1 =>
                       StartsAs(y.voice[v].buf, OnStream(z).data, y.voice[v].wpos)
<1> DEFINE y == S!Drawn(z, v)
           w == z.voice[v].wpos
           r == z.stream.ring
<1>1. /\ z \in Scenes /\ Shares(z) /\ z.voice \in [S!Tracks -> VoiceKeeps]
      /\ z.stream \in StreamKeeps /\ z.card \in [S!Slots -> ClipKeeps]
  BY Parts DEF Sound
<1>2. /\ w \in 0 .. Cap /\ r \in Seq(Chunk) /\ Len(r) \in Nat /\ Len(r) <= Read
      /\ OnStream(z) \in ClipKeeps
  BY <1>1 DEF VoiceKeeps, StreamKeeps, Shares, Complete, OnStream
<1>3. ~z.past.astray => Served(z, v)
  BY <1>1 DEF Shares, LoadsServed
<1>4. ASSUME ~z.past.astray, z.past.from[v] # -1
      PROVE  /\ StartsAs(z.voice[v].buf, OnStream(z).data, w)
             /\ OnStream(z).frames = Len(OnStream(z).data)
  <2>1. HasFile(z, v, z.past.from[v])
    BY <1>1, <1>4 DEF Shares, VoicesHold
  <2>2. z.past.from[v] \in S!Slots
    BY <1>1, <1>4, Parts DEF StoryKeeps
  <2> QED
    BY <1>1, <2>1, <2>2 DEF HasFile, OnStream, Shares, Complete
<1>5. CASE ~(S!Playing(z) /\ r # <<>> /\ w < Cap)
  <2>1. y = z
    BY <1>5 DEF S!Drawn
  <2> HIDE DEF y
  <2> QED
    BY <1>1, <1>2, <1>3, <1>4, <2>1, Sized DEF Served, ClipKeeps, y
<1>6. CASE S!Playing(z) /\ r # <<>> /\ w < Cap
  <2> DEFINE b == [z.voice[v].buf EXCEPT ![w + 1] = Head(r)]
             c == [z.voice[v] EXCEPT !.buf = b, !.wpos = w + 1]
             t == Tail(r)
             s == [z.stream EXCEPT !.ring = t]
             vs == [z.voice EXCEPT ![v] = c]
  <2>1. y = [voice |-> vs, deck |-> z.deck, stream |-> s, card |-> z.card, past |-> z.past]
    <3>1. y = [z EXCEPT !.voice[v].buf[w + 1] = Head(r), !.voice[v].wpos = w + 1,
                        !.stream.ring = t]
      BY <1>6 DEF S!Drawn
    <3> DEFINE n == w + 1
               h == Head(r)
               m == [z EXCEPT !.voice[v].buf[n] = h]
               j == [m EXCEPT !.voice[v].wpos = n]
               ms == [z.voice EXCEPT ![v].buf[n] = h]
    <3>2. y = [j EXCEPT !.stream.ring = t]
      BY <3>1
    <3> HIDE DEF y, t, n, h
    <3>3. m = [voice |-> ms, deck |-> z.deck, stream |-> z.stream, card |-> z.card,
               past |-> z.past]
      BY <1>1 DEF Scenes
    <3>4. ms \in [S!Tracks -> {ms[u] : u \in S!Tracks}] /\ ms[v] = [z.voice[v] EXCEPT !.buf[n] = h]
          /\ \A u \in S!Tracks : u # v => ms[u] = z.voice[u]
      BY <1>1
    <3> HIDE DEF m, ms
    <3>5. j = [voice |-> [ms EXCEPT ![v].wpos = n], deck |-> z.deck, stream |-> z.stream,
               card |-> z.card, past |-> z.past]
      BY <3>3
    <3>6. [ms EXCEPT ![v].wpos = n] = vs
      <4>1. [ms EXCEPT ![v].wpos = n][v] = vs[v]
        <5>1. [ms[v] EXCEPT !.wpos = n] = c
          BY <1>1, <3>4 DEF VoiceKeeps, n, h
        <5> HIDE DEF c
        <5> QED
          BY <1>1, <3>4, <5>1
      <4> HIDE DEF c
      <4>2. \A u \in S!Tracks : u # v => [ms EXCEPT ![v].wpos = n][u] = vs[u]
        BY <1>1, <3>4
      <4> QED
        BY <1>1, <3>4, <4>1, <4>2
    <3> HIDE DEF j, vs
    <3>7. j.stream = z.stream
      BY <3>5
    <3>8. [j EXCEPT !.stream.ring = t]
            = [voice |-> vs, deck |-> z.deck, stream |-> s, card |-> z.card, past |-> z.past]
      BY <3>5, <3>6, <3>7
    <3> QED
      BY <3>2, <3>8
  <2>2. /\ Len(r) \in Nat \ {0} /\ Len(t) = Len(r) - 1 /\ t \in Seq(Chunk)
        /\ Head(r) = r[1] /\ Head(r) \in Chunk
        /\ \A i \in 1 .. Len(r) - 1 : t[i] = r[i + 1]
    BY <1>2, <1>6, ChunkTail
  <2> HIDE DEF w, t, r, y
  <2>3. w + 1 \in 0 .. Cap /\ w + 1 \in 1 .. Cap
    BY <1>2, <1>6, Sized
  <2>4. /\ b \in [1 .. Cap -> Chunk] /\ b[w + 1] = Head(r)
        /\ \A i \in 1 .. Cap : i # w + 1 => b[i] = z.voice[v].buf[i]
    BY <1>1, <2>2, <2>3 DEF VoiceKeeps
  <2> HIDE DEF b
  <2>5. /\ c \in VoiceKeeps /\ c.load = z.voice[v].load /\ c.wpos = w + 1 /\ c.buf = b
    BY <1>1, <2>3, <2>4 DEF VoiceKeeps
  <2>6. /\ s \in StreamKeeps /\ s.ring = t /\ s.mode = z.stream.mode /\ s.slot = z.stream.slot
        /\ s.pos = z.stream.pos /\ (s.eof <=> z.stream.eof)
        /\ (s.finalizing <=> z.stream.finalizing)
    BY <1>1, <2>2 DEF StreamKeeps
  <2> HIDE DEF c, s
  <2>7. /\ vs \in [S!Tracks -> VoiceKeeps] /\ vs[v] = c
        /\ \A u \in S!Tracks : u # v => vs[u] = z.voice[u]
    BY <1>1, <2>5
  <2> HIDE DEF vs
  <2>8. /\ y \in Scenes /\ y.voice = vs /\ y.deck = z.deck /\ y.stream = s
        /\ y.card = z.card /\ y.past = z.past
    BY <1>1, <2>1, <2>6, <2>7, Parts, Scene
  <2>9. Len(y.stream.ring) <= Read
    BY <1>2, <2>2, <2>6, <2>8, Sized
  <2>10. ASSUME ~z.past.astray
         PROVE  /\ y.voice[v].wpos <= OnStream(z).frames /\ y.voice[v].wpos <= Cap
                /\ y.voice[v].wpos + Len(y.stream.ring) = z.stream.pos
                /\ \A i \in 1 .. Len(y.stream.ring) :
                      y.stream.ring[i] = OnStream(z).data[y.voice[v].wpos + i]
    <3>1. /\ w < OnStream(z).frames /\ w + Len(r) = z.stream.pos
          /\ \A i \in 1 .. Len(r) : r[i] = OnStream(z).data[w + i]
      BY <1>3, <2>10 DEF Served, w, r
    <3>2. y.voice[v].wpos = w + 1 /\ y.stream.ring = t /\ OnStream(z).frames \in Nat
      BY <1>2, <2>5, <2>6, <2>7, <2>8 DEF ClipKeeps
    <3>3. w \in Nat /\ Cap \in Nat
      BY <1>2, Sized
    <3>4. ASSUME NEW i \in 1 .. Len(t) PROVE t[i] = OnStream(z).data[(w + 1) + i]
      <4>1. i \in 1 .. Len(r) - 1 /\ i + 1 \in 1 .. Len(r) /\ w + (i + 1) = (w + 1) + i
        BY <2>2, <3>3
      <4>2. t[i] = r[i + 1]
        BY <2>2, <4>1
      <4> QED
        BY <3>1, <4>1, <4>2
    <3>5. (w + 1) + Len(t) = w + Len(r)
      BY <2>2, <3>3
    <3> QED
      BY <1>6, <3>1, <3>2, <3>3, <3>4, <3>5
  <2>11. ASSUME ~z.past.astray, z.past.from[v] # -1
         PROVE  StartsAs(y.voice[v].buf, OnStream(z).data, y.voice[v].wpos)
    <3>1. /\ w < OnStream(z).frames
          /\ \A i \in 1 .. Len(r) : r[i] = OnStream(z).data[w + i]
      BY <1>3, <2>11 DEF Served, w, r
    <3>2. /\ OnStream(z).frames = Len(OnStream(z).data) /\ OnStream(z).frames \in Nat
          /\ \A i \in 1 .. w : z.voice[v].buf[i] = OnStream(z).data[i]
      BY <1>2, <1>4, <2>11 DEF StartsAs, ClipKeeps
    <3>3. y.voice[v].wpos = w + 1 /\ y.voice[v].buf = b
      BY <2>5, <2>7, <2>8
    <3>4. w \in Nat /\ Cap \in Nat /\ w + 1 <= Len(OnStream(z).data)
      BY <1>2, <3>1, <3>2, Sized
    <3>5. b[w + 1] = OnStream(z).data[w + 1]
      <4>1. 1 \in 1 .. Len(r)
        BY <2>2
      <4> QED
        BY <2>2, <2>4, <3>1, <4>1
    <3>6. ASSUME NEW i \in 1 .. w + 1 PROVE b[i] = OnStream(z).data[i]
      <4>1. CASE i = w + 1
        BY <3>5, <4>1
      <4>2. CASE i # w + 1
        <5>1. i \in 1 .. w /\ i \in 1 .. Cap
          BY <1>6, <3>4, <4>2
        <5> QED
          BY <2>4, <3>2, <4>2, <5>1
      <4> QED
        BY <4>1, <4>2
    <3> QED
      BY <3>3, <3>4, <3>6 DEF StartsAs
  <2> QED
    BY <2>5, <2>6, <2>7, <2>8, <2>9, <2>10, <2>11 DEF y
<1> QED
  BY <1>5, <1>6 DEF w, r

\* The stream stops with the voice that has arrived.
LEMMA ArrivedIs ==
    ASSUME NEW y \in Scenes, NEW v \in S!Tracks
    PROVE  LET x == [S!StopStream(y) EXCEPT !.voice[v].len = y.voice[v].wpos,
                                            !.voice[v].load = "idle"]
           IN  /\ x \in Scenes /\ x.deck = y.deck /\ x.card = y.card /\ x.past = y.past
               /\ x.stream = S!StopStream(y).stream
               /\ x.voice[v].load = "idle" /\ x.voice[v].len = y.voice[v].wpos
               /\ x.voice[v].buf = y.voice[v].buf
               /\ \A u \in S!Tracks : u # v => x.voice[u] = y.voice[u]
<1> DEFINE s == S!StopStream(y)
           n == y.voice[v].wpos
           x == [s EXCEPT !.voice[v].len = n, !.voice[v].load = "idle"]
           c == [y.voice[v] EXCEPT !.len = n, !.load = "idle"]
           vs == [y.voice EXCEPT ![v] = c]
<1>1. s \in Scenes /\ s.voice = y.voice /\ s.deck = y.deck /\ s.card = y.card /\ s.past = y.past
  BY StopIs
<1>2. y.voice \in [S!Tracks -> VoiceKeeps] /\ n \in 0 .. Cap
  BY Parts DEF VoiceKeeps
<1> HIDE DEF s, n
<1>3. /\ c \in VoiceKeeps /\ c.load = "idle" /\ c.len = n /\ c.buf = y.voice[v].buf
  BY <1>2 DEF VoiceKeeps
<1>4. x = [voice |-> vs, deck |-> s.deck, stream |-> s.stream, card |-> s.card, past |-> s.past]
  <2> DEFINE m == [s EXCEPT !.voice[v].len = n]
             ms == [s.voice EXCEPT ![v].len = n]
  <2>1. m = [voice |-> ms, deck |-> s.deck, stream |-> s.stream, card |-> s.card, past |-> s.past]
    BY <1>1 DEF Scenes
  <2>2. x = [m EXCEPT !.voice[v].load = "idle"]
    OBVIOUS
  <2>3. /\ ms[v] = [y.voice[v] EXCEPT !.len = n] /\ DOMAIN ms = S!Tracks
        /\ ms = [u \in S!Tracks |-> ms[u]]
        /\ \A u \in S!Tracks : u # v => ms[u] = y.voice[u]
    BY <1>1, <1>2
  <2> HIDE DEF m, ms
  <2>4. [m EXCEPT !.voice[v].load = "idle"]
          = [voice |-> [ms EXCEPT ![v].load = "idle"], deck |-> s.deck, stream |-> s.stream,
             card |-> s.card, past |-> s.past]
    BY <2>1
  <2>5. [ms EXCEPT ![v].load = "idle"] = vs
    <3>1. [ms[v] EXCEPT !.load = "idle"] = c
      BY <1>2, <2>3 DEF VoiceKeeps
    <3> HIDE DEF c
    <3> QED
      BY <1>2, <2>3, <3>1
  <2> QED
    BY <2>2, <2>4, <2>5
<1> HIDE DEF c
<1>5. /\ vs \in [S!Tracks -> VoiceKeeps] /\ vs[v] = c
      /\ \A u \in S!Tracks : u # v => vs[u] = y.voice[u]
  BY <1>2, <1>3
<1> HIDE DEF x, vs
<1>6. x \in Scenes
  BY <1>1, <1>4, <1>5, Parts, Scene
<1>7. /\ x.deck = y.deck /\ x.card = y.card /\ x.past = y.past /\ x.stream = s.stream
      /\ x.voice[v].load = "idle" /\ x.voice[v].len = n /\ x.voice[v].buf = y.voice[v].buf
      /\ \A u \in S!Tracks : u # v => x.voice[u] = y.voice[u]
  BY <1>1, <1>3, <1>4, <1>5
<1> QED
  BY <1>6, <1>7 DEF x, s, n

\* A load goes on, or is over with as much of the file as fits.
LEMMA DrainedKeeps ==
    ASSUME NEW z, Sound(z), NEW v \in S!Tracks
    PROVE  Sound(S!Drained(z, v))
<1> DEFINE y == S!Drawn(z, v)
           x == [S!StopStream(y) EXCEPT !.voice[v].len = y.voice[v].wpos,
                                        !.voice[v].load = "idle"]
<1>1. z \in Scenes /\ Shares(z) /\ z.card \in [S!Slots -> ClipKeeps] /\ z.stream \in StreamKeeps
  BY Parts DEF Sound
<1>2. CASE z.voice[v].load # "draining"
  BY <1>2 DEF S!Drained
<1>3. CASE z.voice[v].load = "draining"
  <2>1. S!Drained(z, v) = IF ~S!Arrived(y, v) THEN y ELSE x
    BY <1>3 DEF S!Drained
  <2>2. Busy(z, v)
    BY <1>3 DEF Busy
  <2>3. /\ y \in Scenes /\ y.deck = z.deck /\ y.card = z.card /\ y.past = z.past
        /\ \A u \in S!Tracks : u # v => y.voice[u] = z.voice[u]
        /\ y.voice[v].load = z.voice[v].load
        /\ y.stream.mode = z.stream.mode /\ y.stream.slot = z.stream.slot
        /\ y.stream.pos = z.stream.pos /\ (y.stream.eof <=> z.stream.eof)
        /\ (y.stream.finalizing <=> z.stream.finalizing)
        /\ Len(y.stream.ring) <= Read
    BY <2>2, DrawnIs
  <2>4. ~z.past.astray =>
           /\ y.voice[v].wpos <= OnStream(z).frames /\ y.voice[v].wpos <= Cap
           /\ y.voice[v].wpos + Len(y.stream.ring) = z.stream.pos
           /\ \A i \in 1 .. Len(y.stream.ring) :
                 y.stream.ring[i] = OnStream(z).data[y.voice[v].wpos + i]
           /\ z.past.from[v] # -1 => StartsAs(y.voice[v].buf, OnStream(z).data, y.voice[v].wpos)
    BY <2>2, DrawnIs
  <2>5. /\ y.voice[v].wpos \in Nat /\ Cap \in Nat /\ OnStream(z).frames \in Nat
    <3>1. y.voice \in [S!Tracks -> VoiceKeeps]
      BY <2>3, Parts
    <3>2. y.voice[v].wpos \in 0 .. Cap
      BY <3>1 DEF VoiceKeeps
    <3>3. OnStream(z) \in ClipKeeps
      BY <1>1 DEF OnStream, StreamKeeps
    <3> HIDE DEF y, x
    <3> QED
      BY <3>2, <3>3, Sized DEF ClipKeeps
  <2>6. /\ x \in Scenes /\ x.deck = y.deck /\ x.card = y.card /\ x.past = y.past
        /\ x.stream = S!StopStream(y).stream
        /\ x.voice[v].load = "idle" /\ x.voice[v].len = y.voice[v].wpos
        /\ x.voice[v].buf = y.voice[v].buf
        /\ \A u \in S!Tracks : u # v => x.voice[u] = y.voice[u]
    BY <2>3, ArrivedIs
  <2>7. /\ x.stream.mode = "idle" /\ x.stream.slot = y.stream.slot
        /\ x.stream.ring = y.stream.ring
        /\ x.stream.finalizing <=> y.stream.finalizing \/ y.stream.mode = "record"
    BY <2>3, <2>6, StopIs
  <2> HIDE DEF y, x
  <2>8. /\ z.stream.mode # "record" /\ ~z.stream.finalizing /\ z.deck.save = "idle"
        /\ OnStream(y) = OnStream(z) /\ OnStream(x) = OnStream(z)
        /\ ~Storing(z) /\ ~Storing(y) /\ ~Storing(x)
    BY <1>1, <2>2, <2>3, <2>6, <2>7 DEF Shares, ForOne, Storing, OnStream
  <2>9. ~z.past.astray => Served(z, v)
    BY <1>1, <2>2 DEF Shares, LoadsServed
  <2>10. ASSUME z.past.from[v] # -1
         PROVE  /\ z.card[z.past.from[v]].there /\ ~z.past.astray
                /\ z.past.from[v] = z.stream.slot
    BY <1>1, <2>2, <2>10 DEF Shares, VoicesHold, HasFile
  <2>11. ASSUME NEW u \in S!Tracks, u # v, z.past.from[u] # -1
         PROVE  HasFile(z, u, z.past.from[u]) /\ ~Busy(z, u)
    <3>1. HasFile(z, u, z.past.from[u])
      BY <1>1, <2>11 DEF Shares, VoicesHold
    <3>2. z.past.astray \/ ~Busy(z, u)
      BY <2>9, <2>11 DEF Served
    <3> QED
      BY <3>1, <3>2 DEF HasFile
  <2>12. Complete(y) /\ Complete(x)
    <3>1. Complete(z)
      BY <1>1 DEF Shares
    <3> QED
      BY <2>3, <2>6, <2>7, <2>8, <3>1 DEF Complete
  <2>13. SaveGoesOn(y) /\ SaveGoesOn(x)
    BY <2>8 DEF SaveGoesOn
  <2>14. ForOne(y)
    <3>1. \A u \in S!Tracks : Busy(y, u) <=> Busy(z, u)
      BY <2>3 DEF Busy
    <3> QED
      BY <1>1, <2>3, <2>8, <3>1 DEF Shares, ForOne
  <2>15. ForOne(x)
    BY <2>3, <2>6, <2>7, <2>8 DEF ForOne
  <2>16. CASE ~S!Arrived(y, v)
    <3>1. /\ y.stream.mode = "play" /\ y.voice[v].wpos < OnStream(z).frames
          /\ y.voice[v].wpos < Cap
      <4>1. y.voice[v].wpos < S!LoopFrames(y) /\ y.voice[v].wpos < Cap /\ S!LoopFrames(y) \in Nat
        <5>1. S!LoopFrames(y) \in {0, OnStream(z).frames}
          BY <2>8 DEF S!LoopFrames, OnStream
        <5> QED
          BY <2>5, <2>16, <5>1 DEF S!Arrived
      <4> QED
        BY <2>5, <2>8, <4>1 DEF S!LoopFrames, S!Playing, OnStream
    <3>2. LoadsServed(y)
      <4> SUFFICES ASSUME ~y.past.astray, NEW u \in S!Tracks, Busy(y, u) PROVE Served(y, u)
        BY DEF LoadsServed
      <4>1. Served(z, v)
        BY <2>3, <2>9
      <4>2. \A t \in S!Tracks : Busy(y, t) => t = v
        BY <2>3, <4>1 DEF Served, Busy
      <4>3. u = v
        BY <4>2
      <4>4. y.stream.eof => y.stream.pos = OnStream(y).frames
        BY <2>3, <2>8, <4>1 DEF Served
      <4> QED
        BY <2>3, <2>4, <2>8, <3>1, <4>2, <4>3, <4>4 DEF Served
    <3>3. VoicesHold(y)
      <4> SUFFICES ASSUME NEW u \in S!Tracks, y.past.from[u] # -1
                   PROVE  HasFile(y, u, y.past.from[u])
        BY DEF VoicesHold
      <4>1. CASE u = v
        <5>1. Busy(y, v)
          BY <2>2, <2>3 DEF Busy
        <5>2. /\ z.card[z.past.from[v]].there /\ ~z.past.astray
              /\ z.past.from[v] = z.stream.slot
          BY <2>3, <2>10, <4>1
        <5>3. StartsAs(y.voice[v].buf, OnStream(z).data, y.voice[v].wpos)
          BY <2>3, <2>4, <4>1, <5>2
        <5> QED
          BY <2>3, <2>8, <4>1, <5>1, <5>2, <5>3 DEF HasFile, OnStream
      <4>2. CASE u # v
        <5>1. HasFile(z, u, z.past.from[u]) /\ ~Busy(z, u)
          BY <2>3, <2>11, <4>2
        <5>2. y.voice[u] = z.voice[u]
          BY <2>3, <4>2
        <5> QED
          BY <2>3, <2>8, <5>1, <5>2 DEF HasFile, Busy
      <4> QED
        BY <4>1, <4>2
    <3> QED
      BY <2>1, <2>3, <2>12, <2>13, <2>14, <2>16, <3>2, <3>3 DEF Sound, Shares
  <2>17. CASE S!Arrived(y, v)
    <3>1. LoadsServed(x)
      <4> SUFFICES ASSUME ~x.past.astray, NEW u \in S!Tracks, Busy(x, u) PROVE FALSE
        BY DEF LoadsServed
      <4>1. Served(z, v)
        BY <2>3, <2>6, <2>9
      <4>2. u # v
        BY <2>6 DEF Busy
      <4>3. Busy(z, u)
        BY <2>3, <2>6, <4>2 DEF Busy
      <4> QED
        BY <4>1, <4>2, <4>3 DEF Served
    <3>2. VoicesHold(x)
      <4> SUFFICES ASSUME NEW u \in S!Tracks, x.past.from[u] # -1
                   PROVE  HasFile(x, u, x.past.from[u])
        BY DEF VoicesHold
      <4>1. CASE u = v
        <5>1. ~Busy(x, v)
          BY <2>6 DEF Busy
        <5>2. /\ z.card[z.past.from[v]].there /\ ~z.past.astray
              /\ z.past.from[v] = z.stream.slot /\ z.past.from[v] # -1
          BY <2>3, <2>6, <2>10, <4>1
        <5>3. /\ StartsAs(x.voice[v].buf, OnStream(z).data, x.voice[v].len)
              /\ y.voice[v].wpos <= OnStream(z).frames /\ y.voice[v].wpos <= Cap
          BY <2>4, <2>6, <5>2
        <5>4. S!LoopFrames(y) = OnStream(z).frames
          <6>1. y.stream.mode = "play"
            BY <2>3, <2>9, <5>2 DEF Served
          <6> QED
            BY <2>8, <6>1 DEF S!LoopFrames, S!Playing, OnStream
        <5>5. y.voice[v].wpos >= OnStream(z).frames \/ y.voice[v].wpos >= Cap
          BY <2>17, <5>4 DEF S!Arrived
        <5>6. x.voice[v].len = IF OnStream(z).frames < Cap THEN OnStream(z).frames ELSE Cap
          BY <2>5, <2>6, <5>3, <5>5
        <5>7. x.card[x.past.from[u]] = OnStream(z)
          BY <2>3, <2>6, <4>1, <5>2 DEF OnStream
        <5>8. x.card[x.past.from[u]].there
          BY <2>3, <2>6, <4>1, <5>2
        <5> QED
          BY <2>8, <4>1, <5>1, <5>3, <5>6, <5>7, <5>8 DEF HasFile
      <4>2. CASE u # v
        <5>1. HasFile(z, u, z.past.from[u]) /\ ~Busy(z, u)
          BY <2>3, <2>6, <2>11, <4>2
        <5>2. x.voice[u] = z.voice[u]
          BY <2>3, <2>6, <4>2
        <5> QED
          BY <2>3, <2>6, <2>8, <5>1, <5>2 DEF HasFile, Busy
      <4> QED
        BY <4>1, <4>2
    <3> QED
      BY <2>1, <2>6, <2>12, <2>13, <2>15, <2>17, <3>1, <3>2 DEF Sound, Shares
  <2> QED
    BY <2>16, <2>17
<1> QED
  BY <1>2, <1>3

LEMMA LoadingKeeps ==
    ASSUME NEW z, Sound(z)
    PROVE  Sound(S!Loading(z))
<1>1. 0 \in S!Tracks /\ 1 \in S!Tracks
  BY Sized
<1> DEFINE first == S!Drained(S!Primed(z, 0), 0)
<1>2. Sound(first)
  BY <1>1, PrimedKeeps, DrainedKeeps
<1>3. S!Loading(z) = S!Drained(S!Primed(first, 1), 1)
  BY DEF S!Loading
<1> HIDE DEF first
<1>4. Sound(S!Drained(S!Primed(first, 1), 1))
  BY <1>1, <1>2, PrimedKeeps, DrainedKeeps
<1> QED
  BY <1>3, <1>4

LEMMA PrepareKeeps ==
    ASSUME NEW z, Sound(z)
    PROVE  Sound(S!Loading(S!Committed(S!Preloaded(S!Deferred(S!Finalized(z), FALSE)))))
<1>1. Sound(S!Deferred(S!Finalized(z), FALSE))
  BY FinalizedKeeps, DeferredKeeps
<1>2. Sound(S!Committed(S!Preloaded(S!Deferred(S!Finalized(z), FALSE))))
  BY <1>1, PreloadedKeeps, CommittedKeeps
<1> QED
  BY <1>2, LoadingKeeps

LEMMA Piece ==
    ASSUME NEW q \in Seq(Chunk), NEW p \in Nat, NEW n \in Nat, p + n <= Len(q)
    PROVE  /\ SubSeq(q, p + 1, p + n) \in Seq(Chunk)
           /\ Len(SubSeq(q, p + 1, p + n)) = n
           /\ \A j \in 1 .. n : SubSeq(q, p + 1, p + n)[j] = q[p + j]
<1>1. q \in [1 .. Len(q) -> Chunk] /\ Len(q) \in Nat
  BY LenProperties
<1>2. p + 1 \in Int /\ p + n \in Int /\ (p + n) - (p + 1) + 1 = n
  OBVIOUS
<1>3. \A j \in p + 1 .. p + n : q[j] \in Chunk
  BY <1>1
<1>4. /\ SubSeq(q, p + 1, p + n) \in Seq(Chunk)
      /\ Len(SubSeq(q, p + 1, p + n)) = IF p + 1 <= p + n THEN (p + n) - (p + 1) + 1 ELSE 0
      /\ \A j \in 1 .. (p + n) - (p + 1) + 1 : SubSeq(q, p + 1, p + n)[j] = q[p + 1 + j - 1]
  BY <1>2, <1>3, SubSeqProperties
<1> DEFINE t == SubSeq(q, p + 1, p + n)
<1>5. Len(t) = IF p + 1 <= p + n THEN (p + n) - (p + 1) + 1 ELSE 0
  BY <1>4
<1>6. \A j \in 1 .. n : t[j] = q[p + 1 + j - 1]
  BY <1>2, <1>4
<1> HIDE DEF t
<1>7. Len(t) = n
  BY <1>5
<1>8. \A j \in 1 .. n : p + 1 + j - 1 = p + j
  OBVIOUS
<1>9. \A j \in 1 .. n : t[j] = q[p + j]
  BY <1>6, <1>8
<1> QED
  BY <1>4, <1>7, <1>9 DEF t

LEMMA ReadCount ==
    ASSUME NEW frames \in Nat, NEW pos \in Nat, NEW l \in Nat, pos <= frames, l <= Read,
           NEW n, n = IF frames - pos < Read - l THEN frames - pos ELSE Read - l
    PROVE  /\ n \in Nat /\ pos + n \in Nat /\ pos + n <= frames /\ l + n <= Read
           /\ frames - pos < Read - l => pos + n = frames
  BY Sized

\* The stream is read ahead: what comes into the ring follows what is there.
LEMMA ReadAheadKeeps ==
    ASSUME NEW z, Sound(z), S!Playing(z)
    PROVE  Sound(S!Pumped(z))
<1> DEFINE f == OnStream(z)
           r == z.stream.ring
           room == Read - Len(r)
           left == f.frames - z.stream.pos
           n == IF left < room THEN left ELSE room
           t == SubSeq(f.data, z.stream.pos + 1, z.stream.pos + n)
           q == r \o t
           e == z.stream.eof \/ left < room
           s == [z.stream EXCEPT !.ring = q, !.pos = z.stream.pos + n, !.eof = e]
           i == [s EXCEPT !.mode = "idle"]
           y == [z EXCEPT !.stream = s]
           x == [z EXCEPT !.stream = i]
<1>1. /\ z \in Scenes /\ Shares(z) /\ z.stream \in StreamKeeps /\ f \in ClipKeeps
      /\ z.stream.mode = "play"
  BY Parts DEF Sound, StreamKeeps, S!Playing, OnStream
<1>3. ~z.stream.finalizing /\ ~Storing(z) /\ z.deck.save = "idle"
  BY <1>1 DEF Shares, ForOne, Storing
<1>2. S!Pumped(z) = IF e /\ q = <<>> THEN x ELSE y
  <2> DEFINE full == S!ReadAhead(z)
  <2>1. full = y
    BY DEF S!ReadAhead, OnStream
  <2>2. S!Pumped(z) = IF full.stream.eof /\ full.stream.ring = <<>>
                      THEN [full EXCEPT !.stream.mode = "idle"] ELSE full
    BY <1>1, <1>3 DEF S!Pumped, S!Playing
  <2> HIDE DEF full, n, t, e, q
  <2>3. full.stream = s /\ s.ring = q /\ s.eof = e
    BY <1>1, <2>1 DEF Scenes, StreamKeeps
  <2>4. [full EXCEPT !.stream.mode = "idle"] = x
    BY <1>1, <2>1 DEF Scenes
  <2> QED
    BY <2>1, <2>2, <2>3, <2>4
<1>4. /\ f.there /\ f.frames = Len(f.data) /\ f.frames # 0 /\ z.stream.pos <= f.frames
      /\ Len(r) <= Read
  BY <1>1, <1>3, Parts DEF Shares, Complete, OnStream, StreamKeeps
<1>5. /\ f.frames \in Nat /\ f.data \in Seq(Chunk) /\ z.stream.pos \in Nat /\ r \in Seq(Chunk)
      /\ Len(r) \in Nat /\ Read \in Nat \ {0}
  BY <1>1, Sized DEF ClipKeeps, StreamKeeps
<1>6. /\ n \in Nat /\ z.stream.pos + n \in Nat /\ z.stream.pos + n <= f.frames
      /\ Len(r) + n <= Read /\ (left < room => z.stream.pos + n = f.frames)
  <2>1. n = IF f.frames - z.stream.pos < Read - Len(r) THEN f.frames - z.stream.pos
            ELSE Read - Len(r)
    OBVIOUS
  <2> DEFINE a == f.frames
             b == z.stream.pos
             l == Len(r)
  <2>2. a \in Nat /\ b \in Nat /\ l \in Nat /\ b <= a /\ l <= Read
    BY <1>4, <1>5
  <2>3. n = IF a - b < Read - l THEN a - b ELSE Read - l
    BY <2>1
  <2> HIDE DEF n, a, b, l
  <2>4. /\ n \in Nat /\ b + n \in Nat /\ b + n <= a
        /\ l + n <= Read /\ (a - b < Read - l => b + n = a)
    BY <2>2, <2>3, ReadCount
  <2> QED
    BY <2>4 DEF a, b, l
<1>7. /\ t \in Seq(Chunk) /\ Len(t) = n
      /\ \A j \in 1 .. n : t[j] = f.data[z.stream.pos + j]
  <2> DEFINE d == f.data
             b == z.stream.pos
  <2>1. d \in Seq(Chunk) /\ b \in Nat /\ n \in Nat /\ b + n <= Len(d)
    BY <1>4, <1>5, <1>6
  <2> HIDE DEF n, d, b
  <2>2. /\ SubSeq(d, b + 1, b + n) \in Seq(Chunk)
        /\ Len(SubSeq(d, b + 1, b + n)) = n
        /\ \A j \in 1 .. n : SubSeq(d, b + 1, b + n)[j] = d[b + j]
    BY <2>1, Piece
  <2> QED
    BY <2>2 DEF d, b
<1> HIDE DEF f, n, t
<1>8. /\ q \in Seq(Chunk) /\ Len(q) = Len(r) + n
      /\ \A j \in 1 .. Len(r) + n : q[j] = IF j <= Len(r) THEN r[j] ELSE t[j - Len(r)]
  <2>1. q = r \o t /\ r \in Seq(Chunk) /\ t \in Seq(Chunk) /\ Len(t) = n
    BY <1>5, <1>7
  <2> HIDE DEF q, r
  <2>2. /\ r \o t \in Seq(Chunk) /\ Len(r \o t) = Len(r) + Len(t)
        /\ \A j \in 1 .. Len(r) + Len(t) :
              (r \o t)[j] = IF j <= Len(r) THEN r[j] ELSE t[j - Len(r)]
    BY <2>1, ConcatProperties
  <2> QED
    BY ONLY <2>1, <2>2
<1>e. e \in BOOLEAN /\ (e <=> z.stream.eof \/ left < room)
  BY <1>1 DEF StreamKeeps
<1> HIDE DEF q, e
<1>9. /\ s \in StreamKeeps /\ s.ring = q /\ s.pos = z.stream.pos + n /\ (s.eof <=> e)
      /\ s.mode = "play" /\ s.slot = z.stream.slot /\ (s.finalizing <=> z.stream.finalizing)
  BY <1>1, <1>6, <1>8, <1>e DEF StreamKeeps
<1>10. /\ i \in StreamKeeps /\ i.ring = q /\ i.mode = "idle" /\ i.slot = z.stream.slot
       /\ (i.finalizing <=> z.stream.finalizing)
  BY <1>1, <1>9 DEF StreamKeeps
<1> HIDE DEF s, i
<1>11. /\ y \in Scenes /\ y.stream = s /\ y.voice = z.voice /\ y.deck = z.deck
       /\ y.card = z.card /\ y.past = z.past
  BY <1>1, <1>9, PutStream
<1>12. /\ x \in Scenes /\ x.stream = i /\ x.voice = z.voice /\ x.deck = z.deck
       /\ x.card = z.card /\ x.past = z.past
  BY <1>1, <1>10, PutStream
<1> HIDE DEF x, y
<1>13. /\ ~Storing(y) /\ ~Storing(x) /\ OnStream(y) = f /\ OnStream(x) = f
       /\ \A v \in S!Tracks : (Busy(y, v) <=> Busy(z, v)) /\ (Busy(x, v) <=> Busy(z, v))
  BY <1>3, <1>9, <1>10, <1>11, <1>12 DEF Storing, OnStream, Busy, f
<1>14. Len(q) <= Read
  BY <1>5, <1>6, <1>8
<1>15. Complete(y) /\ Complete(x)
  <2>1. \A k \in S!Slots : z.card[k].there
           => z.card[k].frames = Len(z.card[k].data) /\ z.card[k].frames # 0
    BY <1>1, <1>3 DEF Shares, Complete
  <2> QED
    BY <1>4, <1>6, <1>9, <1>10, <1>11, <1>12, <1>13, <1>14, <2>1 DEF Complete
<1>16. ForOne(y) /\ ForOne(x)
  <2>1. ForOne(z)
    BY <1>1 DEF Shares
  <2> QED
    BY <1>1, <1>3, <1>9, <1>10, <1>11, <1>12, <1>13, <2>1 DEF ForOne
<1>17. ASSUME ~z.past.astray, NEW v \in S!Tracks, Busy(z, v)
       PROVE  Served(y, v) /\ ~(e /\ q = <<>>)
  <2>1. Served(z, v)
    BY <1>1, <1>17 DEF Shares, LoadsServed
  <2> DEFINE w == z.voice[v].wpos
  <2>2. w \in Nat
    <3>1. z.voice[v] \in VoiceKeeps
      BY <1>1, Parts
    <3> QED
      BY <3>1, Sized DEF VoiceKeeps
  <2>3. /\ w < f.frames /\ w < Cap /\ w + Len(r) = z.stream.pos
        /\ z.stream.eof => z.stream.pos = f.frames
        /\ \A j \in 1 .. Len(r) : r[j] = f.data[w + j]
    BY <2>1 DEF Served, f
  <2>w. w = y.voice[v].wpos
    BY <1>11
  <2> HIDE DEF w, r
  <2>4. w + Len(q) = z.stream.pos + n
    BY <1>5, <1>6, <1>8, <2>2, <2>3
  <2>5. e => z.stream.pos + n = f.frames
    <3>1. z.stream.eof => z.stream.pos + n = f.frames
      BY <1>5, <1>6, <2>3
    <3> QED
      BY <1>6, <1>e, <3>1
  <2>6. ASSUME NEW j \in 1 .. Len(q) PROVE q[j] = f.data[w + j]
    <3>1. CASE j <= Len(r)
      <4>1. j \in 1 .. Len(r) /\ j \in 1 .. Len(r) + n
        BY <1>5, <1>6, <1>8, <3>1
      <4> QED
        BY <1>8, <2>3, <3>1, <4>1
    <3>2. CASE ~(j <= Len(r))
      <4>1. /\ j - Len(r) \in 1 .. n /\ j \in 1 .. Len(r) + n
            /\ z.stream.pos + (j - Len(r)) = w + j
        <5> DEFINE l == Len(r)
                   b == z.stream.pos
        <5>1. /\ l \in Nat /\ n \in Nat /\ w \in Nat /\ b \in Nat /\ w + l = b
              /\ j \in 1 .. l + n /\ ~(j <= l)
          BY <1>5, <1>6, <1>8, <2>2, <2>3, <2>6, <3>2
        <5> HIDE DEF l, b
        <5>2. j - l \in 1 .. n /\ j \in 1 .. l + n /\ b + (j - l) = w + j
          BY ONLY <5>1
        <5> QED
          BY <5>2 DEF l, b
      <4>2. q[j] = t[j - Len(r)]
        BY <1>8, <3>2, <4>1
      <4> QED
        BY <1>7, <4>1, <4>2
    <3> QED
      BY <3>1, <3>2
  <2>7. Served(y, v)
    BY <1>9, <1>11, <1>13, <2>1, <2>3, <2>4, <2>5, <2>6, <2>w DEF Served
  <2>8. ASSUME e, q = <<>> PROVE FALSE
    <3>1. Len(q) = 0
      BY <2>8, EmptySeq
    <3>2. w = f.frames
      BY <1>5, <2>2, <2>4, <2>5, <2>8, <3>1
    <3> QED
      BY <1>5, <2>2, <2>3, <3>2
  <2> QED
    BY <2>7, <2>8
<1>18. LoadsServed(y) /\ (e /\ q = <<>> => LoadsServed(x))
  BY <1>11, <1>12, <1>13, <1>17 DEF LoadsServed
<1>19. VoicesHold(y) /\ VoicesHold(x)
  <2>1. VoicesHold(z)
    BY <1>1 DEF Shares
  <2>2. y.stream.slot = z.stream.slot /\ x.stream.slot = z.stream.slot
    BY <1>9, <1>10, <1>11, <1>12
  <2> QED
    BY <1>11, <1>12, <1>13, <2>1, <2>2 DEF VoicesHold, HasFile
<1>20. SaveGoesOn(y) /\ SaveGoesOn(x)
  BY <1>13 DEF SaveGoesOn
<1> QED
  BY <1>2, <1>11, <1>12, <1>15, <1>16, <1>18, <1>19, <1>20 DEF Sound, Shares

\* The ring goes to the file.
LEMMA WrittenOutIs ==
    ASSUME NEW z \in Scenes
    PROVE  LET y == S!WrittenOut(z)
               k == z.stream.slot
           IN  /\ y \in Scenes /\ y.voice = z.voice /\ y.deck = z.deck /\ y.past = z.past
               /\ y.stream.mode = z.stream.mode /\ y.stream.slot = k
               /\ y.stream.pos = z.stream.pos
               /\ (y.stream.finalizing <=> z.stream.finalizing) /\ y.stream.ring = <<>>
               /\ y.card[k].data = z.card[k].data \o z.stream.ring
               /\ y.card[k].frames = z.card[k].frames
               /\ (y.card[k].there <=> z.card[k].there)
               /\ \A l \in S!Slots : l # k => y.card[l] = z.card[l]
<1> DEFINE y == S!WrittenOut(z)
           k == z.stream.slot
           q == z.card[k].data \o z.stream.ring
           f == [z.card[k] EXCEPT !.data = q]
           s == [z.stream EXCEPT !.ring = <<>>]
           x == [z EXCEPT !.card[k].data = q]
           cs == [z.card EXCEPT ![k] = f]
<1>1. /\ z.stream \in StreamKeeps /\ z.card \in [S!Slots -> ClipKeeps]
      /\ k \in S!Slots /\ z.card[k] \in ClipKeeps
  BY Parts DEF StreamKeeps
<1>2. q \in Seq(Chunk)
  BY <1>1, ConcatProperties DEF ClipKeeps, StreamKeeps
<1>3. y = [x EXCEPT !.stream.ring = <<>>]
  BY DEF S!WrittenOut
<1> HIDE DEF y, k, q
<1>4. x = [voice |-> z.voice, deck |-> z.deck, stream |-> z.stream, card |-> cs, past |-> z.past]
  BY DEF Scenes
<1>5. /\ f \in ClipKeeps /\ f.data = q /\ f.frames = z.card[k].frames
      /\ (f.there <=> z.card[k].there)
  BY <1>1, <1>2 DEF ClipKeeps
<1> HIDE DEF x, f
<1>6. /\ cs \in [S!Slots -> ClipKeeps] /\ cs[k] = f
      /\ \A l \in S!Slots : l # k => cs[l] = z.card[l]
  BY <1>1, <1>5
<1> HIDE DEF cs
<1>7. y = [voice |-> z.voice, deck |-> z.deck, stream |-> s, card |-> cs, past |-> z.past]
  <2>1. x.stream = z.stream
    BY <1>4
  <2> QED
    BY <1>3, <1>4, <2>1
<1>8. /\ s \in StreamKeeps /\ s.mode = z.stream.mode /\ s.slot = z.stream.slot
      /\ s.pos = z.stream.pos
      /\ (s.finalizing <=> z.stream.finalizing) /\ s.ring = <<>>
  BY <1>1, EmptySeq DEF StreamKeeps
<1> HIDE DEF s
<1>9. /\ y \in Scenes /\ y.voice = z.voice /\ y.deck = z.deck /\ y.past = z.past
      /\ y.stream = s /\ y.card = cs
  BY <1>6, <1>7, <1>8, Parts, Scene
<1> QED
  BY <1>5, <1>6, <1>8, <1>9 DEF y, k, q

\* A file that is closed has its length in the header.
LEMMA ClosedIs ==
    ASSUME NEW y \in Scenes, NEW k \in S!Slots
    PROVE  LET x == [y EXCEPT !.card[k].frames = Len(y.card[k].data),
                              !.stream.finalizing = FALSE]
           IN  /\ x \in Scenes /\ x.voice = y.voice /\ x.deck = y.deck /\ x.past = y.past
               /\ x.stream.mode = y.stream.mode /\ x.stream.slot = y.stream.slot
               /\ x.stream.pos = y.stream.pos
               /\ ~x.stream.finalizing /\ x.stream.ring = y.stream.ring
               /\ x.card[k].data = y.card[k].data
               /\ x.card[k].frames = Len(y.card[k].data)
               /\ (x.card[k].there <=> y.card[k].there)
               /\ \A l \in S!Slots : l # k => x.card[l] = y.card[l]
<1> DEFINE n == Len(y.card[k].data)
           x == [y EXCEPT !.card[k].frames = n, !.stream.finalizing = FALSE]
           m == [y EXCEPT !.card[k].frames = n]
           f == [y.card[k] EXCEPT !.frames = n]
           s == [y.stream EXCEPT !.finalizing = FALSE]
           cs == [y.card EXCEPT ![k] = f]
<1>1. /\ y.stream \in StreamKeeps /\ y.card \in [S!Slots -> ClipKeeps] /\ y.card[k] \in ClipKeeps
  BY Parts
<1>2. n \in Nat
  BY <1>1, LenProperties DEF ClipKeeps
<1>3. x = [m EXCEPT !.stream.finalizing = FALSE]
  OBVIOUS
<1> HIDE DEF n, x
<1>4. m = [voice |-> y.voice, deck |-> y.deck, stream |-> y.stream, card |-> cs, past |-> y.past]
  BY DEF Scenes
<1>5. /\ f \in ClipKeeps /\ f.data = y.card[k].data /\ f.frames = n
      /\ (f.there <=> y.card[k].there)
  BY <1>1, <1>2 DEF ClipKeeps
<1> HIDE DEF m, f
<1>6. /\ cs \in [S!Slots -> ClipKeeps] /\ cs[k] = f
      /\ \A l \in S!Slots : l # k => cs[l] = y.card[l]
  BY <1>1, <1>5
<1> HIDE DEF cs
<1>7. x = [voice |-> y.voice, deck |-> y.deck, stream |-> s, card |-> cs, past |-> y.past]
  <2>1. m.stream = y.stream
    BY <1>4
  <2> QED
    BY <1>3, <1>4, <2>1
<1>8. /\ s \in StreamKeeps /\ s.mode = y.stream.mode /\ s.slot = y.stream.slot
      /\ s.pos = y.stream.pos /\ ~s.finalizing /\ s.ring = y.stream.ring
  BY <1>1 DEF StreamKeeps
<1> HIDE DEF s
<1>9. /\ x \in Scenes /\ x.voice = y.voice /\ x.deck = y.deck /\ x.past = y.past
      /\ x.stream = s /\ x.card = cs
  BY <1>6, <1>7, <1>8, Parts, Scene
<1> QED
  BY <1>5, <1>6, <1>8, <1>9 DEF x, n

\* What a save has passed stays what it is when the ring goes to the file.
LEMMA WriteGoesOn ==
    ASSUME NEW z, Sound(z), Storing(z)
    PROVE  LET y == S!WrittenOut(z) IN
           /\ Complete(y) /\ LoadsServed(y) /\ VoicesHold(y) /\ SaveGoesOn(y)
           /\ Storing(y) /\ OnStream(y) = y.card[z.stream.slot]
<1> DEFINE y == S!WrittenOut(z)
           k == z.stream.slot
           d == z.card[k].data
           r == z.stream.ring
<1>1. /\ z \in Scenes /\ Shares(z) /\ z.stream \in StreamKeeps /\ z.card \in [S!Slots -> ClipKeeps]
      /\ k \in S!Slots /\ d \in Seq(Chunk) /\ r \in Seq(Chunk) /\ Len(d) \in Nat /\ Len(r) \in Nat
  <2>1. /\ z \in Scenes /\ Shares(z) /\ z.stream \in StreamKeeps
        /\ z.card \in [S!Slots -> ClipKeeps]
    BY Parts DEF Sound
  <2>2. k \in S!Slots /\ d \in Seq(Chunk) /\ r \in Seq(Chunk)
    BY <2>1 DEF StreamKeeps, ClipKeeps
  <2> QED
    BY <2>1, <2>2, LenProperties
<1>2. /\ y \in Scenes /\ y.voice = z.voice /\ y.deck = z.deck /\ y.past = z.past
      /\ y.stream.mode = z.stream.mode /\ y.stream.slot = k /\ y.stream.pos = z.stream.pos
      /\ (y.stream.finalizing <=> z.stream.finalizing) /\ y.stream.ring = <<>>
      /\ y.card[k].data = d \o r
      /\ \A l \in S!Slots : l # k => y.card[l] = z.card[l]
  BY <1>1, WrittenOutIs
<1>3. /\ Len(d \o r) = Len(d) + Len(r)
      /\ \A i \in 1 .. Len(d) + Len(r) : (d \o r)[i] = IF i <= Len(d) THEN d[i] ELSE r[i - Len(d)]
  BY <1>1, ConcatProperties
<1> HIDE DEF y
<1>4. /\ Storing(y) /\ OnStream(y) = y.card[k] /\ OnStream(z) = z.card[k]
      /\ \A v \in S!Tracks : ~Busy(z, v) /\ ~Busy(y, v)
  BY <1>1, <1>2 DEF Storing, OnStream, Busy, Shares, ForOne
<1>5. y.stream.mode # "play"
  BY <1>1, <1>2 DEF Storing, Shares, ForOne
<1>6. Complete(y)
  <2>1. Len(y.stream.ring) <= Read
    <3>1. Len(<<>>) = 0 /\ 0 <= Read
      BY EmptySeq, Sized
    <3> QED
      BY <1>2, <3>1
  <2>2. \A l \in S!Slots : l # k /\ z.card[l].there
          => z.card[l].frames = Len(z.card[l].data) /\ z.card[l].frames # 0
    BY <1>1 DEF Shares, Complete
  <2>3. ASSUME NEW l \in S!Slots, y.card[l].there, ~(Storing(y) /\ l = y.stream.slot)
        PROVE  y.card[l].frames = Len(y.card[l].data) /\ y.card[l].frames # 0
    <3>1. l # k
      BY <1>2, <1>4, <2>3
    <3>2. y.card[l] = z.card[l]
      BY <1>2, <3>1
    <3> QED
      BY <2>2, <2>3, <3>1, <3>2
  <2> QED
    BY <1>5, <2>1, <2>3 DEF Complete
<1>7. LoadsServed(y)
  BY <1>4 DEF LoadsServed
<1>8. VoicesHold(y)
  <2> SUFFICES ASSUME NEW v \in S!Tracks, y.past.from[v] # -1 PROVE HasFile(y, v, y.past.from[v])
    BY DEF VoicesHold
  <2>1. HasFile(z, v, z.past.from[v])
    BY <1>1, <1>2 DEF Shares, VoicesHold
  <2>2. z.past.from[v] \in S!Slots
    <3>1. z.past \in StoryKeeps /\ z.past.from[v] # -1
      BY <1>1, <1>2, Parts
    <3> QED
      BY <3>1 DEF StoryKeeps
  <2>3. z.past.from[v] # k
    BY <2>1 DEF HasFile
  <2>4. y.card[z.past.from[v]] = z.card[z.past.from[v]]
    BY <1>2, <2>2, <2>3
  <2> QED
    BY <1>2, <1>4, <2>1, <2>3, <2>4 DEF HasFile
<1>9. SaveGoesOn(y)
  <2> DEFINE w == z.past.whole
  <2>1. Rest(y) = Rest(z) /\ Passed(y) = Passed(z)
    <3>1. Len(<<>>) = 0
      BY EmptySeq
    <3>2. Passed(y) = Len(d \o r) + 0 /\ Passed(z) = Len(d) + Len(r)
      BY <1>2, <1>4, <3>1 DEF Passed
    <3>3. Rest(y) = Rest(z)
      BY <1>2 DEF Rest
    <3> HIDE DEF d, r
    <3> QED
      BY <1>1, <1>3, <3>2, <3>3
  <2>2. SaveGoesOn(z)
    BY <1>1 DEF Shares
  <2>3. ASSUME z.past.clean, NEW i \in 1 .. Len(d \o r) PROVE w[i] = (d \o r)[i]
    <3>1. /\ \A j \in 1 .. Len(d) : w[j] = d[j]
          /\ \A j \in 1 .. Len(r) : w[Len(d) + j] = r[j]
      BY <1>4, <2>2, <2>3 DEF SaveGoesOn
    <3> HIDE DEF d, r, w
    <3>2. CASE i <= Len(d)
      <4>1. i \in 1 .. Len(d) /\ i \in 1 .. Len(d) + Len(r)
        BY <1>1, <1>3, <2>3, <3>2
      <4> QED
        BY <1>3, <3>1, <3>2, <4>1
    <3>3. CASE ~(i <= Len(d))
      <4>1. /\ i - Len(d) \in 1 .. Len(r) /\ i \in 1 .. Len(d) + Len(r)
            /\ Len(d) + (i - Len(d)) = i
        BY <1>1, <1>3, <2>3, <3>3
      <4>2. (d \o r)[i] = r[i - Len(d)]
        BY <1>3, <3>3, <4>1
      <4>3. w[Len(d) + (i - Len(d))] = r[i - Len(d)]
        BY <3>1, <4>1
      <4> QED
        BY <4>1, <4>2, <4>3
    <3> QED
      BY <3>2, <3>3
  <2>4. \A i : i \notin 1 .. Len(<<>>)
    BY EmptySeq
  <2>5. /\ OnStream(y).data = d \o r /\ y.past = z.past /\ y.deck = z.deck /\ y.voice = z.voice
        /\ y.stream.ring = <<>>
    BY <1>2, <1>4
  <2> HIDE DEF d, r
  <2> QED
    BY <2>1, <2>2, <2>3, <2>4, <2>5 DEF SaveGoesOn
<1> QED
  BY <1>4, <1>6, <1>7, <1>8, <1>9 DEF y

LEMMA WriteKeeps ==
    ASSUME NEW z, Sound(z), Storing(z)
    PROVE  Sound(S!Pumped(z))
<1> DEFINE y == S!WrittenOut(z)
           k == z.stream.slot
           x == [y EXCEPT !.card[k].frames = Len(y.card[k].data), !.stream.finalizing = FALSE]
<1>1. z \in Scenes /\ Shares(z) /\ k \in S!Slots
  BY Parts DEF Sound, StreamKeeps
<1>2. /\ y \in Scenes /\ y.voice = z.voice /\ y.deck = z.deck /\ y.past = z.past
      /\ y.stream.mode = z.stream.mode /\ y.stream.slot = k /\ y.stream.pos = z.stream.pos
      /\ (y.stream.finalizing <=> z.stream.finalizing) /\ y.stream.ring = <<>>
      /\ (y.card[k].there <=> z.card[k].there)
      /\ \A l \in S!Slots : l # k => y.card[l] = z.card[l]
  BY <1>1, WrittenOutIs
<1>3. /\ Complete(y) /\ LoadsServed(y) /\ VoicesHold(y) /\ SaveGoesOn(y)
      /\ Storing(y) /\ OnStream(y) = y.card[k]
  BY WriteGoesOn
<1>4. \A v \in S!Tracks : ~Busy(z, v) /\ ~Busy(y, v)
  BY <1>1, <1>2 DEF Busy, Shares, ForOne
<1>5. CASE z.stream.mode = "record"
  <2>1. S!Pumped(z) = y
    BY <1>1, <1>5 DEF S!Pumped, S!Playing, Shares, ForOne
  <2> HIDE DEF y
  <2>2. ForOne(y)
    BY <1>1, <1>2, <1>4, <1>5 DEF Shares, ForOne
  <2> QED
    BY <1>2, <1>3, <2>1, <2>2 DEF Sound, Shares
<1>6. CASE z.stream.mode # "record"
  <2>1. z.stream.finalizing /\ z.stream.mode = "idle" /\ z.deck.save = "idle"
    BY <1>1, <1>6, Parts DEF Storing, Shares, ForOne, LooperKeeps
  <2>2. S!Pumped(z) = x
    BY <2>1 DEF S!Pumped, S!Playing
  <2> HIDE DEF y
  <2>3. /\ x \in Scenes /\ x.voice = y.voice /\ x.deck = y.deck /\ x.past = y.past
        /\ x.stream.mode = y.stream.mode /\ x.stream.slot = y.stream.slot
        /\ x.stream.pos = y.stream.pos
        /\ ~x.stream.finalizing /\ x.stream.ring = y.stream.ring
        /\ x.card[k].data = y.card[k].data /\ x.card[k].frames = Len(y.card[k].data)
        /\ \A l \in S!Slots : l # k => x.card[l] = y.card[l]
    <3>1. y \in Scenes /\ k \in S!Slots
      BY <1>1, <1>2
    <3> HIDE DEF k
    <3> QED
      BY <3>1, ClosedIs
  <2> HIDE DEF x
  <2>4. ~Storing(x) /\ \A v \in S!Tracks : ~Busy(x, v)
    BY <1>2, <1>4, <2>1, <2>3 DEF Storing, Busy
  <2>5. x.card[k].frames # 0
    <3>1. Passed(y) + Rest(y) = Len(y.past.whole) /\ Len(y.past.whole) # 0
      BY <1>3 DEF SaveGoesOn
    <3>2. Rest(y) = 0 /\ Passed(y) = Len(y.card[k].data) + 0
      BY <1>2, <1>3, <2>1, EmptySeq DEF Rest, Passed
    <3>3. Len(y.card[k].data) \in Nat
      <4>1. y.card[k].data \in Seq(Chunk)
        BY <1>1, <1>2, Parts DEF ClipKeeps
      <4> QED
        BY <4>1, LenProperties
    <3> QED
      BY <2>3, <3>1, <3>2, <3>3
  <2>6. ForOne(x)
    BY <1>2, <2>1, <2>3, <2>4 DEF ForOne
  <2>7. Complete(x)
    <3>1. Len(x.stream.ring) <= Read
      BY <1>3, <2>3 DEF Complete
    <3>2. \A l \in S!Slots : l # k => (y.card[l].there =>
             y.card[l].frames = Len(y.card[l].data) /\ y.card[l].frames # 0)
      BY <1>2, <1>3 DEF Complete
    <3>3. x.stream.mode # "play"
      BY <1>2, <2>1, <2>3
    <3>4. ASSUME NEW l \in S!Slots, x.card[l].there
          PROVE  x.card[l].frames = Len(x.card[l].data) /\ x.card[l].frames # 0
      <4>1. CASE l = k
        BY <2>3, <2>5, <4>1
      <4>2. CASE l # k
        BY <2>3, <3>2, <3>4, <4>2
      <4> QED
        BY <4>1, <4>2
    <3> QED
      BY <3>1, <3>3, <3>4 DEF Complete
  <2>8. LoadsServed(x) /\ SaveGoesOn(x)
    BY <2>4 DEF LoadsServed, SaveGoesOn
  <2>9. VoicesHold(x)
    <3> SUFFICES ASSUME NEW v \in S!Tracks, x.past.from[v] # -1
                 PROVE  HasFile(x, v, x.past.from[v])
      BY DEF VoicesHold
    <3>1. HasFile(y, v, y.past.from[v])
      BY <1>3, <2>3 DEF VoicesHold
    <3>2. y.past.from[v] \in S!Slots
      BY <1>2, <2>3, Parts DEF StoryKeeps
    <3>3. y.past.from[v] # k
      BY <1>2, <1>3, <3>1 DEF HasFile
    <3>4. x.card[y.past.from[v]] = y.card[y.past.from[v]]
      BY <2>3, <3>2, <3>3
    <3> QED
      BY <1>4, <2>3, <2>4, <3>1, <3>4 DEF HasFile
  <2> QED
    BY <2>2, <2>3, <2>6, <2>7, <2>8, <2>9 DEF Sound, Shares
<1> QED
  BY <1>5, <1>6

LEMMA PumpedKeeps ==
    ASSUME NEW z, Sound(z)
    PROVE  Sound(S!Pumped(z))
<1>1. CASE S!Playing(z)
  BY <1>1, ReadAheadKeeps
<1>2. CASE Storing(z)
  BY <1>2, WriteKeeps
<1>3. CASE ~S!Playing(z) /\ ~Storing(z)
  BY <1>3 DEF S!Pumped, Storing
<1> QED
  BY <1>1, <1>2, <1>3

\* A handler that leaves the stream alone touches one voice at most.
LEMMA TouchKeeps ==
    ASSUME NEW z, Sound(z), NEW v \in S!Tracks, NEW c \in VoiceKeeps, NEW d \in LooperKeeps,
           NEW p \in StoryKeeps,
           NEW y, y = [voice |-> [z.voice EXCEPT ![v] = c], deck |-> d, stream |-> z.stream,
                       card |-> z.card, past |-> p],
           c.load = z.voice[v].load, Busy(z, v) => c.wpos = z.voice[v].wpos,
           d.save = z.deck.save, d.saveVoice = z.deck.saveVoice,
           d.savePos = z.deck.savePos, d.saveEnd = z.deck.saveEnd,
           p.whole = z.past.whole, p.astray <=> z.past.astray,
           \A u \in S!Tracks : p.from[u] # -1 => p.from[u] = z.past.from[u],
           p.from[v] # -1 => c.len = z.voice[v].len /\ c.buf = z.voice[v].buf,
           p.clean => /\ z.past.clean
                      /\ v = z.deck.saveVoice => c.buf = z.voice[v].buf
    PROVE  Sound(y)
<1> DEFINE vs == [z.voice EXCEPT ![v] = c]
<1>1. z \in Scenes /\ Shares(z) /\ z.voice \in [S!Tracks -> VoiceKeeps]
  BY Parts DEF Sound
<1>2. /\ vs \in [S!Tracks -> VoiceKeeps] /\ vs[v] = c
      /\ \A u \in S!Tracks : u # v => vs[u] = z.voice[u]
  BY <1>1
<1> HIDE DEF vs
<1>3. /\ y \in Scenes /\ y.voice = vs /\ y.deck = d /\ y.stream = z.stream
      /\ y.card = z.card /\ y.past = p
  BY <1>1, <1>2, Parts, Scene DEF vs
<1>4. \A u \in S!Tracks :
         /\ y.voice[u].load = "idle" <=> z.voice[u].load = "idle"
         /\ Busy(z, u) => y.voice[u].wpos = z.voice[u].wpos
         /\ y.past.from[u] # -1 => /\ y.past.from[u] = z.past.from[u]
                                   /\ y.voice[u].len = z.voice[u].len
                                   /\ y.voice[u].buf = z.voice[u].buf
  <2> SUFFICES ASSUME NEW u \in S!Tracks
               PROVE  /\ y.voice[u].load = "idle" <=> z.voice[u].load = "idle"
                      /\ Busy(z, u) => y.voice[u].wpos = z.voice[u].wpos
                      /\ y.past.from[u] # -1 => /\ y.past.from[u] = z.past.from[u]
                                                /\ y.voice[u].len = z.voice[u].len
                                                /\ y.voice[u].buf = z.voice[u].buf
    OBVIOUS
  <2>1. CASE u = v
    BY <1>2, <1>3, <2>1
  <2>2. CASE u # v
    BY <1>2, <1>3, <2>2
  <2> QED
    BY <2>1, <2>2
<1>5. y.past.clean => /\ z.past.clean
                      /\ z.deck.save # "idle" =>
                            y.voice[z.deck.saveVoice].buf = z.voice[z.deck.saveVoice].buf
  <2>1. z.deck.save # "idle" => z.deck.saveVoice \in S!Tracks
    BY <1>1 DEF Shares, ForOne
  <2> QED
    BY <1>2, <1>3, <2>1
<1>6. /\ y.stream = z.stream /\ y.card = z.card
      /\ y.deck.save = z.deck.save /\ y.deck.saveVoice = z.deck.saveVoice
      /\ y.deck.savePos = z.deck.savePos /\ y.deck.saveEnd = z.deck.saveEnd
      /\ y.past.whole = z.past.whole /\ (y.past.astray <=> z.past.astray)
  BY <1>3
<1>7. Shares(y)
  BY ONLY <1>1, <1>4, <1>5, <1>6, TouchedShares
<1> QED
  BY <1>3, <1>7 DEF Sound

LEMMA DisturbedIs ==
    ASSUME NEW z \in Scenes, NEW v \in S!Tracks
    PROVE  /\ S!Disturbed(z, v) \in Scenes /\ S!Disturbed(z, v).voice = z.voice
           /\ S!Disturbed(z, v).deck = z.deck /\ S!Disturbed(z, v).stream = z.stream
           /\ S!Disturbed(z, v).card = z.card
           /\ S!Disturbed(z, v).past.from[v] = -1
           /\ \A u \in S!Tracks : u # v => S!Disturbed(z, v).past.from[u] = z.past.from[u]
           /\ S!Disturbed(z, v).past.whole = z.past.whole
           /\ (S!Disturbed(z, v).past.astray <=> z.past.astray)
           /\ (S!Disturbed(z, v).past.clean <=> z.past.clean /\ v # z.deck.saveVoice)
<1> DEFINE b == z.past.clean /\ v # z.deck.saveVoice
           p == [z.past EXCEPT !.from[v] = -1, !.clean = b]
<1>1. z.past \in StoryKeeps
  BY Parts
<1>2. S!Disturbed(z, v) = [z EXCEPT !.past = p]
  BY DEF S!Disturbed, S!None, Scenes
<1>3. b \in BOOLEAN /\ (b <=> z.past.clean /\ v # z.deck.saveVoice)
  BY <1>1 DEF StoryKeeps
<1> HIDE DEF b
<1>4. /\ p \in StoryKeeps /\ p.from[v] = -1
      /\ \A u \in S!Tracks : u # v => p.from[u] = z.past.from[u]
      /\ p.whole = z.past.whole /\ (p.astray <=> z.past.astray) /\ (p.clean <=> b)
  BY <1>1, <1>3 DEF StoryKeeps
<1> HIDE DEF p
<1>5. /\ S!Disturbed(z, v) \in Scenes /\ S!Disturbed(z, v).past = p
      /\ S!Disturbed(z, v).voice = z.voice
      /\ S!Disturbed(z, v).stream = z.stream /\ S!Disturbed(z, v).card = z.card
      /\ S!Disturbed(z, v).deck = z.deck
  BY <1>2, <1>4, PutPast
<1> QED
  BY <1>3, <1>4, <1>5

LEMMA HeadPlace == ASSUME NEW h \in 0 .. Cap PROVE (h % Cap) + 1 \in 1 .. Cap
  BY Sized

LEMMA RecordedKeeps ==
    ASSUME NEW z, Sound(z), NEW v \in S!Tracks, NEW h \in 1 .. Cap
    PROVE  Sound(S!Recorded(z, v, h))
<1> DEFINE a == z.voice[v]
           k == IF a.defining THEN (a.head % Cap) + 1 ELSE h
           g == IF a.defining THEN k ELSE a.head
           t == S!Disturbed(z, v)
           c == [a EXCEPT !.buf[k] = -2, !.head = g]
           y == S!Recorded(z, v, h)
<1>1. z \in Scenes /\ a \in VoiceKeeps /\ z.deck \in LooperKeeps
  BY Parts DEF Sound
<1>2. CASE ~(a.defining \/ a.overdub)
  BY <1>2 DEF S!Recorded
<1>3. CASE a.defining \/ a.overdub
  <2>1. y = [t EXCEPT !.voice[v].buf[k] = -2, !.voice[v].head = IF a.defining THEN k ELSE @]
    BY <1>3 DEF S!Recorded
  <2>2. /\ t \in Scenes /\ t.voice = z.voice /\ t.deck = z.deck /\ t.stream = z.stream
        /\ t.card = z.card /\ t.past.from[v] = -1
        /\ \A u \in S!Tracks : u # v => t.past.from[u] = z.past.from[u]
        /\ t.past.whole = z.past.whole /\ (t.past.astray <=> z.past.astray)
        /\ (t.past.clean <=> z.past.clean /\ v # z.deck.saveVoice)
    BY <1>1, DisturbedIs
  <2>3. k \in 1 .. Cap
    <3>1. a.head \in 0 .. Cap
      BY <1>1 DEF VoiceKeeps
    <3> HIDE DEF a
    <3> QED
      BY <3>1, HeadPlace
  <2>4. g \in 0 .. Cap
    <3>1. a.head \in 0 .. Cap
      BY <1>1 DEF VoiceKeeps
    <3> HIDE DEF a, k
    <3> QED
      BY <2>3, <3>1, Sized
  <2> HIDE DEF k, t, y
  <2>5. /\ c \in VoiceKeeps /\ c.load = a.load /\ c.wpos = a.wpos
    <3>1. [a.buf EXCEPT ![k] = -2] \in [1 .. Cap -> Chunk]
      BY <1>1, <2>3 DEF VoiceKeeps, Chunk
    <3> HIDE DEF g
    <3> QED
      BY <1>1, <2>4, <3>1 DEF VoiceKeeps
  <2>6. y = [voice |-> [z.voice EXCEPT ![v] = c], deck |-> z.deck, stream |-> z.stream,
             card |-> z.card, past |-> t.past]
    <3> DEFINE m == [t EXCEPT !.voice[v].buf[k] = -2]
               ms == [z.voice EXCEPT ![v].buf[k] = -2]
    <3>1. m = [voice |-> ms, deck |-> z.deck, stream |-> z.stream, card |-> z.card,
               past |-> t.past]
      BY <2>2 DEF Scenes
    <3>2. y = [m EXCEPT !.voice[v].head = IF a.defining THEN k ELSE @]
      BY <2>1
    <3>3. z.voice \in [S!Tracks -> VoiceKeeps]
      BY <1>1, Parts
    <3>4. /\ ms[v] = [a EXCEPT !.buf[k] = -2] /\ ms = [u \in S!Tracks |-> ms[u]]
          /\ \A u \in S!Tracks : u # v => ms[u] = z.voice[u]
      BY <3>3
    <3>5. ms[v].head = a.head
      BY <1>1, <3>4 DEF VoiceKeeps
    <3> HIDE DEF m, ms
    <3>6. y = [voice |-> [ms EXCEPT ![v].head = g], deck |-> z.deck, stream |-> z.stream,
               card |-> z.card, past |-> t.past]
      <4>1. y = [voice |-> [ms EXCEPT ![v].head = IF a.defining THEN k ELSE @], deck |-> z.deck,
                 stream |-> z.stream, card |-> z.card, past |-> t.past]
        BY <3>1, <3>2
      <4> HIDE DEF a
      <4> QED
        BY <3>5, <4>1
    <3> HIDE DEF g
    <3>7. [ms EXCEPT ![v].head = g] = [z.voice EXCEPT ![v] = c]
      <4>1. [ms[v] EXCEPT !.head = g] = c
        BY <1>1, <3>4 DEF VoiceKeeps
      <4> HIDE DEF c
      <4> QED
        BY <3>3, <3>4, <4>1
    <3> QED
      BY <3>6, <3>7
  <2> HIDE DEF c
  <2>7. t.past \in StoryKeeps
    BY <2>2, Parts
  <2>8. \A u \in S!Tracks : t.past.from[u] # -1 => t.past.from[u] = z.past.from[u]
    BY <2>2
  <2> QED
    BY <1>1, <2>2, <2>5, <2>6, <2>7, <2>8, TouchKeeps DEF y
<1> QED
  BY <1>2, <1>3

\* A chunk of the window goes to the ring, if there is room.
LEMMA PushedIs ==
    ASSUME NEW z \in Scenes, z.deck.save = "writing", z.stream.mode = "record"
    PROVE  LET put == IF Len(z.stream.ring) < Read
                      THEN SubSeq(z.voice[z.deck.saveVoice].buf, z.deck.savePos + 1,
                                  z.deck.savePos + 1)
                      ELSE <<>>
               to == z.deck.savePos + Len(put)
           IN  S!Pushed(z) =
                 [voice |-> z.voice,
                  deck |-> IF to >= z.deck.saveEnd
                           THEN [z.deck EXCEPT !.savePos = to, !.save = "finalize"]
                           ELSE [z.deck EXCEPT !.savePos = to],
                  stream |-> [z.stream EXCEPT !.ring = z.stream.ring \o put],
                  card |-> z.card, past |-> z.past]
<1> DEFINE put == IF Len(z.stream.ring) < Read
                  THEN SubSeq(z.voice[z.deck.saveVoice].buf, z.deck.savePos + 1,
                              z.deck.savePos + 1)
                  ELSE <<>>
           to == z.deck.savePos + Len(put)
           t == z.stream.ring \o put
           m == [z EXCEPT !.stream.ring = t]
           y == [z EXCEPT !.stream.ring = @ \o put, !.deck.savePos = @ + Len(put)]
           s == [z.stream EXCEPT !.ring = t]
           d == [z.deck EXCEPT !.savePos = to]
<1>1. S!Pushed(z) = IF y.deck.savePos >= z.deck.saveEnd THEN [y EXCEPT !.deck.save = "finalize"]
                    ELSE y
  <2>1. put = IF Len(z.stream.ring) < Read /\ z.stream.mode = "record"
              THEN SubSeq(z.voice[z.deck.saveVoice].buf, z.deck.savePos + 1, z.deck.savePos + 1)
              ELSE <<>>
    OBVIOUS
  <2> QED
    BY <2>1 DEF S!Pushed
<1> HIDE DEF put
<1>a. y = [m EXCEPT !.deck.savePos = @ + Len(put)]
  OBVIOUS
<1> HIDE DEF t, y
<1>2. m = [voice |-> z.voice, deck |-> z.deck, stream |-> s, card |-> z.card, past |-> z.past]
  BY DEF Scenes
<1>3. y = [m EXCEPT !.deck.savePos = to]
  <2>1. m.deck = z.deck
    BY <1>2
  <2> HIDE DEF m
  <2> QED
    BY <1>a, <2>1
<1> HIDE DEF m, s, y
<1>4. y = [voice |-> z.voice, deck |-> d, stream |-> s, card |-> z.card, past |-> z.past]
  BY <1>2, <1>3
<1>5. d.savePos = to
  BY Parts DEF LooperKeeps
<1>6. y.deck = d
  BY <1>4
<1>7. [y EXCEPT !.deck.save = "finalize"]
        = [voice |-> z.voice, deck |-> [d EXCEPT !.save = "finalize"], stream |-> s,
           card |-> z.card, past |-> z.past]
  BY <1>4, <1>6
<1>8. [d EXCEPT !.save = "finalize"] = [z.deck EXCEPT !.savePos = to, !.save = "finalize"]
  OBVIOUS
<1> HIDE DEF d, to
<1>9. S!Pushed(z) = [voice |-> z.voice,
                     deck |-> IF to >= z.deck.saveEnd THEN [d EXCEPT !.save = "finalize"] ELSE d,
                     stream |-> s, card |-> z.card, past |-> z.past]
  BY <1>1, <1>4, <1>5, <1>6, <1>7
<1> QED
  BY <1>8, <1>9 DEF d, to, s, t, put

LEMMA OneChunk ==
    ASSUME NEW q \in [1 .. Cap -> Chunk], NEW n \in 1 .. Cap
    PROVE  /\ SubSeq(q, n, n) \in Seq(Chunk) /\ Len(SubSeq(q, n, n)) = 1
           /\ SubSeq(q, n, n)[1] = q[n]
<1>1. n \in Int /\ (\A i \in n .. n : q[i] \in Chunk) /\ n - n + 1 = 1 /\ n + 1 - 1 = n
  BY Sized
<1>2. /\ SubSeq(q, n, n) \in Seq(Chunk)
      /\ Len(SubSeq(q, n, n)) = IF n <= n THEN n - n + 1 ELSE 0
      /\ \A i \in 1 .. n - n + 1 : SubSeq(q, n, n)[i] = q[n + i - 1]
  BY <1>1, SubSeqProperties
<1>3. 1 \in 1 .. n - n + 1
  BY <1>1
<1> QED
  BY <1>1, <1>2, <1>3

LEMMA OneMore ==
    ASSUME NEW a \in Nat, NEW b \in 0 .. Cap, a < b, NEW u \in {0, 1}
    PROVE  /\ a + u \in 0 .. Cap /\ a + u <= b /\ a + u \in Nat
           /\ \A p \in Nat : (p + u) + (b - (a + u)) = p + (b - a)
  BY Sized

LEMMA LastOne ==
    ASSUME NEW i \in Nat, NEW n \in Nat, NEW u \in {0, 1}, i <= n + u, ~(i <= n), NEW l \in Nat
    PROVE  u = 1 /\ i = n + 1 /\ i \in 1 .. n + u /\ i - n = 1 /\ l + i = (l + n) + 1
  OBVIOUS

\* A save goes on: what it has passed grows by what its rest loses.
LEMMA PushedKeeps ==
    ASSUME NEW z, Sound(z)
    PROVE  Sound(S!Pushed(z))
<1>1. /\ z \in Scenes /\ Shares(z) /\ z.deck \in LooperKeeps /\ z.stream \in StreamKeeps
      /\ z.voice \in [S!Tracks -> VoiceKeeps]
  BY Parts DEF Sound
<1>2. CASE z.deck.save # "writing"
  BY <1>2 DEF S!Pushed
<1>3. CASE z.deck.save = "writing"
  <2> DEFINE a == z.deck.savePos
             b == z.deck.saveEnd
             r == z.stream.ring
             q == z.voice[z.deck.saveVoice].buf
             put == IF Len(r) < Read THEN SubSeq(q, a + 1, a + 1) ELSE <<>>
             to == a + Len(put)
             d == IF to >= b THEN [z.deck EXCEPT !.savePos = to, !.save = "finalize"]
                  ELSE [z.deck EXCEPT !.savePos = to]
             t == r \o put
             s == [z.stream EXCEPT !.ring = t]
             y == S!Pushed(z)
             w == z.past.whole
             l == Len(OnStream(z).data)
  <2>1. /\ z.stream.mode = "record" /\ Storing(z) /\ ~z.stream.finalizing
        /\ z.deck.saveVoice \in S!Tracks /\ \A v \in S!Tracks : ~Busy(z, v)
    BY <1>1, <1>3 DEF Shares, ForOne, Storing
  <2>2. y = [voice |-> z.voice, deck |-> d, stream |-> s, card |-> z.card, past |-> z.past]
    BY <1>1, <1>3, <2>1, PushedIs
  <2>3. /\ SaveGoesOn(z) /\ a \in Nat /\ b \in 0 .. Cap /\ a < b /\ r \in Seq(Chunk)
        /\ Len(r) \in Nat /\ q \in [1 .. Cap -> Chunk] /\ Cap \in Nat /\ Read \in Nat
        /\ Len(r) <= Read /\ l \in Nat
    <3>1. OnStream(z) \in ClipKeeps
      BY <1>1, Parts DEF OnStream, StreamKeeps
    <3>2. l \in Nat
      BY <3>1, LenProperties DEF ClipKeeps
    <3>3. r \in Seq(Chunk) /\ Len(r) \in Nat /\ Len(r) <= Read
      BY <1>1, LenProperties DEF StreamKeeps, Shares, Complete
    <3>4. z.voice[z.deck.saveVoice] \in VoiceKeeps
      BY <1>1, <2>1
    <3>5. SaveGoesOn(z) /\ a < b
      BY <1>1, <1>3, <2>1 DEF Shares, SaveGoesOn
    <3>6. a \in 0 .. Cap /\ b \in 0 .. Cap
      BY <1>1 DEF LooperKeeps
    <3>7. q \in [1 .. Cap -> Chunk]
      BY <3>4 DEF VoiceKeeps
    <3> HIDE DEF a, b, r, q, l
    <3> QED
      BY <3>2, <3>3, <3>5, <3>6, <3>7, Sized
  <2>4. /\ put \in Seq(Chunk) /\ Len(put) \in {0, 1} /\ Len(r) + Len(put) <= Read
        /\ Len(put) = 1 => put[1] = q[a + 1]
    <3> HIDE DEF a, b, r, q, l
    <3>1. CASE Len(r) < Read
      <4>1. a + 1 \in 1 .. Cap
        BY <2>3
      <4>2. put = SubSeq(q, a + 1, a + 1)
        BY <3>1
      <4> HIDE DEF put
      <4>3. put \in Seq(Chunk) /\ Len(put) = 1 /\ put[1] = q[a + 1]
        BY <2>3, <4>1, <4>2, OneChunk
      <4> QED
        BY <2>3, <3>1, <4>3
    <3>2. CASE ~(Len(r) < Read)
      <4>1. put = <<>> /\ Len(put) = 0
        BY <3>2, EmptySeq
      <4> QED
        BY <2>3, <4>1, EmptySeq
    <3> QED
      BY <3>1, <3>2
  <2> HIDE DEF put, y
  <2>5. /\ t \in Seq(Chunk) /\ Len(t) = Len(r) + Len(put)
        /\ \A i \in 1 .. Len(r) + Len(put) : t[i] = IF i <= Len(r) THEN r[i] ELSE put[i - Len(r)]
    BY <2>3, <2>4, ConcatProperties
  <2>6. to \in 0 .. Cap /\ to <= b /\ to \in Nat
    <3> HIDE DEF a, b, r, q, l
    <3>1. a \in Nat /\ b \in 0 .. Cap /\ a < b /\ Len(put) \in {0, 1}
      BY <2>3, <2>4
    <3>2. a + Len(put) \in 0 .. Cap /\ a + Len(put) <= b /\ a + Len(put) \in Nat
      BY ONLY <3>1, OneMore, Sized
    <3> QED
      BY <3>2
  <2>16. to = a + Len(put)
    OBVIOUS
  <2> HIDE DEF to, t
  <2>7. /\ d \in LooperKeeps /\ d.savePos = to /\ d.saveEnd = b
        /\ d.saveVoice = z.deck.saveVoice /\ d.save # "idle"
        /\ d.save = "writing" <=> to < b
    <3> DEFINE e == [z.deck EXCEPT !.savePos = to, !.save = "finalize"]
               g == [z.deck EXCEPT !.savePos = to]
    <3>1. /\ e \in LooperKeeps /\ e.savePos = to /\ e.saveEnd = b
          /\ e.saveVoice = z.deck.saveVoice /\ e.save = "finalize"
      BY <1>1, <2>6 DEF LooperKeeps
    <3>2. /\ g \in LooperKeeps /\ g.savePos = to /\ g.saveEnd = b
          /\ g.saveVoice = z.deck.saveVoice /\ g.save = "writing"
      BY <1>1, <1>3, <2>6 DEF LooperKeeps
    <3>3. d = IF to >= b THEN e ELSE g
      OBVIOUS
    <3>4. b \in Nat
      BY <2>3
    <3> HIDE DEF e, g, d, b
    <3>5. to >= b <=> ~(to < b)
      BY <2>6, <3>4
    <3> QED
      BY <3>1, <3>2, <3>3, <3>5
  <2>8. /\ s \in StreamKeeps /\ s.ring = t /\ s.mode = "record" /\ s.slot = z.stream.slot
        /\ s.pos = z.stream.pos /\ (s.finalizing <=> z.stream.finalizing)
    BY <1>1, <2>1, <2>5 DEF StreamKeeps
  <2> HIDE DEF d, s
  <2>9. /\ y \in Scenes /\ y.voice = z.voice /\ y.deck = d /\ y.stream = s /\ y.card = z.card
        /\ y.past = z.past
    BY <1>1, <2>2, <2>7, <2>8, Parts, Scene
  <2>10. /\ Storing(y) /\ OnStream(y) = OnStream(z)
         /\ \A v \in S!Tracks : ~Busy(y, v)
    BY <2>1, <2>8, <2>9 DEF Storing, OnStream, Busy
  <2>11. ForOne(y)
    BY <2>1, <2>7, <2>8, <2>9, <2>10 DEF ForOne
  <2>12. Complete(y)
    <3>1. Len(y.stream.ring) <= Read
      BY <2>4, <2>5, <2>8, <2>9
    <3>2. Complete(z)
      BY <1>1 DEF Shares
    <3> QED
      BY <2>1, <2>8, <2>9, <2>10, <3>1, <3>2 DEF Complete
  <2>13. LoadsServed(y)
    BY <2>10 DEF LoadsServed
  <2>14. VoicesHold(y)
    <3>1. VoicesHold(z)
      BY <1>1 DEF Shares
    <3> QED
      BY <2>1, <2>8, <2>9, <2>10, <3>1 DEF VoicesHold, HasFile
  <2>15. /\ Passed(y) = Passed(z) + Len(put) /\ Passed(z) = l + Len(r) /\ Passed(z) \in Nat
         /\ Rest(z) = b - a /\ Rest(y) = b - to
    <3>1. Rest(y) = b - to
      BY <2>3, <2>6, <2>7, <2>9 DEF Rest
    <3>2. Rest(z) = b - a
      BY <1>3 DEF Rest
    <3>3. Passed(z) = l + Len(r) /\ Passed(y) = l + Len(t)
      BY <2>8, <2>9, <2>10 DEF Passed
    <3> HIDE DEF l, r, a, b
    <3> QED
      BY <2>3, <2>4, <2>5, <3>1, <3>2, <3>3
  <2>17. /\ Passed(z) + Rest(z) = Len(w) /\ Len(w) # 0
         /\ z.past.clean =>
               /\ \A i \in 1 .. l : w[i] = OnStream(z).data[i]
               /\ \A i \in 1 .. Len(r) : w[l + i] = r[i]
               /\ \A i \in 1 .. Rest(z) : w[Passed(z) + i] = q[a + i]
    BY <2>1, <2>3 DEF SaveGoesOn
  <2>18. /\ y.deck.savePos = to /\ y.deck.saveEnd = b
         /\ y.stream.ring = t /\ y.past = z.past /\ y.voice[y.deck.saveVoice].buf = q
         /\ y.deck.save = "writing" => y.deck.savePos < y.deck.saveEnd
    BY <2>7, <2>8, <2>9
  <2>20. SaveGoesOn(y)
    <3> HIDE DEF l, r, a, b, q, w
    <3>1. Passed(y) + Rest(y) = Len(w)
      <4>1. a \in Nat /\ b \in 0 .. Cap /\ a < b /\ Len(put) \in {0, 1} /\ Passed(z) \in Nat
        BY <2>3, <2>4, <2>15
      <4>2. (Passed(z) + Len(put)) + (b - (a + Len(put))) = Passed(z) + (b - a)
        BY ONLY <4>1, OneMore, Sized
      <4>3. Passed(z) + (b - a) = Len(w)
        BY <2>15, <2>17
      <4> QED
        BY ONLY <4>2, <4>3, <2>15, <2>16
    <3>2. ASSUME z.past.clean, NEW i \in 1 .. Len(t) PROVE w[l + i] = t[i]
      <4>1. CASE i <= Len(r)
        <5>1. i \in 1 .. Len(r) /\ i \in 1 .. Len(r) + Len(put)
          BY <2>3, <2>4, <2>5, <4>1
        <5> QED
          BY <2>5, <2>17, <3>2, <4>1, <5>1
      <4>2. CASE ~(i <= Len(r))
        <5>1. /\ Len(put) = 1 /\ i = Len(r) + 1 /\ i \in 1 .. Len(r) + Len(put)
              /\ i - Len(r) = 1 /\ l + i = (l + Len(r)) + 1
          <6>1. /\ i \in Nat /\ i <= Len(r) + Len(put) /\ l \in Nat /\ Len(r) \in Nat
                /\ Len(put) \in {0, 1}
            BY <2>3, <2>4, <2>5, <3>2
          <6> DEFINE u == Len(put)
                     n == Len(r)
          <6>2. /\ i \in Nat /\ i <= n + u /\ l \in Nat /\ n \in Nat /\ u \in {0, 1}
                /\ ~(i <= n)
            BY <4>2, <6>1
          <6> HIDE DEF u, n
          <6>3. u = 1 /\ i = n + 1 /\ i \in 1 .. n + u /\ i - n = 1 /\ l + i = (l + n) + 1
            BY ONLY <6>2, LastOne
          <6> QED
            BY <6>3 DEF u, n
        <5>2. t[i] = q[a + 1]
          BY <2>4, <2>5, <4>2, <5>1
        <5>3. 1 \in 1 .. Rest(z)
          BY <2>3, <2>15
        <5>4. w[Passed(z) + 1] = q[a + 1]
          BY <2>17, <3>2, <5>3
        <5> QED
          BY <2>15, <5>1, <5>2, <5>4
      <4> QED
        BY <4>1, <4>2
    <3>3. ASSUME z.past.clean, NEW i \in 1 .. Rest(y) PROVE w[Passed(y) + i] = q[to + i]
      <4> DEFINE j == Len(put) + i
      <4>1. j \in 1 .. Rest(z) /\ Passed(z) + j = Passed(y) + i /\ a + j = to + i
        BY <2>3, <2>4, <2>6, <2>15, <2>16, <3>3
      <4> HIDE DEF j
      <4> QED
        BY <2>17, <3>3, <4>1
    <3>4. z.past.clean => \A i \in 1 .. l : w[i] = OnStream(y).data[i]
      BY <2>10, <2>17
    <3>5. l = Len(OnStream(y).data) /\ y.past.whole = w /\ (y.past.clean <=> z.past.clean)
      BY <2>10, <2>18 DEF l, w
    <3>6. /\ Len(y.past.whole) # 0 /\ Passed(y) + Rest(y) = Len(y.past.whole)
          /\ y.deck.save = "writing" => y.deck.savePos < y.deck.saveEnd
      BY <2>17, <2>18, <3>1, <3>5
    <3>7. ASSUME y.past.clean
          PROVE  /\ \A i \in 1 .. Len(OnStream(y).data) : y.past.whole[i] = OnStream(y).data[i]
                 /\ \A i \in 1 .. Len(y.stream.ring) :
                       y.past.whole[Len(OnStream(y).data) + i] = y.stream.ring[i]
                 /\ \A i \in 1 .. Rest(y) :
                       y.past.whole[Passed(y) + i]
                         = y.voice[y.deck.saveVoice].buf[y.deck.savePos + i]
      <4>1. z.past.clean
        BY <3>5, <3>7
      <4>2. \A i \in 1 .. Len(OnStream(y).data) : y.past.whole[i] = OnStream(y).data[i]
        BY <3>4, <3>5, <4>1
      <4>3. \A i \in 1 .. Len(y.stream.ring) :
               y.past.whole[Len(OnStream(y).data) + i] = y.stream.ring[i]
        BY <2>18, <3>2, <3>5, <4>1
      <4>4. \A i \in 1 .. Rest(y) :
               y.past.whole[Passed(y) + i] = y.voice[y.deck.saveVoice].buf[y.deck.savePos + i]
        <5> SUFFICES ASSUME NEW i \in 1 .. Rest(y)
                     PROVE  y.past.whole[Passed(y) + i]
                              = y.voice[y.deck.saveVoice].buf[y.deck.savePos + i]
          OBVIOUS
        <5>1. w[Passed(y) + i] = q[to + i]
          BY <3>3, <4>1
        <5>2. y.past.whole = w /\ y.voice[y.deck.saveVoice].buf = q /\ y.deck.savePos = to
          BY <2>18, <3>5
        <5> QED
          BY ONLY <5>1, <5>2
      <4> QED
        BY <4>2, <4>3, <4>4
    <3> QED
      BY <3>6, <3>7 DEF SaveGoesOn
  <2> QED
    BY <2>9, <2>11, <2>12, <2>13, <2>14, <2>20 DEF Sound, Shares, y
<1> QED
  BY <1>2, <1>3

LEMMA PushKeeps ==
    ASSUME NEW z, Sound(z), NEW h \in [S!Tracks -> 1 .. Cap]
    PROVE  Sound(S!Pushed(S!Recorded(S!Recorded(z, 0, h[0]), 1, h[1])))
<1>1. 0 \in S!Tracks /\ 1 \in S!Tracks
  BY Sized
<1>2. Sound(S!Recorded(z, 0, h[0]))
  BY <1>1, RecordedKeeps
<1>3. Sound(S!Recorded(S!Recorded(z, 0, h[0]), 1, h[1]))
  BY <1>1, <1>2, RecordedKeeps
<1> QED
  BY <1>3, PushedKeeps

\* A handler that touches the settings of the deck alone.
LEMMA DeckKeeps ==
    ASSUME NEW z, Sound(z), NEW d \in LooperKeeps,
           d.save = z.deck.save, d.saveVoice = z.deck.saveVoice,
           d.savePos = z.deck.savePos, d.saveEnd = z.deck.saveEnd,
           NEW y, y = [voice |-> z.voice, deck |-> d, stream |-> z.stream, card |-> z.card,
                       past |-> z.past]
    PROVE  Sound(y)
<1>1. z \in Scenes /\ 0 \in S!Tracks /\ z.voice \in [S!Tracks -> VoiceKeeps] /\ z.past \in StoryKeeps
  BY Parts, Sized DEF Sound
<1>2. z.voice[0] \in VoiceKeeps /\ [z.voice EXCEPT ![0] = z.voice[0]] = z.voice
  BY <1>1
<1>3. y = [voice |-> [z.voice EXCEPT ![0] = z.voice[0]], deck |-> d, stream |-> z.stream,
           card |-> z.card, past |-> z.past]
  BY <1>2
<1> QED
  BY <1>1, <1>2, <1>3, TouchKeeps

LEMMA AltKeeps ==
    ASSUME NEW z, Sound(z)
    PROVE  Sound([z EXCEPT !.deck.held = ~@])
<1> DEFINE h == ~z.deck.held
           d == [z.deck EXCEPT !.held = h]
           y == [z EXCEPT !.deck.held = h]
<1>1. z \in Scenes /\ z.deck \in LooperKeeps /\ h \in BOOLEAN
  BY Parts DEF Sound
<1>2. y = [z EXCEPT !.deck.held = ~@]
  OBVIOUS
<1> HIDE DEF h
<1>3. /\ d \in LooperKeeps /\ d.save = z.deck.save /\ d.saveVoice = z.deck.saveVoice
      /\ d.savePos = z.deck.savePos /\ d.saveEnd = z.deck.saveEnd
  BY <1>1 DEF LooperKeeps
<1>4. y = [voice |-> z.voice, deck |-> d, stream |-> z.stream, card |-> z.card, past |-> z.past]
  BY <1>1 DEF Scenes
<1> HIDE DEF d, y
<1>5. Sound(y)
  BY <1>3, <1>4, DeckKeeps
<1> QED
  BY <1>2, <1>5

LEMMA RevPadKeeps ==
    ASSUME NEW z, Sound(z)
    PROVE  Sound([z EXCEPT !.deck.active = 1 - @])
<1> DEFINE h == 1 - z.deck.active
           d == [z.deck EXCEPT !.active = h]
           y == [z EXCEPT !.deck.active = h]
<1>1. z \in Scenes /\ z.deck \in LooperKeeps /\ h \in S!Tracks
  <2>1. z \in Scenes /\ z.deck \in LooperKeeps
    BY Parts DEF Sound
  <2>2. z.deck.active \in {0, 1}
    BY <2>1, Sized DEF LooperKeeps
  <2> QED
    BY <2>1, <2>2, Sized
<1>2. y = [z EXCEPT !.deck.active = 1 - @]
  OBVIOUS
<1> HIDE DEF h
<1>3. /\ d \in LooperKeeps /\ d.save = z.deck.save /\ d.saveVoice = z.deck.saveVoice
      /\ d.savePos = z.deck.savePos /\ d.saveEnd = z.deck.saveEnd
  BY <1>1 DEF LooperKeeps
<1>4. y = [voice |-> z.voice, deck |-> d, stream |-> z.stream, card |-> z.card, past |-> z.past]
  BY <1>1 DEF Scenes
<1> HIDE DEF d, y
<1>5. Sound(y)
  BY <1>3, <1>4, DeckKeeps
<1> QED
  BY <1>2, <1>5

LEMMA ArmedKeeps ==
    ASSUME NEW z, Sound(z), NEW a \in {"no", "waiting", "due"}
    PROVE  Sound([voice |-> z.voice, deck |-> [z.deck EXCEPT !.armed = a], stream |-> z.stream,
                  card |-> z.card, past |-> z.past])
<1> DEFINE d == [z.deck EXCEPT !.armed = a]
<1>1. z \in Scenes /\ z.deck \in LooperKeeps
  BY Parts DEF Sound
<1>2. /\ d \in LooperKeeps /\ d.save = z.deck.save /\ d.saveVoice = z.deck.saveVoice
      /\ d.savePos = z.deck.savePos /\ d.saveEnd = z.deck.saveEnd
  BY <1>1 DEF LooperKeeps
<1> HIDE DEF d
<1>3. Sound([voice |-> z.voice, deck |-> d, stream |-> z.stream, card |-> z.card,
             past |-> z.past])
  BY <1>2, DeckKeeps
<1> QED
  BY <1>3 DEF d

LEMMA BootedKeeps ==
    ASSUME NEW z, Sound(z), NEW b \in {"card", "late"}
    PROVE  Sound([voice |-> z.voice, deck |-> [z.deck EXCEPT !.boot = b], stream |-> z.stream,
                  card |-> z.card, past |-> z.past])
<1> DEFINE d == [z.deck EXCEPT !.boot = b]
<1>1. z \in Scenes /\ z.deck \in LooperKeeps
  BY Parts DEF Sound
<1>2. /\ d \in LooperKeeps /\ d.save = z.deck.save /\ d.saveVoice = z.deck.saveVoice
      /\ d.savePos = z.deck.savePos /\ d.saveEnd = z.deck.saveEnd
  BY <1>1 DEF LooperKeeps
<1> HIDE DEF d
<1>3. Sound([voice |-> z.voice, deck |-> d, stream |-> z.stream, card |-> z.card,
             past |-> z.past])
  BY <1>2, DeckKeeps
<1> QED
  BY <1>3 DEF d

LEMMA OverdubKeeps ==
    ASSUME NEW z, Sound(z), NEW v \in S!Tracks, NEW b \in BOOLEAN
    PROVE  Sound([z EXCEPT !.voice[v].overdub = b])
<1> DEFINE c == [z.voice[v] EXCEPT !.overdub = b]
           y == [z EXCEPT !.voice[v].overdub = b]
<1>1. /\ z \in Scenes /\ z.deck \in LooperKeeps /\ z.voice[v] \in VoiceKeeps
      /\ z.past \in StoryKeeps
  BY Parts DEF Sound
<1>2. /\ c \in VoiceKeeps /\ c.load = z.voice[v].load /\ c.wpos = z.voice[v].wpos
      /\ c.len = z.voice[v].len /\ c.buf = z.voice[v].buf
  BY <1>1 DEF VoiceKeeps
<1>3. y = [voice |-> [z.voice EXCEPT ![v] = c], deck |-> z.deck, stream |-> z.stream,
           card |-> z.card, past |-> z.past]
  BY <1>1 DEF Scenes
<1> HIDE DEF c, y
<1>4. Sound(y)
  BY <1>1, <1>2, <1>3, TouchKeeps
<1> QED
  BY <1>4 DEF y

\* A take that is closed is as long as it has come.
LEMMA ClosedTakeKeeps ==
    ASSUME NEW z, Sound(z), NEW v \in S!Tracks, NEW n \in 0 .. Cap
    PROVE  Sound([z EXCEPT !.voice[v].len = n, !.voice[v].defining = FALSE, !.voice[v].head = 0,
                           !.past.from[v] = -1])
<1> DEFINE c == [z.voice[v] EXCEPT !.len = n, !.defining = FALSE, !.head = 0]
           p == [z.past EXCEPT !.from[v] = -1]
           vs == [z.voice EXCEPT ![v] = c]
           y == [z EXCEPT !.voice[v].len = n, !.voice[v].defining = FALSE, !.voice[v].head = 0,
                          !.past.from[v] = -1]
<1>1. /\ z \in Scenes /\ z.deck \in LooperKeeps /\ z.voice \in [S!Tracks -> VoiceKeeps]
      /\ z.past \in StoryKeeps
  BY Parts DEF Sound
<1>2. /\ c \in VoiceKeeps /\ c.load = z.voice[v].load /\ c.wpos = z.voice[v].wpos
      /\ c.buf = z.voice[v].buf
  <2>1. z.voice[v] \in VoiceKeeps /\ 0 \in 0 .. Cap
    BY <1>1, Sized
  <2> QED
    BY <2>1 DEF VoiceKeeps
<1>3. /\ p \in StoryKeeps /\ p.from[v] = -1 /\ p.whole = z.past.whole
      /\ (p.astray <=> z.past.astray) /\ (p.clean <=> z.past.clean)
      /\ \A u \in S!Tracks : p.from[u] # -1 => p.from[u] = z.past.from[u]
  BY <1>1 DEF StoryKeeps
<1>4. y = [voice |-> vs, deck |-> z.deck, stream |-> z.stream, card |-> z.card, past |-> p]
  <2> DEFINE x == [z EXCEPT !.voice = vs]
             m == [z EXCEPT !.voice[v].len = n, !.voice[v].defining = FALSE, !.voice[v].head = 0]
  <2>1. m = x
    BY <1>1 DEF Scenes
  <2>2. y = [m EXCEPT !.past.from[v] = -1]
    OBVIOUS
  <2> HIDE DEF m, y, vs
  <2>3. x = [voice |-> vs, deck |-> z.deck, stream |-> z.stream, card |-> z.card, past |-> z.past]
    BY <1>1 DEF Scenes
  <2>4. x.past = z.past
    BY <2>3
  <2> HIDE DEF x
  <2> QED
    BY <2>1, <2>2, <2>3, <2>4
<1> HIDE DEF c, p, y
<1>5. Sound(y)
  BY <1>1, <1>2, <1>3, <1>4, TouchKeeps
<1> QED
  BY <1>5 DEF y

LEMMA Silence == [k \in 1 .. Cap |-> -1] \in [1 .. Cap -> Chunk]
  BY DEF Chunk

\* A take begins in a voice that is silent.
LEMMA FreshTakeKeeps ==
    ASSUME NEW z, Sound(z), NEW v \in S!Tracks
    PROVE  Sound([[S!Disturbed(z, v) EXCEPT !.voice[v].buf = [k \in 1 .. Cap |-> -1]]
                    EXCEPT !.voice[v].defining = TRUE, !.past.erased[v] = FALSE])
<1> DEFINE t == S!Disturbed(z, v)
           q == [k \in 1 .. Cap |-> -1]
           x == [t EXCEPT !.voice[v].buf = q]
           m == [x EXCEPT !.voice[v].defining = TRUE]
           y == [x EXCEPT !.voice[v].defining = TRUE, !.past.erased[v] = FALSE]
           c == [z.voice[v] EXCEPT !.buf = q, !.defining = TRUE]
           vs == [z.voice EXCEPT ![v] = c]
           p == [t.past EXCEPT !.erased[v] = FALSE]
<1>1. /\ z \in Scenes /\ z.deck \in LooperKeeps /\ z.voice \in [S!Tracks -> VoiceKeeps]
  BY Parts DEF Sound
<1>2. /\ t \in Scenes /\ t.voice = z.voice /\ t.deck = z.deck /\ t.stream = z.stream
      /\ t.card = z.card /\ t.past.from[v] = -1
      /\ \A u \in S!Tracks : u # v => t.past.from[u] = z.past.from[u]
      /\ t.past.whole = z.past.whole /\ (t.past.astray <=> z.past.astray)
      /\ (t.past.clean <=> z.past.clean /\ v # z.deck.saveVoice)
  BY <1>1, DisturbedIs
<1>3. q \in [1 .. Cap -> Chunk]
  BY Silence
<1>y. y = [m EXCEPT !.past.erased[v] = FALSE]
  OBVIOUS
<1> HIDE DEF t, q
<1>4. /\ c \in VoiceKeeps /\ c.load = z.voice[v].load /\ c.wpos = z.voice[v].wpos
  <2>1. z.voice[v] \in VoiceKeeps
    BY <1>1
  <2> QED
    BY <1>3, <2>1 DEF VoiceKeeps
<1>5. /\ p \in StoryKeeps /\ p.from = t.past.from /\ p.whole = t.past.whole
      /\ (p.astray <=> t.past.astray) /\ (p.clean <=> t.past.clean)
  <2>1. t.past \in StoryKeeps
    BY <1>2, Parts
  <2> QED
    BY <2>1 DEF StoryKeeps
<1>6. y = [voice |-> vs, deck |-> z.deck, stream |-> z.stream, card |-> z.card, past |-> p]
  <2> HIDE DEF y
  <2>1. x = [voice |-> [z.voice EXCEPT ![v].buf = q], deck |-> z.deck, stream |-> z.stream,
             card |-> z.card, past |-> t.past]
    BY <1>2 DEF Scenes
  <2> DEFINE ms == [z.voice EXCEPT ![v].buf = q]
  <2>2. [ms EXCEPT ![v].defining = TRUE] = vs
    BY <1>1
  <2> HIDE DEF x, vs, ms
  <2>3. m = [voice |-> vs, deck |-> z.deck, stream |-> z.stream, card |-> z.card,
             past |-> t.past]
    BY <2>1, <2>2 DEF ms
  <2> HIDE DEF m
  <2>4. m.past = t.past
    BY <2>3
  <2> QED
    BY <1>y, <2>3, <2>4
<1> HIDE DEF c, p, y
<1>7. \A u \in S!Tracks : p.from[u] # -1 => p.from[u] = z.past.from[u]
  BY <1>2, <1>5
<1>8. /\ p.whole = z.past.whole /\ (p.astray <=> z.past.astray) /\ p.from[v] = -1
      /\ (p.clean => z.past.clean /\ v # z.deck.saveVoice)
  BY <1>2, <1>5
<1> HIDE DEF x, m
<1>9. Sound(y)
  BY <1>1, <1>4, <1>5, <1>6, <1>7, <1>8, TouchKeeps
<1> QED
  BY <1>9 DEF y, x, t, q

\* A slot that is picked is loaded later.
LEMMA PickKeeps ==
    ASSUME NEW z, Sound(z), NEW v \in S!Tracks, NEW k \in S!Slots
    PROVE  Sound([z EXCEPT !.voice[v].slot = k, !.deck.dirty = TRUE, !.past.picked = v])
<1> DEFINE c == [z.voice[v] EXCEPT !.slot = k]
           d == [z.deck EXCEPT !.dirty = TRUE]
           p == [z.past EXCEPT !.picked = v]
           m == [z EXCEPT !.voice[v].slot = k]
           x == [m EXCEPT !.deck.dirty = TRUE]
           y == [z EXCEPT !.voice[v].slot = k, !.deck.dirty = TRUE, !.past.picked = v]
           vs == [z.voice EXCEPT ![v] = c]
<1>1. /\ z \in Scenes /\ z.deck \in LooperKeeps /\ z.voice \in [S!Tracks -> VoiceKeeps]
      /\ z.past \in StoryKeeps
  BY Parts DEF Sound
<1>2. /\ c \in VoiceKeeps /\ c.load = z.voice[v].load /\ c.wpos = z.voice[v].wpos
      /\ c.buf = z.voice[v].buf /\ c.len = z.voice[v].len
  BY <1>1 DEF VoiceKeeps
<1>3. /\ p \in StoryKeeps /\ p.from = z.past.from /\ p.whole = z.past.whole
      /\ (p.astray <=> z.past.astray) /\ (p.clean <=> z.past.clean)
  BY <1>1 DEF StoryKeeps
<1>4. /\ d \in LooperKeeps /\ d.save = z.deck.save /\ d.saveVoice = z.deck.saveVoice
      /\ d.savePos = z.deck.savePos /\ d.saveEnd = z.deck.saveEnd
  BY <1>1 DEF LooperKeeps
<1>5. y = [voice |-> vs, deck |-> d, stream |-> z.stream, card |-> z.card, past |-> p]
  <2>1. y = [x EXCEPT !.past.picked = v]
    OBVIOUS
  <2>2. m = [voice |-> vs, deck |-> z.deck, stream |-> z.stream, card |-> z.card, past |-> z.past]
    BY <1>1 DEF Scenes
  <2> HIDE DEF m, vs, y
  <2>3. m.deck = z.deck
    BY <2>2
  <2>4. x = [voice |-> vs, deck |-> d, stream |-> z.stream, card |-> z.card, past |-> z.past]
    <3> DEFINE e == [m.deck EXCEPT !.dirty = TRUE]
    <3>1. x = [m EXCEPT !.deck = e]
      BY <2>2
    <3>2. e = d
      BY <2>3
    <3> HIDE DEF e, d, x
    <3> QED
      BY <2>2, <3>1, <3>2
  <2> HIDE DEF x, d
  <2>5. x.past = z.past
    BY <2>4
  <2> QED
    BY <2>1, <2>4, <2>5
<1> HIDE DEF c, p, d, y
<1>6. Sound(y)
  BY <1>1, <1>2, <1>3, <1>4, <1>5, TouchKeeps
<1> QED
  BY <1>6 DEF y

\* A voice that is erased: one that was being loaded has gone astray.
LEMMA ErasedKeeps ==
    ASSUME NEW z, Sound(z), NEW v \in S!Tracks
    PROVE  Sound(S!Erased(z, v))
<1> DEFINE t == S!Disturbed(z, v)
           y == S!Erased(z, v)
           q == [k \in 1 .. Cap |-> -1]
           b == z.past.astray \/ z.voice[v].load # "idle"
           c == [z.voice[v] EXCEPT !.overdub = FALSE, !.defining = FALSE, !.head = 0, !.len = 0,
                                   !.wpos = 0, !.buf = q]
           d == [z.deck EXCEPT !.armed = "no"]
           p == [t.past EXCEPT !.erased[v] = TRUE, !.astray = b]
           vs == [z.voice EXCEPT ![v] = c]
<1>1. /\ z \in Scenes /\ Shares(z) /\ z.deck \in LooperKeeps
      /\ z.voice \in [S!Tracks -> VoiceKeeps]
  BY Parts DEF Sound
<1>2. /\ t \in Scenes /\ t.voice = z.voice /\ t.deck = z.deck /\ t.stream = z.stream
      /\ t.card = z.card /\ t.past.from[v] = -1
      /\ \A u \in S!Tracks : u # v => t.past.from[u] = z.past.from[u]
      /\ t.past.whole = z.past.whole /\ (t.past.astray <=> z.past.astray)
      /\ (t.past.clean <=> z.past.clean /\ v # z.deck.saveVoice)
  BY <1>1, DisturbedIs
<1>3. q \in [1 .. Cap -> Chunk]
  BY Silence
<1>4. b \in BOOLEAN /\ (b <=> z.past.astray \/ Busy(z, v))
  <2>1. z.past \in StoryKeeps
    BY <1>1, Parts
  <2> QED
    BY <2>1 DEF StoryKeeps, Busy
<1> HIDE DEF q, b
<1>5. y = [voice |-> vs, deck |-> d, stream |-> z.stream, card |-> z.card, past |-> p]
  <2> DEFINE x == [t EXCEPT !.deck.armed = "no"]
             m == [x EXCEPT !.voice[v] = [@ EXCEPT !.overdub = FALSE, !.defining = FALSE,
                                            !.head = 0, !.len = 0, !.wpos = 0, !.buf = q]]
  <2>1. y = [m EXCEPT !.past = [@ EXCEPT !.erased[v] = TRUE, !.astray = b]]
    BY DEF S!Erased, S!None, q, b
  <2> HIDE DEF y, t, m
  <2>2. x = [voice |-> z.voice, deck |-> d, stream |-> z.stream, card |-> z.card, past |-> t.past]
    BY <1>2 DEF Scenes
  <2> HIDE DEF x, d
  <2>3. x.voice = z.voice
    BY <2>2
  <2>4. m = [voice |-> vs, deck |-> d, stream |-> z.stream, card |-> z.card, past |-> t.past]
    <3>1. m = [x EXCEPT !.voice[v] = [z.voice[v] EXCEPT !.overdub = FALSE, !.defining = FALSE,
                                            !.head = 0, !.len = 0, !.wpos = 0, !.buf = q]]
      BY <2>3 DEF m
    <3>2. m = [x EXCEPT !.voice[v] = c]
      BY <3>1
    <3> HIDE DEF c, m
    <3> QED
      BY <2>2, <2>3, <3>2
  <2>5. m.past = t.past
    BY <2>4
  <2> HIDE DEF vs
  <2> QED
    BY <2>1, <2>4, <2>5
<1>6. /\ c \in VoiceKeeps /\ c.load = z.voice[v].load
  <2>1. z.voice[v] \in VoiceKeeps /\ 0 \in 0 .. Cap
    BY <1>1, Sized
  <2> QED
    BY <1>3, <2>1 DEF VoiceKeeps
<1>7. /\ d \in LooperKeeps /\ d.save = z.deck.save /\ d.saveVoice = z.deck.saveVoice
      /\ d.savePos = z.deck.savePos /\ d.saveEnd = z.deck.saveEnd
  BY <1>1 DEF LooperKeeps
<1> HIDE DEF t, c, d
<1>8. /\ p \in StoryKeeps /\ p.from = t.past.from /\ p.whole = t.past.whole
      /\ (p.astray <=> b) /\ (p.clean <=> t.past.clean)
  <2>1. t.past \in StoryKeeps
    BY <1>2, Parts
  <2> QED
    BY <1>4, <2>1 DEF StoryKeeps
<1> HIDE DEF p
<1>9. /\ p.whole = z.past.whole /\ p.from[v] = -1
      /\ (p.clean => z.past.clean /\ v # z.deck.saveVoice)
      /\ \A u \in S!Tracks : p.from[u] # -1 => u # v /\ p.from[u] = z.past.from[u]
  BY <1>2, <1>8
<1>10. CASE ~Busy(z, v)
  <2>1. p.astray <=> z.past.astray
    BY <1>4, <1>8, <1>10
  <2> HIDE DEF y
  <2>2. Sound(y)
    BY <1>1, <1>5, <1>6, <1>7, <1>8, <1>9, <1>10, <2>1, TouchKeeps
  <2> QED
    BY <2>2 DEF y
<1>11. CASE Busy(z, v)
  <2> HIDE DEF y
  <2>1. /\ vs \in [S!Tracks -> VoiceKeeps] /\ vs[v] = c
        /\ \A u \in S!Tracks : u # v => vs[u] = z.voice[u]
    BY <1>1, <1>6
  <2> HIDE DEF vs
  <2>2. /\ y \in Scenes /\ y.voice = vs /\ y.deck = d /\ y.stream = z.stream
        /\ y.card = z.card /\ y.past = p
    BY <1>1, <1>5, <1>7, <1>8, <2>1, Parts, Scene
  <2>3. \A u \in S!Tracks : Busy(y, u) <=> Busy(z, u)
    BY <1>6, <2>1, <2>2 DEF Busy
  <2>4. /\ ~Storing(z) /\ ~Storing(y) /\ OnStream(y) = OnStream(z) /\ p.astray
    BY <1>1, <1>4, <1>8, <1>11, <2>2 DEF Storing, OnStream, Shares, ForOne
  <2>5. ForOne(y)
    BY <1>1, <1>7, <2>2, <2>3, <2>4 DEF Shares, ForOne
  <2>6. Complete(y)
    BY <1>1, <2>2, <2>4 DEF Shares, Complete
  <2>7. LoadsServed(y)
    BY <2>2, <2>4 DEF LoadsServed
  <2>8. VoicesHold(y)
    <3> SUFFICES ASSUME NEW u \in S!Tracks, y.past.from[u] # -1
                 PROVE  HasFile(y, u, y.past.from[u])
      BY DEF VoicesHold
    <3>1. u # v /\ y.past.from[u] = z.past.from[u]
      BY <1>9, <2>2
    <3>2. HasFile(z, u, z.past.from[u])
      BY <1>1, <3>1 DEF Shares, VoicesHold
    <3>3. ~Busy(z, u)
      <4>1. z.past.astray \/ Served(z, v)
        BY <1>1, <1>11 DEF Shares, LoadsServed
      <4> QED
        BY <3>1, <3>2, <4>1 DEF HasFile, Served
    <3>4. y.voice[u] = z.voice[u]
      BY <2>1, <2>2, <3>1
    <3> QED
      BY <2>2, <2>3, <2>4, <3>1, <3>2, <3>3, <3>4 DEF HasFile
  <2>9. SaveGoesOn(y)
    BY <2>4 DEF SaveGoesOn
  <2> QED
    BY <2>2, <2>5, <2>6, <2>7, <2>8, <2>9 DEF Sound, Shares, y
<1> QED
  BY <1>10, <1>11

LEMMA BecomesKeeps ==
    ASSUME NEW z, Sound(z), S!Becomes(z)
    PROVE  SoftInv'
<1>1. z \in Scenes
  BY DEF Sound
<1>2. z = [voice |-> z.voice, deck |-> z.deck, stream |-> z.stream, card |-> z.card,
           past |-> z.past]
  BY <1>1, Parts
<1>3. [voice |-> voice', deck |-> looper', stream |-> stream', card |-> card', past |-> story'] = z
  BY <1>2 DEF S!Becomes
<1> QED
  BY <1>3 DEF SoftInv

LEMMA HereIs ==
    /\ S!Here.voice = voice /\ S!Here.deck = looper /\ S!Here.stream = stream
    /\ S!Here.card = card /\ S!Here.past = story
    /\ SoftInv <=> Sound(S!Here)
  BY DEF S!Here, SoftInv

LEMMA MainLoopStep == ASSUME SoftInv, ~Torn, S!MainLoop PROVE SoftInv'
<1>1. Sound(S!Here)
  BY HereIs
<1>2. CASE S!PanelDone
  BY <1>2 DEF S!PanelDone, SoftInv
<1>3. CASE S!Process
  <2>1. Sound(S!Pumped(S!Here))
    BY <1>1, PumpedKeeps
  <2>2. S!Becomes(S!Pumped(S!Here))
    BY <1>3 DEF S!Process
  <2> QED
    BY <2>1, <2>2, BecomesKeeps
<1>4. ASSUME NEW between \in {FALSE, Torn}, S!Prepare(between) PROVE SoftInv'
  <2>1. between = FALSE
    BY <1>4, Sized
  <2>2. S!Becomes(S!Loading(S!Committed(S!Preloaded(S!Deferred(S!Finalized(S!Here), FALSE)))))
    BY <1>4, <2>1 DEF S!Prepare
  <2>3. Sound(S!Loading(S!Committed(S!Preloaded(S!Deferred(S!Finalized(S!Here), FALSE)))))
    BY <1>1, PrepareKeeps
  <2> QED
    BY <2>2, <2>3, BecomesKeeps
<1> QED
  BY <1>2, <1>3, <1>4 DEF S!MainLoop

LEMMA InterruptStep == ASSUME SoftInv, S!AnyInterrupt PROVE SoftInv'
<1>1. PICK h \in [S!Tracks -> 1 .. Cap] : S!Interrupt(h)
  BY DEF S!AnyInterrupt
<1>2. S!Becomes(S!Pushed(S!Recorded(S!Recorded(S!Here, 0, h[0]), 1, h[1])))
  BY <1>1 DEF S!Interrupt
<1>3. Sound(S!Pushed(S!Recorded(S!Recorded(S!Here, 0, h[0]), 1, h[1])))
  BY HereIs, PushKeeps
<1> QED
  BY <1>2, <1>3, BecomesKeeps

LEMMA TimeStep == ASSUME SoftInv, S!FallDue \/ S!Boot PROVE SoftInv'
<1>1. Sound(S!Here)
  BY HereIs
<1>2. CASE S!FallDue
  <2>1. Sound([voice |-> voice, deck |-> [looper EXCEPT !.armed = "due"], stream |-> stream,
               card |-> card, past |-> story])
    <3>1. Sound([voice |-> S!Here.voice, deck |-> [S!Here.deck EXCEPT !.armed = "due"],
                 stream |-> S!Here.stream, card |-> S!Here.card, past |-> S!Here.past])
      BY <1>1, ArmedKeeps
    <3> QED
      BY <3>1 DEF S!Here
  <2> QED
    BY <1>2, <2>1 DEF S!FallDue, SoftInv
<1>3. CASE S!Boot
  <2>1. PICK b \in {"card", "late"} : looper' = [looper EXCEPT !.boot = b]
    BY <1>3 DEF S!Boot
  <2>2. Sound([voice |-> voice, deck |-> [looper EXCEPT !.boot = b], stream |-> stream,
               card |-> card, past |-> story])
    <3>1. Sound([voice |-> S!Here.voice, deck |-> [S!Here.deck EXCEPT !.boot = b],
                 stream |-> S!Here.stream, card |-> S!Here.card, past |-> S!Here.past])
      BY <1>1, BootedKeeps
    <3> QED
      BY <3>1 DEF S!Here
  <2> QED
    BY <1>3, <2>1, <2>2 DEF S!Boot, SoftInv
<1> QED
  BY <1>2, <1>3

LEMMA PadsStep ==
    ASSUME SoftInv, ~Torn, S!Alt \/ S!PlayPad \/ S!RevPad \/ S!SaveTrimmed \/ S!SaveArm \/ S!Erase
    PROVE  SoftInv'
<1> DEFINE z == S!Here
           v == looper.active
<1>1. Sound(z) /\ z \in Scenes /\ z.deck = looper /\ z.voice = voice
  BY HereIs DEF Sound
<1>2. v \in S!Tracks
  BY <1>1, Parts DEF LooperKeeps
<1>v. S!Focused = v
  BY DEF S!Focused
<1>3. CASE S!Alt
  <2>1. S!Becomes([z EXCEPT !.deck.held = ~@])
    BY <1>3 DEF S!Alt
  <2> HIDE DEF z
  <2> QED
    BY <1>1, <2>1, AltKeeps, BecomesKeeps
<1>4. CASE S!PlayPad
  <2>1. S!Becomes([z EXCEPT !.voice[v].overdub = FALSE])
    BY <1>4, <1>v DEF S!PlayPad
  <2> HIDE DEF z, v
  <2>2. Sound([z EXCEPT !.voice[v].overdub = FALSE])
    BY <1>1, <1>2, OverdubKeeps
  <2> QED
    BY <2>1, <2>2, BecomesKeeps
<1>5. CASE S!RevPad
  <2>1. S!Becomes([z EXCEPT !.deck.active = 1 - @])
    BY <1>5 DEF S!RevPad
  <2> HIDE DEF z
  <2> QED
    BY <1>1, <2>1, RevPadKeeps, BecomesKeeps
<1>6. CASE S!SaveTrimmed
  <2>0. PICK from \in 0 .. Cap - 1, to \in 1 .. Cap, between \in {FALSE, Torn} :
           S!Becomes(S!StartSave(z, from, to, between))
    BY <1>6 DEF S!SaveTrimmed
  <2>b. between = FALSE
    <3>1. Torn \in BOOLEAN
      BY Sized
    <3> QED
      BY <2>0, <3>1
  <2>1. S!Becomes(S!StartSave(z, from, to, FALSE))
    BY <2>0, <2>b
  <2>2. from \in Nat /\ to \in 0 .. Cap
    BY Sized
  <2> HIDE DEF z
  <2> QED
    BY <1>1, <2>1, <2>2, StartSaveKeeps, BecomesKeeps
<1>7. CASE S!SaveArm
  <2>1. S!Becomes([z EXCEPT !.deck.armed = "waiting"])
    BY <1>7 DEF S!SaveArm
  <2> HIDE DEF z
  <2>2. [z EXCEPT !.deck.armed = "waiting"]
          = [voice |-> z.voice, deck |-> [z.deck EXCEPT !.armed = "waiting"],
             stream |-> z.stream, card |-> z.card, past |-> z.past]
    BY <1>1 DEF Scenes
  <2>3. Sound([z EXCEPT !.deck.armed = "waiting"])
    BY <1>1, <2>2, ArmedKeeps
  <2> QED
    BY <2>1, <2>3, BecomesKeeps
<1>8. CASE S!Erase
  <2>1. S!Becomes(S!Erased(z, v))
    BY <1>8, <1>v DEF S!Erase
  <2> HIDE DEF z, v
  <2> QED
    BY <1>1, <1>2, <2>1, ErasedKeeps, BecomesKeeps
<1> QED
  BY <1>3, <1>4, <1>5, <1>6, <1>7, <1>8

LEMMA PickStep == ASSUME SoftInv, NEW k \in S!Slots, S!Pick(k) PROVE SoftInv'
<1> DEFINE z == S!Here
           v == looper.active
<1>1. Sound(z) /\ z \in Scenes /\ z.deck = looper
  BY HereIs DEF Sound
<1>2. v \in S!Tracks
  BY <1>1, Parts DEF LooperKeeps
<1>3. S!Becomes([z EXCEPT !.voice[v].slot = k, !.deck.dirty = TRUE, !.past.picked = v])
  BY DEF S!Pick, S!Focused
<1> HIDE DEF z, v
<1>4. Sound([z EXCEPT !.voice[v].slot = k, !.deck.dirty = TRUE, !.past.picked = v])
  BY <1>1, <1>2, PickKeeps
<1> QED
  BY <1>3, <1>4, BecomesKeeps

LEMMA RecordPadStep == ASSUME SoftInv, S!RecordPad PROVE SoftInv'
<1> DEFINE z == S!Here
           v == looper.active
           q == [k \in 1 .. Cap |-> -1]
           n == IF voice[v].head = 0 THEN 1 ELSE voice[v].head
           silent == [S!Disturbed(z, v) EXCEPT !.voice[v].buf = q]
           e1 == [z EXCEPT !.voice[v].len = n, !.voice[v].defining = FALSE, !.voice[v].head = 0,
                           !.past.from[v] = -1]
           e2 == [z EXCEPT !.voice[v].overdub = FALSE]
           e3 == [silent EXCEPT !.voice[v].defining = TRUE, !.past.erased[v] = FALSE]
           e4 == [z EXCEPT !.voice[v].overdub = TRUE]
           y == CASE voice[v].defining -> e1
                  [] voice[v].overdub -> e2
                  [] voice[v].len = 0 /\ ~voice[v].defining -> e3
                  [] OTHER -> e4
<1>1. Sound(z) /\ z \in Scenes /\ z.deck = looper /\ z.voice = voice
  BY HereIs DEF Sound
<1>2. v \in S!Tracks
  BY <1>1, Parts DEF LooperKeeps
<1>3. S!Becomes(y)
  BY DEF S!RecordPad, S!Focused, S!None
<1>4. n \in 0 .. Cap
  <2>1. voice[v] \in VoiceKeeps
    BY <1>1, <1>2, Parts
  <2> QED
    BY <2>1, Sized DEF VoiceKeeps
<1> HIDE DEF z, v, n
<1>5. Sound(e1)
  BY <1>1, <1>2, <1>4, ClosedTakeKeeps
<1>6. Sound(e2) /\ Sound(e4)
  BY <1>1, <1>2, OverdubKeeps
<1>7. Sound(e3)
  BY <1>1, <1>2, FreshTakeKeeps
<1> HIDE DEF e1, e2, e3, e4
<1>8. y = e1 \/ y = e2 \/ y = e3 \/ y = e4
  OBVIOUS
<1>9. Sound(y)
  BY <1>5, <1>6, <1>7, <1>8
<1> HIDE DEF y
<1> QED
  BY <1>3, <1>9, BecomesKeeps

LEMMA SoftStep == ASSUME SoftInv, ~Torn, [S!Next]_(S!vars) PROVE SoftInv'
<1>1. CASE UNCHANGED S!vars
  BY <1>1 DEF S!vars, SoftInv
<1>2. CASE S!Next
  <2>1. CASE S!MainLoop
    BY <2>1, MainLoopStep
  <2>2. CASE S!AnyInterrupt
    BY <2>2, InterruptStep
  <2>3. CASE S!FallDue \/ S!Boot
    BY <2>3, TimeStep
  <2>4. CASE S!Alt \/ S!PlayPad \/ S!RevPad \/ S!SaveTrimmed \/ S!SaveArm \/ S!Erase
    BY <2>4, PadsStep
  <2>5. CASE S!RecordPad
    BY <2>5, RecordPadStep
  <2>6. CASE \E k \in S!Slots : S!Pick(k)
    BY <2>6, PickStep
  <2> QED
    BY <1>2, <2>1, <2>2, <2>3, <2>4, <2>5, <2>6 DEF S!Next
<1> QED
  BY <1>1, <1>2

LEMMA SameChunks ==
    ASSUME NEW n \in Nat, NEW e \in Chunk
    PROVE  [i \in 1 .. n |-> e] \in Seq(Chunk) /\ Len([i \in 1 .. n |-> e]) = n
  OBVIOUS

LEMMA SoftInit == ASSUME S!Init PROVE SoftInv
<1> DEFINE z == S!Here
           d == [k \in S!Slots |-> [i \in 1 .. Clips[k] |-> k]]
<1>1. <<>> \in Seq(Chunk) /\ Len(<<>>) = 0 /\ Cap \in Nat \ {0} /\ Read \in Nat /\ 0 \in S!Slots
      /\ 0 \in S!Tracks
  BY EmptySeq, Sized
<1>2. \A k \in S!Slots : d[k] \in Seq(Chunk) /\ Len(d[k]) = Clips[k] /\ Clips[k] \in Nat
  <2> TAKE k \in S!Slots
  <2>1. Clips[k] \in Nat /\ k \in Chunk
    BY Sized DEF Chunk
  <2> QED
    BY <2>1, SameChunks
<1>3. voice \in [S!Tracks -> VoiceKeeps] /\ \A v \in S!Tracks : voice[v].load = "idle"
  <2> DEFINE c == [len |-> 0, overdub |-> FALSE, defining |-> FALSE, head |-> 0, load |-> "idle",
                   wpos |-> 0, slot |-> 0, buf |-> [k \in 1 .. Cap |-> -1]]
  <2>1. voice = [v \in S!Tracks |-> c]
    BY DEF S!Init, S!None
  <2>2. c \in VoiceKeeps /\ c.load = "idle"
    BY <1>1, Silence DEF VoiceKeeps
  <2> HIDE DEF c
  <2> QED
    BY <2>1, <2>2
<1>4. looper \in LooperKeeps /\ looper.save = "idle"
  BY <1>1 DEF S!Init, S!None, LooperKeeps
<1>5. stream \in StreamKeeps /\ stream.mode = "idle" /\ ~stream.finalizing /\ Len(stream.ring) <= Read
  BY <1>1 DEF S!Init, StreamKeeps
<1>6. card \in [S!Slots -> ClipKeeps]
      /\ \A k \in S!Slots : card[k].there => card[k].frames = Len(card[k].data) /\ card[k].frames # 0
  <2>1. card = [k \in S!Slots |-> [frames |-> Clips[k], data |-> d[k], there |-> Clips[k] > 0]]
    BY DEF S!Init
  <2> HIDE DEF d
  <2>2. ASSUME NEW k \in S!Slots
        PROVE  /\ card[k] \in ClipKeeps
               /\ card[k].there => card[k].frames = Len(card[k].data) /\ card[k].frames # 0
    <3> DEFINE b == Clips[k] > 0
    <3>1. b \in BOOLEAN /\ (b => Clips[k] # 0)
      BY <1>2
    <3>2. card[k] = [frames |-> Clips[k], data |-> d[k], there |-> b]
      BY <2>1
    <3> HIDE DEF b
    <3> QED
      BY <1>2, <3>1, <3>2 DEF ClipKeeps
  <2> QED
    BY <2>1, <2>2
<1>7. story \in StoryKeeps /\ \A v \in S!Tracks : story.from[v] = -1
  BY <1>1 DEF S!Init, S!None, StoryKeeps
<1>8. /\ z \in Scenes /\ z.voice = voice /\ z.deck = looper /\ z.stream = stream /\ z.card = card
      /\ z.past = story
  BY <1>3, <1>4, <1>5, <1>6, <1>7, Scene, HereIs DEF S!Here
<1> HIDE DEF z
<1>9. ~Storing(z) /\ \A v \in S!Tracks : ~Busy(z, v)
  BY <1>3, <1>5, <1>8 DEF Storing, Busy
<1>10. ForOne(z)
  BY <1>4, <1>5, <1>8, <1>9 DEF ForOne
<1>11. Complete(z)
  BY <1>5, <1>6, <1>8 DEF Complete
<1>12. LoadsServed(z) /\ SaveGoesOn(z)
  BY <1>9 DEF LoadsServed, SaveGoesOn
<1>13. VoicesHold(z)
  BY <1>7, <1>8 DEF VoicesHold
<1>14. Sound(z)
  BY <1>8, <1>10, <1>11, <1>12, <1>13 DEF Sound, Shares
<1> QED
  BY <1>14, HereIs DEF z

LEMMA InvOwned == SoftInv => S!StreamIsOwned
<1> SUFFICES ASSUME SoftInv PROVE S!StreamIsOwned
  OBVIOUS
<1> DEFINE z == S!Here
           q == S!LoadingVoices
<1>1. /\ Sound(z) /\ ForOne(z) /\ LoadsServed(z) /\ z.deck = looper /\ z.voice = voice
      /\ z.stream = stream /\ z.past = story
  BY HereIs DEF Sound, Shares
<1>2. \A v : v \in q <=> v \in S!Tracks /\ Busy(z, v)
  BY <1>1 DEF S!LoadingVoices, Busy
<1> HIDE DEF z, q
<1>3. stream.mode = "record" <=> looper.save # "idle"
  BY <1>1 DEF ForOne
<1>4. stream.mode = "play" => q # {}
  BY <1>1, <1>2 DEF ForOne
<1>5. looper.save # "idle" => q = {}
  BY <1>1, <1>2, <1>3 DEF ForOne, Storing
<1>6. ASSUME ~story.astray, NEW u \in q, NEW v \in q PROVE u = v
  BY <1>1, <1>2, <1>6 DEF LoadsServed, Served
<1> QED
  BY <1>3, <1>4, <1>5, <1>6 DEF S!StreamIsOwned, q

LEMMA StartsAlike ==
    ASSUME NEW q \in [1 .. Cap -> Chunk], NEW p \in Seq(Chunk), NEW n \in 0 .. Cap, StartsAs(q, p, n)
    PROVE  SubSeq(q, 1, n) = SubSeq(p, 1, n)
<1>1. /\ n \in Nat /\ n <= Len(p) /\ Len(p) \in Nat /\ p \in [1 .. Len(p) -> Chunk]
      /\ \A i \in 1 .. n : q[i] = p[i]
  BY Sized, LenProperties DEF StartsAs
<1>2. \A i \in 1 .. n : q[i] \in Chunk /\ p[i] \in Chunk
  BY <1>1, Sized
<1>3. 1 \in Int /\ n \in Int /\ n - 1 + 1 = n /\ \A i \in 1 .. n : 1 + i - 1 = i
  BY <1>1
<1>4. /\ SubSeq(q, 1, n) \in Seq(Chunk)
      /\ Len(SubSeq(q, 1, n)) = IF 1 <= n THEN n - 1 + 1 ELSE 0
      /\ \A i \in 1 .. n - 1 + 1 : SubSeq(q, 1, n)[i] = q[1 + i - 1]
  BY <1>2, <1>3, SubSeqProperties
<1>5. /\ SubSeq(p, 1, n) \in Seq(Chunk)
      /\ Len(SubSeq(p, 1, n)) = IF 1 <= n THEN n - 1 + 1 ELSE 0
      /\ \A i \in 1 .. n - 1 + 1 : SubSeq(p, 1, n)[i] = p[1 + i - 1]
  BY <1>2, <1>3, SubSeqProperties
<1> DEFINE a == SubSeq(q, 1, n)
           b == SubSeq(p, 1, n)
<1>6. \A i \in 1 .. n : a[i] = q[i] /\ b[i] = p[i]
  BY <1>3, <1>4, <1>5
<1>7. a \in Seq(Chunk) /\ b \in Seq(Chunk) /\ Len(a) = Len(b)
      /\ Len(a) = IF 1 <= n THEN n - 1 + 1 ELSE 0
  BY <1>4, <1>5
<1> HIDE DEF a, b
<1>8. Len(a) = n
  BY <1>1, <1>7
<1>9. \A i \in 1 .. Len(a) : a[i] = b[i]
  BY <1>1, <1>6, <1>8
<1>10. a = b
  BY <1>7, <1>9, SeqEqual
<1> QED
  BY <1>10 DEF a, b

LEMMA InvLoads == SoftInv => S!LoadIsFile
<1> SUFFICES ASSUME SoftInv, NEW v \in S!Tracks, story.from[v] # -1
             PROVE  LET f == card[story.from[v]]
                        n == IF voice[v].load = "idle" THEN voice[v].len ELSE voice[v].wpos
                    IN  /\ SubSeq(voice[v].buf, 1, n) = SubSeq(f.data, 1, n)
                        /\ voice[v].load = "idle" => n = IF f.frames < Cap THEN f.frames ELSE Cap
  BY DEF S!LoadIsFile, S!None
<1> DEFINE z == S!Here
           k == story.from[v]
           n == IF voice[v].load = "idle" THEN voice[v].len ELSE voice[v].wpos
<1>1. /\ Sound(z) /\ z \in Scenes /\ VoicesHold(z) /\ z.voice = voice
      /\ z.card = card /\ z.past = story
  BY HereIs DEF Sound, Shares
<1> HIDE DEF z
<1>2. HasFile(z, v, k)
  BY <1>1 DEF VoicesHold
<1>3. k \in S!Slots
  <2>1. story \in StoryKeeps
    BY <1>1, Parts
  <2> QED
    BY <2>1 DEF StoryKeeps
<1>4. voice[v] \in VoiceKeeps /\ card[k] \in ClipKeeps
  BY <1>1, <1>3, Parts
<1> HIDE DEF k
<1>5. voice[v].buf \in [1 .. Cap -> Chunk] /\ n \in 0 .. Cap /\ card[k].data \in Seq(Chunk)
  BY <1>4 DEF VoiceKeeps, ClipKeeps
<1>6. /\ StartsAs(voice[v].buf, card[k].data, n)
      /\ voice[v].load = "idle" => n = IF card[k].frames < Cap THEN card[k].frames ELSE Cap
  BY <1>1, <1>2 DEF HasFile, Busy
<1> HIDE DEF n
<1>7. SubSeq(voice[v].buf, 1, n) = SubSeq(card[k].data, 1, n)
  BY <1>5, <1>6, StartsAlike
<1> QED
  BY <1>6, <1>7 DEF k, n

LEMMA InvWhole == SoftInv => S!SaveIsWhole
<1> SUFFICES ASSUME SoftInv, looper.save = "finalize" \/ stream.finalizing
             PROVE  LET written == card[stream.slot].data \o stream.ring
                    IN  /\ Len(written) = Len(story.whole)
                        /\ story.clean => written = story.whole
  BY DEF S!SaveIsWhole
<1> DEFINE z == S!Here
           d == card[stream.slot].data
           r == stream.ring
           w == story.whole
           t == d \o r
<1>1. /\ z \in Scenes /\ ForOne(z) /\ SaveGoesOn(z) /\ z.deck = looper
      /\ z.card = card /\ z.past = story /\ z.stream = stream
  BY HereIs DEF Sound, Shares
<1> HIDE DEF z
<1>2. d \in Seq(Chunk) /\ r \in Seq(Chunk) /\ w \in Seq(Chunk)
  <2>1. stream \in StreamKeeps /\ card \in [S!Slots -> ClipKeeps] /\ story \in StoryKeeps
    BY <1>1, Parts
  <2>2. card[stream.slot] \in ClipKeeps
    BY <2>1 DEF StreamKeeps
  <2> QED
    BY <2>1, <2>2 DEF StreamKeeps, ClipKeeps, StoryKeeps
<1>3. Storing(z) /\ looper.save # "writing"
  BY <1>1 DEF ForOne, Storing
<1>4. /\ OnStream(z).data = d /\ Passed(z) = Len(d) + Len(r) /\ Rest(z) = 0
  BY <1>1, <1>3 DEF OnStream, Passed, Rest
<1>g. /\ Passed(z) + Rest(z) = Len(z.past.whole)
      /\ z.past.clean =>
            /\ \A i \in 1 .. Len(OnStream(z).data) : z.past.whole[i] = OnStream(z).data[i]
            /\ \A i \in 1 .. Len(z.stream.ring) :
                  z.past.whole[Len(OnStream(z).data) + i] = z.stream.ring[i]
  BY <1>1, <1>3 DEF SaveGoesOn
<1>h. z.past.whole = w /\ z.stream.ring = r /\ z.past.clean = story.clean
  BY <1>1
<1> HIDE DEF d, r, w
<1>5. /\ Passed(z) + Rest(z) = Len(w)
      /\ story.clean => /\ \A i \in 1 .. Len(d) : w[i] = d[i]
                        /\ \A i \in 1 .. Len(r) : w[Len(d) + i] = r[i]
  BY ONLY <1>4, <1>g, <1>h
<1>6. /\ t \in Seq(Chunk) /\ Len(t) = Len(d) + Len(r) /\ Len(d) \in Nat /\ Len(r) \in Nat
      /\ \A i \in 1 .. Len(d) + Len(r) : t[i] = IF i <= Len(d) THEN d[i] ELSE r[i - Len(d)]
  BY <1>2, ConcatProperties, LenProperties
<1> HIDE DEF t
<1>7. Len(t) = Len(w)
  BY <1>4, <1>5, <1>6
<1>8. ASSUME story.clean PROVE t = w
  <2>1. ASSUME NEW i \in 1 .. Len(t) PROVE t[i] = w[i]
    <3>1. CASE i <= Len(d)
      <4>1. i \in 1 .. Len(d) /\ i \in 1 .. Len(d) + Len(r)
        BY <1>6, <2>1, <3>1
      <4> QED
        BY <1>5, <1>6, <1>8, <3>1, <4>1
    <3>2. CASE ~(i <= Len(d))
      <4>1. /\ i - Len(d) \in 1 .. Len(r) /\ i \in 1 .. Len(d) + Len(r)
            /\ Len(d) + (i - Len(d)) = i
        BY <1>6, <2>1, <3>2
      <4>2. t[i] = r[i - Len(d)]
        BY <1>6, <3>2, <4>1
      <4>3. w[Len(d) + (i - Len(d))] = r[i - Len(d)]
        BY <1>5, <1>8, <4>1
      <4> QED
        BY <4>1, <4>2, <4>3
    <3> QED
      BY <3>1, <3>2
  <2> QED
    BY <1>2, <1>6, <1>7, <2>1, SeqEqual
<1> QED
  BY <1>7, <1>8 DEF d, r, w, t

LEMMA SoftAlways == ~Torn => (S!Spec => []SoftInv)
<1> SUFFICES ASSUME ~Torn PROVE S!Spec => []SoftInv
  OBVIOUS
<1>1. SoftInv /\ [S!Next]_(S!vars) => SoftInv'
  BY SoftStep
<1> QED
  BY <1>1, SoftInit, PTL DEF S!Spec

(* The stream of a deck of the overdub looper does what one of its users    *)
(* has asked for: no voice, load or save stops the file of another, and two *)
(* voices never load at once unless one was erased in its load              *)
(* (softcut_engine.cpp, prepare, _request_load, _start_save).  For any      *)
(* buffer, ring, files and pads, with or without the preload, when the      *)
(* interrupt does not come between the stores of _start_save.               *)
THEOREM SoftcutOwned == ~Torn => (S!Spec => []StreamIsOwned)
<1>1. SoftInv => StreamIsOwned
  BY InvOwned DEF StreamIsOwned
<1> QED
  BY <1>1, SoftAlways, PTL

(* What a voice of the looper gets from the card is its file from the first *)
(* chunk on, and what the card gets is the whole window of the voice, in    *)
(* order (softcut_engine.cpp, prepare, _start_save, process).  For the same *)
(* constants.                                                               *)
THEOREM SoftcutWhole == ~Torn => (S!Spec => []TransfersWhole)
<1>1. SoftInv => TransfersWhole
  BY InvLoads, InvWhole DEF TransfersWhole
<1> QED
  BY <1>1, SoftAlways, PTL

=============================================================================
