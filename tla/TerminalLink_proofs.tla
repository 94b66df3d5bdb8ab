------------------------ MODULE TerminalLink_proofs ------------------------
(* Proofs about TerminalLink: no ring, line or FIFO outgrows its array, and *)
(* a packet in flight is not written over, whatever the sizes, the packets  *)
(* of the host and the speed of the stack; and a host that waits reads the  *)
(* reply to its line, whole, and nothing else, whatever lines it sends.     *)
EXTENDS MCTerminalLink, SequenceTheorems, TLAPS

-----------------------------------------------------------------------------
(* Sequences.                                                              *)

LEMMA Prefix ==
    ASSUME NEW S, NEW q \in Seq(S), NEW n \in 0 .. Len(q)
    PROVE  SubSeq(q, 1, n) \in Seq(S) /\ Len(SubSeq(q, 1, n)) = n
  BY SubSeqProperties

LEMMA Rest ==
    ASSUME NEW S, NEW q \in Seq(S), NEW n \in 0 .. Len(q)
    PROVE  SubSeq(q, n + 1, Len(q)) \in Seq(S) /\ Len(SubSeq(q, n + 1, Len(q))) = Len(q) - n
  BY SubSeqProperties

LEMMA TailOf ==
    ASSUME NEW S, NEW q \in Seq(S), q # <<>>
    PROVE  /\ Len(q) \in Nat \ {0} /\ q[1] \in S
           /\ Tail(q) \in Seq(S) /\ Len(Tail(q)) = Len(q) - 1
           /\ Tail(q) = <<>> <=> Len(q) = 1
  <1>1. Len(q) \in Nat \ {0}
    BY EmptySeq
  <1>2. Tail(q) \in Seq(S) /\ Len(Tail(q)) = Len(q) - 1
    BY <1>1, HeadTailProperties
  <1>3. q[1] \in S
    BY <1>1, ElementOfSeq
  <1>4. Tail(q) = <<>> <=> Len(Tail(q)) = 0
    BY <1>2, EmptySeq
  <1> QED
    BY <1>1, <1>2, <1>3, <1>4

-----------------------------------------------------------------------------
(* The FIFO.                                                               *)

Fifos == {t \in [q : Seq(Tokens), over : BOOLEAN, lost : BOOLEAN] : Len(t.q) <= TxCap}

LEMMA Sizes == TxCap \in Nat /\ RxCap \in Nat /\ LineMax \in Nat /\ Chunk \in Nat \ {0}
                 /\ Scratch \in Nat \ {0} /\ Timeout \in Nat
  BY LinkAssumption

(* A write leaves the FIFO within its array.                               *)
LEMMA EnqueueType ==
    ASSUME NEW t \in Fifos, NEW w \in Seq(Tokens)
    PROVE  Enqueue(t, w) \in Fifos
  <1>1. t.q \in Seq(Tokens) /\ Len(t.q) \in Nat /\ Len(w) \in Nat
    BY LenProperties DEF Fifos
  <1>2. t.q \o w \in Seq(Tokens) /\ Len(t.q \o w) = Len(t.q) + Len(w)
    BY <1>1, ConcatProperties
  <1>3. CASE Len(w) > TxCap - Len(t.q)
    BY <1>3 DEF Enqueue, Fifos
  <1>4. CASE ~(Len(w) > TxCap - Len(t.q))
    <2>1. Len(t.q \o w) <= TxCap
      BY <1>1, <1>2, <1>4, Sizes
    <2> QED
      BY <1>2, <1>4, <2>1 DEF Enqueue, Fifos
  <1> QED
    BY <1>3, <1>4

LEMMA SayType ==
    ASSUME NEW t \in Fifos, NEW r \in Tokens
    PROVE  Ok(t) \in Fifos /\ Err(t, r) \in Fifos
  <1>1. <<"ok", "nl">> \in Seq(Tokens) /\ <<"err">> \in Seq(Tokens)
          /\ <<r>> \in Seq(Tokens) /\ <<"nl">> \in Seq(Tokens)
    BY DEF Tokens
  <1> QED
    BY <1>1, EnqueueType DEF Ok, Err

LEMMA ToldType ==
    ASSUME NEW t \in Fifos
    PROVE  Told(t) \in Fifos
  <1> DEFINE r == IF main.over THEN Err(t, "overflow") ELSE t
             o == Err([r EXCEPT !.over = FALSE], "txoverflow")
  <1>1. r \in Fifos
    BY SayType DEF Tokens
  <1>2. [r EXCEPT !.over = FALSE] \in Fifos
    BY <1>1 DEF Fifos
  <1> HIDE DEF r
  <1>3. o \in Fifos
    BY <1>2, SayType DEF Tokens
  <1>4. [o EXCEPT !.lost = o.over] \in Fifos
    BY <1>3 DEF Fifos
  <1>5. Told(t) = IF r.over THEN [o EXCEPT !.lost = o.over] ELSE r
    BY DEF Told, r
  <1> QED
    BY <1>1, <1>4, <1>5

Modes == [test : BOOLEAN, since : 0 .. Timeout + 1]

LEMMA OnLineType ==
    ASSUME tx \in Fifos, mode \in Modes
    PROVE  OnLine.tx \in Fifos /\ OnLine.mode \in Modes
  <1> DEFINE m == [mode EXCEPT !.since = 0]
  <1>a. 0 \in 0 .. Timeout + 1
    BY Sizes
  <1>b. m \in Modes
    BY <1>a DEF Modes
  <1>1. m \in Modes /\ [m EXCEPT !.test = TRUE] \in Modes /\ [m EXCEPT !.test = FALSE] \in Modes
    <2> HIDE DEF m
    <2> QED
      BY <1>b DEF Modes
  <1>2. Ok(tx) \in Fifos /\ Err(tx, "unknown") \in Fifos
    BY SayType DEF Tokens
  <1> DEFINE z == [tx |-> tx, mode |-> m]
  <1>3. z.tx = tx /\ z.mode = m
    OBVIOUS
  <1>4. OnLine = Dispatch(asm.line, z)
    BY DEF OnLine
  <1> HIDE DEF m
  <1>5. CASE asm.line = <<>>
    <2>1. OnLine = z
      BY <1>4, <1>5 DEF Dispatch
    <2> QED
      BY <1>1, <1>3, <2>1
  <1>6. CASE asm.line # <<>> /\ asm.line = <<"t">>
    <2>1. OnLine = [tx |-> Ok(tx), mode |-> [m EXCEPT !.test = TRUE]]
      BY <1>3, <1>4, <1>6 DEF Dispatch
    <2> QED
      BY <1>1, <1>2, <2>1
  <1>7. CASE asm.line = <<"r">>
    <2>1. OnLine = [tx |-> Ok(tx), mode |-> [m EXCEPT !.test = FALSE]]
      BY <1>3, <1>4, <1>7 DEF Dispatch
    <2> QED
      BY <1>1, <1>2, <2>1
  <1>8. CASE asm.line # <<>> /\ asm.line # <<"t">> /\ asm.line # <<"r">>
    <2>1. OnLine = [z EXCEPT !.tx = Err(@, "unknown")]
      BY <1>4, <1>8 DEF Dispatch
    <2> QED
      BY <1>1, <1>2, <1>3, <2>1
  <1> QED
    BY <1>5, <1>6, <1>7, <1>8

-----------------------------------------------------------------------------
(* The invariant.                                                          *)

Asms == {a \in [line : Seq(Letters), swallow : BOOLEAN] : Len(a.line) <= LineMax}
Rings == {q \in Seq(Cells) : Len(q) <= RxCap}
Mains == [at : {"read", "clear", "pop", "publish", "feed", "flush"},
          over : BOOLEAN, chunk : Seq(Cells), torn : BOOLEAN]
Usbs  == [busy : [slot : {-1, 0, 1}, bytes : Seq(Tokens)],
          scratch : [{0, 1} -> Seq(Tokens)], slot : {0, 1}]

\* The chunk is a copy of bytes that are still in the ring.
ChunkInv ==
    /\ main.at \in {"publish", "feed"} <=> main.chunk # <<>>
    /\ main.at = "publish" => Len(main.chunk) <= Len(rx)

\* The packet in flight is in the buffer that is not the next.
FlightInv ==
    usb.busy # Idle => /\ usb.busy.slot \in {0, 1} \ {usb.slot}
                       /\ usb.scratch[usb.busy.slot] = usb.busy.bytes

IInv == /\ rx \in Rings /\ over \in BOOLEAN /\ asm \in Asms /\ main \in Mains
        /\ tx \in Fifos /\ usb \in Usbs /\ mode \in Modes
        /\ ChunkInv /\ FlightInv

LEMMA InitIInv == Init => IInv
  <1> SUFFICES ASSUME Init PROVE IInv
    OBVIOUS
  <1> USE DEF Init
  <1>1. rx \in Rings /\ asm \in Asms
    <2>1. <<>> \in Seq(Cells) /\ <<>> \in Seq(Letters)
      OBVIOUS
    <2> QED
      BY <2>1, Sizes DEF Rings, Asms, NewLine
  <1>2. main \in Mains /\ over \in BOOLEAN /\ ChunkInv
    <2>1. <<>> \in Seq(Cells)
      OBVIOUS
    <2> QED
      BY <2>1 DEF Mains, ChunkInv
  <1>3. tx \in Fifos /\ usb \in Usbs
    <2>1. <<>> \in Seq(Tokens)
      OBVIOUS
    <2> QED
      BY <2>1, Sizes DEF Fifos, Usbs, Idle
  <1>4. mode \in Modes
    BY Sizes DEF Modes
  <1>5. FlightInv
    BY DEF FlightInv
  <1> QED
    BY <1>1, <1>2, <1>3, <1>4, <1>5 DEF IInv

LEMMA FeedType ==
    ASSUME asm \in Asms, tx \in Fifos, mode \in Modes, NEW b \in Bytes, Feed(b)
    PROVE  asm' \in Asms /\ tx' \in Fifos /\ mode' \in Modes
  <1>1. NewLine \in Asms
    <2>1. <<>> \in Seq(Letters)
      OBVIOUS
    <2> QED
      BY <2>1, Sizes DEF Asms, NewLine
  <1>2. CASE asm.swallow /\ b = "nl"
    <2>1. Err(tx, "toolong") \in Fifos
      BY SayType DEF Tokens
    <2>2. asm' = NewLine /\ tx' = Err(tx, "toolong") /\ mode' = mode
      BY <1>2 DEF Feed
    <2> QED
      BY <1>1, <2>1, <2>2
  <1>3. CASE ~asm.swallow /\ b = "nl"
    <2>1. asm' = NewLine /\ tx' = OnLine.tx /\ mode' = OnLine.mode
      BY <1>3 DEF Feed
    <2> QED
      BY <1>1, <2>1, OnLineType
  <1>4. CASE b # "nl" /\ (asm.swallow \/ b = "cr")
    BY <1>4 DEF Feed
  <1>5. CASE b # "nl" /\ ~asm.swallow /\ b # "cr"
    <2>1. /\ asm' = IF TooLong(b) THEN [asm EXCEPT !.swallow = TRUE]
                                  ELSE [asm EXCEPT !.line = Append(@, b)]
          /\ tx' = tx /\ mode' = mode
      BY <1>5 DEF Feed
    <2>2. b \in Letters /\ asm.line \in Seq(Letters) /\ Len(asm.line) \in Nat
      BY <1>5, LenProperties DEF Bytes, Asms
    <2>3. Append(asm.line, b) \in Seq(Letters) /\ Len(Append(asm.line, b)) = Len(asm.line) + 1
      BY <2>2, AppendProperties
    <2>4. CASE TooLong(b)
      BY <2>1, <2>4 DEF Asms
    <2>5. CASE ~TooLong(b)
      <3>1. Len(Append(asm.line, b)) <= LineMax
        BY <2>2, <2>3, <2>5, Sizes DEF TooLong
      <3> QED
        BY <2>1, <2>3, <2>5, <3>1 DEF Asms
    <2> QED
      BY <2>1, <2>4, <2>5
  <1> QED
    BY <1>2, <1>3, <1>4, <1>5 DEF Asms

LEMMA ReceiveType ==
    ASSUME NEW p \in Packets, rx \in Rings, Receive(p)
    PROVE  rx' \in Rings /\ Len(rx) <= Len(rx') /\ over' \in BOOLEAN
  <1> DEFINE free == RxCap - Len(rx)
             n    == IF Len(p) > free THEN free ELSE Len(p)
             new  == [i \in 1 .. n |-> [byte |-> p[i], torn |-> i = 1 /\ host.gap]]
  <1>1. rx \in Seq(Cells) /\ Len(rx) \in Nat /\ Len(rx) <= RxCap
    BY LenProperties DEF Rings
  <1>2. Len(p) \in Nat /\ \A i \in 1 .. Len(p) : p[i] \in Bytes
    BY LinkAssumption
  <1>3. n \in Nat /\ n <= Len(p) /\ Len(rx) + n <= RxCap
    BY <1>1, <1>2, Sizes
  <1>4. rx' = rx \o new /\ over' = (over \/ Len(p) > free)
    BY DEF Receive
  <1> HIDE DEF n
  <1>5. \A i \in 1 .. n : [byte |-> p[i], torn |-> i = 1 /\ host.gap] \in Cells
    <2> SUFFICES ASSUME NEW i \in 1 .. n
                 PROVE  [byte |-> p[i], torn |-> i = 1 /\ host.gap] \in Cells
      OBVIOUS
    <2>1. p[i] \in Bytes
      BY <1>2, <1>3
    <2>2. (i = 1 /\ host.gap) \in BOOLEAN
      OBVIOUS
    <2> QED
      BY <2>1, <2>2 DEF Cells
  <1>6. new \in Seq(Cells) /\ Len(new) = n
    <2>1. new \in [1 .. n -> Cells]
      BY <1>5
    <2> HIDE DEF new
    <2>2. new \in Seq(Cells)
      BY <1>3, <2>1, SeqDef
    <2> QED
      BY <1>3, <2>1, <2>2, LenProperties
  <1> HIDE DEF new, free
  <1>7. rx' \in Seq(Cells) /\ Len(rx') = Len(rx) + n
    BY <1>1, <1>4, <1>6, ConcatProperties
  <1> QED
    BY <1>1, <1>3, <1>4, <1>7, Sizes DEF Rings

-----------------------------------------------------------------------------
(* Each action preserves the invariant.                                    *)

LEMMA NextIInv == IInv /\ [Next]_vars => IInv'
  <1> SUFFICES ASSUME IInv, [Next]_vars PROVE IInv'
    OBVIOUS
  <1> USE DEF IInv
  <1>0. /\ rx \in Seq(Cells) /\ Len(rx) \in Nat /\ Len(rx) <= RxCap
        /\ main.chunk \in Seq(Cells) /\ Len(main.chunk) \in Nat
        /\ tx.q \in Seq(Tokens) /\ Len(tx.q) \in Nat /\ Len(tx.q) <= TxCap
    BY LenProperties DEF Rings, Mains, Fifos
  <1>1. CASE ReadOverflow
    BY <1>1 DEF ReadOverflow, At, Mains, ChunkInv, FlightInv
  <1>2. CASE ClearOverflow
    <2>1. tx' \in Fifos
      BY <1>2, ToldType DEF ClearOverflow
    <2>2. mode' \in Modes
      BY <1>2 DEF ClearOverflow, DeadMan, Modes
    <2>3. main' \in Mains /\ over' \in BOOLEAN /\ ChunkInv'
      BY <1>2 DEF ClearOverflow, At, Mains, ChunkInv
    <2>4. rx' = rx /\ asm' = asm /\ usb' = usb /\ FlightInv'
      BY <1>2 DEF ClearOverflow, FlightInv
    <2> QED
      BY <2>1, <2>2, <2>3, <2>4
  <1>3. CASE Pop
    <2>1. UNCHANGED <<rx, over, asm, tx, usb, mode>> /\ FlightInv'
      BY <1>3 DEF Pop, FlightInv
    <2>2. CASE rx = <<>>
      BY <1>3, <2>1, <2>2 DEF Pop, At, Mains, ChunkInv
    <2>3. CASE rx # <<>>
      <3> DEFINE n == IF Len(rx) < Chunk THEN Len(rx) ELSE Chunk
                 c == SubSeq(rx, 1, n)
      <3>1. Len(rx) # 0
        BY <1>0, <2>3, EmptySeq
      <3>2. n \in 1 .. Len(rx)
        BY <1>0, <3>1, Sizes
      <3> HIDE DEF n
      <3>3. c \in Seq(Cells) /\ Len(c) = n
        BY <1>0, <3>2, Prefix
      <3>4. c # <<>> /\ Len(c) <= Len(rx)
        BY <1>0, <3>2, <3>3, EmptySeq
      <3>5. main' = [main EXCEPT !.at = "publish", !.chunk = c]
        BY <1>3, <2>3 DEF Pop, n
      <3> HIDE DEF c
      <3>6. main' \in Mains /\ main'.at = "publish" /\ main'.chunk = c
        BY <3>3, <3>5 DEF Mains
      <3> QED
        BY <2>1, <3>4, <3>6 DEF ChunkInv
    <2> QED
      BY <2>2, <2>3
  <1>4. CASE Publish
    <2>1. main.at = "publish" /\ main.chunk # <<>> /\ Len(main.chunk) \in 0 .. Len(rx)
      BY <1>0, <1>4 DEF Publish, At, ChunkInv
    <2>2. rx' \in Rings
      <3>1. rx' = SubSeq(rx, Len(main.chunk) + 1, Len(rx))
        BY <1>4 DEF Publish
      <3>2. rx' \in Seq(Cells) /\ Len(rx') = Len(rx) - Len(main.chunk)
        BY <1>0, <2>1, <3>1, Rest
      <3> QED
        BY <1>0, <3>2, Sizes DEF Rings
    <2>3. main' \in Mains /\ main'.at = "feed" /\ main'.chunk = main.chunk
      BY <1>4 DEF Publish, Mains
    <2>4. UNCHANGED <<over, asm, tx, usb, mode>> /\ FlightInv'
      BY <1>4 DEF Publish, FlightInv
    <2> QED
      BY <2>1, <2>2, <2>3, <2>4 DEF ChunkInv
  <1>5. CASE FeedByte
    <2>1. main.chunk # <<>>
      BY <1>5 DEF FeedByte, At, ChunkInv
    <2>2. /\ main.chunk[1] \in Cells /\ Tail(main.chunk) \in Seq(Cells)
          /\ Tail(main.chunk) = <<>> <=> Len(main.chunk) = 1
      BY <1>0, <2>1, TailOf
    <2>3. main.chunk[1].byte \in Bytes /\ main.chunk[1].torn \in BOOLEAN
      BY <2>2 DEF Cells
    <2>4. asm' \in Asms /\ tx' \in Fifos /\ mode' \in Modes
      BY <1>5, <2>3, FeedType DEF FeedByte
    <2> DEFINE at   == IF Len(main.chunk) = 1 THEN "pop" ELSE "feed"
               torn == (main.torn \/ main.chunk[1].torn) /\ main.chunk[1].byte # "nl"
    <2>5. main' = [main EXCEPT !.chunk = Tail(main.chunk), !.at = at, !.torn = torn]
      BY <1>5 DEF FeedByte
    <2>6. torn \in BOOLEAN /\ at \in {"pop", "feed"} /\ (at = "feed" <=> Tail(main.chunk) # <<>>)
      BY <2>2
    <2> HIDE DEF at, torn
    <2>7. main' \in Mains /\ main'.at = at /\ main'.chunk = Tail(main.chunk)
      BY <2>2, <2>5, <2>6 DEF Mains
    <2>8. ChunkInv'
      BY <2>6, <2>7 DEF ChunkInv
    <2>9. UNCHANGED <<rx, over, usb>> /\ FlightInv'
      BY <1>5 DEF FeedByte, FlightInv
    <2> QED
      BY <2>4, <2>7, <2>8, <2>9
  <1>6. CASE Flush
    <2> DEFINE n == IF Len(tx.q) < Scratch THEN Len(tx.q) ELSE Scratch
               p == SubSeq(tx.q, 1, n)
    <2>1. n \in 0 .. Len(tx.q)
      BY <1>0, Sizes
    <2>2. UNCHANGED <<rx, over, asm, mode>> /\ main' \in Mains /\ ChunkInv'
      BY <1>6 DEF Flush, At, Mains, ChunkInv
    <2>3. CASE n > 0 /\ usb.busy = Idle
      <3>1. /\ usb' = [busy |-> [slot |-> usb.slot, bytes |-> p],
                       scratch |-> [usb.scratch EXCEPT ![usb.slot] = p],
                       slot |-> Other(usb.slot)]
            /\ tx' = [tx EXCEPT !.q = SubSeq(@, n + 1, Len(@))]
        BY <1>6, <2>3 DEF Flush
      <3> HIDE DEF n
      <3>2. p \in Seq(Tokens)
        BY <1>0, <2>1, Prefix
      <3>3. SubSeq(tx.q, n + 1, Len(tx.q)) \in Seq(Tokens)
              /\ Len(SubSeq(tx.q, n + 1, Len(tx.q))) <= TxCap
        BY <1>0, <2>1, Rest, Sizes
      <3>4. tx' \in Fifos
        BY <3>1, <3>3 DEF Fifos
      <3> HIDE DEF p
      <3>5. usb.slot \in {0, 1} /\ Other(usb.slot) \in {0, 1} /\ Other(usb.slot) # usb.slot
        BY DEF Usbs, Other
      <3>6. [usb.scratch EXCEPT ![usb.slot] = p] \in [{0, 1} -> Seq(Tokens)]
        BY <3>2, <3>5 DEF Usbs
      <3>7. usb' \in Usbs
        BY <3>1, <3>2, <3>5, <3>6 DEF Usbs
      <3>8. usb'.busy.slot = usb.slot /\ usb'.slot = Other(usb.slot)
              /\ usb'.scratch[usb.slot] = p /\ usb'.busy.bytes = p
        BY <3>1, <3>5 DEF Usbs
      <3>9. FlightInv'
        BY <3>5, <3>8 DEF FlightInv
      <3> QED
        BY <2>2, <3>4, <3>7, <3>9
    <2>4. CASE ~(n > 0 /\ usb.busy = Idle)
      <3>1. tx' = tx /\ usb' = IF n > 0 THEN [usb EXCEPT !.scratch[usb.slot] = p] ELSE usb
        BY <1>6, <2>4 DEF Flush
      <3>2. CASE n = 0
        BY <2>2, <3>1, <3>2 DEF FlightInv
      <3>3. CASE n > 0
        <4>1. usb' = [usb EXCEPT !.scratch[usb.slot] = p]
          BY <3>1, <3>3
        <4> HIDE DEF n
        <4>2. p \in Seq(Tokens)
          BY <1>0, <2>1, Prefix
        <4> HIDE DEF p
        <4>3. usb' \in Usbs /\ usb'.busy = usb.busy /\ usb'.slot = usb.slot
          BY <4>1, <4>2 DEF Usbs
        <4>4. \A i \in {0, 1} \ {usb.slot} : usb'.scratch[i] = usb.scratch[i]
          BY <4>1 DEF Usbs
        <4>5. FlightInv'
          BY <4>3, <4>4 DEF FlightInv
        <4> QED
          BY <2>2, <3>1, <4>3, <4>5
      <3> QED
        BY <2>1, <3>2, <3>3
    <2> QED
      BY <2>3, <2>4
  <1>7. CASE Sent
    <2>1. usb' = [usb EXCEPT !.busy = Idle] /\ UNCHANGED <<rx, over, asm, main, tx, mode>>
      BY <1>7 DEF Sent
    <2>2. Idle \in [slot : {-1, 0, 1}, bytes : Seq(Tokens)]
      <3>1. <<>> \in Seq(Tokens)
        OBVIOUS
      <3> QED
        BY <3>1 DEF Idle
    <2> HIDE DEF Idle
    <2>3. usb' \in Usbs /\ usb'.busy = Idle
      BY <2>1, <2>2 DEF Usbs
    <2> QED
      BY <2>1, <2>3 DEF ChunkInv, FlightInv
  <1>8. CASE Tick
    <2>1. mode' \in Modes
      BY <1>8, Sizes DEF Tick, Modes
    <2> QED
      BY <1>8, <2>1 DEF Tick, ChunkInv, FlightInv
  <1>9. ASSUME NEW p \in Packets, Receive(p) PROVE IInv'
    <2>1. rx' \in Rings /\ Len(rx) <= Len(rx') /\ over' \in BOOLEAN
      BY <1>9, ReceiveType
    <2>2. UNCHANGED <<asm, main, tx, usb, mode>>
      BY <1>9 DEF Receive
    <2>3. Len(rx') \in Nat
      BY <2>1, LenProperties DEF Rings
    <2>4. ChunkInv'
      BY <1>0, <2>1, <2>2, <2>3 DEF ChunkInv
    <2> QED
      BY <2>1, <2>2, <2>4 DEF FlightInv
  <1>10. CASE UNCHANGED vars
    BY <1>10 DEF vars, ChunkInv, FlightInv
  <1> QED
    BY <1>1, <1>2, <1>3, <1>4, <1>5, <1>6, <1>7, <1>8, <1>9, <1>10 DEF Next, Process

-----------------------------------------------------------------------------
(* A host that waits.  What it may send, and what comes back.              *)

LEMMA LineShape ==
    ASSUME NEW p \in Packets
    PROVE  /\ Len(p) \in Nat /\ Len(p) > 0 /\ p[Len(p)] = "nl"
           /\ Body(p) \in Nat /\ Body(p) < Len(p)
           /\ \A i \in 1 .. Body(p) : p[i] \in Letters
           /\ \/ Body(p) = Len(p) - 1
              \/ Body(p) = Len(p) - 2 /\ p[Len(p) - 1] = "cr"
  <1>1. Len(p) \in Nat
    BY LinkAssumption
  <1>2. Len(p) > 0 /\ p[Len(p)] = "nl" /\ \A i \in 1 .. Body(p) : p[i] \in Letters
    BY TurnsAssumption DEF IsLine
  <1> QED
    BY <1>1, <1>2 DEF Body

\* The bytes after the body are those of the line's end.
LEMMA LineEnd ==
    ASSUME NEW p \in Packets
    PROVE  /\ \A i \in Body(p) + 1 .. Len(p) : p[i] \in {"cr", "nl"}
           /\ \A i \in 1 .. Len(p) - 1 : p[i] # "nl"
  <1>1. ASSUME NEW i \in Body(p) + 1 .. Len(p) PROVE p[i] \in {"cr", "nl"} /\ (i < Len(p) => p[i] # "nl")
    <2>1. i = Len(p) \/ (i = Len(p) - 1 /\ p[Len(p) - 1] = "cr")
      BY LineShape
    <2> QED
      BY <2>1, LineShape
  <1>2. ASSUME NEW i \in 1 .. Len(p) - 1 PROVE p[i] # "nl"
    <2>1. CASE i \in 1 .. Body(p)
      BY <2>1, LineShape DEF Letters
    <2>2. CASE i \in Body(p) + 1 .. Len(p)
      BY <1>1, <2>2, LineShape
    <2> QED
      BY <2>1, <2>2, LineShape
  <1> QED
    BY <1>1, <1>2

LEMMA PartOfLine ==
    ASSUME NEW p \in Packets, NEW m \in Nat, m <= Body(p)
    PROVE  /\ SubSeq(p, 1, m) \in Seq(Letters) /\ Len(SubSeq(p, 1, m)) = m
           /\ \A i \in 1 .. m : SubSeq(p, 1, m)[i] = p[i]
  <1>1. \A i \in 1 .. m : p[i] \in Letters
    BY LineShape
  <1> QED
    BY <1>1, SubSeqProperties

LEMMA NextOfLine ==
    ASSUME NEW p \in Packets, NEW m \in Nat, m < Body(p)
    PROVE  Append(SubSeq(p, 1, m), p[m + 1]) = SubSeq(p, 1, m + 1)
  <1> DEFINE s == SubSeq(p, 1, m)
             t == SubSeq(p, 1, m + 1)
             e == p[m + 1]
  <1>1. s \in Seq(Letters) /\ Len(s) = m /\ \A i \in 1 .. m : s[i] = p[i]
    BY PartOfLine, LineShape
  <1>2. t \in Seq(Letters) /\ Len(t) = m + 1 /\ \A i \in 1 .. m + 1 : t[i] = p[i]
    BY PartOfLine, LineShape
  <1>3. e \in Letters
    BY LineShape
  <1> HIDE DEF s, t
  <1>4. Append(s, e) \in Seq(Letters) /\ Len(Append(s, e)) = m + 1
          /\ (\A i \in 1 .. m : Append(s, e)[i] = s[i]) /\ Append(s, e)[m + 1] = e
    <2> HIDE DEF e
    <2> QED
      BY <1>1, <1>3, AppendProperties
  <1>5. \A i \in 1 .. m + 1 : Append(s, e)[i] = t[i]
    BY <1>1, <1>2, <1>4
  <1>6. Append(s, e) = t
    BY <1>2, <1>4, <1>5, SeqEqual
  <1> QED
    BY <1>6 DEF s, t

LEMMA ReplyOf ==
    ASSUME NEW p \in Packets
    PROVE  /\ Body(p) = 0 <=> ReplyTo(p) = <<>>
           /\ ReplyTo(p) \in {<<>>} \cup Replies
  <1> DEFINE line == SubSeq(p, 1, Body(p))
  <1>1. line \in Seq(Letters) /\ Len(line) = Body(p) /\ Body(p) \in Nat
    BY PartOfLine, LineShape
  <1>2. line = <<>> <=> Body(p) = 0
    BY <1>1, EmptySeq
  <1>3. ReplyTo(p) = CASE line = <<>>               -> <<>>
                       [] Len(line) > LineMax       -> <<"err", "toolong">>
                       [] line \in {<<"t">>, <<"r">>} -> <<"ok">>
                       [] OTHER                     -> <<"err", "unknown">>
    BY DEF ReplyTo
  <1> HIDE DEF line
  <1>4. CASE line = <<>>
    BY <1>1, <1>2, <1>3, <1>4, Sizes
  <1>5. CASE line # <<>>
    <2>1. ReplyTo(p) \in {<<"err", "toolong">>, <<"ok">>, <<"err", "unknown">>}
      BY <1>3, <1>5
    <2> QED
      BY <1>2, <1>5, <2>1 DEF Replies
  <1> QED
    BY <1>4, <1>5

\* What the words of a reply are.
LEMMA Words ==
    ASSUME NEW r \in Replies
    PROVE  /\ r \in Seq(Tokens) /\ Len(r) \in {1, 2} /\ r # <<>>
           /\ \A i \in 1 .. Len(r) : r[i] # "nl"
           /\ r \o <<"nl">> \in Seq(Tokens) /\ Len(r \o <<"nl">>) = Len(r) + 1
           /\ \A i \in 1 .. Len(r) : (r \o <<"nl">>)[i] = r[i]
           /\ (r \o <<"nl">>)[Len(r) + 1] = "nl"
  <1>1. PICK e \in {"overflow", "txoverflow", "toolong", "unknown"} : r = <<"ok">> \/ r = <<"err", e>>
    BY DEF Replies
  <1>2. r \in Seq(Tokens) /\ Len(r) \in {1, 2} /\ r # <<>> /\ \A i \in 1 .. Len(r) : r[i] # "nl"
    <2>1. CASE r = <<"ok">>
      BY <2>1 DEF Tokens
    <2>2. CASE r = <<"err", e>>
      <3>1. e \in Tokens /\ e # "nl"
        BY <1>1 DEF Tokens
      <3>2. r \in Seq(Tokens) /\ Len(r) = 2 /\ r[1] = "err" /\ r[2] = e
        BY <2>2, <3>1 DEF Tokens
      <3>3. r # <<>>
        BY <3>2, EmptySeq
      <3>4. \A i \in 1 .. 2 : r[i] # "nl"
        BY <3>1, <3>2
      <3> QED
        BY <3>2, <3>3, <3>4
    <2> QED
      BY <1>1, <2>1, <2>2
  <1>3. <<"nl">> \in Seq(Tokens) /\ Len(<<"nl">>) = 1 /\ <<"nl">>[1] = "nl"
    BY DEF Tokens
  <1> DEFINE nl == <<"nl">>
  <1>4. r \o nl \in Seq(Tokens) /\ Len(r \o nl) = Len(r) + 1
          /\ \A i \in 1 .. Len(r) + 1 : (r \o nl)[i] = IF i <= Len(r) THEN r[i] ELSE nl[i - Len(r)]
    <2> HIDE DEF nl
    <2>1. nl \in Seq(Tokens) /\ Len(nl) = 1
      BY <1>3 DEF nl
    <2> QED
      BY <1>2, <2>1, ConcatProperties
  <1> HIDE DEF nl
  <1>5. /\ \A i \in 1 .. Len(r) : (r \o nl)[i] = r[i]
        /\ (r \o nl)[Len(r) + 1] = nl[1]
    BY <1>2, <1>4
  <1> QED
    BY <1>2, <1>3, <1>4, <1>5 DEF nl

-----------------------------------------------------------------------------
(* The stages of a host that waits: it has asked nothing, its line is on    *)
(* the way in, or the reply is on the way out.  In no other stage can the   *)
(* link be, so that no reply is early, cut or doubled.                      *)

\* What has come in and is not yet fed: the chunk is in the ring until the tail
\* is published.
Pend == IF main.at = "publish" THEN rx ELSE main.chunk \o rx

Blank(q, n) == \A i \in 1 .. n : q[i].byte \in {"cr", "nl"}

\* What blank lines may take up in the ring, each.
MostBlank == CHOOSE blank \in 0 .. RxCap :
    /\ \A p \in Packets : Body(p) = 0 => Len(p) <= blank
    /\ \A p \in Packets : MaxSent * blank + Len(p) <= RxCap

\* The assembler has read n bytes of p.
Assembled(a, p, n) ==
    LET m == IF n < Body(p) THEN n ELSE Body(p)
    IN  /\ a.swallow <=> m > LineMax
        /\ a.line = SubSeq(p, 1, IF m > LineMax THEN LineMax ELSE m)

\* Blank lines, n bytes in all, and then p but for the k bytes that were read.
Holds(q, n, p, k) ==
    /\ Len(q) = n + Len(p) - k /\ Blank(q, n)
    /\ \A i \in 1 .. Len(p) - k : q[n + i].byte = p[k + i]

Quiet == tx.q = <<>> /\ usb.busy = Idle /\ host.line = <<>>

\* Nothing is asked: only blank lines are on their way.
Resting ==
    /\ Quiet /\ host.awaited = <<>> /\ asm = NewLine
    /\ Blank(Pend, Len(Pend)) /\ Len(rx) <= host.sent * MostBlank

\* p is on its way in, k bytes of it and no blank line or n bytes of those left.
ReadingOf(p, k, n) ==
    /\ Holds(Pend, n, p, k) /\ (n > 0 => k = 0) /\ Assembled(asm, p, k)
    /\ host.awaited = ReplyTo(p) /\ ReplyTo(p) # <<>>

Reading == Quiet /\ \E p \in Packets : \E k \in 0 .. Len(p) - 1, n \in 0 .. Len(Pend) : ReadingOf(p, k, n)

\* The reply is on its way out.
Replying ==
    /\ host.awaited \in Replies /\ Pend = <<>> /\ asm = NewLine
    /\ (host.line \o usb.busy.bytes) \o tx.q = host.awaited \o <<"nl">>

Hosts == [line : Seq(Tokens), awaited : {<<>>} \cup Replies, garbled : BOOLEAN,
          sent : Nat, gap : BOOLEAN, untold : BOOLEAN]

Copied == main.at = "publish" => main.chunk = SubSeq(rx, 1, Len(main.chunk))

Stage == Resting \/ Reading \/ Replying

TurnInv ==
    /\ host \in Hosts /\ ~host.garbled /\ ~over /\ ~main.over /\ ~tx.over
    /\ Copied /\ Stage

LEMMA BlankRoom ==
    /\ MostBlank \in Nat /\ MaxSent \in Nat
    /\ \A p \in Packets : Body(p) = 0 => Len(p) <= MostBlank
    /\ \A p \in Packets : MaxSent * MostBlank + Len(p) <= RxCap
  <1>1. \E blank \in 0 .. RxCap :
            /\ \A p \in Packets : Body(p) = 0 => Len(p) <= blank
            /\ \A p \in Packets : MaxSent * blank + Len(p) <= RxCap
    BY TurnsAssumption
  <1>2. MostBlank \in 0 .. RxCap
          /\ (\A p \in Packets : Body(p) = 0 => Len(p) <= MostBlank)
          /\ (\A p \in Packets : MaxSent * MostBlank + Len(p) <= RxCap)
    BY <1>1 DEF MostBlank
  <1> QED
    BY <1>2, Sizes, LinkAssumption

-----------------------------------------------------------------------------
(* A reply fits in the empty FIFO.                                         *)

LEMMA EnqueueEmpty ==
    ASSUME NEW t \in Fifos, NEW w \in Seq(Tokens), Len(t.q) + Len(w) <= 3, ~t.over
    PROVE  Enqueue(t, w) \in Fifos /\ Enqueue(t, w).q = t.q \o w /\ ~Enqueue(t, w).over
  <1>1. t.q \in Seq(Tokens) /\ Len(t.q) \in Nat /\ Len(w) \in Nat
    BY LenProperties DEF Fifos
  <1>2. ~(Len(w) > TxCap - Len(t.q))
    BY <1>1, Sizes, TurnsAssumption
  <1>3. Enqueue(t, w) = [t EXCEPT !.q = @ \o w]
    BY <1>2 DEF Enqueue
  <1> QED
    BY <1>3, EnqueueType DEF Fifos

LEMMA SayEmpty ==
    ASSUME NEW t \in Fifos, t.q = <<>>, ~t.over, NEW r \in Tokens
    PROVE  /\ Ok(t).q = <<"ok">> \o <<"nl">> /\ ~Ok(t).over
           /\ Err(t, r).q = <<"err", r>> \o <<"nl">> /\ ~Err(t, r).over
  <1> DEFINE a == Enqueue(t, <<"err">>)
             b == Enqueue(a, <<r>>)
             c == Enqueue(b, <<"nl">>)
             d == Enqueue(t, <<"ok", "nl">>)
  <1>1. /\ <<"ok", "nl">> \in Seq(Tokens) /\ Len(<<"ok", "nl">>) = 2
        /\ <<"err">> \in Seq(Tokens) /\ Len(<<"err">>) = 1
        /\ <<r>> \in Seq(Tokens) /\ Len(<<r>>) = 1
        /\ <<"nl">> \in Seq(Tokens) /\ Len(<<"nl">>) = 1
        /\ <<"err", r>> \in Seq(Tokens) /\ Len(<<"err", r>>) = 2
    BY DEF Tokens
  <1>2. Len(t.q) = 0
    BY EmptySeq
  <1>3. d.q = t.q \o <<"ok", "nl">> /\ ~d.over
    <2>1. Len(t.q) + Len(<<"ok", "nl">>) <= 3
      BY <1>1, <1>2
    <2> QED
      BY <1>1, <2>1, EnqueueEmpty, Zenon
  <1>4. a \in Fifos /\ a.q = t.q \o <<"err">> /\ ~a.over
    <2>1. Len(t.q) + Len(<<"err">>) <= 3
      BY <1>1, <1>2
    <2> QED
      BY <1>1, <2>1, EnqueueEmpty, Zenon
  <1>5. a.q = <<"err">>
    BY <1>1, <1>4, ConcatEmptySeq
  <1> HIDE DEF a
  <1>6. b \in Fifos /\ b.q = a.q \o <<r>> /\ ~b.over
    <2>1. Len(a.q) + Len(<<r>>) <= 3
      BY <1>1, <1>5
    <2> QED
      BY <1>1, <1>4, <2>1, EnqueueEmpty, Zenon
  <1>7. b.q = <<"err", r>>
    BY <1>5, <1>6
  <1> HIDE DEF b
  <1>8. c.q = b.q \o <<"nl">> /\ ~c.over
    <2>1. Len(b.q) + Len(<<"nl">>) <= 3
      BY <1>1, <1>7
    <2> QED
      BY <1>1, <1>6, <2>1, EnqueueEmpty, Zenon
  <1>9. d.q = <<"ok">> \o <<"nl">>
    BY <1>1, <1>3, ConcatEmptySeq
  <1>10. Ok(t) = d /\ Err(t, r) = c
    BY DEF Ok, Err, a, b
  <1> QED
    BY <1>3, <1>7, <1>8, <1>9, <1>10

LEMMA ToldNothing ==
    ASSUME NEW t \in Fifos, ~t.over, ~main.over
    PROVE  Told(t) = t
  BY DEF Told

-----------------------------------------------------------------------------
(* The assembler.                                                          *)

LEMMA FeedBlank ==
    ASSUME asm = NewLine, NEW b \in {"cr", "nl"}, Feed(b)
    PROVE  asm' = NewLine /\ tx' = tx
  <1>1. ~asm.swallow /\ asm.line = <<>>
    BY DEF NewLine
  <1>2. CASE b = "cr"
    BY <1>1, <1>2 DEF Feed
  <1>3. CASE b = "nl"
    <2>1. asm' = NewLine /\ tx' = OnLine.tx
      BY <1>1, <1>3 DEF Feed
    <2>2. OnLine = [tx |-> tx, mode |-> [mode EXCEPT !.since = 0]]
      BY <1>1 DEF OnLine, Dispatch
    <2> QED
      BY <2>1, <2>2
  <1> QED
    BY <1>2, <1>3

LEMMA AssembledNothing ==
    ASSUME NEW p \in Packets
    PROVE  Assembled(NewLine, p, 0)
  <1>1. SubSeq(p, 1, 0) = <<>>
    BY SubSeqEmpty
  <1> QED
    BY <1>1, LineShape, Sizes DEF Assembled, NewLine

LEMMA FeedLine ==
    ASSUME NEW p \in Packets, NEW k \in Nat, k + 1 < Len(p),
           asm \in Asms, Assembled(asm, p, k), Feed(p[k + 1])
    PROVE  Assembled(asm', p, k + 1) /\ tx' = tx
  <1> DEFINE b == p[k + 1]
  <1>1. /\ Len(p) \in Nat /\ Body(p) \in Nat /\ LineMax \in Nat
        /\ Body(p) = Len(p) - 1 \/ (Body(p) = Len(p) - 2 /\ p[Len(p) - 1] = "cr")
    BY LineShape, Sizes
  <1>2. b # "nl"
    BY <1>1, LineEnd
  <1>3. CASE k = Body(p)
    <2>1. b = "cr"
      BY <1>1, <1>3
    <2>2. asm' = asm /\ tx' = tx
      BY <2>1 DEF Feed
    <2> QED
      BY <1>1, <1>3, <2>2 DEF Assembled
  <1>4. CASE k # Body(p)
    <2>1. k < Body(p)
      BY <1>1, <1>4
    <2>2. b \in Letters /\ b # "cr"
      BY <2>1, LineShape DEF Letters
    <2>3. (asm.swallow <=> k > LineMax) /\ asm.line = SubSeq(p, 1, IF k > LineMax THEN LineMax ELSE k)
      BY <2>1 DEF Assembled
    <2>4. SUFFICES /\ asm'.swallow <=> k + 1 > LineMax
                   /\ asm'.line = SubSeq(p, 1, IF k + 1 > LineMax THEN LineMax ELSE k + 1)
                   /\ tx' = tx
      BY <1>1, <2>1 DEF Assembled
    <2>5. CASE k > LineMax
      <3>1. asm' = asm /\ tx' = tx
        BY <1>2, <2>3, <2>5 DEF Feed
      <3> QED
        BY <1>1, <2>3, <2>5, <3>1
    <2>6. CASE k <= LineMax
      <3>1. ~asm.swallow /\ asm.line = SubSeq(p, 1, k)
        BY <1>1, <2>3, <2>6
      <3>2. Len(asm.line) = k
        BY <1>1, <2>1, <3>1, PartOfLine
      <3> HIDE DEF b
      <3>3. asm' = (IF TooLong(b) THEN [asm EXCEPT !.swallow = TRUE]
                                  ELSE [asm EXCEPT !.line = Append(@, b)]) /\ tx' = tx
        BY <1>2, <2>2, <3>1 DEF Feed, b
      <3>4. CASE k = LineMax
        <4>1. asm' = [asm EXCEPT !.swallow = TRUE]
          BY <3>2, <3>3, <3>4, <1>1 DEF TooLong
        <4>2. asm'.swallow /\ asm'.line = asm.line
          BY <4>1 DEF Asms
        <4> QED
          BY <1>1, <3>1, <3>3, <3>4, <4>2
      <3>5. CASE k # LineMax
        <4>1. asm' = [asm EXCEPT !.line = Append(@, b)]
          BY <1>1, <2>6, <3>2, <3>3, <3>5 DEF TooLong
        <4>2. ~asm'.swallow /\ asm'.line = Append(asm.line, b)
          BY <3>1, <4>1 DEF Asms
        <4>3. Append(SubSeq(p, 1, k), p[k + 1]) = SubSeq(p, 1, k + 1)
          BY <2>1, NextOfLine
        <4>4. asm'.line = SubSeq(p, 1, k + 1)
          BY <3>1, <4>2, <4>3 DEF b
        <4> QED
          BY <1>1, <2>6, <3>3, <3>5, <4>2, <4>4
      <3> QED
        BY <3>4, <3>5
    <2> QED
      BY <1>1, <2>5, <2>6
  <1> QED
    BY <1>3, <1>4

LEMMA FeedEnd ==
    ASSUME NEW p \in Packets, Assembled(asm, p, Len(p) - 1), ReplyTo(p) # <<>>,
           tx \in Fifos, tx.q = <<>>, ~tx.over, Feed("nl")
    PROVE  asm' = NewLine /\ tx'.q = ReplyTo(p) \o <<"nl">> /\ ~tx'.over
  <1> DEFINE line == SubSeq(p, 1, Body(p))
  <1>1. Len(p) \in Nat /\ Body(p) \in Nat /\ Body(p) <= Len(p) - 1 /\ LineMax \in Nat
    BY LineShape, Sizes
  <1>2. line \in Seq(Letters) /\ Len(line) = Body(p)
    BY <1>1, PartOfLine
  <1>3. line # <<>>
    BY <1>1, <1>2, ReplyOf, EmptySeq
  <1>4. ReplyTo(p) = CASE line = <<>>               -> <<>>
                       [] Len(line) > LineMax       -> <<"err", "toolong">>
                       [] line \in {<<"t">>, <<"r">>} -> <<"ok">>
                       [] OTHER                     -> <<"err", "unknown">>
    BY DEF ReplyTo
  <1>5. (asm.swallow <=> Body(p) > LineMax)
          /\ asm.line = SubSeq(p, 1, IF Body(p) > LineMax THEN LineMax ELSE Body(p))
    BY <1>1 DEF Assembled
  <1>6. CASE Body(p) > LineMax
    <2>1. asm.swallow
      BY <1>5, <1>6
    <2>2. asm' = NewLine /\ tx' = Err(tx, "toolong")
      BY <2>1 DEF Feed
    <2> HIDE DEF line
    <2>3. Len(line) > LineMax /\ LineMax >= 1
      BY <1>1, <1>2, <1>6, LinkAssumption
    <2>a. line # <<"t">> /\ line # <<"r">>
      <3>1. Len(<<"t">>) = 1 /\ Len(<<"r">>) = 1
        OBVIOUS
      <3>2. Len(line) # 1
        BY <1>1, <1>2, <2>3
      <3> QED
        BY <3>1, <3>2, Zenon
    <2>4. ReplyTo(p) = <<"err", "toolong">>
      BY <1>3, <1>4, <2>3, <2>a
    <2> QED
      BY <2>2, <2>4, SayEmpty DEF Tokens
  <1>7. CASE ~(Body(p) > LineMax)
    <2>1. ~asm.swallow /\ asm.line = line
      BY <1>5, <1>7
    <2>2. asm' = NewLine /\ tx' = OnLine.tx
      BY <2>1 DEF Feed
    <2>3. ~(Len(line) > LineMax)
      BY <1>2, <1>7
    <2> HIDE DEF line
    <2> DEFINE m == [mode EXCEPT !.since = 0]
               z == [tx |-> tx, mode |-> m]
    <2>4. z.tx = tx /\ OnLine = Dispatch(line, z)
      BY <2>1 DEF OnLine
    <2> HIDE DEF m
    <2>5. CASE line = <<"t">>
      <3>1. OnLine.tx = Ok(tx)
        BY <1>3, <2>4, <2>5 DEF Dispatch
      <3>2. ReplyTo(p) = <<"ok">>
        BY <1>3, <1>4, <2>3, <2>5
      <3> QED
        BY <2>2, <3>1, <3>2, SayEmpty DEF Tokens
    <2>6. CASE line = <<"r">>
      <3>1. OnLine.tx = Ok(tx)
        BY <1>3, <2>4, <2>6 DEF Dispatch
      <3>2. ReplyTo(p) = <<"ok">>
        BY <1>3, <1>4, <2>3, <2>6
      <3> QED
        BY <2>2, <3>1, <3>2, SayEmpty DEF Tokens
    <2>7. CASE line # <<"t">> /\ line # <<"r">>
      <3>1. OnLine = [z EXCEPT !.tx = Err(@, "unknown")]
        BY <1>3, <2>4, <2>7 DEF Dispatch
      <3>2. OnLine.tx = Err(tx, "unknown")
        BY <3>1
      <3>3. ReplyTo(p) = <<"err", "unknown">>
        BY <1>3, <1>4, <2>3, <2>7
      <3> QED
        BY <2>2, <3>2, <3>3, SayEmpty DEF Tokens
    <2> QED
      BY <2>5, <2>6, <2>7
  <1> QED
    BY <1>6, <1>7

-----------------------------------------------------------------------------
(* What is pending.                                                        *)

\* The main loop neither takes from what is pending nor puts to it.
LEMMA PendSame ==
    ASSUME main.at # "publish", main'.at # "publish",
           main'.chunk = main.chunk, rx' = rx
    PROVE  Pend' = Pend /\ Copied'
  BY DEF Pend, Copied

LEMMA PendType ==
    ASSUME rx \in Rings, main \in Mains
    PROVE  Pend \in Seq(Cells) /\ Len(Pend) \in Nat /\ Len(rx) <= Len(Pend)
  <1>1. rx \in Seq(Cells) /\ Len(rx) \in Nat /\ main.chunk \in Seq(Cells) /\ Len(main.chunk) \in Nat
    BY LenProperties DEF Rings, Mains
  <1>2. main.chunk \o rx \in Seq(Cells) /\ Len(main.chunk \o rx) = Len(main.chunk) + Len(rx)
    BY <1>1, ConcatProperties
  <1> QED
    BY <1>1, <1>2 DEF Pend

\* A ring that is copied from, and a tail that is published.
LEMMA PendPop ==
    ASSUME rx \in Rings, main \in Mains, ChunkInv, Pop
    PROVE  Pend' = Pend /\ Copied' /\ rx' = rx
  <1>1. /\ main.at = "pop" /\ main.chunk = <<>> /\ rx' = rx
        /\ rx \in Seq(Cells) /\ Len(rx) \in Nat
    BY LenProperties DEF Pop, At, ChunkInv, Rings
  <1>2. Pend = rx
    BY <1>1, ConcatEmptySeq DEF Pend
  <1>3. CASE rx = <<>>
    <2>1. main'.at = "flush" /\ main'.chunk = main.chunk
      BY <1>3 DEF Pop, Mains
    <2> QED
      BY <1>1, <2>1 DEF Pend, Copied
  <1>4. CASE rx # <<>>
    <2> DEFINE n == IF Len(rx) < Chunk THEN Len(rx) ELSE Chunk
               c == SubSeq(rx, 1, n)
    <2>1. main' = [main EXCEPT !.at = "publish", !.chunk = c]
      BY <1>4 DEF Pop
    <2>2. n \in 0 .. Len(rx)
      BY <1>1, Sizes
    <2> HIDE DEF n
    <2>3. Len(c) = n
      BY <1>1, <2>2, Prefix
    <2> HIDE DEF c
    <2>4. main'.at = "publish" /\ main'.chunk = c
      BY <2>1 DEF Mains
    <2>5. Pend' = rx'
      BY <2>4 DEF Pend
    <2>6. Copied'
      BY <1>1, <2>3, <2>4 DEF Copied, c
    <2> QED
      BY <1>1, <1>2, <2>5, <2>6
  <1> QED
    BY <1>3, <1>4

LEMMA PendPublish ==
    ASSUME rx \in Rings, main \in Mains, ChunkInv, Copied, Publish
    PROVE  Pend' = Pend /\ Copied' /\ Len(rx') <= Len(rx)
  <1>1. /\ main.at = "publish" /\ rx \in Seq(Cells) /\ Len(rx) \in Nat
        /\ Len(main.chunk) \in 0 .. Len(rx) /\ main.chunk = SubSeq(rx, 1, Len(main.chunk))
    BY LenProperties DEF Publish, At, ChunkInv, Copied, Rings, Mains
  <1>2. rx' = SubSeq(rx, Len(main.chunk) + 1, Len(rx))
    BY DEF Publish
  <1>3. main'.at = "feed" /\ main'.chunk = main.chunk
    BY DEF Publish, Mains
  <1> DEFINE n == Len(main.chunk)
  <1>4. SubSeq(rx, 1, n) \o SubSeq(rx, n + 1, Len(rx)) = rx
    <2>1. n \in 0 .. Len(rx) /\ 1 \in 1 .. Len(rx) + 1 /\ n \in 1 - 1 .. Len(rx) /\ Len(rx) \in n .. Len(rx)
      BY <1>1
    <2> HIDE DEF n
    <2>2. SubSeq(rx, 1, n) \o SubSeq(rx, n + 1, Len(rx)) = SubSeq(rx, 1, Len(rx))
      BY <1>1, <2>1, ConcatAdjacentSubSeq
    <2> QED
      BY <1>1, <2>2, SubSeqFull
  <1>5. main.chunk \o rx' = rx
    BY <1>1, <1>2, <1>4
  <1>6. Pend = rx /\ Pend' = main.chunk \o rx' /\ Copied'
    BY <1>1, <1>3 DEF Pend, Copied
  <1>7. Len(rx') <= Len(rx)
    BY <1>1, <1>2, Rest
  <1> QED
    BY <1>5, <1>6, <1>7

\* A byte that is fed is the first that is pending.
LEMMA PendFeed ==
    ASSUME rx \in Rings, main \in Mains, ChunkInv, FeedByte
    PROVE  /\ Len(Pend) \in Nat \ {0} /\ Len(Pend') = Len(Pend) - 1 /\ Pend' \in Seq(Cells)
           /\ Pend[1] = main.chunk[1]
           /\ \A i \in 1 .. Len(Pend) - 1 : Pend'[i] = Pend[i + 1]
           /\ Copied' /\ rx' = rx
  <1> DEFINE c == main.chunk
             t == Tail(main.chunk)
  <1>1. /\ main.at = "feed" /\ rx' = rx /\ rx \in Seq(Cells) /\ Len(rx) \in Nat
        /\ c \in Seq(Cells) /\ c # <<>>
    BY LenProperties DEF FeedByte, At, ChunkInv, Rings, Mains
  <1>2. main'.chunk = t /\ main'.at \in {"pop", "feed"}
    BY DEF FeedByte, Mains
  <1>3. /\ t \in Seq(Cells) /\ Len(t) = Len(c) - 1 /\ Len(c) \in Nat \ {0}
        /\ \A i \in 1 .. Len(t) : t[i] = c[i + 1]
    BY <1>1, HeadTailProperties, TailOf
  <1>4. Pend = c \o rx /\ Pend' = t \o rx /\ Copied'
    BY <1>1, <1>2 DEF Pend, Copied
  <1> HIDE DEF c, t
  <1>5. /\ Len(c \o rx) = Len(c) + Len(rx)
        /\ \A i \in 1 .. Len(c) + Len(rx) : (c \o rx)[i] = IF i <= Len(c) THEN c[i] ELSE rx[i - Len(c)]
    BY <1>1, ConcatProperties
  <1>a. t \o rx \in Seq(Cells)
    BY <1>1, <1>3, ConcatProperties
  <1>6. /\ Len(t \o rx) = Len(t) + Len(rx)
        /\ \A i \in 1 .. Len(t) + Len(rx) : (t \o rx)[i] = IF i <= Len(t) THEN t[i] ELSE rx[i - Len(t)]
    BY <1>1, <1>3, ConcatProperties
  <1>7. \A i \in 1 .. Len(t) + Len(rx) : (t \o rx)[i] = (c \o rx)[i + 1]
    <2> SUFFICES ASSUME NEW i \in 1 .. Len(t) + Len(rx) PROVE (t \o rx)[i] = (c \o rx)[i + 1]
      OBVIOUS
    <2>1. CASE i <= Len(t)
      BY <1>1, <1>3, <1>5, <1>6, <2>1
    <2>2. CASE i > Len(t)
      <3>1. i - Len(t) = i + 1 - Len(c)
        BY <1>1, <1>3
      <3> QED
        BY <1>1, <1>3, <1>5, <1>6, <2>2, <3>1
    <2> QED
      BY <1>1, <1>3, <2>1, <2>2
  <1>8. (c \o rx)[1] = c[1]
    BY <1>1, <1>3, <1>5
  <1>9. main.chunk[1] = c[1]
    BY DEF c
  <1> QED
    BY <1>1, <1>3, <1>4, <1>5, <1>a, <1>6, <1>7, <1>8, <1>9

\* A packet that finds room.
LEMMA PendReceive ==
    ASSUME NEW p \in Packets, rx \in Rings, main \in Mains, over \in BOOLEAN, ChunkInv, Copied,
           Receive(p), Len(rx) + Len(p) <= RxCap
    PROVE  /\ Len(Pend') = Len(Pend) + Len(p) /\ Len(rx') = Len(rx) + Len(p)
           /\ \A i \in 1 .. Len(Pend) : Pend'[i] = Pend[i]
           /\ \A i \in 1 .. Len(p) : Pend'[Len(Pend) + i].byte = p[i]
           /\ Copied' /\ over' = over
  <1> DEFINE free == RxCap - Len(rx)
             n    == IF Len(p) > free THEN free ELSE Len(p)
             new  == [i \in 1 .. n |-> [byte |-> p[i], torn |-> i = 1 /\ host.gap]]
  <1>1. /\ rx \in Seq(Cells) /\ Len(rx) \in Nat /\ Len(rx) <= RxCap /\ RxCap \in Nat
        /\ main.chunk \in Seq(Cells) /\ Len(main.chunk) \in Nat /\ main' = main
    BY LenProperties, Sizes DEF Receive, Rings, Mains
  <1>2. Len(p) \in Nat /\ \A i \in 1 .. Len(p) : p[i] \in Bytes
    BY LinkAssumption
  <1>3. n = Len(p) /\ ~(Len(p) > free)
    BY <1>1, <1>2
  <1>a. rx' = rx \o new /\ over' = (over \/ Len(p) > free)
    BY DEF Receive
  <1> HIDE DEF n, free
  <1>4. rx' = rx \o new /\ over' = over
    BY <1>3, <1>a
  <1>5. new \in Seq(Cells) /\ Len(new) = Len(p) /\ \A i \in 1 .. Len(p) : new[i].byte = p[i]
    <2>1. \A i \in 1 .. Len(p) : [byte |-> p[i], torn |-> i = 1 /\ host.gap] \in Cells
      <3> SUFFICES ASSUME NEW i \in 1 .. Len(p)
                   PROVE  [byte |-> p[i], torn |-> i = 1 /\ host.gap] \in Cells
        OBVIOUS
      <3>1. p[i] \in Bytes /\ (i = 1 /\ host.gap) \in BOOLEAN
        BY <1>2
      <3> QED
        BY <3>1 DEF Cells
    <2>2. new \in [1 .. Len(p) -> Cells]
      BY <1>3, <2>1
    <2>3. \A i \in 1 .. Len(p) : new[i].byte = p[i]
      BY <1>3
    <2> HIDE DEF new
    <2>4. new \in Seq(Cells)
      BY <1>2, <2>2, SeqDef
    <2> QED
      BY <1>2, <2>2, <2>3, <2>4, LenProperties
  <1> HIDE DEF new
  <1>6. /\ rx \o new \in Seq(Cells) /\ Len(rx \o new) = Len(rx) + Len(p)
        /\ \A i \in 1 .. Len(rx) + Len(new) :
              (rx \o new)[i] = IF i <= Len(rx) THEN rx[i] ELSE new[i - Len(rx)]
    <2>1. rx \in Seq(Cells) /\ new \in Seq(Cells) /\ Len(new) = Len(p)
      BY <1>1, <1>5
    <2> QED
      <3>1. Len(rx \o new) = Len(rx) + Len(new)
        BY <2>1, ConcatProperties
      <3>2. rx \o new \in Seq(Cells)
        BY <2>1, ConcatProperties
      <3>3. \A i \in 1 .. Len(rx) + Len(new) : (rx \o new)[i] = IF i <= Len(rx) THEN rx[i] ELSE new[i - Len(rx)]
        BY <2>1, ConcatProperties
      <3> QED
        BY <2>1, <3>1, <3>2, <3>3
  <1>7. Pend' = Pend \o new
    <2>1. CASE main.at = "publish"
      BY <1>1, <1>4, <2>1 DEF Pend
    <2>2. CASE main.at # "publish"
      <3>1. Pend = main.chunk \o rx /\ Pend' = main.chunk \o (rx \o new)
        BY <1>1, <1>4, <2>2 DEF Pend
      <3>2. (main.chunk \o rx) \o new = main.chunk \o (rx \o new)
        <4> DEFINE c == main.chunk
        <4>1. c \in Seq(Cells) /\ rx \in Seq(Cells) /\ new \in Seq(Cells)
          BY <1>1, <1>5
        <4> HIDE DEF c
        <4>2. (c \o rx) \o new = c \o (rx \o new)
          BY <4>1, ConcatAssociative
        <4> QED
          BY <4>2 DEF c
      <3> QED
        BY <3>1, <3>2
    <2> QED
      BY <2>1, <2>2
  <1>8. Pend \in Seq(Cells) /\ Len(Pend) \in Nat
    BY PendType
  <1>9. /\ Len(Pend \o new) = Len(Pend) + Len(new)
        /\ \A i \in 1 .. Len(Pend) + Len(new) :
              (Pend \o new)[i] = IF i <= Len(Pend) THEN Pend[i] ELSE new[i - Len(Pend)]
    BY <1>5, <1>8, ConcatProperties
  <1>10. \A i \in 1 .. Len(Pend) : Pend'[i] = Pend[i]
    BY <1>2, <1>5, <1>7, <1>8, <1>9
  <1>11. \A i \in 1 .. Len(p) : Pend'[Len(Pend) + i].byte = p[i]
    <2> SUFFICES ASSUME NEW i \in 1 .. Len(p) PROVE (Pend \o new)[Len(Pend) + i].byte = p[i]
      BY <1>7
    <2>1. (Pend \o new)[Len(Pend) + i] = new[i]
      BY <1>2, <1>5, <1>8, <1>9
    <2> QED
      BY <1>5, <2>1
  <1>12. Copied'
    <2> SUFFICES ASSUME main.at = "publish" PROVE main.chunk = SubSeq(rx', 1, Len(main.chunk))
      BY <1>1 DEF Copied
    <2>1. main.chunk = SubSeq(rx, 1, Len(main.chunk)) /\ Len(main.chunk) <= Len(rx) /\ main.chunk # <<>>
      BY DEF ChunkInv, Copied
    <2>2. Len(main.chunk) \in 1 .. Len(rx) /\ 1 \in 1 .. Len(rx)
      BY <1>1, <2>1, EmptySeq
    <2>3. SubSeq(rx \o new, 1, Len(main.chunk)) = SubSeq(rx, 1, Len(main.chunk))
      BY <1>1, <1>5, <2>2, SubSeqOfConcat1
    <2> QED
      BY <1>4, <2>1, <2>3
  <1> QED
    BY <1>4, <1>5, <1>6, <1>7, <1>9, <1>10, <1>11, <1>12

-----------------------------------------------------------------------------
(* Each action keeps the stage or goes on to the next.                     *)

\* Nothing that a stage speaks of changes.
LEMMA StageSame ==
    ASSUME Stage, Pend' = Pend, asm' = asm, tx'.q = tx.q, usb'.busy = usb.busy,
           host'.line = host.line, host'.awaited = host.awaited, host'.sent = host.sent,
           rx \in Rings, rx' \in Rings, host \in Hosts, Len(rx') <= Len(rx)
    PROVE  Stage'
  <1>1. CASE Resting
    <2>1. Len(rx) \in Nat /\ Len(rx') \in Nat /\ host.sent \in Nat /\ MostBlank \in Nat
      BY LenProperties, BlankRoom DEF Rings, Hosts
    <2>2. Len(rx) <= host.sent * MostBlank
      BY <1>1 DEF Resting
    <2>3. host.sent * MostBlank \in Nat
      BY <2>1
    <2>4. Len(rx') <= host'.sent * MostBlank
      BY <2>1, <2>2, <2>3
    <2> QED
      BY <1>1, <2>4 DEF Stage, Resting, Quiet
  <1>2. CASE Reading
    <2>1. Quiet'
      BY <1>2 DEF Reading, Quiet
    <2>2. PICK p \in Packets : \E k \in 0 .. Len(p) - 1, n \in 0 .. Len(Pend) : ReadingOf(p, k, n)
      BY <1>2 DEF Reading
    <2>3. PICK k \in 0 .. Len(p) - 1, n \in 0 .. Len(Pend) : ReadingOf(p, k, n)
      BY <2>2
    <2>4. ReadingOf(p, k, n)' /\ n \in 0 .. Len(Pend')
      BY <2>3 DEF ReadingOf
    <2> QED
      BY <2>1, <2>4 DEF Stage, Reading
  <1>3. CASE Replying
    BY <1>3 DEF Stage, Replying
  <1> QED
    BY <1>1, <1>2, <1>3 DEF Stage

LEMMA StageFeed ==
    ASSUME IInv, TurnInv, FeedByte
    PROVE  Stage' /\ ~tx'.over
  <1> DEFINE b == main.chunk[1].byte
  <1>1. /\ Len(Pend) \in Nat \ {0} /\ Len(Pend') = Len(Pend) - 1 /\ Pend' \in Seq(Cells)
        /\ Pend[1].byte = b /\ rx' = rx
        /\ \A i \in 1 .. Len(Pend) - 1 : Pend'[i] = Pend[i + 1]
    BY PendFeed DEF IInv
  <1>2. Feed(b) /\ usb' = usb /\ host' = host
    BY DEF FeedByte
  <1> HIDE DEF b
  <1>3. tx \in Fifos /\ asm \in Asms /\ ~tx.over /\ host \in Hosts
    BY DEF IInv, TurnInv
  <1>4. CASE Resting
    <2>1. asm = NewLine /\ Blank(Pend, Len(Pend)) /\ Quiet /\ host.awaited = <<>>
            /\ Len(rx) <= host.sent * MostBlank
      BY <1>4 DEF Resting
    <2>2. b \in {"cr", "nl"}
      <3>1. 1 \in 1 .. Len(Pend)
        BY <1>1
      <3> QED
        BY <1>1, <2>1, <3>1 DEF Blank
    <2>3. asm' = NewLine /\ tx' = tx
      BY <1>2, <2>1, <2>2, FeedBlank
    <2>4. Blank(Pend', Len(Pend'))
      <3> SUFFICES ASSUME NEW i \in 1 .. Len(Pend) - 1 PROVE Pend'[i].byte \in {"cr", "nl"}
        BY <1>1 DEF Blank
      <3>1. i + 1 \in 1 .. Len(Pend)
        BY <1>1
      <3> QED
        BY <1>1, <2>1, <3>1 DEF Blank
    <2>5. Quiet'
      BY <1>2, <2>1, <2>3 DEF Quiet
    <2> QED
      BY <1>1, <1>2, <1>3, <2>1, <2>3, <2>4, <2>5 DEF Stage, Resting
  <1>5. CASE Reading
    <2>1. PICK p \in Packets : \E k \in 0 .. Len(p) - 1, n \in 0 .. Len(Pend) : ReadingOf(p, k, n)
      BY <1>5 DEF Reading
    <2>2. PICK k \in 0 .. Len(p) - 1, n \in 0 .. Len(Pend) : ReadingOf(p, k, n)
      BY <2>1
    <2>3. /\ Len(Pend) = n + Len(p) - k /\ Blank(Pend, n)
          /\ \A i \in 1 .. Len(p) - k : Pend[n + i].byte = p[k + i]
          /\ (n > 0 => k = 0) /\ Assembled(asm, p, k)
          /\ host.awaited = ReplyTo(p) /\ ReplyTo(p) # <<>>
      BY <2>2 DEF ReadingOf, Holds
    <2>4. Len(p) \in Nat /\ Len(p) > 0 /\ p[Len(p)] = "nl" /\ k \in Nat /\ n \in Nat
      BY <1>1, LineShape
    <2>5. Quiet
      BY <1>5 DEF Reading
    <2>6. CASE n > 0
      <3>1. asm = NewLine
        <4>1. SubSeq(p, 1, 0) = <<>>
          BY SubSeqEmpty
        <4>2. asm.line = <<>> /\ asm.swallow = FALSE
          BY <1>3, <2>3, <2>6, <4>1, LineShape, Sizes DEF Assembled, Asms
        <4> QED
          BY <1>3, <4>2 DEF Asms, NewLine
      <3>2. b \in {"cr", "nl"}
        <4>1. 1 \in 1 .. n
          BY <2>4, <2>6
        <4> QED
          BY <1>1, <2>3, <4>1 DEF Blank
      <3>3. asm' = NewLine /\ tx' = tx
        BY <1>2, <3>1, <3>2, FeedBlank
      <3>4. Quiet'
        BY <1>2, <2>5, <3>3 DEF Quiet
      <3>5. Holds(Pend', n - 1, p, 0)
        <4>1. Len(Pend') = n - 1 + Len(p) - 0
          BY <1>1, <2>3, <2>4, <2>6
        <4>2. Blank(Pend', n - 1)
          <5> SUFFICES ASSUME NEW i \in 1 .. n - 1 PROVE Pend'[i].byte \in {"cr", "nl"}
            BY DEF Blank
          <5>1. i + 1 \in 1 .. n /\ i \in 1 .. Len(Pend) - 1
            BY <2>3, <2>4, <2>6
          <5> QED
            BY <1>1, <2>3, <5>1 DEF Blank
        <4>3. ASSUME NEW i \in 1 .. Len(p) - 0 PROVE Pend'[n - 1 + i].byte = p[0 + i]
          <5>1. n - 1 + i \in 1 .. Len(Pend) - 1 /\ n - 1 + i + 1 = n + i /\ i \in 1 .. Len(p) - k /\ 0 + i = k + i
            BY <2>3, <2>4, <2>6
          <5>2. Pend'[n - 1 + i] = Pend[n + i]
            BY <1>1, <5>1
          <5> QED
            BY <2>3, <5>1, <5>2
        <4> QED
          BY <4>1, <4>2, <4>3 DEF Holds
      <3>6. ReadingOf(p, 0, n - 1)'
        BY <1>2, <2>3, <3>3, <3>5, AssembledNothing DEF ReadingOf
      <3>7. 0 \in 0 .. Len(p) - 1 /\ n - 1 \in 0 .. Len(Pend')
        BY <1>1, <2>3, <2>4, <2>6
      <3> QED
        BY <1>3, <3>3, <3>4, <3>6, <3>7 DEF Stage, Reading
    <2>7. CASE n = 0 /\ k + 1 < Len(p)
      <3>1. b = p[k + 1]
        <4>1. 1 \in 1 .. Len(p) - k /\ n + 1 = 1
          BY <2>4, <2>7
        <4> QED
          BY <1>1, <2>3, <4>1
      <3>2. Assembled(asm', p, k + 1) /\ tx' = tx
        BY <1>2, <1>3, <2>3, <2>4, <2>7, <3>1, FeedLine
      <3>3. Quiet'
        BY <1>2, <2>5, <3>2 DEF Quiet
      <3>4. Holds(Pend', 0, p, k + 1)
        <4>1. Len(Pend') = 0 + Len(p) - (k + 1)
          BY <1>1, <2>3, <2>4, <2>7
        <4>2. Blank(Pend', 0)
          BY DEF Blank
        <4>3. ASSUME NEW i \in 1 .. Len(p) - (k + 1) PROVE Pend'[0 + i].byte = p[k + 1 + i]
          <5>1. /\ i \in 1 .. Len(Pend) - 1 /\ i + 1 \in 1 .. Len(p) - k
                /\ 0 + i = i /\ n + (i + 1) = i + 1 /\ k + (i + 1) = k + 1 + i
            BY <2>3, <2>4, <2>7
          <5>2. Pend'[i] = Pend[i + 1] /\ Pend[n + (i + 1)].byte = p[k + (i + 1)]
            BY <1>1, <2>3, <5>1
          <5> QED
            BY <5>1, <5>2
        <4> QED
          BY <4>1, <4>2, <4>3 DEF Holds
      <3>5. ReadingOf(p, k + 1, 0)'
        BY <1>2, <2>3, <3>2, <3>4 DEF ReadingOf
      <3>6. k + 1 \in 0 .. Len(p) - 1 /\ 0 \in 0 .. Len(Pend')
        BY <1>1, <2>4, <2>7
      <3> QED
        BY <1>3, <3>2, <3>3, <3>5, <3>6 DEF Stage, Reading
    <2>8. CASE n = 0 /\ k + 1 = Len(p)
      <3>1. b = "nl"
        <4>1. 1 \in 1 .. Len(p) - k /\ n + 1 = 1
          BY <2>4, <2>8
        <4> QED
          BY <1>1, <2>3, <2>4, <2>8, <4>1
      <3>2. tx.q = <<>> /\ k = Len(p) - 1
        BY <2>4, <2>5, <2>8 DEF Quiet
      <3>3. asm' = NewLine /\ tx'.q = ReplyTo(p) \o <<"nl">> /\ ~tx'.over
        BY <1>2, <1>3, <2>3, <3>1, <3>2, FeedEnd
      <3>4. Pend' = <<>>
        <4>1. Len(Pend') = 0
          BY <1>1, <2>3, <2>4, <2>8
        <4> QED
          BY <1>1, <4>1, EmptySeq
      <3>5. host'.awaited \in Replies
        BY <1>2, <2>3, ReplyOf
      <3>6. (host'.line \o usb'.busy.bytes) \o tx'.q = host'.awaited \o <<"nl">>
        <4>1. host.line = <<>> /\ usb.busy.bytes = <<>>
          BY <2>5 DEF Quiet, Idle
        <4>2. <<>> \o <<>> = <<>>
          BY ConcatEmptySeq, EmptySeq
        <4>3. ReplyTo(p) \o <<"nl">> \in Seq(Tokens)
          BY <1>2, <2>3, <3>5, Words
        <4> QED
          BY <1>2, <2>3, <3>3, <4>1, <4>2, <4>3, ConcatEmptySeq
      <3> QED
        BY <3>3, <3>4, <3>5, <3>6 DEF Stage, Replying
    <2> QED
      BY <2>4, <2>6, <2>7, <2>8
  <1>6. CASE Replying
    BY <1>1, <1>6, EmptySeq DEF Replying
  <1> QED
    BY <1>4, <1>5, <1>6 DEF TurnInv, Stage

\* A packet is staged, or waits for the one before it.
LEMMA StageFlush ==
    ASSUME IInv, TurnInv, Flush, rx' \in Rings
    PROVE  Stage' /\ (tx'.over <=> tx.over) /\ Copied'
  <1> DEFINE n == IF Len(tx.q) < Scratch THEN Len(tx.q) ELSE Scratch
             p == SubSeq(tx.q, 1, n)
             rest == SubSeq(tx.q, n + 1, Len(tx.q))
  <1>1. /\ tx \in Fifos /\ tx.q \in Seq(Tokens) /\ Len(tx.q) \in Nat
        /\ rx \in Rings /\ main \in Mains /\ host \in Hosts /\ usb \in Usbs /\ Stage
    BY LenProperties DEF IInv, TurnInv, Fifos
  <1>2. n \in 0 .. Len(tx.q)
    BY <1>1, Sizes
  <1>3. UNCHANGED <<rx, asm, host>> /\ Pend' = Pend /\ Copied'
    <2>1. main.at # "publish" /\ main'.at # "publish" /\ main'.chunk = main.chunk /\ rx' = rx
      BY <1>1 DEF Flush, At, Mains
    <2> QED
      BY <2>1, PendSame DEF Flush
  <1>4. CASE ~(n > 0 /\ usb.busy = Idle)
    <2>1. tx' = tx /\ usb' = IF n > 0 THEN [usb EXCEPT !.scratch[usb.slot] = p] ELSE usb
      BY <1>4 DEF Flush
    <2>2. usb'.busy = usb.busy
      BY <1>1, <2>1 DEF Usbs
    <2>3. Len(rx') <= Len(rx)
      BY <1>1, <1>3, LenProperties DEF Rings
    <2> QED
      BY <1>1, <1>3, <2>1, <2>2, <2>3, StageSame
  <1>5. CASE n > 0 /\ usb.busy = Idle
    <2>1. /\ usb' = [busy |-> [slot |-> usb.slot, bytes |-> p],
                     scratch |-> [usb.scratch EXCEPT ![usb.slot] = p],
                     slot |-> Other(usb.slot)]
          /\ tx' = [tx EXCEPT !.q = SubSeq(@, n + 1, Len(@))]
      BY <1>5 DEF Flush
    <2>2. usb'.busy.bytes = p /\ tx'.q = rest /\ tx'.over = tx.over
      BY <1>1, <2>1 DEF Fifos
    <2>3. tx.q # <<>>
      BY <1>2, <1>5, EmptySeq
    <2>4. host.awaited \in Replies /\ Pend = <<>> /\ asm = NewLine
            /\ (host.line \o usb.busy.bytes) \o tx.q = host.awaited \o <<"nl">>
      BY <1>1, <2>3 DEF Stage, Resting, Reading, Quiet, Replying
    <2>5. usb.busy.bytes = <<>>
      BY <1>5 DEF Idle
    <2> HIDE DEF n
    <2>6. p \in Seq(Tokens) /\ rest \in Seq(Tokens) /\ p \o rest = tx.q
      <3>1. p \in Seq(Tokens) /\ rest \in Seq(Tokens)
        BY <1>1, <1>2, Prefix, Rest
      <3>2. 1 \in 1 .. Len(tx.q) + 1 /\ n \in 1 - 1 .. Len(tx.q) /\ Len(tx.q) \in n .. Len(tx.q)
        BY <1>1, <1>2
      <3>3. p \o rest = SubSeq(tx.q, 1, Len(tx.q))
        BY <1>1, <3>2, ConcatAdjacentSubSeq
      <3> QED
        BY <1>1, <3>1, <3>3, SubSeqFull
    <2> DEFINE l == host.line
    <2>7. l \in Seq(Tokens)
      BY <1>1 DEF Hosts
    <2> HIDE DEF p, rest, l
    <2>8. (l \o p) \o rest = l \o (p \o rest)
      <3>1. l \in Seq(Tokens) /\ p \in Seq(Tokens) /\ rest \in Seq(Tokens)
        BY <2>6, <2>7
      <3> QED
        BY <3>1, ConcatAssociative
    <2>9. l \o <<>> = l
      BY <2>7, ConcatEmptySeq
    <2>10. (l \o p) \o rest = host.awaited \o <<"nl">>
      BY <2>4, <2>5, <2>6, <2>8, <2>9 DEF l
    <2>11. (host'.line \o usb'.busy.bytes) \o tx'.q = host'.awaited \o <<"nl">>
      BY <1>3, <2>2, <2>10 DEF l
    <2>12. Replying'
      BY <1>3, <2>4, <2>11 DEF Replying
    <2> QED
      BY <1>3, <2>2, <2>12 DEF Stage
  <1> QED
    BY <1>4, <1>5

(* What the host makes of a packet of the reply: a part of a line, or the   *)
(* whole of the reply it waits for.                                         *)
LEMMA HearReply ==
    ASSUME NEW h \in Hosts, h.awaited \in Replies, h.garbled = FALSE,
           NEW packet \in Seq(Tokens), NEW q \in Seq(Tokens),
           (h.line \o packet) \o q = h.awaited \o <<"nl">>
    PROVE  /\ Hear(h, packet) \in Hosts /\ Hear(h, packet).garbled = FALSE
           /\ Hear(h, packet).sent = h.sent
           /\ \/ /\ Hear(h, packet).line = h.line \o packet
                 /\ Hear(h, packet).awaited = h.awaited
              \/ /\ q = <<>> /\ Hear(h, packet).line = <<>>
                 /\ Hear(h, packet).awaited = <<>>
  <1> DEFINE text == h.line \o packet
             r    == h.awaited
             whole == r \o <<"nl">>
             z    == Hear(h, packet)
  <1>1. text \in Seq(Tokens) /\ Len(text) \in Nat /\ Len(q) \in Nat /\ SubSeq(text, 1, Len(text)) = text
    <2>1. h.line \in Seq(Tokens)
      BY DEF Hosts
    <2>2. text \in Seq(Tokens)
      BY <2>1, ConcatProperties
    <2> HIDE DEF text
    <2> QED
      BY <2>2, LenProperties, SubSeqFull
  <1>2. /\ r \in Seq(Tokens) /\ Len(r) \in Nat /\ Len(r) > 0
        /\ \A i \in 1 .. Len(r) : r[i] # "nl"
        /\ whole \in Seq(Tokens) /\ Len(whole) = Len(r) + 1
        /\ \A i \in 1 .. Len(r) : whole[i] = r[i]
        /\ whole[Len(r) + 1] = "nl"
    BY Words
  <1>3. z = [h EXCEPT !.line = SubSeq(text, EndBefore(text, Len(text) + 1) + 1, Len(text)),
                      !.awaited = IF Ends(text) = {} THEN @ ELSE <<>>,
                      !.garbled = @ \/ \E i \in Ends(text) : Wrong(h, text, i)]
    BY DEF Hear
  <1>4. text \o q = whole
    OBVIOUS
  <1> HIDE DEF text, whole, z, r
  <1>5. /\ Len(text) + Len(q) = Len(r) + 1
        /\ \A i \in 1 .. Len(text) : text[i] = whole[i]
    <2>1. Len(text \o q) = Len(text) + Len(q)
      BY <1>1, ConcatProperties
    <2>2. \A i \in 1 .. Len(text) + Len(q) : (text \o q)[i] = IF i <= Len(text) THEN text[i] ELSE q[i - Len(text)]
      BY <1>1, ConcatProperties
    <2>3. Len(text) + Len(q) = Len(r) + 1
      BY <1>2, <1>4, <2>1
    <2>4. ASSUME NEW i \in 1 .. Len(text) PROVE text[i] = whole[i]
      BY <1>1, <1>4, <2>2, <2>4
    <2> QED
      BY <2>3, <2>4
  <1>6. CASE Len(text) <= Len(r)
    <2>1. Ends(text) = {}
      <3> SUFFICES ASSUME NEW i \in 1 .. Len(text) PROVE text[i] # "nl"
        BY DEF Ends
      <3>1. i \in 1 .. Len(r)
        BY <1>1, <1>2, <1>6
      <3>2. text[i] = whole[i]
        BY <1>5
      <3> QED
        BY <1>2, <3>1, <3>2
    <2>2. EndBefore(text, Len(text) + 1) = 0
      BY <2>1 DEF EndBefore
    <2>3. z.line = text /\ z.awaited = r /\ z.garbled = FALSE /\ z.sent = h.sent /\ z \in Hosts
      <3>1. z = [h EXCEPT !.line = text, !.awaited = r, !.garbled = FALSE]
        <4>1. ~ \E i \in Ends(text) : Wrong(h, text, i)
          BY <2>1
        <4>2. SubSeq(text, EndBefore(text, Len(text) + 1) + 1, Len(text)) = text
          BY <1>1, <2>2
        <4> QED
          BY <1>3, <2>1, <4>1, <4>2 DEF r
      <3> QED
        BY <1>1, <3>1 DEF Hosts, r
    <2> QED
      BY <2>3 DEF text, z, r
  <1>7. CASE Len(text) > Len(r)
    <2>1. Len(text) = Len(r) + 1 /\ Len(q) = 0
      <3>1. Len(text) \in Nat /\ Len(q) \in Nat /\ Len(r) \in Nat
        BY <1>1, <1>2
      <3>2. Len(text) + Len(q) = Len(r) + 1
        BY <1>5
      <3> QED
        BY <1>7, <3>1, <3>2
    <2>2. q = <<>>
      BY <2>1, EmptySeq
    <2> DEFINE last == Len(text)
    <2>3. last \in Nat /\ last = Len(r) + 1 /\ text[last] = "nl" /\ \A i \in 1 .. last - 1 : text[i] # "nl"
      BY <1>1, <1>2, <1>5, <2>1
    <2>4. Ends(text) = {last}
      BY <2>3, <1>2 DEF Ends
    <2>5. EndBefore(text, last + 1) = last
      <3>1. {j \in Ends(text) : j < last + 1} = {last}
        BY <2>3, <2>4
      <3>2. Max({last}) = last
        BY <2>3 DEF Max
      <3> QED
        BY <3>1, <3>2 DEF EndBefore
    <2>6. EndBefore(text, last) = 0
      <3>1. {j \in Ends(text) : j < last} = {}
        BY <2>3, <2>4
      <3> QED
        BY <3>1 DEF EndBefore
    <2>7. LineTo(text, last) = r
      <3>1. text = r \o <<"nl">>
        BY <1>1, <1>4, <2>2, ConcatEmptySeq DEF whole, r
      <3>2. LineTo(text, last) = SubSeq(text, 1, Len(r))
        BY <1>2, <2>3, <2>6 DEF LineTo
      <3>3. SubSeq(r \o <<"nl">>, 1, Len(r)) = SubSeq(r, 1, Len(r))
        <4>1. <<"nl">> \in Seq(Tokens)
          BY DEF Tokens
        <4>2. 1 \in 1 .. Len(r) /\ Len(r) \in 1 .. Len(r)
          BY <1>2
        <4> QED
          BY <1>2, <4>1, <4>2, SubSeqOfConcat1
      <3>4. SubSeq(r, 1, Len(r)) = r
        BY <1>2, SubSeqFull
      <3> QED
        BY <3>1, <3>2, <3>3, <3>4
    <2>8. ~Wrong(h, text, last)
      BY <2>6, <2>7 DEF Wrong, r
    <2>9. z = [h EXCEPT !.line = <<>>, !.awaited = <<>>, !.garbled = FALSE]
      <3>1. ~ \E i \in Ends(text) : Wrong(h, text, i)
        BY <2>4, <2>8
      <3>2. SubSeq(text, EndBefore(text, Len(text) + 1) + 1, Len(text)) = <<>>
        BY <2>3, <2>5, SubSeqEmpty
      <3> QED
        BY <1>3, <2>4, <3>1, <3>2
    <2>10. z.line = <<>> /\ z.awaited = <<>> /\ z.garbled = FALSE /\ z.sent = h.sent /\ z \in Hosts
      <3>1. <<>> \in Seq(Tokens)
        OBVIOUS
      <3> QED
        BY <2>9, <3>1 DEF Hosts
    <2> QED
      BY <2>2, <2>10 DEF z
  <1>8. Len(text) <= Len(r) \/ Len(text) > Len(r)
    BY <1>1, <1>2
  <1> QED
    BY <1>6, <1>7, <1>8, Zenon

LEMMA StageSent ==
    ASSUME IInv, TurnInv, Sent
    PROVE  Stage' /\ host' \in Hosts /\ host'.garbled = FALSE /\ Copied'
  <1> DEFINE bytes == usb.busy.bytes
  <1>1. /\ usb.busy # Idle /\ bytes = usb.scratch[usb.busy.slot] /\ bytes \in Seq(Tokens)
        /\ tx.q \in Seq(Tokens) /\ host \in Hosts /\ host.garbled = FALSE
    BY DEF Sent, IInv, TurnInv, FlightInv, Usbs, Fifos, Hosts
  <1>2. host' = Hear(host, bytes) /\ UNCHANGED <<rx, over, asm, main, tx, mode>>
    BY <1>1 DEF Sent
  <1>3. usb'.busy = Idle
    BY DEF Sent, IInv, Usbs
  <1>4. Pend' = Pend /\ Copied'
    BY <1>2 DEF Pend, TurnInv, Copied
  <1>5. /\ host.awaited \in Replies /\ Pend = <<>> /\ asm = NewLine
        /\ (host.line \o bytes) \o tx.q = host.awaited \o <<"nl">>
    BY <1>1 DEF TurnInv, Stage, Resting, Reading, Quiet, Replying
  <1> HIDE DEF bytes
  <1>6. /\ host' \in Hosts /\ host'.garbled = FALSE /\ host'.sent = host.sent
        /\ \/ host'.line = host.line \o bytes /\ host'.awaited = host.awaited
           \/ tx.q = <<>> /\ host'.line = <<>> /\ host'.awaited = <<>>
    BY <1>1, <1>2, <1>5, HearReply
  <1>7. CASE host'.line = host.line \o bytes /\ host'.awaited = host.awaited
    <2> DEFINE t == host.line \o bytes
    <2>1. t \in Seq(Tokens)
      BY <1>1, ConcatProperties DEF Hosts
    <2>2. usb'.busy.bytes = <<>>
      BY <1>3 DEF Idle
    <2>3. host'.line = t /\ host'.line \o usb'.busy.bytes = t
      <3> HIDE DEF t
      <3>1. t \o <<>> = t
        BY <2>1, ConcatEmptySeq
      <3> QED
        BY <1>7, <2>2, <3>1 DEF t
    <2>4. (host'.line \o usb'.busy.bytes) \o tx'.q = host'.awaited \o <<"nl">>
      BY <1>2, <1>5, <1>7, <2>3
    <2>5. Replying'
      BY <1>2, <1>4, <1>5, <1>7, <2>4 DEF Replying
    <2> QED
      BY <1>4, <1>6, <2>5 DEF Stage
  <1>8. CASE tx.q = <<>> /\ host'.line = <<>> /\ host'.awaited = <<>>
    <2>1. Quiet' /\ asm' = NewLine /\ Pend' = <<>>
      BY <1>2, <1>3, <1>4, <1>5, <1>8 DEF Quiet
    <2>2. Len(Pend') = 0 /\ Blank(Pend', Len(Pend'))
      BY <2>1, EmptySeq DEF Blank
    <2>3. Len(rx') = 0
      <3>1. Len(rx) <= Len(Pend) /\ Len(Pend) = 0
        BY <1>5, EmptySeq, PendType DEF IInv
      <3>2. Len(rx) \in Nat
        BY LenProperties DEF IInv, Rings
      <3> QED
        BY <1>2, <3>1, <3>2
    <2>4. Len(rx') <= host'.sent * MostBlank
      <3>1. host'.sent \in Nat /\ MostBlank \in Nat
        BY <1>6, BlankRoom DEF Hosts
      <3>2. host'.sent * MostBlank \in Nat
        BY <3>1
      <3> QED
        BY <2>3, <3>2
    <2> QED
      BY <1>4, <1>6, <1>8, <2>1, <2>2, <2>4 DEF Stage, Resting
  <1> QED
    BY <1>6, <1>7, <1>8

LEMMA StageReceive ==
    ASSUME IInv, TurnInv, NEW p \in Packets, Receive(p)
    PROVE  /\ Stage' /\ over' = over /\ Copied'
           /\ host' \in Hosts /\ host'.garbled = FALSE
  <1>1. /\ rx \in Rings /\ main \in Mains /\ over \in BOOLEAN /\ ChunkInv /\ Copied
        /\ host \in Hosts /\ host.garbled = FALSE /\ Len(rx) \in Nat
    BY LenProperties DEF IInv, TurnInv, Rings, Hosts
  <1>2. host.awaited = <<>> /\ host.sent < MaxSent /\ UNCHANGED <<asm, main, tx, usb, mode>>
    BY TurnsAssumption DEF Receive
  <1>3. Resting
    <2>1. <<>> \notin Replies
      BY Words
    <2> QED
      BY <1>2, <2>1 DEF TurnInv, Stage, Reading, ReadingOf, Replying
  <1>4. Quiet /\ asm = NewLine /\ Blank(Pend, Len(Pend)) /\ Len(rx) <= host.sent * MostBlank
    BY <1>3 DEF Resting
  <1> DEFINE room == host.sent * MostBlank
  <1>5. /\ Len(p) \in Nat /\ host.sent \in Nat /\ MostBlank \in Nat /\ MaxSent \in Nat
        /\ Body(p) = 0 => Len(p) <= MostBlank
        /\ MaxSent * MostBlank + Len(p) <= RxCap
    BY <1>1, BlankRoom, LineShape DEF Hosts
  <1>6. room \in Nat /\ room + MostBlank = (host.sent + 1) * MostBlank /\ room <= MaxSent * MostBlank
    <2>1. \A a, b, c \in Nat : a < c => a * b \in Nat /\ a * b + b = (a + 1) * b /\ a * b <= c * b
      OBVIOUS
    <2> QED
      BY <1>2, <1>5, <2>1
  <1> HIDE DEF room
  <1>7. Len(rx) + Len(p) <= RxCap
    <2>1. MaxSent * MostBlank \in Nat /\ Len(rx) <= room
      BY <1>4, <1>5 DEF room
    <2> QED
      BY <1>1, <1>5, <1>6, <2>1, Sizes
  <1>8. /\ Len(Pend') = Len(Pend) + Len(p) /\ Len(rx') = Len(rx) + Len(p)
        /\ \A i \in 1 .. Len(Pend) : Pend'[i] = Pend[i]
        /\ \A i \in 1 .. Len(p) : Pend'[Len(Pend) + i].byte = p[i]
        /\ Copied' /\ over' = over
    BY <1>1, <1>7, PendReceive
  <1>9. /\ host'.line = host.line /\ host'.awaited = ReplyTo(p) /\ host'.sent = host.sent + 1
        /\ host'.garbled = FALSE /\ host' \in Hosts
    <2> DEFINE gap    == Len(p) > RxCap - Len(rx)
                           \/ (host.gap /\ (IF Len(p) > RxCap - Len(rx) THEN RxCap - Len(rx) ELSE Len(p)) = 0)
               untold == host.untold \/ Len(p) > RxCap - Len(rx)
    <2>1. host' = [host EXCEPT !.sent = @ + 1, !.awaited = ReplyTo(p), !.gap = gap, !.untold = untold]
      BY TurnsAssumption DEF Receive
    <2>2. gap \in BOOLEAN /\ untold \in BOOLEAN /\ ReplyTo(p) \in {<<>>} \cup Replies
      BY ReplyOf
    <2> HIDE DEF gap, untold
    <2>3. host.sent + 1 \in Nat
      BY <1>5
    <2> QED
      BY <1>1, <2>1, <2>2, <2>3 DEF Hosts
  <1>10. Quiet' /\ asm' = NewLine
    BY <1>2, <1>4, <1>9 DEF Quiet
  <1>11. Len(Pend) \in Nat
    BY <1>1, PendType
  <1>12. ASSUME NEW i \in 1 .. Len(Pend) PROVE Pend'[i].byte \in {"cr", "nl"}
    BY <1>4, <1>8, <1>12 DEF Blank
  <1>13. CASE Body(p) = 0
    <2>1. host'.awaited = <<>>
      BY <1>9, <1>13, ReplyOf
    <2>2. Blank(Pend', Len(Pend'))
      <3> SUFFICES ASSUME NEW i \in 1 .. Len(Pend) + Len(p) PROVE Pend'[i].byte \in {"cr", "nl"}
        BY <1>8 DEF Blank
      <3>1. CASE i <= Len(Pend)
        BY <1>11, <1>12, <3>1
      <3>2. CASE i > Len(Pend)
        <4>1. i - Len(Pend) \in 1 .. Len(p) /\ Len(Pend) + (i - Len(Pend)) = i
          BY <1>5, <1>11, <3>2
        <4>2. Pend'[i].byte = p[i - Len(Pend)]
          BY <1>8, <4>1
        <4>3. p[i - Len(Pend)] \in {"cr", "nl"}
          BY <1>13, <4>1, LineEnd
        <4> QED
          BY <4>2, <4>3
      <3> QED
        BY <1>11, <3>1, <3>2
    <2>3. Len(rx') <= host'.sent * MostBlank
      <3>1. Len(rx) <= room /\ host'.sent * MostBlank = room + MostBlank
        BY <1>4, <1>6, <1>9 DEF room
      <3> QED
        BY <1>1, <1>5, <1>6, <1>8, <1>13, <3>1
    <2> QED
      BY <1>8, <1>9, <1>10, <2>1, <2>2, <2>3 DEF Stage, Resting
  <1>14. CASE Body(p) # 0
    <2>1. ReplyTo(p) # <<>>
      BY <1>14, ReplyOf
    <2>2. PICK n \in Nat : n = Len(Pend)
      BY <1>11
    <2>3. Holds(Pend', n, p, 0)
      <3>1. Len(Pend') = n + Len(p) - 0
        BY <1>5, <1>8, <2>2
      <3>2. Blank(Pend', n)
        BY <1>12, <2>2 DEF Blank
      <3>3. ASSUME NEW i \in 1 .. Len(p) - 0 PROVE Pend'[n + i].byte = p[0 + i]
        BY <1>5, <1>8, <2>2
      <3> QED
        BY <3>1, <3>2, <3>3 DEF Holds
    <2>4. ReadingOf(p, 0, n)'
      BY <1>9, <1>10, <2>1, <2>3, AssembledNothing DEF ReadingOf
    <2>5. 0 \in 0 .. Len(p) - 1 /\ n \in 0 .. Len(Pend')
      BY <1>5, <1>8, <2>2, LineShape
    <2> QED
      BY <1>8, <1>9, <1>10, <2>4, <2>5 DEF Stage, Reading
  <1> QED
    BY <1>13, <1>14

LEMMA InitTurnInv == Init => TurnInv
  <1> SUFFICES ASSUME Init PROVE TurnInv
    OBVIOUS
  <1> USE DEF Init
  <1>1. host \in Hosts
    <2>1. <<>> \in Seq(Tokens)
      OBVIOUS
    <2> QED
      BY <2>1 DEF Hosts
  <1>2. Pend = <<>> /\ Copied
    BY ConcatEmptySeq, EmptySeq DEF Pend, Copied
  <1>3. Len(rx) <= host.sent * MostBlank
    <2>1. Len(rx) = 0 /\ host.sent = 0
      BY EmptySeq
    <2> QED
      BY <2>1, BlankRoom
  <1>4. Blank(Pend, Len(Pend))
    BY <1>2, EmptySeq DEF Blank
  <1> QED
    BY <1>1, <1>2, <1>3, <1>4 DEF TurnInv, Stage, Resting, Quiet

LEMMA NextTurnInv == IInv /\ TurnInv /\ [Next]_vars => TurnInv'
  <1> SUFFICES ASSUME IInv, TurnInv, [Next]_vars PROVE TurnInv'
    OBVIOUS
  <1>1. rx' \in Rings
    BY NextIInv DEF IInv
  <1>2. /\ rx \in Rings /\ main \in Mains /\ tx \in Fifos /\ ChunkInv /\ Len(rx) \in Nat
        /\ host \in Hosts /\ ~host.garbled /\ ~over /\ ~main.over /\ ~tx.over /\ Copied /\ Stage
    BY LenProperties DEF IInv, TurnInv, Rings
  <1>3. CASE ReadOverflow
    <2>1. /\ main' = [main EXCEPT !.at = "clear", !.over = over] /\ main.at = "read"
          /\ UNCHANGED <<rx, over, asm, tx, usb, mode, host>>
      BY <1>3 DEF ReadOverflow, At
    <2>2. main'.at = "clear" /\ main'.chunk = main.chunk /\ ~main'.over
      BY <1>2, <2>1 DEF Mains
    <2>3. Pend' = Pend /\ Copied'
      BY <2>1, <2>2, PendSame
    <2>4. Stage'
      BY <1>1, <1>2, <2>1, <2>3, StageSame
    <2> QED
      BY <1>2, <2>1, <2>2, <2>3, <2>4 DEF TurnInv
  <1>4. CASE ClearOverflow
    <2>1. /\ main' = [main EXCEPT !.at = "pop"] /\ main.at = "clear" /\ over' = FALSE
          /\ tx' = Told(tx) /\ host' = [host EXCEPT !.untold = @ /\ ~main.over]
          /\ UNCHANGED <<rx, asm, usb>>
      BY <1>4 DEF ClearOverflow, At
    <2>2. main'.at = "pop" /\ main'.chunk = main.chunk /\ ~main'.over
      BY <1>2, <2>1 DEF Mains
    <2>3. Pend' = Pend /\ Copied'
      BY <2>1, <2>2, PendSame
    <2>4. tx' = tx
      BY <1>2, <2>1, ToldNothing
    <2>5. /\ host'.line = host.line /\ host'.awaited = host.awaited /\ host'.sent = host.sent
          /\ host'.garbled = host.garbled /\ host' \in Hosts
      <3> DEFINE untold == host.untold /\ ~main.over
      <3>1. untold \in BOOLEAN /\ host' = [host EXCEPT !.untold = untold]
        BY <2>1
      <3> HIDE DEF untold
      <3> QED
        BY <1>2, <3>1 DEF Hosts
    <2>6. Stage'
      BY <1>1, <1>2, <2>1, <2>3, <2>4, <2>5, StageSame
    <2> QED
      BY <1>2, <2>1, <2>2, <2>3, <2>4, <2>5, <2>6 DEF TurnInv
  <1>5. CASE Pop
    <2>1. Pend' = Pend /\ Copied' /\ rx' = rx
      BY <1>2, <1>5, PendPop
    <2>2. UNCHANGED <<over, asm, tx, usb, mode, host>> /\ main'.over = main.over
      BY <1>2, <1>5 DEF Pop, Mains
    <2>3. Stage'
      BY <1>1, <1>2, <2>1, <2>2, StageSame
    <2> QED
      BY <1>2, <2>1, <2>2, <2>3 DEF TurnInv
  <1>6. CASE Publish
    <2>1. Pend' = Pend /\ Copied' /\ Len(rx') <= Len(rx)
      BY <1>2, <1>6, PendPublish
    <2>2. UNCHANGED <<over, asm, tx, usb, mode, host>> /\ main'.over = main.over
      BY <1>2, <1>6 DEF Publish, Mains
    <2>3. Stage'
      BY <1>1, <1>2, <2>1, <2>2, StageSame
    <2> QED
      BY <1>2, <2>1, <2>2, <2>3 DEF TurnInv
  <1>7. CASE FeedByte
    <2>1. Stage' /\ ~tx'.over
      BY <1>7, StageFeed
    <2>2. Copied'
      BY <1>2, <1>7, PendFeed
    <2>3. UNCHANGED <<rx, over, usb, host>> /\ main'.over = main.over
      BY <1>2, <1>7 DEF FeedByte, Mains
    <2> QED
      BY <1>2, <2>1, <2>2, <2>3 DEF TurnInv
  <1>8. CASE Flush
    <2>1. Stage' /\ (tx'.over <=> tx.over) /\ Copied'
      BY <1>1, <1>8, StageFlush
    <2>2. UNCHANGED <<rx, over, asm, mode, host>> /\ main'.over = main.over
      BY <1>2, <1>8 DEF Flush, Mains
    <2> QED
      BY <1>2, <2>1, <2>2 DEF TurnInv
  <1>9. CASE Sent
    <2>1. Stage' /\ host' \in Hosts /\ host'.garbled = FALSE /\ Copied'
      BY <1>9, StageSent
    <2>2. UNCHANGED <<rx, over, asm, main, tx, mode>>
      BY <1>9 DEF Sent
    <2> QED
      BY <1>2, <2>1, <2>2 DEF TurnInv
  <1>10. CASE Tick
    <2>1. UNCHANGED <<rx, over, asm, main, tx, usb, host>>
      BY <1>10 DEF Tick
    <2>2. Pend' = Pend /\ Copied'
      BY <1>2, <2>1 DEF Pend, Copied
    <2>3. Stage'
      BY <1>1, <1>2, <2>1, <2>2, StageSame
    <2> QED
      BY <1>2, <2>1, <2>2, <2>3 DEF TurnInv
  <1>11. ASSUME NEW p \in Packets, Receive(p) PROVE TurnInv'
    <2>1. Stage' /\ over' = over /\ Copied' /\ host' \in Hosts /\ host'.garbled = FALSE
      BY <1>11, StageReceive
    <2>2. UNCHANGED <<asm, main, tx, usb, mode>>
      BY <1>11 DEF Receive
    <2> QED
      BY <1>2, <2>1, <2>2 DEF TurnInv
  <1>12. CASE UNCHANGED vars
    <2>1. UNCHANGED <<rx, over, asm, main, tx, usb, host>>
      BY <1>12 DEF vars
    <2>2. Pend' = Pend /\ Copied'
      BY <1>2, <2>1 DEF Pend, Copied
    <2>3. Stage'
      BY <1>1, <1>2, <2>1, <2>2, StageSame
    <2> QED
      BY <1>2, <2>1, <2>2, <2>3 DEF TurnInv
  <1> QED
    BY <1>3, <1>4, <1>5, <1>6, <1>7, <1>8, <1>9, <1>10, <1>11, <1>12 DEF Next, Process

-----------------------------------------------------------------------------
(* The theorems.                                                           *)

(* The invariant holds throughout.                                         *)
THEOREM Invariance == Spec => []IInv
  BY InitIInv, NextIInv, PTL DEF Spec

(* No ring, line or FIFO outgrows its array, and what is in them is bytes  *)
(* and tokens of the protocol: rx_ring.h, line_assembler.h and tx_fifo.h.  *)
THEOREM TypeCorrect == Spec => []TypeOK
  <1>1. IInv => TypeOK
    BY DEF IInv, TypeOK, Rings, Asms, Mains, Fifos, Usbs, Modes, ChunkInv
  <1> QED
    BY <1>1, Invariance, PTL

(* The packet the stack is sending is not written over (terminal.cpp:195). *)
THEOREM FlightSafe == Spec => []InFlightStable
  <1>1. IInv => InFlightStable
    BY DEF IInv, FlightInv, InFlightStable
  <1> QED
    BY <1>1, Invariance, PTL

(* A host that sends a line and waits for the reply reads that reply,      *)
(* whole, and nothing else, whatever lines it sends and however they are   *)
(* cut into chunks and packets: "one reply per command"                    *)
(* (terminal-dispatch.md:300).                                             *)
THEOREM AnsweredInTurn == MCSpec => []RepliesInTurn
  <1> DEFINE I == setting = "turns" => IInv /\ TurnInv
  <1>1. MCInit => I
    BY InitIInv, InitTurnInv DEF MCInit, Turns, Flood
  <1>2. I /\ [MCNext]_MCVars => I'
    <2> SUFFICES ASSUME I, [MCNext]_MCVars, setting' = "turns" PROVE (IInv /\ TurnInv)'
      OBVIOUS
    <2>1. setting = "turns" /\ [Next]_vars
      BY DEF MCNext, MCVars, Turns, Flood
    <2> QED
      BY <2>1, NextIInv, NextTurnInv
  <1>3. I => RepliesInTurn
    BY DEF RepliesInTurn, ReplyInTurn, TurnInv, IInv, TypeOK, Rings, Asms, Mains, Fifos, Usbs, Modes, ChunkInv
  <1> QED
    BY <1>1, <1>2, <1>3, PTL DEF MCSpec

=============================================================================
