-------------------------- MODULE SpscRing_proofs --------------------------
(***************************************************************************)
(* Proofs about SpscRing, for every capacity, index range and byte set     *)
(* that its assumptions admit.  First the arithmetic of the indices and of *)
(* the slots, then the inductive invariant, then that the ring implements  *)
(* the queue of ByteFifo.                                                  *)
(***************************************************************************)
EXTENDS SpscRing, SequenceTheorems, TLAPS

-----------------------------------------------------------------------------
\* Division with remainder, as the solvers need it.
LEMMA DivMod ==
    ASSUME NEW c \in Nat \ {0}, NEW a \in Nat
    PROVE  /\ a \div c \in Nat
           /\ a % c \in 0..(c - 1)
           /\ a = (c * (a \div c)) + (a % c)
  BY SMT

LEMMA ModUnique ==
    ASSUME NEW c \in Nat \ {0}, NEW d \in Nat, NEW r \in 0..(c - 1)
    PROVE  ((c * d) + r) % c = r
  BY SMT

\* Moving an index by at most the capacity moves its slot by as much, around
\* the buffer.
LEMMA ModPlus ==
    ASSUME NEW c \in Nat \ {0}, NEW a \in Nat, NEW n \in 0..c
    PROVE  (a + n) % c = IF (a % c) + n < c THEN (a % c) + n
                                            ELSE ((a % c) + n) - c
<1> DEFINE d == a \div c
           r == a % c
<1>1. a = (c * d) + r /\ d \in Nat /\ r \in 0..(c - 1)
  BY DivMod
<1> HIDE DEF d, r
<1>2. CASE r + n < c
  <2>1. a + n = (c * d) + (r + n)
    BY <1>1
  <2>2. r + n \in 0..(c - 1)
    BY <1>1, <1>2
  <2>3. ((c * d) + (r + n)) % c = r + n
    BY <1>1, <2>2, ModUnique
  <2> QED
    BY <1>2, <2>1, <2>3 DEF r
<1>3. CASE ~(r + n < c)
  <2> DEFINE e == d + 1
             t == (r + n) - c
  <2>1. a + n = (c * e) + t
    BY <1>1
  <2>2. t \in 0..(c - 1) /\ e \in Nat
    BY <1>1, <1>3
  <2> HIDE DEF e, t
  <2>3. ((c * e) + t) % c = t
    BY <2>2, ModUnique
  <2> QED
    BY <1>3, <2>1, <2>3 DEF r, t
<1> QED
  BY <1>2, <1>3 DEF r

\* Going once around the range of the indices does not change the slot.
LEMMA ModLap ==
    ASSUME NEW a \in Nat, a >= Modulus
    PROVE  (a - Modulus) % Cap = a % Cap
<1> DEFINE d == a \div Cap
           r == a % Cap
           m == Modulus \div Cap
<1>1. a = (Cap * d) + r /\ d \in Nat /\ r \in 0..(Cap - 1)
  BY DivMod, CapAssumption
<1>2. Modulus = Cap * m /\ m \in Nat
  BY DivMod, CapAssumption, ModulusAssumption
<1> HIDE DEF d, r, m
<1>3. d - m \in Nat
  <2>1. Cap * m <= (Cap * d) + r
    BY <1>1, <1>2
  <2>2. ASSUME m > d PROVE FALSE
    <3>1. Cap * m >= Cap * (d + 1)
      BY <1>1, <1>2, <2>2, CapAssumption
    <3>2. Cap * (d + 1) = (Cap * d) + Cap
      BY <1>1, CapAssumption
    <3> QED
      BY <1>1, <1>2, <2>1, <3>1, <3>2, CapAssumption
  <2> QED
    BY <1>1, <1>2, <2>2
<1> DEFINE e == d - m
<1>4. a - Modulus = (Cap * e) + r
  BY <1>1, <1>2, CapAssumption
<1>5. e \in Nat
  BY <1>3
<1> HIDE DEF e
<1>6. ((Cap * e) + r) % Cap = r
  BY <1>1, <1>5, ModUnique, CapAssumption
<1> QED
  BY <1>4, <1>6 DEF r

-----------------------------------------------------------------------------
\* Free-running indices: adding and subtracting transfers of at most Cap.
LEMMA PlusIndex ==
    ASSUME NEW i \in Index, NEW n \in 0..Cap
    PROVE  Plus(i, n) \in Index
  BY CapAssumption, ModulusAssumption DEF Index, Plus

LEMMA MinusNat ==
    ASSUME NEW i \in Index, NEW j \in Index
    PROVE  /\ Minus(i, j) \in Nat
           /\ Minus(i, j) < Modulus
  BY CapAssumption, ModulusAssumption DEF Index, Minus

LEMMA MinusPlus ==
    ASSUME NEW i \in Index, NEW j \in Index, NEW n \in 0..Cap,
           Minus(i, j) + n <= Cap
    PROVE  Minus(Plus(i, n), j) = Minus(i, j) + n
  BY CapAssumption, ModulusAssumption DEF Index, Plus, Minus

LEMMA MinusTake ==
    ASSUME NEW i \in Index, NEW j \in Index, NEW n \in Nat,
           n <= Minus(i, j), Minus(i, j) <= Cap
    PROVE  Minus(i, Plus(j, n)) = Minus(i, j) - n
  BY CapAssumption, ModulusAssumption DEF Index, Plus, Minus

LEMMA PlusMinus ==
    ASSUME NEW i \in Index, NEW j \in Index
    PROVE  Plus(j, Minus(i, j)) = i
  BY CapAssumption, ModulusAssumption DEF Index, Plus, Minus

-----------------------------------------------------------------------------
\* The slots of one transfer: they lie in the buffer, are all different, and
\* a transfer that starts n bytes later uses the slots n further on.
LEMMA SlotInBuffer ==
    ASSUME NEW i \in Index, NEW k \in Slot
    PROVE  SlotOf(i, k) \in Slot
<1>1. i \in Nat
  BY DEF Index
<1>2. i % Cap \in 0..(Cap - 1)
  BY <1>1, DivMod, CapAssumption
<1> QED
  BY <1>2, CapAssumption DEF Slot, SlotOf

LEMMA SlotInjective ==
    ASSUME NEW i \in Index, NEW k \in Slot, NEW l \in Slot, k # l
    PROVE  SlotOf(i, k) # SlotOf(i, l)
<1>1. i \in Nat
  BY DEF Index
<1>2. i % Cap \in 0..(Cap - 1)
  BY <1>1, DivMod, CapAssumption
<1> QED
  BY <1>2, CapAssumption DEF Slot, SlotOf

LEMMA SlotShift ==
    ASSUME NEW i \in Index, NEW n \in Nat, NEW k \in Nat, n + k < Cap
    PROVE  SlotOf(Plus(i, n), k) = SlotOf(i, n + k)
<1> DEFINE r == i % Cap
           s == Plus(i, n) % Cap
<1>1. i \in Nat /\ i < Modulus
  BY ModulusAssumption DEF Index
<1>2. n \in 0..Cap
  BY CapAssumption
<1>3. r \in 0..(Cap - 1)
  BY <1>1, DivMod, CapAssumption
<1>4. (i + n) % Cap = IF r + n < Cap THEN r + n ELSE (r + n) - Cap
  BY <1>1, <1>2, ModPlus, CapAssumption
<1>5. s = (i + n) % Cap
  <2>1. CASE i + n < Modulus
    BY <2>1 DEF Plus
  <2>2. CASE ~(i + n < Modulus)
    <3>1. i + n \in Nat /\ i + n >= Modulus
      BY <1>1, <1>2, <2>2, ModulusAssumption
    <3> QED
      BY <2>2, <3>1, ModLap DEF Plus
  <2> QED
    BY <2>1, <2>2
<1>6. SlotOf(Plus(i, n), k) = IF k < Cap - s THEN s + k ELSE k - (Cap - s)
  BY DEF SlotOf
<1>7. SlotOf(i, n + k) = IF n + k < Cap - r THEN r + (n + k)
                                            ELSE (n + k) - (Cap - r)
  BY DEF SlotOf
<1> HIDE DEF r, s
<1> QED
  BY <1>3, <1>4, <1>5, <1>6, <1>7, <1>2, CapAssumption

-----------------------------------------------------------------------------
(***************************************************************************)
(* The inductive invariant.  InFlightBounded alone is not inductive: that  *)
(* a read may give back rn slots, or a write publish what it accepted,     *)
(* rests on what each call reserved when it began; and what a call has     *)
(* copied stays good only because the other side's slots are elsewhere.    *)
(***************************************************************************)
IInv == TypeOK /\ InFlightBounded /\ CopiedIsStable

\* A request clipped to the room left is a sequence of bytes that fits.
LEMMA ClippedRequest ==
    ASSUME NEW s \in Request, NEW room \in Nat
    PROVE  LET c == SubSeq(s, 1, Smaller(Len(s), room))
           IN  /\ c \in Seq(Byte)
               /\ Len(c) \in Nat
               /\ Len(c) <= room
<1>1. PICK n \in 0..MaxReq : s \in [1..n -> Byte]
  BY DEF Request
<1>2. s \in Seq(Byte) /\ Len(s) = n
  BY <1>1, SeqDef, MaxReqAssumption
<1> DEFINE m == Smaller(Len(s), room)
<1>3. m \in Nat /\ m <= Len(s) /\ m <= room
  BY <1>2, MaxReqAssumption DEF Smaller
<1>4. \A i \in 1..m : s[i] \in Byte
  BY <1>1, <1>2, <1>3
<1> HIDE DEF m
<1>5. /\ SubSeq(s, 1, m) \in Seq(Byte)
      /\ Len(SubSeq(s, 1, m)) = IF 1 <= m THEN m - 1 + 1 ELSE 0
  BY <1>3, <1>4, SubSeqProperties
<1> QED
  BY <1>3, <1>5 DEF m

\* In a state of the invariant the producer's slots are those that follow the
\* bytes in flight, so it never touches a byte in flight.
LEMMA ProducerBeyondFlight ==
    ASSUME TypeOK, InFlightBounded, wpc = "copy",
           NEW k \in Nat, k < Len(src)
    PROVE  /\ Readable + k \in Slot
           /\ SlotOf(head, k) = SlotOf(tail, Readable + k)
<1>1. Readable \in Nat /\ Readable + k < Cap /\ Len(src) \in Nat
  BY MinusNat, CapAssumption, LenProperties
     DEF TypeOK, InFlightBounded, Readable
<1>2. head = Plus(tail, Readable)
  BY PlusMinus DEF TypeOK, Readable
<1>3. SlotOf(Plus(tail, Readable), k) = SlotOf(tail, Readable + k)
  BY <1>1, SlotShift DEF TypeOK
<1> QED
  BY <1>1, <1>2, <1>3, CapAssumption DEF Slot

THEOREM InitIInv == Init => IInv
<1> SUFFICES ASSUME Init PROVE IInv
  OBVIOUS
<1>1. Readable = 0
  BY DEF Init, Readable, Minus
<1>2. 0 \in Index /\ Cap \in Nat
  BY CapAssumption, ModulusAssumption DEF Index
<1> QED
  BY <1>1, <1>2, EmptySeq
     DEF Init, IInv, TypeOK, InFlightBounded, CopiedIsStable

THEOREM StepIInv == IInv /\ [Next]_vars => IInv'
<1> SUFFICES ASSUME IInv, [Next]_vars PROVE IInv'
  OBVIOUS
<1> USE DEF IInv
<1>0. /\ Readable \in Nat /\ Readable < Modulus
      /\ Len(src) \in Nat /\ Len(dst) \in Nat
      /\ Cap \in Nat \ {0}
  BY MinusNat, CapAssumption, LenProperties DEF TypeOK, Readable
<1>1. ASSUME NEW s \in Request, WriteBegin(s) PROVE IInv'
  <2>1. Writable \in Nat
    BY <1>0 DEF InFlightBounded, Writable
  <2>2. src' \in Seq(Byte) /\ Len(src') \in Nat /\ Len(src') <= Writable
    BY <1>1, <2>1, ClippedRequest DEF WriteBegin
  <2>3. Readable' = Readable
    BY <1>1 DEF WriteBegin, Readable
  <2>4. TypeOK'
    BY <1>1, <2>2 DEF WriteBegin, TypeOK, rvars
  <2>5. InFlightBounded'
    BY <1>0, <1>1, <2>2, <2>3
       DEF WriteBegin, InFlightBounded, Writable, rvars
  <2>6. CopiedIsStable'
    BY <1>0, <1>1, <2>2 DEF WriteBegin, CopiedIsStable, rvars
  <2> QED
    BY <2>4, <2>5, <2>6
<1>2. CASE WriteByte
  <2> USE DEF WriteByte
  <2>1. wi \in Nat /\ wi < Len(src) /\ src[wi + 1] \in Byte
    BY <1>0, <1>2, ElementOfSeq DEF TypeOK
  <2>2. /\ Readable + wi \in Slot
        /\ SlotOf(head, wi) = SlotOf(tail, Readable + wi)
    BY <1>2, <2>1, ProducerBeyondFlight
  <2>3. SlotOf(head, wi) \in Slot
    BY <2>2, SlotInBuffer DEF TypeOK
  <2>4. TypeOK'
    BY <1>2, <2>1, <2>3 DEF TypeOK, rvars
  <2>5. InFlightBounded'
    BY <1>2 DEF InFlightBounded, Readable, rvars
  <2>6. Len(src) <= Cap /\ Len(src) - 1 \in Slot
    BY <1>0, <1>2, <2>1 DEF InFlightBounded, Slot
  <2>7. ASSUME NEW k \in 1..(wi + 1)
        PROVE  buf'[SlotOf(head, k - 1)] = src[k]
    <3>1. CASE k = wi + 1
      BY <1>2, <2>1, <2>3, <3>1 DEF TypeOK
    <3>2. CASE k # wi + 1
      <4>1. k - 1 \in Slot /\ wi \in Slot /\ k - 1 # wi /\ k \in 1..wi
        BY <1>0, <2>1, <2>6, <3>2 DEF Slot
      <4>2. SlotOf(head, k - 1) # SlotOf(head, wi)
        BY <4>1, SlotInjective DEF TypeOK
      <4>3. SlotOf(head, k - 1) \in Slot
        BY <4>1, SlotInBuffer DEF TypeOK
      <4> QED
        BY <1>2, <2>3, <4>1, <4>2, <4>3 DEF TypeOK, CopiedIsStable
    <3> QED
      BY <3>1, <3>2
  <2>8. ASSUME rpc = "copy", NEW k \in 1..Len(dst)
        PROVE  dst[k] = buf'[SlotOf(tail, k - 1)]
    <3>1. /\ k - 1 \in Slot /\ k - 1 # Readable + wi
          /\ rn \in Nat /\ rn <= Readable /\ Len(dst) <= rn
      BY <1>0, <2>1, <2>8
         DEF TypeOK, InFlightBounded, CopiedIsStable, Slot
    <3>2. SlotOf(tail, k - 1) # SlotOf(tail, Readable + wi)
      BY <2>2, <3>1, SlotInjective DEF TypeOK
    <3>3. SlotOf(tail, k - 1) \in Slot
      BY <3>1, SlotInBuffer DEF TypeOK
    <3> QED
      BY <1>2, <2>2, <2>3, <2>8, <3>2, <3>3 DEF TypeOK, CopiedIsStable
  <2>9. CopiedIsStable'
    BY <1>0, <1>2, <2>1, <2>7, <2>8 DEF CopiedIsStable, rvars
  <2> QED
    BY <2>4, <2>5, <2>9
<1>3. CASE WritePublish
  <2> USE DEF WritePublish
  <2>1. Len(src) \in 0..Cap /\ Readable + Len(src) <= Cap
    BY <1>0, <1>3 DEF InFlightBounded
  <2>2. head' \in Index /\ Readable' = Readable + Len(src)
    BY <1>3, <2>1, PlusIndex, MinusPlus DEF TypeOK, Readable
  <2>3. TypeOK'
    BY <1>3, <2>2 DEF TypeOK, rvars
  <2>4. InFlightBounded'
    BY <1>0, <1>3, <2>1, <2>2 DEF TypeOK, InFlightBounded, rvars
  <2>5. CopiedIsStable'
    BY <1>3 DEF CopiedIsStable, rvars
  <2> QED
    BY <2>3, <2>4, <2>5
<1>4. ASSUME NEW n \in 0..MaxReq, ReadBegin(n) PROVE IInv'
  <2> USE DEF ReadBegin
  <2>1. rn' \in Nat /\ rn' <= Readable
    BY <1>0, <1>4, MaxReqAssumption DEF Smaller
  <2>2. Readable' = Readable
    BY <1>4 DEF Readable
  <2>3. TypeOK'
    BY <1>4, <2>1, EmptySeq DEF TypeOK, wvars
  <2>4. InFlightBounded'
    BY <1>4, <2>1, <2>2 DEF InFlightBounded, wvars
  <2>5. CopiedIsStable'
    BY <1>4, <2>1, EmptySeq DEF CopiedIsStable, wvars
  <2> QED
    BY <2>3, <2>4, <2>5
<1>5. CASE ReadByte
  <2> USE DEF ReadByte
  <2> DEFINE b == buf[SlotOf(tail, Len(dst))]
  <2>1. Len(dst) \in Slot
    BY <1>0, <1>5 DEF TypeOK, InFlightBounded, Slot
  <2>2. b \in Byte
    BY <2>1, SlotInBuffer DEF TypeOK
  <2>3. /\ dst' \in Seq(Byte)
        /\ Len(dst') = Len(dst) + 1
        /\ \A k \in 1..Len(dst) : dst'[k] = dst[k]
        /\ dst'[Len(dst) + 1] = b
    BY <1>0, <1>5, <2>2, AppendProperties DEF TypeOK
  <2>4. TypeOK'
    BY <1>5, <2>3 DEF TypeOK, wvars
  <2>5. InFlightBounded'
    BY <1>5 DEF InFlightBounded, Readable, wvars
  <2>6. ASSUME NEW k \in 1..Len(dst')
        PROVE  dst'[k] = buf[SlotOf(tail, k - 1)]
    <3>1. CASE k = Len(dst) + 1
      BY <1>0, <2>3, <3>1
    <3>2. CASE k # Len(dst) + 1
      <4>1. k \in 1..Len(dst)
        BY <1>0, <2>3, <3>2
      <4> QED
        BY <1>5, <2>3, <4>1 DEF CopiedIsStable
    <3> QED
      BY <3>1, <3>2
  <2>7. CopiedIsStable'
    BY <1>0, <1>5, <2>3, <2>6 DEF CopiedIsStable, TypeOK, wvars
  <2> QED
    BY <2>4, <2>5, <2>7
<1>6. CASE ReadPublish
  <2> USE DEF ReadPublish
  <2>1. rn \in 0..Cap /\ rn <= Readable /\ Readable <= Cap
    BY <1>0, <1>6 DEF TypeOK, InFlightBounded
  <2>2. tail' \in Index /\ Readable' = Readable - rn
    BY <1>6, <2>1, PlusIndex, MinusTake DEF TypeOK, Readable
  <2>3. TypeOK'
    BY <1>6, <2>2 DEF TypeOK, wvars
  <2>4. InFlightBounded'
    BY <1>0, <1>6, <2>1, <2>2 DEF InFlightBounded, wvars
  <2>5. CopiedIsStable'
    BY <1>6 DEF CopiedIsStable, wvars
  <2> QED
    BY <2>3, <2>4, <2>5
<1>7. CASE Reset
  <2> USE DEF Reset
  <2>1. 0 \in Index
    BY CapAssumption, ModulusAssumption DEF Index
  <2>2. head' = 0 /\ tail' = 0
    BY <1>7
  <2>3. Readable' = 0
    BY <2>2 DEF Readable, Minus
  <2> QED
    BY <1>0, <1>7, <2>1, <2>3
       DEF TypeOK, InFlightBounded, CopiedIsStable, wvars, rvars
<1>8. CASE UNCHANGED vars
  BY <1>8 DEF vars, wvars, rvars, TypeOK, InFlightBounded, CopiedIsStable,
              Readable
<1> QED
  BY <1>1, <1>2, <1>3, <1>4, <1>5, <1>6, <1>7, <1>8 DEF Next

\* Type correctness, the bound on the bytes in flight and the stability of
\* what has been copied hold in every reachable state of every ring.
THEOREM Invariance == Spec => [](TypeOK /\ InFlightBounded /\ CopiedIsStable)
<1>1. Init => IInv
  BY InitIInv
<1>2. IInv /\ [Next]_vars => IInv'
  BY StepIInv
<1> QED
  BY <1>1, <1>2, PTL DEF Spec, IInv

\* Neither side's memcpy ever touches a slot the other is still to copy.
LEMMA NoTearing == IInv => NoTornByte
<1> SUFFICES ASSUME IInv, wpc = "copy", rpc = "copy",
                    NEW k \in wi..(Len(src) - 1),
                    NEW l \in Len(dst)..(rn - 1)
             PROVE  SlotOf(head, k) # SlotOf(tail, l)
  BY DEF NoTornByte, Filling, Draining
<1>0. /\ Len(src) \in Nat /\ Len(dst) \in Nat /\ Cap \in Nat
      /\ wi \in Nat /\ rn \in Nat /\ Readable \in Nat
  BY MinusNat, CapAssumption, LenProperties DEF IInv, TypeOK, Readable
<1>1. k \in Nat /\ k < Len(src)
  BY <1>0
<1>2. /\ Readable + k \in Slot
      /\ SlotOf(head, k) = SlotOf(tail, Readable + k)
  BY <1>1, ProducerBeyondFlight DEF IInv
<1>3. l \in Slot /\ l # Readable + k
  BY <1>0, <1>1 DEF IInv, InFlightBounded, Slot
<1> QED
  BY <1>2, <1>3, SlotInjective DEF IInv, TypeOK

THEOREM TearFree == Spec => []NoTornByte
<1>1. Init => IInv
  BY InitIInv
<1>2. IInv /\ [Next]_vars => IInv'
  BY StepIInv
<1>3. IInv => NoTornByte
  BY NoTearing
<1> QED
  BY <1>1, <1>2, <1>3, PTL DEF Spec

-----------------------------------------------------------------------------
(***************************************************************************)
(* The ring implements the queue of ByteFifo: every step of the ring is a  *)
(* step of the queue, or changes nothing the queue is made of.             *)
(***************************************************************************)
QueueFacts ==
    /\ Readable \in Nat /\ Readable <= Cap
    /\ Queue \in Seq(Byte)
    /\ Len(Queue) = Readable
    /\ \A k \in 1..Readable : k - 1 \in Slot
    /\ \A k \in 1..Readable : Queue[k] = buf[SlotOf(tail, k - 1)]

\* The mapping makes a queue of the bytes in flight.
LEMMA QueueType == IInv => QueueFacts
<1> SUFFICES ASSUME IInv PROVE QueueFacts
  OBVIOUS
<1>1. Readable \in Nat /\ Readable <= Cap /\ Cap \in Nat
  BY MinusNat, CapAssumption DEF IInv, TypeOK, InFlightBounded, Readable
<1>2. \A k \in 1..Readable : k - 1 \in Slot
  BY <1>1 DEF Slot
<1>3. \A k \in 1..Readable : buf[SlotOf(tail, k - 1)] \in Byte
  BY <1>2, SlotInBuffer DEF IInv, TypeOK
<1>4. Queue \in [1..Readable -> Byte]
  BY <1>3 DEF Queue
<1>5. Queue \in Seq(Byte) /\ Len(Queue) = Readable
  BY <1>1, <1>4, SeqDef
<1> QED
  BY <1>1, <1>2, <1>5 DEF Queue, QueueFacts

\* Two queues with the same bytes in flight are the same.
LEMMA QueueSame ==
    ASSUME Readable' = Readable, tail' = tail,
           \A k \in 1..Readable :
               buf'[SlotOf(tail, k - 1)] = buf[SlotOf(tail, k - 1)]
    PROVE  Queue' = Queue
  BY DEF Queue

LEMMA InitRefines == Init => Fifo!Init
<1> SUFFICES ASSUME Init PROVE Fifo!Init
  OBVIOUS
<1>1. Readable = 0
  BY DEF Init, Readable, Minus
<1>2. IInv
  BY InitIInv
<1>3. Queue = << >>
  BY <1>1, <1>2, QueueType, EmptySeq DEF QueueFacts
<1> QED
  BY <1>3 DEF Init, Fifo!Init

LEMMA StepRefines == IInv /\ IInv' /\ [Next]_vars => [Fifo!Next]_(Fifo!vars)
<1> SUFFICES ASSUME IInv, IInv', [Next]_vars
             PROVE  Fifo!Next \/ UNCHANGED Fifo!vars
  BY DEF Fifo!vars
<1>0. /\ Readable \in Nat /\ Len(src) \in Nat /\ Len(dst) \in Nat
      /\ src \in Seq(Byte) /\ dst \in Seq(Byte)
      /\ Queue \in Seq(Byte) /\ Len(Queue) = Readable
      /\ Cap \in Nat \ {0} /\ Readable <= Cap
  BY CapAssumption, LenProperties, QueueType DEF IInv, TypeOK, QueueFacts
<1>a. QueueFacts
  BY QueueType
<1>b. QueueFacts'
  BY QueueType, PTL
<1>1. ASSUME NEW s \in Request, WriteBegin(s) PROVE Fifo!Next
  <2>1. Queue' = Queue
    BY <1>1, QueueSame DEF WriteBegin, Readable
  <2>2. Smaller(Len(s), Writable) = Fifo!AtMost(Len(s), Cap - Len(Queue))
    BY <1>0 DEF Smaller, Writable, Fifo!AtMost
  <2>3. Fifo!Offer(s)
    BY <1>1, <2>1, <2>2 DEF WriteBegin, Fifo!Offer, rvars
  <2>4. s \in Fifo!Request
    BY DEF Request, Fifo!Request
  <2> QED
    BY <2>3, <2>4 DEF Fifo!Next
<1>2. CASE WriteByte
  <2>1. wi \in Nat /\ wi < Len(src) /\ wpc = "copy"
    BY <1>2 DEF IInv, TypeOK, WriteByte
  <2>2. /\ Readable + wi \in Slot
        /\ SlotOf(head, wi) = SlotOf(tail, Readable + wi)
    BY <2>1, ProducerBeyondFlight DEF IInv
  <2>3. ASSUME NEW k \in 1..Readable
        PROVE  buf'[SlotOf(tail, k - 1)] = buf[SlotOf(tail, k - 1)]
    <3>1. k - 1 \in Slot /\ k - 1 # Readable + wi
      <4>1. k - 1 \in Slot
        BY <1>a DEF QueueFacts
      <4>2. k <= Readable
        BY <1>0
      <4> QED
        BY <1>0, <2>1, <4>1, <4>2
    <3>2. SlotOf(tail, k - 1) # SlotOf(head, wi)
      BY <2>2, <3>1, SlotInjective DEF IInv, TypeOK
    <3>3. SlotOf(tail, k - 1) \in Slot
      BY <3>1, SlotInBuffer DEF IInv, TypeOK
    <3> QED
      BY <1>2, <3>2, <3>3 DEF IInv, TypeOK, WriteByte
  <2>4. Queue' = Queue
    BY <1>2, <2>3, QueueSame DEF WriteByte, Readable, rvars
  <2> QED
    BY <1>2, <2>4 DEF WriteByte, Fifo!vars, rvars
<1>3. CASE WritePublish
  <2>1. Len(src) \in 0..Cap /\ Readable + Len(src) <= Cap
    BY <1>0, <1>3 DEF IInv, InFlightBounded, WritePublish
  <2>2. Readable' = Readable + Len(src)
    BY <1>3, <2>1, MinusPlus DEF IInv, TypeOK, Readable, WritePublish
  <2>3. /\ Queue' \in Seq(Byte) /\ Len(Queue') = Readable'
        /\ \A k \in 1..Readable' : Queue'[k] = buf'[SlotOf(tail', k - 1)]
    BY <1>b DEF QueueFacts
  <2>4. ASSUME NEW k \in 1..(Readable + Len(src))
        PROVE  Queue'[k] = IF k <= Len(Queue) THEN Queue[k]
                                              ELSE src[k - Len(Queue)]
    <3>1. Queue'[k] = buf[SlotOf(tail, k - 1)]
      BY <1>3, <2>2, <2>3 DEF WritePublish, rvars
    <3>2. CASE k <= Readable
      BY <1>0, <1>a, <3>1, <3>2 DEF QueueFacts
    <3>3. CASE ~(k <= Readable)
      <4> DEFINE j == k - Readable
      <4>1. j \in 1..Len(src) /\ j - 1 \in Nat /\ j - 1 < Len(src)
        BY <1>0, <3>3
      <4>2. SlotOf(head, j - 1) = SlotOf(tail, Readable + (j - 1))
        BY <1>3, <4>1, ProducerBeyondFlight DEF IInv, WritePublish
      <4>3. Readable + (j - 1) = k - 1
        BY <1>0
      <4>4. buf[SlotOf(head, j - 1)] = src[j]
        BY <1>3, <4>1 DEF IInv, CopiedIsStable, WritePublish
      <4> QED
        BY <1>0, <3>1, <3>3, <4>2, <4>3, <4>4
    <3> QED
      BY <1>0, <3>2, <3>3
  <2>5. Queue' = Queue \o src
    <3>1. /\ Queue \o src \in Seq(Byte)
          /\ Len(Queue \o src) = Readable + Len(src)
          /\ \A k \in 1..(Readable + Len(src)) :
                (Queue \o src)[k] = IF k <= Len(Queue) THEN Queue[k]
                                                 ELSE src[k - Len(Queue)]
      BY <1>0, ConcatProperties
    <3> QED
      BY <2>2, <2>3, <2>4, <3>1, SeqEqual
  <2>6. Fifo!Enqueue
    BY <1>3, <2>5 DEF WritePublish, Fifo!Enqueue, rvars
  <2> QED
    BY <2>6 DEF Fifo!Next
<1>4. ASSUME NEW n \in 0..MaxReq, ReadBegin(n) PROVE Fifo!Next
  <2>1. Queue' = Queue
    BY <1>4, QueueSame DEF ReadBegin, Readable
  <2>2. Smaller(n, Readable) = Fifo!AtMost(n, Len(Queue))
    BY <1>0 DEF Smaller, Fifo!AtMost
  <2>3. Fifo!Ask(n)
    BY <1>4, <2>1, <2>2 DEF ReadBegin, Fifo!Ask, wvars
  <2> QED
    BY <2>3 DEF Fifo!Next
<1>5. CASE ReadByte
  <2>1. Queue' = Queue
    BY <1>5, QueueSame DEF ReadByte, Readable
  <2> QED
    BY <1>5, <2>1 DEF ReadByte, Fifo!vars, wvars
<1>6. CASE ReadPublish
  <2>1. /\ rn \in 0..Cap /\ rn <= Readable /\ Len(dst) = rn
        /\ \A k \in 1..rn : dst[k] = buf[SlotOf(tail, k - 1)]
    BY <1>0, <1>6
       DEF IInv, TypeOK, InFlightBounded, CopiedIsStable, ReadPublish
  <2>2. Readable' = Readable - rn
    <3>1. head' = head /\ tail' = Plus(tail, rn)
      BY <1>6 DEF ReadPublish
    <3>2. Minus(head, Plus(tail, rn)) = Minus(head, tail) - rn
      BY <1>0, <2>1, MinusTake DEF IInv, TypeOK, Readable
    <3> QED
      BY <3>1, <3>2 DEF Readable
  <2>3. /\ Queue' \in Seq(Byte) /\ Len(Queue') = Readable'
        /\ \A k \in 1..Readable' : Queue'[k] = buf'[SlotOf(tail', k - 1)]
    BY <1>b DEF QueueFacts
  <2>4. /\ SubSeq(Queue, 1, rn) \in Seq(Byte)
        /\ Len(SubSeq(Queue, 1, rn)) = rn
        /\ \A k \in 1..rn : SubSeq(Queue, 1, rn)[k] = Queue[k]
    <3>1. \A k \in 1..rn : Queue[k] \in Byte
      BY <1>0, <2>1, ElementOfSeq
    <3>2. /\ SubSeq(Queue, 1, rn) \in Seq(Byte)
          /\ Len(SubSeq(Queue, 1, rn)) = IF 1 <= rn THEN rn - 1 + 1 ELSE 0
          /\ \A k \in 1..(rn - 1 + 1) :
                SubSeq(Queue, 1, rn)[k] = Queue[1 + k - 1]
      BY <2>1, <3>1, SubSeqProperties
    <3> QED
      BY <2>1, <3>2
  <2>5. dst = SubSeq(Queue, 1, rn)
    <3>1. ASSUME NEW k \in 1..rn PROVE dst[k] = Queue[k]
      <4>1. k \in 1..Readable
        BY <1>0, <2>1
      <4>2. Queue[k] = buf[SlotOf(tail, k - 1)]
        BY <1>a, <4>1 DEF QueueFacts
      <4> QED
        BY <2>1, <4>2
    <3> QED
      BY <1>0, <2>1, <2>4, <3>1, SeqEqual
  <2>6. /\ SubSeq(Queue, rn + 1, Len(Queue)) \in Seq(Byte)
        /\ Len(SubSeq(Queue, rn + 1, Len(Queue))) = Readable - rn
        /\ \A k \in 1..(Readable - rn) :
              SubSeq(Queue, rn + 1, Len(Queue))[k] = Queue[rn + k]
    <3>1. \A k \in (rn + 1)..Readable : Queue[k] \in Byte
      BY <1>0, <2>1, ElementOfSeq
    <3>2. /\ SubSeq(Queue, rn + 1, Readable) \in Seq(Byte)
          /\ Len(SubSeq(Queue, rn + 1, Readable)) =
                IF rn + 1 <= Readable THEN Readable - (rn + 1) + 1 ELSE 0
          /\ \A k \in 1..(Readable - (rn + 1) + 1) :
                SubSeq(Queue, rn + 1, Readable)[k] = Queue[rn + 1 + k - 1]
      BY <1>0, <2>1, <3>1, SubSeqProperties
    <3> QED
      BY <1>0, <2>1, <3>2
  <2>7. ASSUME NEW k \in 1..(Readable - rn)
        PROVE  Queue'[k] = Queue[rn + k]
    <3>1. Queue'[k] = buf[SlotOf(Plus(tail, rn), k - 1)]
      BY <1>6, <2>2, <2>3 DEF ReadPublish, wvars
    <3>2. /\ k - 1 \in Nat /\ rn + (k - 1) < Cap /\ rn + k \in 1..Readable
          /\ (rn + k) - 1 = rn + (k - 1)
      BY <1>0, <2>1
    <3>3. SlotOf(Plus(tail, rn), k - 1) = SlotOf(tail, rn + (k - 1))
      BY <2>1, <3>2, SlotShift DEF IInv, TypeOK
    <3>4. Queue[rn + k] = buf[SlotOf(tail, (rn + k) - 1)]
      BY <1>a, <3>2 DEF QueueFacts
    <3> QED
      BY <3>1, <3>2, <3>3, <3>4
  <2>8. Queue' = SubSeq(Queue, rn + 1, Len(Queue))
    BY <1>0, <2>2, <2>3, <2>6, <2>7, SeqEqual
  <2>9. Fifo!Dequeue
    BY <1>6, <2>5, <2>8 DEF ReadPublish, Fifo!Dequeue, wvars
  <2> QED
    BY <2>9 DEF Fifo!Next
<1>7. CASE Reset
  <2>1. head' = 0 /\ tail' = 0
    BY <1>7 DEF Reset
  <2>2. Readable' = 0
    BY <2>1 DEF Readable, Minus
  <2>3. Queue' \in Seq(Byte) /\ Len(Queue') = Readable'
    BY <1>b DEF QueueFacts
  <2>4. Queue' = << >>
    BY <2>2, <2>3, EmptySeq
  <2>5. Fifo!Clear
    BY <1>7, <2>4 DEF Reset, Fifo!Clear, wvars, rvars
  <2> QED
    BY <2>5 DEF Fifo!Next
<1>8. CASE UNCHANGED vars
  <2>1. Queue' = Queue
    BY <1>8, QueueSame DEF vars, Readable
  <2> QED
    BY <1>8, <2>1 DEF vars, wvars, rvars, Fifo!vars
<1> QED
  BY <1>1, <1>2, <1>3, <1>4, <1>5, <1>6, <1>7, <1>8 DEF Next

\* Whatever the two sides do, bytes leave the ring in the order and with the
\* values they entered it, each exactly once.
THEOREM Refinement == Spec => FifoSpec
<1>1. Init => IInv /\ Fifo!Init
  BY InitIInv, InitRefines
<1>2. IInv /\ [Next]_vars => IInv'
  BY StepIInv
<1>3. IInv /\ IInv' /\ [Next]_vars => [Fifo!Next]_(Fifo!vars)
  BY StepRefines
<1> QED
  BY <1>1, <1>2, <1>3, PTL DEF Spec, FifoSpec, Fifo!Spec
=============================================================================
