------------------------------ MODULE SpscRing ------------------------------
(***************************************************************************)
(* memory/spsc_ring.h: the lock-free single-producer single-consumer byte  *)
(* ring between the audio ISR and the main loop's SD pump.                 *)
(*                                                                         *)
(* A write loads the two indices, copies byte by byte and then publishes   *)
(* _head; a read loads them, copies and then publishes _tail.  Either side *)
(* may be stopped between any two bytes while the other runs a whole call. *)
(* The indices run freely modulo Modulus (2^32 in the code).               *)
(***************************************************************************)
EXTENDS Naturals, Sequences

CONSTANTS Byte,      \* the values a byte can take
          Cap,       \* _cap, the capacity in bytes
          Modulus,   \* the range of the free-running indices
          MaxReq     \* bound: the most bytes one call asks for

\* "Capacity MUST be a power of two": what the arithmetic needs of that is
\* that the capacity divides the range of the indices and is smaller.
ASSUME CapAssumption == Cap \in Nat \ {0}
ASSUME ModulusAssumption ==
    Modulus \in Nat /\ Modulus > Cap /\ Modulus % Cap = 0
ASSUME MaxReqAssumption == MaxReq \in Nat

VARIABLES buf,     \* _buf
          head,    \* _head, published by the producer
          tail,    \* _tail, published by the consumer
          wpc,     \* producer: outside a write, or copying
          src,     \* producer: the bytes the current (last) write accepted
          wi,      \* producer: how many of them are copied
          rpc,     \* consumer: outside a read, or copying
          rn,      \* consumer: how many bytes the current read delivers
          dst      \* consumer: the bytes copied so far

wvars == <<wpc, src, wi>>
rvars == <<rpc, rn, dst>>
vars  == <<buf, head, tail, wvars, rvars>>

Index == 0..(Modulus - 1)
Slot  == 0..(Cap - 1)

\* Unsigned addition of at most Cap to an index, and subtraction.
Plus(i, n) == IF i + n < Modulus THEN i + n ELSE (i + n) - Modulus
Minus(i, j) == IF j <= i THEN i - j ELSE (i + Modulus) - j

Smaller(m, n) == IF m <= n THEN m ELSE n

Readable == Minus(head, tail)
\* Mutant: one slot more than is free, as an inclusive comparison would give.
WritableOneMore == (Cap - Readable) + 1

Writable == Cap - Readable

\* The slot of the k-th byte of a transfer that starts at index i: the first
\* memcpy runs up to the end of the buffer, the second from its start.
SlotOf(i, k) ==
    LET first == Cap - (i % Cap)
    IN  IF k < first THEN (i % Cap) + k ELSE k - first

Init ==
    /\ buf \in [Slot -> Byte]
    /\ head = 0 /\ tail = 0
    /\ wpc = "idle" /\ src = << >> /\ wi = 0
    /\ rpc = "idle" /\ rn = 0 /\ dst = << >>

\* write(): load the indices and clip the request to the space left.
WriteBegin(s) ==
    /\ wpc = "idle"
    /\ wpc' = "copy"
    /\ src' = SubSeq(s, 1, Smaller(Len(s), Writable))
    /\ wi' = 0
    /\ UNCHANGED <<buf, head, tail, rvars>>

\* Mutant: the copy starts one slot late.
WriteByteShifted ==
    /\ wpc = "copy"
    /\ wi < Len(src)
    /\ buf' = [buf EXCEPT ![SlotOf(head, (wi + 1) % Cap)] = src[wi + 1]]
    /\ wi' = wi + 1
    /\ UNCHANGED <<head, tail, wpc, src, rvars>>

WriteByte ==
    /\ wpc = "copy"
    /\ wi < Len(src)
    /\ buf' = [buf EXCEPT ![SlotOf(head, wi)] = src[wi + 1]]
    /\ wi' = wi + 1
    /\ UNCHANGED <<head, tail, wpc, src, rvars>>

\* Mutant: the store of the index is moved ahead of the copy.
WritePublishEarly ==
    /\ wpc = "copy"
    /\ head' = Plus(head, Len(src))
    /\ wpc' = "idle"
    /\ UNCHANGED <<buf, tail, src, wi, rvars>>

\* The release store that makes the bytes visible.
WritePublish ==
    /\ wpc = "copy"
    /\ wi = Len(src)
    /\ head' = Plus(head, Len(src))
    /\ wpc' = "idle"
    /\ UNCHANGED <<buf, tail, src, wi, rvars>>

\* Mutant: the request is not clipped to what is available.
ReadBeginUnclipped(n) ==
    /\ rpc = "idle"
    /\ rpc' = "copy"
    /\ rn' = n
    /\ dst' = << >>
    /\ UNCHANGED <<buf, head, tail, wvars>>

\* read(): load the indices and clip the request to the bytes available.
ReadBegin(n) ==
    /\ rpc = "idle"
    /\ rpc' = "copy"
    /\ rn' = Smaller(n, Readable)
    /\ dst' = << >>
    /\ UNCHANGED <<buf, head, tail, wvars>>

ReadByte ==
    /\ rpc = "copy"
    /\ Len(dst) < rn
    /\ dst' = Append(dst, buf[SlotOf(tail, Len(dst))])
    /\ UNCHANGED <<buf, head, tail, wvars, rpc, rn>>

\* The release store that gives the slots back.
ReadPublish ==
    /\ rpc = "copy"
    /\ Len(dst) = rn
    /\ tail' = Plus(tail, rn)
    /\ rpc' = "idle"
    /\ UNCHANGED <<buf, head, wvars, rn, dst>>

\* reset(): the owner calls it with neither side inside the ring (StreamDeck
\* shows that the decks keep to this).
Reset ==
    /\ wpc = "idle" /\ rpc = "idle"
    /\ head' = 0 /\ tail' = 0
    /\ UNCHANGED <<buf, wvars, rvars>>

Request == UNION {[1..n -> Byte] : n \in 0..MaxReq}

Next ==
    \/ \E s \in Request : WriteBegin(s)
    \/ WriteByte
    \/ WritePublish
    \/ \E n \in 0..MaxReq : ReadBegin(n)
    \/ ReadByte
    \/ ReadPublish
    \/ Reset

Spec == Init /\ [][Next]_vars

-----------------------------------------------------------------------------
TypeOK ==
    /\ buf \in [Slot -> Byte]
    /\ head \in Index /\ tail \in Index
    /\ wpc \in {"idle", "copy"} /\ rpc \in {"idle", "copy"}
    /\ src \in Seq(Byte) /\ wi \in Nat
    /\ dst \in Seq(Byte) /\ rn \in Nat

\* The slots the producer still has to fill, and those the consumer may still
\* copy from.
Filling  == {SlotOf(head, k) : k \in wi..(Len(src) - 1)}
Draining == {SlotOf(tail, k) : k \in Len(dst)..(rn - 1)}

\* No byte is torn: however the two calls interleave, and wherever the
\* indices wrap, the producer's memcpy never touches a slot that the
\* consumer's memcpy is still to copy (write and read of spsc_ring.h).
NoTornByte == wpc = "copy" /\ rpc = "copy" => Filling \cap Draining = {}

\* The in-flight count never passes the capacity, which the header's comment
\* makes the reason that `head - tail` survives the wrap of the counters; a
\* producer inside write() has reserved no more than what is really free.
InFlightBounded ==
    /\ Readable <= Cap
    /\ wpc = "copy" => Readable + Len(src) <= Cap
    /\ rpc = "copy" => rn <= Readable

\* A byte once copied stays as it is until its index is published: nothing
\* the other side does meanwhile overwrites what the producer has placed in
\* the buffer, or changes what the consumer has already taken from it.
CopiedIsStable ==
    /\ wpc = "copy" =>
        /\ wi <= Len(src)
        /\ \A k \in 1..wi : buf[SlotOf(head, k - 1)] = src[k]
    /\ rpc = "copy" =>
        /\ Len(dst) <= rn
        /\ \A k \in 1..Len(dst) : dst[k] = buf[SlotOf(tail, k - 1)]

\* The bytes in flight, oldest first.
Queue == [k \in 1..Readable |-> buf[SlotOf(tail, k - 1)]]

\* The queue that the ring implements: a call takes effect when it publishes
\* its index.
Fifo == INSTANCE ByteFifo WITH
            q       <- Queue,
            writing <- wpc = "copy",
            put     <- src,
            reading <- rpc = "copy",
            take    <- rn,
            got     <- IF rpc = "copy" THEN << >> ELSE dst

\* The ring is a queue: bytes come out in the order and with the values they
\* went in, exactly once, for every interleaving of the two calls and across
\* every wrap of the buffer and of the indices (all of spsc_ring.h).
FifoSpec == Fifo!Spec
=============================================================================
