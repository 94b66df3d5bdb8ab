------------------------------ MODULE ByteFifo ------------------------------
(***************************************************************************)
(* What a byte ring promises its two users: a bounded first-in first-out   *)
(* queue.  A call of either side lasts for a while.  A write accepts as    *)
(* much of its request as fits when it is called, and all of it is queued  *)
(* at one instant, the end of the call; a read delivers as much of its     *)
(* request as is queued when it is called, and all of it leaves the queue  *)
(* at the end of the call.  No byte is lost, invented, repeated or         *)
(* overtaken.                                                              *)
(***************************************************************************)
EXTENDS Naturals, Sequences

CONSTANTS Byte,   \* the values a byte can take
          Cap,    \* the most bytes the queue holds
          MaxReq  \* the most bytes one call asks for

VARIABLES q,        \* the queue
          writing,  \* a write is under way
          put,      \* the bytes it accepted
          reading,  \* a read is under way
          take,     \* how many bytes it delivers
          got       \* what the last completed read delivered

vars == <<q, writing, put, reading, take, got>>

AtMost(m, n) == IF m <= n THEN m ELSE n

Init ==
    /\ q = << >> /\ put = << >> /\ got = << >> /\ take = 0
    /\ writing = FALSE /\ reading = FALSE

Offer(s) ==
    /\ ~writing
    /\ writing' = TRUE
    /\ put' = SubSeq(s, 1, AtMost(Len(s), Cap - Len(q)))
    /\ UNCHANGED <<q, reading, take, got>>

Enqueue ==
    /\ writing
    /\ writing' = FALSE
    /\ q' = q \o put
    /\ UNCHANGED <<put, reading, take, got>>

Ask(n) ==
    /\ ~reading
    /\ reading' = TRUE
    /\ take' = AtMost(n, Len(q))
    /\ got' = << >>
    /\ UNCHANGED <<q, writing, put>>

Dequeue ==
    /\ reading
    /\ reading' = FALSE
    /\ got' = SubSeq(q, 1, take)
    /\ q' = SubSeq(q, take + 1, Len(q))
    /\ UNCHANGED <<writing, put, take>>

\* The owner empties the queue between calls.
Clear ==
    /\ ~writing /\ ~reading
    /\ q' = << >>
    /\ UNCHANGED <<writing, put, reading, take, got>>

Request == UNION {[1..n -> Byte] : n \in 0..MaxReq}

Next ==
    \/ \E s \in Request : Offer(s)
    \/ Enqueue
    \/ \E n \in 0..MaxReq : Ask(n)
    \/ Dequeue
    \/ Clear

Spec == Init /\ [][Next]_vars
=============================================================================
