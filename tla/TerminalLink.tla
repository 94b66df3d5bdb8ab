---------------------------- MODULE TerminalLink ----------------------------
(***************************************************************************)
(* The command link of the terminal: bytes come in by the USB interrupt    *)
(* (rx_ring.h), are assembled into lines (line_assembler.h), dispatched    *)
(* (terminal.cpp, dispatch.cpp), and the replies go out through a FIFO     *)
(* (tx_fifo.h, text_sink.cpp) in packets of Scratch bytes.                 *)
(*                                                                         *)
(* The main loop's step from one access of what it shares with the         *)
(* interrupt to the next is one action.  Of the verbs "mode test" ("t"),   *)
(* "mode run" ("r") and one that does not exist ("u") are kept.            *)
(***************************************************************************)
EXTENDS Integers, Sequences, FiniteSetsExt

CONSTANTS RxCap,       \* RxRing::kCap, 512 in the code
          TxCap,       \* TxFifo::kCap, 2048
          LineMax,     \* LineAssembler::kMax, 128
          Chunk,       \* bytes popped at once, 64
          Scratch,     \* bytes of a packet out, 64
          Timeout,     \* SPK_TERMINAL_TEST_MODE_TIMEOUT_MS, in ticks
          Packets,     \* what the host may send in a packet
          MaxSent,     \* bound: packets sent
          Synchronous  \* the host waits for the reply before it sends again

Letters == {"t", "r", "u"}
Bytes   == Letters \cup {"cr", "nl"}

ASSUME LinkAssumption ==
    /\ {RxCap, TxCap, LineMax, Chunk, Scratch} \subseteq Nat \ {0}
    /\ Scratch >= 3   \* a report fits in what a packet frees: 17 of 64 bytes
    /\ Timeout \in Nat /\ MaxSent \in Nat /\ Synchronous \in BOOLEAN
    /\ \A p \in Packets : Len(p) \in Nat /\ \A i \in 1 .. Len(p) : p[i] \in Bytes

Idle == [slot |-> -1, bytes |-> <<>>]

VARIABLES
    rx,      \* the ring; a byte is "torn" when others were dropped before it
    over,    \* RxRing::_overflow
    asm,     \* LineAssembler
    main,    \* the main loop: where it is, and its local variables
    tx,      \* TxFifo
    usb,     \* the transfer in flight, _scratch and _slot
    mode,    \* TermState, with the time since last_cmd_ms
    host     \* the host: the line it is reading, the reply it waits for, the
             \* packets it has sent, and whether a drop is yet to be told

vars == <<rx, over, asm, main, tx, usb, mode, host>>

-----------------------------------------------------------------------------
(* TxFifo and TextSink.                                                    *)

\* Mutant of Enqueue: what does not fit is dropped and the flag not set.
EnqueueSilent(t, w) ==
    IF Len(w) > TxCap - Len(t.q) THEN [t EXCEPT !.lost = TRUE] ELSE [t EXCEPT !.q = @ \o w]

\* One write; "lost" is not in the code: something was dropped and not told.
Enqueue(t, w) ==
    IF Len(w) > TxCap - Len(t.q) THEN [t EXCEPT !.over = TRUE, !.lost = TRUE]
    ELSE [t EXCEPT !.q = @ \o w]

Ok(t) == Enqueue(t, <<"ok", "nl">>)
Err(t, reason) == Enqueue(Enqueue(Enqueue(t, <<"err">>), <<reason>>), <<"nl">>)

\* The lines a host can make sense of.
Replies == {<<"ok">>} \cup {<<"err", r>> : r \in {"overflow", "txoverflow", "toolong", "unknown"}}

-----------------------------------------------------------------------------
(* LineAssembler and Terminal::on_line.                                    *)

NewLine == [line |-> <<>>, swallow |-> FALSE]

\* Mutant of Dispatch: a blank line is a verb like any other.
DispatchBlank(line, z) ==
    CASE line = <<"t">>  -> [tx |-> Ok(z.tx), mode |-> [z.mode EXCEPT !.test = TRUE]]
      [] line = <<"r">>  -> [tx |-> Ok(z.tx), mode |-> [z.mode EXCEPT !.test = FALSE]]
      [] OTHER           -> [z EXCEPT !.tx = Err(@, "unknown")]

\* Mutant of Dispatch: a verb nobody knows is passed over.
DispatchMute(line, z) ==
    CASE line = <<"t">>  -> [tx |-> Ok(z.tx), mode |-> [z.mode EXCEPT !.test = TRUE]]
      [] line = <<"r">>  -> [tx |-> Ok(z.tx), mode |-> [z.mode EXCEPT !.test = FALSE]]
      [] OTHER           -> z

\* dispatch_line.
Dispatch(line, z) ==
    CASE line = <<>>     -> z
      [] line = <<"t">>  -> [tx |-> Ok(z.tx), mode |-> [z.mode EXCEPT !.test = TRUE]]
      [] line = <<"r">>  -> [tx |-> Ok(z.tx), mode |-> [z.mode EXCEPT !.test = FALSE]]
      [] OTHER           -> [z EXCEPT !.tx = Err(@, "unknown")]

OnLine == Dispatch(asm.line, [tx |-> tx, mode |-> [mode EXCEPT !.since = 0]])

\* Mutant of TooLong: what follows the limit is parsed as a line.
TooLongCut(b) == FALSE

TooLong(b) == Len(asm.line) >= LineMax

\* LineAssembler::feed, and what process does with a line.
Feed(b) ==
    CASE asm.swallow /\ b = "nl"   -> asm' = NewLine /\ tx' = Err(tx, "toolong") /\ UNCHANGED mode
      [] asm.swallow /\ b # "nl"   -> UNCHANGED <<asm, tx, mode>>
      [] ~asm.swallow /\ b = "cr"  -> UNCHANGED <<asm, tx, mode>>
      [] ~asm.swallow /\ b = "nl"  -> asm' = NewLine /\ tx' = OnLine.tx /\ mode' = OnLine.mode
      [] OTHER -> /\ asm' = IF TooLong(b) THEN [asm EXCEPT !.swallow = TRUE]
                                          ELSE [asm EXCEPT !.line = Append(@, b)]
                  /\ UNCHANGED <<tx, mode>>

-----------------------------------------------------------------------------
(* Terminal::process.                                                      *)

At(p) == main.at = p

(* take_overflow reads the flag ...                                        *)
ReadOverflow ==
    /\ At("read")
    /\ main' = [main EXCEPT !.at = "clear", !.over = over]
    /\ UNCHANGED <<rx, over, asm, tx, usb, mode, host>>

\* The reports that are due.
Told(t) ==
    LET r == IF main.over THEN Err(t, "overflow") ELSE t
        o == Err([r EXCEPT !.over = FALSE], "txoverflow")
    IN  IF r.over THEN [o EXCEPT !.lost = o.over] ELSE r

\* Mutant of DeadMan: it does not fire.
DeadManNever == mode

\* The switch that hands the panel back.
DeadMan == IF mode.test /\ mode.since > Timeout THEN [mode EXCEPT !.test = FALSE] ELSE mode

(* ... and clears it; then what was lost is reported and the dead-man      *)
(* switch looked at.                                                       *)
ClearOverflow ==
    /\ At("clear")
    /\ over' = FALSE
    /\ main' = [main EXCEPT !.at = "pop"]
    /\ tx' = Told(tx)
    /\ mode' = DeadMan
    /\ host' = [host EXCEPT !.untold = @ /\ ~main.over]
    /\ UNCHANGED <<rx, asm, usb>>

(* RxRing::pop copies a chunk; its bytes are free when the tail is         *)
(* published.                                                              *)
Pop ==
    /\ At("pop")
    /\ main' = IF rx = <<>> THEN [main EXCEPT !.at = "flush"]
               ELSE [main EXCEPT !.at = "publish",
                                 !.chunk = SubSeq(rx, 1, IF Len(rx) < Chunk THEN Len(rx) ELSE Chunk)]
    /\ UNCHANGED <<rx, over, asm, tx, usb, mode, host>>

Publish ==
    /\ At("publish")
    /\ rx' = SubSeq(rx, Len(main.chunk) + 1, Len(rx))
    /\ main' = [main EXCEPT !.at = "feed"]
    /\ UNCHANGED <<over, asm, tx, usb, mode, host>>

(* One byte of the chunk.                                                  *)
FeedByte ==
    /\ At("feed")
    /\ Feed(main.chunk[1].byte)
    /\ main' = [main EXCEPT !.chunk = Tail(@),
                            !.at = IF Len(main.chunk) = 1 THEN "pop" ELSE "feed",
                            !.torn = (@ \/ main.chunk[1].torn) /\ main.chunk[1].byte # "nl"]
    /\ UNCHANGED <<rx, over, usb, host>>

\* Mutant of Other: one buffer for every packet.
OtherSame(slot) == slot

Other(slot) == 1 - slot

(* flush_tx: stage a packet, and hand it to the stack if that is not busy. *)
Flush ==
    /\ At("flush")
    /\ main' = [main EXCEPT !.at = "read"]
    /\ LET n == IF Len(tx.q) < Scratch THEN Len(tx.q) ELSE Scratch
           p == SubSeq(tx.q, 1, n)
       IN  IF n > 0 /\ usb.busy = Idle
           THEN /\ usb' = [busy |-> [slot |-> usb.slot, bytes |-> p],
                           scratch |-> [usb.scratch EXCEPT ![usb.slot] = p],
                           slot |-> Other(usb.slot)]
                /\ tx' = [tx EXCEPT !.q = SubSeq(@, n + 1, Len(@))]
           ELSE /\ usb' = IF n > 0 THEN [usb EXCEPT !.scratch[usb.slot] = p] ELSE usb
                /\ UNCHANGED tx
    /\ UNCHANGED <<rx, over, asm, mode, host>>

-----------------------------------------------------------------------------
(* The USB interrupt, the host and time.                                   *)

\* The bytes of a line before its end, which is "nl" or "cr", "nl".
Body(p) == IF Len(p) > 1 /\ p[Len(p) - 1] = "cr" THEN Len(p) - 2 ELSE Len(p) - 1

\* The reply to a line, by the protocol; <<>> when there is none.
ReplyTo(p) ==
    LET line == SubSeq(p, 1, Body(p))
    IN  CASE line = <<>>               -> <<>>
          [] Len(line) > LineMax       -> <<"err", "toolong">>
          [] line \in {<<"t">>, <<"r">>} -> <<"ok">>
          [] OTHER                     -> <<"err", "unknown">>

(* A packet arrives: RxRing::push.  The host that is synchronous sends a   *)
(* line and waits for the reply.                                           *)
Receive(p) ==
    /\ host.sent < MaxSent
    /\ Synchronous => host.awaited = <<>>
    /\ LET free == RxCap - Len(rx)
           n    == IF Len(p) > free THEN free ELSE Len(p)
       IN  /\ rx' = rx \o [i \in 1 .. n |-> [byte |-> p[i], torn |-> i = 1 /\ host.gap]]
           /\ over' = (over \/ Len(p) > free)
           /\ host' = [host EXCEPT !.sent = @ + 1,
                                   !.awaited = IF Synchronous THEN ReplyTo(p) ELSE @,
                                   !.gap = Len(p) > free \/ (@ /\ n = 0),
                                   !.untold = @ \/ Len(p) > free]
    /\ UNCHANGED <<asm, main, tx, usb, mode>>

\* The ends of the lines in a text, and the line that ends at i.
Ends(text) == {i \in 1 .. Len(text) : text[i] = "nl"}
EndBefore(text, i) == LET before == {j \in Ends(text) : j < i}
                      IN  IF before = {} THEN 0 ELSE Max(before)
LineTo(text, i) == SubSeq(text, EndBefore(text, i) + 1, i - 1)

\* Not a reply, or not the one it waits for.
Wrong(h, text, i) ==
    \/ LineTo(text, i) \notin Replies
    \/ Synchronous /\ (LineTo(text, i) # h.awaited \/ EndBefore(text, i) > 0)

\* The host reads a packet, after what it has of a line.
Hear(h, packet) ==
    LET text == h.line \o packet
    IN  [h EXCEPT !.line = SubSeq(text, EndBefore(text, Len(text) + 1) + 1, Len(text)),
                  !.awaited = IF Ends(text) = {} THEN @ ELSE <<>>,
                  !.garbled = @ \/ \E i \in Ends(text) : Wrong(h, text, i)]

(* The transfer in flight ends: the host has what the buffer holds now.    *)
Sent ==
    /\ usb.busy # Idle
    /\ usb' = [usb EXCEPT !.busy = Idle]
    /\ host' = Hear(host, usb.scratch[usb.busy.slot])
    /\ UNCHANGED <<rx, over, asm, main, tx, mode>>

Tick ==
    /\ mode.since <= Timeout
    /\ mode' = [mode EXCEPT !.since = @ + 1]
    /\ UNCHANGED <<rx, over, asm, main, tx, usb, host>>

-----------------------------------------------------------------------------

Init ==
    /\ rx = <<>> /\ over = FALSE /\ asm = NewLine
    /\ main = [at |-> "read", over |-> FALSE, chunk |-> <<>>, torn |-> FALSE]
    /\ tx = [q |-> <<>>, over |-> FALSE, lost |-> FALSE]
    /\ usb = [busy |-> Idle, scratch |-> [i \in {0, 1} |-> <<>>], slot |-> 0]
    /\ mode = [test |-> FALSE, since |-> 0]
    /\ host = [line |-> <<>>, awaited |-> <<>>, garbled |-> FALSE,
               sent |-> 0, gap |-> FALSE, untold |-> FALSE]

Process == ReadOverflow \/ ClearOverflow \/ Pop \/ Publish \/ FeedByte \/ Flush

Next == Process \/ Sent \/ Tick \/ \E p \in Packets : Receive(p)

Spec == Init /\ [][Next]_vars

\* The main loop runs, the host reads, and time passes.
FairSpec == Spec /\ WF_vars(Process) /\ WF_vars(Sent) /\ WF_vars(Tick)

-----------------------------------------------------------------------------

Tokens == {"ok", "nl", "err", "overflow", "txoverflow", "toolong", "unknown"}
Cells  == [byte : Bytes, torn : BOOLEAN]

TypeOK ==
    /\ rx \in Seq(Cells) /\ Len(rx) <= RxCap
    /\ over \in BOOLEAN
    /\ asm \in [line : Seq(Letters), swallow : BOOLEAN] /\ Len(asm.line) <= LineMax
    /\ main \in [at : {"read", "clear", "pop", "publish", "feed", "flush"},
                 over : BOOLEAN, chunk : Seq(Cells), torn : BOOLEAN]
    /\ main.at \in {"publish", "feed"} <=> main.chunk # <<>>
    /\ tx \in [q : Seq(Tokens), over : BOOLEAN, lost : BOOLEAN] /\ Len(tx.q) <= TxCap
    /\ usb \in [busy : [slot : {-1, 0, 1}, bytes : Seq(Tokens)],
                scratch : [{0, 1} -> Seq(Tokens)], slot : {0, 1}]
    /\ mode \in [test : BOOLEAN, since : 0 .. Timeout + 1]

(* terminal.h:91-95: the buffer of a packet that is in flight is left      *)
(* alone, however often process runs meanwhile.                            *)
InFlightStable == usb.busy # Idle => usb.scratch[usb.busy.slot] = usb.busy.bytes

(* A host that sends a line and waits reads the reply to that line, whole, *)
(* and nothing else: "one reply per command" (terminal-dispatch.md:300).   *)
ReplyInTurn == ~host.garbled

(* ... and it does not wait for ever.                                      *)
Answered == (host.awaited # <<>>) ~> (host.awaited = <<>>)

(* terminal.cpp:143-145: a reply that was dropped is reported when there   *)
(* is room, by a report that is itself not dropped.                        *)
TxLossTold == tx.lost ~> ~tx.lost

(* term_state.h:18-21: a host that falls silent in test mode gives the     *)
(* panel back.                                                             *)
Thaws == []<>(~mode.test)

(* terminal-transport.md:109: bytes that were dropped are reported, "so a  *)
(* test never silently loses input".                                       *)
RxLossTold == host.untold => over \/ (At("clear") /\ main.over)

(* terminal.cpp:141: "report a dropped RX burst before the next line": a   *)
(* line that dropped bytes were in or before is not run until then.        *)
ToldFirst ==
    (At("feed") /\ main.chunk[1].byte = "nl" /\ ~asm.swallow /\ asm.line # <<>>
       /\ (main.torn \/ main.chunk[1].torn)) => ~host.untold

(* tx_fifo.h:25-26: "partial replies would corrupt the line-framed         *)
(* protocol, so it is all-or-nothing".                                     *)
WholeReplies == ~host.garbled

=============================================================================
