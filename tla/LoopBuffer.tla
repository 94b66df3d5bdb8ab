----------------------------- MODULE LoopBuffer -----------------------------
(***************************************************************************)
(* The loop buffer of a granular deck (engine/granular/buffer.cpp), as     *)
(* functions of its state.  A take is recorded from frame 0; a cut closes  *)
(* the loop, and from then on recording is overdubbing: the write head     *)
(* wraps inside the loop.  A recording fades in and, once switched off,    *)
(* fades out.                                                              *)
(*                                                                         *)
(* The frames themselves are left out: the state is the heads, the length, *)
(* the phase and the fade counter.                                         *)
(***************************************************************************)
EXTENDS Integers

CONSTANTS Cap,    \* _buffer_size, in frames
          Fade,   \* kRecordFade: 192 frames in the code
          Wrap    \* size_t counts modulo Wrap

ASSUME BufferAssumption == /\ Cap \in Nat \ {0}
                           /\ Fade \in Nat /\ Fade >= 3
                           /\ Wrap \in Nat /\ Wrap > Fade

Phases == {"idle", "fadein", "sustain", "fadeout"}

Buffers == [st : Phases,
            cut : BOOLEAN,          \* _cut_switch.is_on(): the loop is closed
            size : 0 .. Cap,        \* _size
            wh : 0 .. Cap - 1,      \* _write_head
            rh : 0 .. Cap - 1,      \* _read_head
            fade : 0 .. Wrap - 1,   \* _fade_counter
            didCut : BOOLEAN]       \* _did_cut

Blank == [st |-> "idle", cut |-> FALSE, size |-> 0, wh |-> 0, rh |-> 0,
          fade |-> 0, didCut |-> FALSE]

Recording(b) == b.st # "idle"

-----------------------------------------------------------------------------

\* set_recording(true) starts where the loop is being heard.
RecordOn(b) == IF b.st # "idle" THEN b
               ELSE [b EXCEPT !.st = "fadein", !.fade = 0,
                              !.wh = IF b.rh = 0 THEN 0 ELSE b.rh - 1]

\* set_recording(false): the end of a take is faded into its beginning.
RecordOff(b) == IF b.st \notin {"fadein", "sustain"} THEN b
                ELSE [b EXCEPT !.st = "fadeout", !.wh = IF b.cut THEN @ ELSE 0]

Cut(b) == IF b.cut THEN b
          ELSE [b EXCEPT !.cut = TRUE, !.didCut = TRUE, !.wh = 0]

\* Mutant of Zeroed: the read head stays.
ZeroedUnread(b, at) ==
    CASE at = "write" -> [b EXCEPT !.wh = 0]
      [] at = "read"  -> b
      [] at = "size"  -> [b EXCEPT !.size = 0]
      [] at = "cut"   -> [b EXCEPT !.cut = FALSE]
      [] at = "state" -> [b EXCEPT !.st = "idle"]

\* clear(): one store after another.
Zeroed(b, at) ==
    CASE at = "write" -> [b EXCEPT !.wh = 0]
      [] at = "read"  -> [b EXCEPT !.rh = 0]
      [] at = "size"  -> [b EXCEPT !.size = 0]
      [] at = "cut"   -> [b EXCEPT !.cut = FALSE]
      [] at = "state" -> [b EXCEPT !.st = "idle"]

Down(c) == IF c = 0 THEN Wrap - 1 ELSE c - 1

\* Mutants of Advanced: the wrap compares for equality; an overdub does not wrap
\* in its loop; a take runs on at the end of the buffer.
AdvancedAtEnd(b) ==
    LET w == b.wh + 1
    IN  IF b.cut THEN [b EXCEPT !.wh = IF w = b.size \/ w >= Cap THEN 0 ELSE w]
        ELSE IF w >= Cap THEN Cut([b EXCEPT !.size = Cap])
        ELSE [b EXCEPT !.wh = w, !.size = IF @ < w THEN w ELSE @]
AdvancedOpen(b) ==
    LET w == b.wh + 1
    IN  IF w >= Cap THEN Cut([b EXCEPT !.wh = 0, !.size = Cap])
        ELSE [b EXCEPT !.wh = w, !.size = IF @ < w THEN w ELSE @]
AdvancedOn(b) ==
    LET w == b.wh + 1
    IN  IF b.cut THEN [b EXCEPT !.wh = IF w >= b.size THEN 0 ELSE w]
        ELSE [b EXCEPT !.wh = w, !.size = IF @ < w THEN w ELSE @]

\* The end of write(): advance the head, and with it the length of a take.
\* A take that fills the buffer is cut.
Advanced(b) ==
    LET w == b.wh + 1
    IN  IF b.cut THEN [b EXCEPT !.wh = IF w >= b.size THEN 0 ELSE w]
        ELSE IF w >= Cap THEN Cut([b EXCEPT !.size = Cap])
        ELSE [b EXCEPT !.wh = w, !.size = IF @ < w THEN w ELSE @]

\* Mutant of FadedIn: one frame too long.
FadedInLong(b) == [b EXCEPT !.fade = @ + 1,
                            !.st = IF b.fade + 1 = Fade THEN "sustain" ELSE @]

FadedIn(b)  == [b EXCEPT !.fade = @ + 1,
                         !.st = IF b.fade + 1 = Fade - 1 THEN "sustain" ELSE @]
FadedOut(b) == [b EXCEPT !.fade = Down(@)]

\* Mutant of Write: the fade ends without closing the loop.
WriteUncut(b) ==
    CASE b.st = "idle"    -> b
      [] b.st = "fadein"  -> Advanced(FadedIn(b))
      [] b.st = "sustain" -> Advanced(b)
      [] b.st = "fadeout" -> IF Down(b.fade) = 0 THEN [FadedOut(b) EXCEPT !.st = "idle"]
                             ELSE Advanced(FadedOut(b))

\* write(): one frame.
Write(b) ==
    CASE b.st = "idle"    -> b
      [] b.st = "fadein"  -> Advanced(FadedIn(b))
      [] b.st = "sustain" -> Advanced(b)
      [] b.st = "fadeout" -> IF Down(b.fade) = 0
                             THEN [Cut(FadedOut(b)) EXCEPT !.st = "idle"]
                             ELSE Advanced(FadedOut(b))

\* _read(): the frame is taken modulo the length.
Read(b, r) == [b EXCEPT !.rh = r]

-----------------------------------------------------------------------------
(* A loop is closed before the buffer is left idle, and a take that is     *)
(* still being recorded and has run for n frames is those frames.          *)

Open(b) == b.st \in {"fadein", "sustain"} /\ ~b.cut

FadeBelow(b) == b.st = "fadein" => b.fade < Fade - 1
Closed(b) == b.st = "idle" /\ b.size > 0 => b.cut
Unread(b) == b.st = "idle" /\ ~b.cut => b.rh = 0
OneRun(b, n) == Open(b) => b.size = n /\ b.wh = n
InLoop(b) == b.cut /\ b.size > 0 => b.wh < b.size

=============================================================================
