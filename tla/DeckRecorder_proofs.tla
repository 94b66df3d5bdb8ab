------------------------ MODULE DeckRecorder_proofs ------------------------
(***************************************************************************)
(* The loop of a granular deck is well formed whatever the length of the   *)
(* buffer and of the fades, and whatever lengths the card brings; and as   *)
(* long as the mode switch stays and one pad is touched in a scan, a fade  *)
(* never leaves its table.                                                 *)
(***************************************************************************)
EXTENDS MCDeckRecorder, TLAPS

Weak(b) == b \in Buffers /\ FadeBelow(b)

Whole(b, n) == Closed(b) /\ Unread(b) /\ OneRun(b, n)

\* No frames count for a buffer that is idle.
Fresh(b, n) == b.st = "idle" => n = 0

-----------------------------------------------------------------------------
(* What each operation of the buffer preserves.                            *)

LEMMA Frames == 0 \in 0 .. Cap - 1 /\ 0 \in 0 .. Cap /\ Cap \in 0 .. Cap
BY BufferAssumption

LEMMA Counts == 0 \in 0 .. Wrap - 1 /\ Wrap - 1 \in 0 .. Wrap - 1
BY BufferAssumption

LEMMA BlankGood == Weak(Blank) /\ Whole(Blank, 0)
BY Frames, Counts
DEF Weak, Whole, Buffers, Blank, Phases, FadeBelow, Closed, Unread, OneRun, Open

LEMMA ReadGood ==
    ASSUME NEW b, Weak(b), NEW r \in 0 .. b.size - 1
    PROVE  /\ Weak(Read(b, r))
           /\ \A n \in Nat : Whole(b, n) => Whole(Read(b, r), n)
BY BufferAssumption
DEF Weak, Whole, Buffers, Phases, Read, FadeBelow, Closed, Unread, OneRun, Open

LEMMA RecordOnGood ==
    ASSUME NEW b, Weak(b)
    PROVE  /\ Weak(RecordOn(b))
           /\ \A n \in Nat : Whole(b, n) /\ Fresh(b, n)
                  => Whole(RecordOn(b), n) /\ Fresh(RecordOn(b), n)
           /\ RecordOn(b).cut = b.cut
           /\ RecordOn(b).size = b.size
<1>1. CASE b.st # "idle"
  BY <1>1 DEF RecordOn
<1>2. CASE b.st = "idle"
  <2> DEFINE c == RecordOn(b)
  <2>1. b.rh # 0 => b.rh - 1 \in 0 .. Cap - 1
    BY BufferAssumption DEF Weak, Buffers
  <2>2. c \in Buffers
    BY <1>2, <2>1, Frames, Counts DEF Weak, Buffers, Phases, RecordOn
  <2>3. /\ c.st = "fadein" /\ c.fade = 0 /\ c.cut = b.cut /\ c.size = b.size
        /\ c.wh = IF b.rh = 0 THEN 0 ELSE b.rh - 1
    BY <1>2 DEF Weak, Buffers, RecordOn
  <2>4. b.size \in Nat
    BY BufferAssumption DEF Weak, Buffers
  <2> HIDE DEF c
  <2>5. Weak(c)
    BY <2>2, <2>3, BufferAssumption DEF Weak, FadeBelow
  <2>6. \A n \in Nat : Whole(b, n) /\ Fresh(b, n) => Whole(c, n) /\ Fresh(c, n)
    BY <1>2, <2>3, <2>4 DEF Whole, Fresh, Closed, Unread, OneRun, Open
  <2> QED
    BY <2>3, <2>5, <2>6 DEF c
<1> QED
  BY <1>1, <1>2

LEMMA RecordOffGood ==
    ASSUME NEW b, Weak(b)
    PROVE  /\ Weak(RecordOff(b))
           /\ \A n \in Nat : Whole(b, n) /\ Fresh(b, n)
                  => Whole(RecordOff(b), n) /\ Fresh(RecordOff(b), n)
           /\ RecordOff(b).cut = b.cut
           /\ RecordOff(b).size = b.size
<1> DEFINE c == RecordOff(b)
<1>1. CASE b.st \notin {"fadein", "sustain"}
  BY <1>1 DEF RecordOff
<1>2. CASE b.st \in {"fadein", "sustain"}
  <2>1. c \in Buffers
    BY Frames, Counts DEF Weak, Buffers, Phases, RecordOff
  <2>2. c.st = "fadeout" /\ c.cut = b.cut /\ c.size = b.size
    BY <1>2 DEF Weak, Buffers, RecordOff
  <2> HIDE DEF c
  <2>3. Weak(c)
    BY <2>1, <2>2 DEF Weak, FadeBelow
  <2>4. \A n \in Nat : Whole(c, n) /\ Fresh(c, n)
    BY <2>2 DEF Whole, Fresh, Closed, Unread, OneRun, Open
  <2> QED
    BY <2>2, <2>3, <2>4 DEF c
<1> QED
  BY <1>1, <1>2

\* Whatever has become of a buffer, a cut puts it right.
LEMMA CutGood ==
    ASSUME NEW b, Weak(b)
    PROVE  /\ Weak(Cut(b))
           /\ Cut(b).cut
           /\ \A n \in Nat : Whole(Cut(b), n)
           /\ Cut(b).st = b.st
           /\ Cut(b).size = b.size
           /\ InLoop(b) => InLoop(Cut(b))
<1> DEFINE c == Cut(b)
<1>1. c \in Buffers
  BY Frames, Counts DEF Weak, Buffers, Phases, Cut
<1>2. /\ c.cut = TRUE /\ c.st = b.st /\ c.fade = b.fade /\ c.size = b.size
      /\ InLoop(b) => InLoop(c)
  BY DEF Weak, Buffers, Cut, InLoop
<1> HIDE DEF c
<1>3. Weak(c) /\ \A n \in Nat : Whole(c, n)
  BY <1>1, <1>2 DEF Weak, FadeBelow, Whole, Closed, Unread, OneRun, Open
<1> QED
  BY <1>2, <1>3 DEF c

\* The stores of a clear, each after those before it.
LEMMA ZeroedGood ==
    ASSUME NEW b, Weak(b)
    PROVE  /\ \A at \in Clearing : Weak(Zeroed(b, at))
           /\ Zeroed(b, "write").wh = 0
           /\ b.wh = 0 => Zeroed(b, "read").wh = 0 /\ Zeroed(b, "read").rh = 0
           /\ Zeroed(b, "size").size = 0
           /\ Zeroed(b, "size").wh = b.wh /\ Zeroed(b, "size").rh = b.rh
           /\ Zeroed(b, "cut").wh = b.wh /\ Zeroed(b, "cut").rh = b.rh
           /\ Zeroed(b, "cut").size = b.size /\ ~Zeroed(b, "cut").cut
           /\ Zeroed(b, "state") = [b EXCEPT !.st = "idle"]
           /\ \A at \in Clearing \ {"size"} : Zeroed(b, at).size = b.size
<1>1. \A at \in Clearing : Zeroed(b, at) \in Buffers
  BY Frames DEF Clearing, Zeroed, Weak, Buffers, Phases
<1>2. \A at \in Clearing : /\ Zeroed(b, at).st = IF at = "state" THEN "idle" ELSE b.st
                           /\ Zeroed(b, at).fade = b.fade
  BY DEF Clearing, Zeroed, Weak, Buffers
<1>3. \A at \in Clearing : Weak(Zeroed(b, at))
  BY <1>1, <1>2 DEF Weak, FadeBelow
<1> QED
  BY <1>3 DEF Clearing, Zeroed, Weak, Buffers

LEMMA AdvancedGood ==
    ASSUME NEW b, Weak(b), b.st # "idle"
    PROVE  /\ Weak(Advanced(b))
           /\ \A n \in Nat : Whole(b, n) => Whole(Advanced(b), n + 1)
           /\ InLoop(Advanced(b))
           /\ b.cut => Advanced(b).size = b.size
           /\ Advanced(b).st = b.st
<1>1. CASE b.cut
  <2> DEFINE h == IF b.wh + 1 >= b.size THEN 0 ELSE b.wh + 1
             c == [b EXCEPT !.wh = h]
  <2>1. h \in 0 .. Cap - 1 /\ (b.size > 0 => h < b.size)
    BY <1>1, BufferAssumption DEF Weak, Buffers
  <2>2. Advanced(b) = c
    BY <1>1 DEF Advanced
  <2> HIDE DEF h
  <2>3. c \in Buffers
    BY <2>1 DEF Weak, Buffers
  <2>4. c.st = b.st /\ c.fade = b.fade /\ c.cut = TRUE /\ c.size = b.size /\ c.wh = h
    BY <1>1 DEF Weak, Buffers
  <2> HIDE DEF c
  <2>5. Weak(c) /\ InLoop(c) /\ \A n \in Nat : Whole(c, n + 1)
    BY <2>1, <2>3, <2>4 DEF Weak, Whole, FadeBelow, Closed, Unread, OneRun, Open, InLoop
  <2> QED
    BY <2>2, <2>4, <2>5
<1>2. CASE ~b.cut /\ b.wh + 1 >= Cap
  <2> DEFINE c == [b EXCEPT !.size = Cap]
  <2>1. Advanced(b) = Cut(c)
    BY <1>2 DEF Advanced
  <2>2. c \in Buffers
    BY Frames DEF Weak, Buffers
  <2>3. c.st = b.st /\ c.fade = b.fade /\ c.cut = b.cut
    BY DEF Weak, Buffers
  <2> HIDE DEF c
  <2>4. Weak(c) /\ InLoop(c)
    BY <1>2, <2>2, <2>3 DEF Weak, FadeBelow, InLoop
  <2>5. /\ Weak(Cut(c)) /\ InLoop(Cut(c)) /\ Cut(c).st = c.st
        /\ \A n \in Nat : Whole(Cut(c), n)
    BY <2>4, CutGood
  <2>6. \A n \in Nat : n + 1 \in Nat
    OBVIOUS
  <2> QED
    BY <1>2, <2>1, <2>3, <2>5, <2>6
<1>3. CASE ~b.cut /\ ~(b.wh + 1 >= Cap)
  <2> DEFINE m == IF b.size < b.wh + 1 THEN b.wh + 1 ELSE b.size
             c == [b EXCEPT !.wh = b.wh + 1, !.size = m]
  <2>1. Advanced(b) = c
    BY <1>3 DEF Advanced, Weak, Buffers
  <2>2. b.wh + 1 \in 0 .. Cap - 1 /\ m \in 0 .. Cap /\ m >= b.wh + 1
    BY <1>3, BufferAssumption DEF Weak, Buffers
  <2>3. c \in Buffers
    BY <2>2 DEF Weak, Buffers
  <2>4. c.st = b.st /\ c.fade = b.fade /\ c.cut = b.cut /\ c.size = m /\ c.wh = b.wh + 1
    BY DEF Weak, Buffers
  <2>5. \A n \in Nat : b.size = n /\ b.wh = n => m = n + 1
    OBVIOUS
  <2> HIDE DEF c, m
  <2>6. Weak(c) /\ InLoop(c)
    BY <1>3, <2>3, <2>4 DEF Weak, FadeBelow, InLoop
  <2>7. \A n \in Nat : Whole(b, n) => Whole(c, n + 1)
    BY <1>3, <2>4, <2>5 DEF Whole, Closed, Unread, OneRun, Open
  <2> QED
    BY <1>3, <2>1, <2>4, <2>6, <2>7
<1> QED
  BY <1>1, <1>2, <1>3

LEMMA WriteGood ==
    ASSUME NEW b, Weak(b)
    PROVE  /\ Weak(Write(b))
           /\ \A n \in Nat : Whole(b, n) => Whole(Write(b), n + 1)
           /\ Recording(Write(b)) => InLoop(Write(b))
           /\ b.cut => Write(b).size = b.size
<1>0. \A n \in Nat : n + 1 \in Nat
  OBVIOUS
<1>1. CASE b.st = "idle"
  BY <1>1 DEF Write, Recording, Whole, OneRun, Open
<1>2. CASE b.st = "fadein"
  <2> DEFINE c == FadedIn(b)
  <2>1. b.fade + 1 \in 0 .. Wrap - 1 /\ b.fade + 1 <= Fade - 1
    BY <1>2, BufferAssumption DEF Weak, Buffers, FadeBelow
  <2>2. c \in Buffers
    BY <1>2, <2>1 DEF Weak, Buffers, Phases, FadedIn
  <2>3. /\ c.st \in {"fadein", "sustain"} /\ (c.st = "fadein" => b.fade + 1 # Fade - 1)
        /\ c.fade = b.fade + 1 /\ c.cut = b.cut /\ c.size = b.size /\ c.wh = b.wh
    BY <1>2 DEF Weak, Buffers, FadedIn
  <2> HIDE DEF c
  <2>4. Weak(c)
    BY <1>2, <2>1, <2>2, <2>3, BufferAssumption DEF Weak, Buffers, FadeBelow
  <2>5. \A n \in Nat : Whole(b, n) => Whole(c, n)
    BY <1>2, <2>3 DEF Whole, Closed, Unread, OneRun, Open
  <2>6. Write(b) = Advanced(c)
    BY <1>2 DEF Write, c
  <2> QED
    BY <2>3, <2>4, <2>5, <2>6, AdvancedGood
<1>3. CASE b.st = "sustain"
  <2>1. Write(b) = Advanced(b)
    BY <1>3 DEF Write
  <2> QED
    BY <1>3, <2>1, AdvancedGood
<1>4. CASE b.st = "fadeout"
  <2> DEFINE c == FadedOut(b)
  <2>1. Down(b.fade) \in 0 .. Wrap - 1
    BY BufferAssumption DEF Weak, Buffers, Down
  <2>2. c \in Buffers
    BY <2>1 DEF Weak, Buffers, FadedOut
  <2>3. c.st = "fadeout" /\ c.cut = b.cut /\ c.size = b.size
    BY <1>4 DEF Weak, Buffers, FadedOut
  <2> HIDE DEF c
  <2>4. Weak(c) /\ \A n \in Nat : Whole(c, n)
    BY <2>2, <2>3 DEF Weak, Whole, FadeBelow, Closed, Unread, OneRun, Open
  <2>5. CASE Down(b.fade) = 0
    <3> DEFINE d == Cut(c)
               e == [d EXCEPT !.st = "idle"]
    <3>1. Write(b) = e
      BY <1>4, <2>5 DEF Write, c
    <3>2. Weak(d) /\ d.size = b.size /\ d.cut
      BY <2>3, <2>4, CutGood
    <3> HIDE DEF d
    <3>3. e \in Buffers /\ e.st = "idle" /\ e.cut /\ e.size = d.size
      BY <3>2 DEF Weak, Buffers, Phases
    <3> HIDE DEF e
    <3>4. Weak(e) /\ ~Recording(e) /\ \A n \in Nat : Whole(e, n)
      BY <3>3 DEF Weak, Whole, FadeBelow, Closed, Unread, OneRun, Open, Recording
    <3> QED
      BY <1>0, <3>1, <3>2, <3>3, <3>4
  <2>6. CASE Down(b.fade) # 0
    <3>1. Write(b) = Advanced(c)
      BY <1>4, <2>6 DEF Write, c
    <3> QED
      BY <2>3, <2>4, <3>1, AdvancedGood
  <2> QED
    BY <2>5, <2>6
<1> QED
  BY <1>1, <1>2, <1>3, <1>4 DEF Weak, Buffers, Phases

-----------------------------------------------------------------------------
(* What the interrupt preserves.                                           *)

Dets == {"off", "listening", "open", "closing"}
Decks == [slice : BOOLEAN, armed : BOOLEAN, playing : BOOLEAN,
          recordQueued : BOOLEAN, playQueued : BOOLEAN, cutQueued : BOOLEAN]

Sound(z) == Weak(z.buf) /\ z.det \in Dets /\ z.deck \in Decks

\* A whole buffer stays whole, n frames later.
Keeps(b, c, n) == \A m \in Nat : Whole(b, m) /\ Fresh(b, m) => Whole(c, m + n)

Follows(b, c) == \A m \in Nat : Whole(b, m) /\ Fresh(b, m) => Whole(c, m) /\ Fresh(c, m)

LEMMA FollowsKeeps ==
    ASSUME NEW b, NEW c, Follows(b, c)
    PROVE  Keeps(b, c, 0)
<1>1. \A m \in Nat : m + 0 = m
  OBVIOUS
<1> QED
  BY <1>1 DEF Follows, Keeps

LEMMA PlayedType ==
    ASSUME NEW d \in Decks
    PROVE  Played(d) \in Decks /\ Stopped(d) \in Decks
BY DEF Decks, Played, Stopped

LEMMA ToggledType ==
    ASSUME NEW d \in Decks, NEW b
    PROVE  Toggled(d, b) \in Decks
BY PlayedType DEF Toggled, Decks

LEMMA TickedSound ==
    ASSUME NEW z \in [buf : Buffers, det : Dets, deck : Decks], Sound(z)
    PROVE  /\ Sound(Ticked(z)) /\ Follows(z.buf, Ticked(z).buf)
           /\ Ticked(z) \in [buf : Buffers, det : Dets, deck : Decks]
           /\ Ticked(z).buf.cut = z.buf.cut
           /\ Ticked(z).buf.size = z.buf.size
<1> DEFINE c == Clocked(z)
<1>1. /\ Sound(c) /\ c.buf.cut = z.buf.cut /\ c.buf.size = z.buf.size
      /\ Follows(z.buf, c.buf)
      /\ c \in [buf : Buffers, det : Dets, deck : Decks]
  <2>1. CASE Recording(z.buf) /\ ~z.deck.armed
    <3>1. c = [z EXCEPT !.buf = RecordOff(@), !.det = Deafen(@)]
      BY <2>1 DEF Clocked
    <3>2. Deafen(z.det) \in Dets
      BY DEF Deafen, Dets
    <3> HIDE DEF c
    <3>3. c.buf = RecordOff(z.buf) /\ c.det = Deafen(z.det) /\ c.deck = z.deck
      BY <3>1
    <3>4. Weak(c.buf) /\ Follows(z.buf, c.buf)
      BY <3>3, RecordOffGood DEF Sound, Follows
    <3> QED
      BY <3>1, <3>2, <3>3, <3>4, RecordOffGood DEF Sound, Weak
  <2>2. CASE Recording(z.buf) /\ z.deck.armed /\ z.deck.recordQueued
    <3>1. c = [z EXCEPT !.deck = [@ EXCEPT !.recordQueued = FALSE, !.cutQueued = TRUE]]
      BY <2>2 DEF Clocked
    <3>2. [z.deck EXCEPT !.recordQueued = FALSE, !.cutQueued = TRUE] \in Decks
      BY DEF Sound, Decks
    <3> HIDE DEF c
    <3> QED
      BY <3>1, <3>2 DEF Sound, Follows
  <2>3. CASE ~Recording(z.buf) /\ z.deck.recordQueued
    <3>1. c = [z EXCEPT !.deck = [@ EXCEPT !.recordQueued = FALSE], !.buf = RecordOn(@)]
      BY <2>3 DEF Clocked
    <3>2. [z.deck EXCEPT !.recordQueued = FALSE] \in Decks
      BY DEF Sound, Decks
    <3> HIDE DEF c
    <3>3. c.buf = RecordOn(z.buf) /\ c.det = z.det /\ c.deck \in Decks
      BY <3>1, <3>2
    <3>4. Weak(c.buf) /\ Follows(z.buf, c.buf)
      BY <3>3, RecordOnGood DEF Sound, Follows
    <3> QED
      BY <3>1, <3>2, <3>3, <3>4, RecordOnGood DEF Sound, Weak
  <2>4. CASE /\ ~(Recording(z.buf) /\ ~z.deck.armed)
             /\ ~(Recording(z.buf) /\ z.deck.armed /\ z.deck.recordQueued)
             /\ ~(~Recording(z.buf) /\ z.deck.recordQueued)
    <3>1. c = z
      BY <2>4 DEF Clocked
    <3> QED
      BY <3>1 DEF Follows
  <2> QED
    BY <2>1, <2>2, <2>3, <2>4
<1> HIDE DEF c
<1>2. Ticked(z) = IF c.deck.playQueued THEN [c EXCEPT !.deck = Played(@)] ELSE c
  BY DEF Ticked, c
<1>3. Played(c.deck) \in Decks
  BY <1>1, PlayedType DEF Sound
<1>4. Ticked(z).buf = c.buf
  BY <1>1, <1>2
<1> QED
  BY <1>1, <1>2, <1>3, <1>4 DEF Sound

LEMMA FedSound ==
    ASSUME NEW z \in [buf : Buffers, det : Dets, deck : Decks], Sound(z),
           NEW edge \in BOOLEAN, NEW loud \in BOOLEAN
    PROVE  /\ Sound(Fed(z, edge, loud))
           /\ Keeps(z.buf, Fed(z, edge, loud).buf, 1)
           /\ Recording(Fed(z, edge, loud).buf) => InLoop(Fed(z, edge, loud).buf)
           /\ z.buf.cut => Fed(z, edge, loud).buf.size = z.buf.size
<1> DEFINE t == Detected(z.det, edge, loud)
           o == IF t = "open" THEN RecordOn(z.buf) ELSE z.buf
           w == Write(o)
           c == IF z.deck.cutQueued THEN Cut(w) ELSE w
           plays == c.didCut /\ Recording(c)
           d == IF ~plays THEN [z.deck EXCEPT !.cutQueued = FALSE]
                ELSE IF z.deck.slice
                THEN [z.deck EXCEPT !.cutQueued = FALSE, !.playQueued = TRUE]
                ELSE Played([z.deck EXCEPT !.cutQueued = FALSE])
           n == Fed(z, edge, loud)
<1>0. \A m \in Nat : m + 1 \in Nat
  OBVIOUS
<1>1. t \in Dets
  BY DEF Detected, Dets
<1>2. Weak(o) /\ Follows(z.buf, o) /\ o.cut = z.buf.cut /\ o.size = z.buf.size
  BY RecordOnGood DEF Sound, Follows
<1>3. /\ Weak(w) /\ (Recording(w) => InLoop(w)) /\ Keeps(z.buf, w, 1)
      /\ z.buf.cut => w.size = z.buf.size
  <2> HIDE DEF o
  <2> QED
    BY <1>2, WriteGood DEF Follows, Keeps
<1>4. /\ Weak(c) /\ (Recording(c) => InLoop(c)) /\ Keeps(z.buf, c, 1)
      /\ z.buf.cut => c.size = z.buf.size
  <2> HIDE DEF w
  <2> QED
    BY <1>0, <1>3, CutGood DEF Recording, Keeps
<1>5. d \in Decks
  <2>1. [z.deck EXCEPT !.cutQueued = FALSE] \in Decks
    BY DEF Sound, Decks
  <2>2. [z.deck EXCEPT !.cutQueued = FALSE, !.playQueued = TRUE] \in Decks
    BY DEF Sound, Decks
  <2> HIDE DEF plays
  <2> QED
    BY <2>1, <2>2, PlayedType
<1>6. n.buf = [c EXCEPT !.didCut = FALSE] /\ n.det = t /\ n.deck = d
  BY DEF Fed
<1> HIDE DEF c, d, n, t
<1>7. /\ n.buf \in Buffers /\ n.buf.st = c.st /\ n.buf.cut = c.cut /\ n.buf.size = c.size
      /\ n.buf.wh = c.wh /\ n.buf.rh = c.rh /\ n.buf.fade = c.fade
  BY <1>4, <1>6 DEF Weak, Buffers
<1>8. Weak(n.buf) /\ Keeps(z.buf, n.buf, 1)
  <2>1. Weak(n.buf)
    BY <1>4, <1>7 DEF Weak, FadeBelow
  <2>2. \A m : Whole(c, m) => Whole(n.buf, m)
    BY <1>7 DEF Whole, Closed, Unread, OneRun, Open
  <2> QED
    BY <1>4, <2>1, <2>2 DEF Keeps
<1>9. Recording(n.buf) => InLoop(n.buf)
  BY <1>4, <1>7 DEF Recording, InLoop
<1> QED
  BY <1>1, <1>4, <1>5, <1>6, <1>7, <1>8, <1>9 DEF Sound, n

LEMMA InterruptSound ==
    ASSUME Weak(buf), det \in Dets, deck \in Decks,
           NEW key \in BOOLEAN, NEW edge \in BOOLEAN, NEW loud \in BOOLEAN,
           Interrupt(key, edge, loud)
    PROVE  /\ Weak(buf') /\ det' \in Dets /\ deck' \in Decks /\ heard' = TRUE
           /\ Keeps(buf, buf', 1)
           /\ Recording(buf') => InLoop(buf')
           /\ buf.cut => buf'.size = buf.size
           /\ call' = call
           /\ Passes(past.torn \/ (call.at \in Clearing \ {"write"} /\ buf' # buf), 1)
<1>1. PICK b \in Heard(buf) :
        LET z == [buf |-> b, det |-> det, deck |-> deck]
            n == Fed(IF key /\ deck.slice THEN Ticked(z) ELSE z, edge, loud)
        IN  /\ Becomes(n.buf, n.det, n.deck) /\ heard' = TRUE
            /\ Passes(past.torn \/ (call.at \in Clearing \ {"write"} /\ buf' # buf), 1)
  BY DEF Interrupt
<1> DEFINE z == [buf |-> b, det |-> det, deck |-> deck]
           y == IF key /\ deck.slice THEN Ticked(z) ELSE z
           n == Fed(y, edge, loud)
<1>2. Weak(b) /\ Follows(buf, b) /\ b.cut = buf.cut /\ b.size = buf.size
  <2>1. CASE b = buf
    BY <2>1 DEF Follows
  <2>2. CASE \E r \in 0 .. buf.size - 1 : b = Read(buf, r)
    <3>1. b.st = buf.st /\ b.cut = buf.cut /\ b.size = buf.size
      BY <2>2 DEF Read, Weak, Buffers
    <3> QED
      BY <2>2, <3>1, ReadGood DEF Follows, Fresh
  <2> QED
    BY <2>1, <2>2 DEF Heard
<1>3. Sound(z) /\ z \in [buf : Buffers, det : Dets, deck : Decks]
  BY <1>2 DEF Sound, Weak
<1>4. /\ Sound(y) /\ y.buf.cut = buf.cut /\ y.buf.size = buf.size
      /\ Follows(buf, y.buf)
      /\ y \in [buf : Buffers, det : Dets, deck : Decks]
  <2> HIDE DEF z
  <2>1. z.buf = b
    BY DEF z
  <2> QED
    BY <1>2, <1>3, <2>1, TickedSound DEF Follows
<1> HIDE DEF y
<1>5. /\ Sound(n) /\ (Recording(n.buf) => InLoop(n.buf)) /\ Keeps(buf, n.buf, 1)
      /\ buf.cut => n.buf.size = buf.size
  BY <1>4, FedSound DEF Keeps, Follows
<1>6. /\ buf' = n.buf /\ det' = n.det /\ deck' = n.deck /\ heard' = TRUE /\ call' = call
      /\ Passes(past.torn \/ (call.at \in Clearing \ {"write"} /\ buf' # buf), 1)
  BY <1>1 DEF Becomes, y
<1> QED
  BY <1>5, <1>6 DEF Sound

-----------------------------------------------------------------------------
(* The inductive invariant: the types; between two stores of a clear, what *)
(* the stores so far have written; and outside of one, a whole buffer.     *)
(* The last two are said of a clear that no interrupt came into.           *)

Calls == [at : Clearing \cup {"no", "arm", "sized"}, arming : BOOLEAN]
Pasts == [torn : BOOLEAN, frames : Nat]

Emptied(b, at) == /\ at \in {"read", "size", "cut", "state"} => b.wh = 0
                  /\ at \in {"size", "cut", "state"} => b.rh = 0
                  /\ at \in {"cut", "state"} => b.size = 0
                  /\ at = "state" => ~b.cut

Typed == /\ Weak(buf) /\ det \in Dets /\ deck \in Decks /\ heard \in BOOLEAN
         /\ call \in Calls /\ past \in Pasts

IInv == /\ Typed
        /\ ~past.torn => Emptied(buf, call.at)
        /\ ~past.torn /\ call.at \in {"no", "write", "arm"} => Whole(buf, past.frames)

LEMMA PassesKeep ==
    ASSUME Typed, NEW t \in BOOLEAN, NEW k \in {0, 1}, Passes(t, k)
    PROVE  /\ past' \in Pasts /\ past'.torn = t
           /\ Keeps(buf, buf', k) /\ Whole(buf, past.frames) => Whole(buf', past'.frames)
           /\ (\A n \in Nat : Whole(buf', n)) => Whole(buf', past'.frames)
<1> DEFINE m == IF Open(buf) THEN past.frames ELSE 0
<1>1. m \in Nat /\ m + k \in Nat
  BY DEF Typed, Pasts
<1>2. past'.torn = t /\ past'.frames = (IF Open(buf') THEN m + k ELSE 0)
  BY DEF Passes
<1>3. past' \in Pasts
  BY <1>1, <1>2 DEF Passes, Pasts
<1>4. Whole(buf, past.frames) => Whole(buf, m) /\ Fresh(buf, m)
  BY DEF Whole, OneRun, Open, Fresh
<1>5. Whole(buf', m + k) => Whole(buf', past'.frames)
  BY <1>2 DEF Whole, OneRun
<1> HIDE DEF m
<1> QED
  BY <1>1, <1>2, <1>3, <1>4, <1>5 DEF Keeps, Pasts

LEMMA DisarmedSound ==
    ASSUME Typed
    PROVE  /\ Weak(Disarmed.buf) /\ Disarmed.det \in Dets /\ Disarmed.deck \in Decks
           /\ Disarmed.buf.size = buf.size
           /\ Keeps(buf, Disarmed.buf, 0)
<1>1. Weak(Disarmed.buf) /\ Disarmed.buf.size = buf.size /\ Follows(buf, Disarmed.buf)
  BY RecordOffGood DEF Typed, Disarmed, Follows
<1>2. Disarmed.det \in Dets
  BY DEF Typed, Disarmed, Dets, Deafen
<1>3. Disarmed.deck \in Decks
  BY DEF Typed, Disarmed, Decks
<1> QED
  BY <1>1, <1>2, <1>3, FollowsKeeps

\* What a handler of the main loop does before the interrupt can come again.
Handled == /\ Weak(buf') /\ det' \in Dets /\ deck' \in Decks /\ heard' \in BOOLEAN
           /\ call' \in {None, [None EXCEPT !.at = "write"], [None EXCEPT !.at = "sized"],
                         [at |-> "write", arming |-> TRUE]}
           /\ call'.at # "sized" => Keeps(buf, buf', 0) /\ buf'.size = buf.size

LEMMA Stays == Keeps(buf, buf, 0)
BY FollowsKeeps DEF Follows

LEMMA RecordPadSound ==
    ASSUME Typed, call = None, RecordPad
    PROVE  Handled
<1>1. heard' = FALSE
  BY DEF RecordPad, Pad
<1>2. CASE Becomes(Disarmed.buf, Disarmed.det, Disarmed.deck)
  BY <1>1, <1>2, DisarmedSound DEF Becomes, Typed, Handled
<1>3. CASE Becomes(IF deck.slice THEN buf ELSE RecordOn(buf), det,
                   [deck EXCEPT !.armed = TRUE, !.recordQueued = deck.slice \/ @])
  <2>1. [deck EXCEPT !.armed = TRUE, !.recordQueued = deck.slice \/ @] \in Decks
    BY DEF Typed, Decks
  <2>2. Follows(buf, RecordOn(buf)) /\ Weak(RecordOn(buf)) /\ RecordOn(buf).size = buf.size
    BY RecordOnGood DEF Typed, Follows
  <2>3. Keeps(buf, RecordOn(buf), 0)
    BY <2>2, FollowsKeeps
  <2> QED
    BY <1>1, <1>3, <2>1, <2>2, <2>3, Stays DEF Becomes, Typed, Handled
<1>4. CASE /\ deck' = [deck EXCEPT !.recordQueued = deck.slice \/ @,
                                   !.cutQueued = ~deck.slice \/ @]
           /\ UNCHANGED <<buf, det, call>>
  <2>1. deck' \in Decks
    BY <1>4 DEF Typed, Decks
  <2> QED
    BY <1>1, <1>4, <2>1, Stays DEF Typed, Handled
<1>5. CASE Arm
  <2>1. deck' \in Decks
    BY <1>5 DEF Arm, Typed, Decks
  <2> QED
    BY <1>1, <1>5, <2>1, Stays DEF Arm, Typed, Handled
<1> QED
  BY <1>2, <1>3, <1>4, <1>5 DEF RecordPad

LEMMA PlayPadSound ==
    ASSUME Typed, call = None, NEW sameWay \in BOOLEAN, PlayPad(sameWay)
    PROVE  Handled
<1> DEFINE z == Disarmed
<1>1. /\ Weak(z.buf) /\ z.det \in Dets /\ z.deck \in Decks /\ z.buf.size = buf.size
      /\ Keeps(buf, z.buf, 0)
  BY DisarmedSound
<1> HIDE DEF z
<1>2. Toggled(z.deck, z.buf) \in Decks
  BY <1>1, ToggledType
<1>3. buf' = z.buf /\ det' = z.det /\ deck' \in {z.deck, Toggled(z.deck, z.buf)} /\ call' = call
  BY DEF PlayPad, Becomes, z
<1>4. heard' = FALSE
  BY DEF PlayPad, Pad
<1> QED
  BY <1>1, <1>2, <1>3, <1>4 DEF Typed, Handled

LEMMA HandlerSound ==
    ASSUME Typed, call = None, Handler
    PROVE  /\ Handled
           /\ call'.at = "sized" => \E n \in Loads : Loaded(n)
<1>1. CASE RecordPad
  BY <1>1, RecordPadSound DEF RecordPad, Becomes, Arm, None
<1>2. CASE \E sameWay \in BOOLEAN : PlayPad(sameWay)
  BY <1>2, PlayPadSound DEF PlayPad, Becomes, None
<1>3. CASE SwitchMode
  <2>1. deck' \in Decks
    BY <1>3 DEF SwitchMode, Typed, Decks
  <2> QED
    BY <1>3, <2>1, Stays DEF SwitchMode, Typed, Handled, None
<1>4. CASE MidiStart
  BY <1>4, PlayedType, Stays DEF MidiStart, Typed, Handled, None
<1>5. CASE Stop
  BY <1>5, PlayedType, Stays DEF Stop, Typed, Handled, None
<1>6. CASE \E n \in Loads : Loaded(n)
  <2>1. PICK n \in Loads : Loaded(n)
    BY <1>6
  <2>2. Weak(buf')
    BY <2>1, LoadsAssumption DEF Loaded, Typed, Weak, Buffers, FadeBelow
  <2> QED
    BY <2>1, <2>2 DEF Loaded, Typed, Handled, None
<1>7. CASE LoadCancelled
  BY <1>7, Stays DEF LoadCancelled, Typed, Handled, None
<1> QED
  BY <1>1, <1>2, <1>3, <1>4, <1>5, <1>6, <1>7 DEF Handler

\* What a step does to the length of a closed loop.
Length(b, c) == b.cut /\ c.size # b.size => c.size = 0

LEMMA HandlerStep ==
    ASSUME IInv, call = None, Handler, Passes(past.torn, 0)
    PROVE  IInv' /\ (Length(buf, buf') \/ \E n \in Loads : Loaded(n))
<1>1. Handled /\ (call'.at = "sized" => \E n \in Loads : Loaded(n))
  BY HandlerSound DEF IInv
<1>2. past.torn \in BOOLEAN /\ call.at = "no"
  BY DEF IInv, Typed, Pasts, None
<1>3. /\ past' \in Pasts /\ past'.torn = past.torn
      /\ Keeps(buf, buf', 0) /\ Whole(buf, past.frames) => Whole(buf', past'.frames)
  BY <1>2, PassesKeep DEF IInv
<1>4. call' \in Calls /\ call'.at \in {"no", "write", "sized"}
  <2>0. None \in Calls /\ None.at = "no"
    BY DEF None, Calls
  <2>1. LET c == [None EXCEPT !.at = "write"] IN c \in Calls /\ c.at = "write"
    BY DEF None, Calls, Clearing
  <2>2. LET c == [None EXCEPT !.at = "sized"] IN c \in Calls /\ c.at = "sized"
    BY DEF None, Calls
  <2>3. LET c == [at |-> "write", arming |-> TRUE] IN c \in Calls /\ c.at = "write"
    BY DEF Calls, Clearing
  <2> QED
    BY <1>1, <2>0, <2>1, <2>2, <2>3 DEF Handled
<1>5. Typed'
  BY <1>1, <1>3, <1>4 DEF Handled, Typed
<1>6. Emptied(buf', call'.at)
  BY <1>4 DEF Emptied
<1>7. ~past'.torn /\ call'.at \in {"no", "write", "arm"} => Whole(buf', past'.frames)
  BY <1>1, <1>2, <1>3, <1>4 DEF IInv, Handled
<1> QED
  BY <1>1, <1>4, <1>5, <1>6, <1>7 DEF IInv, Handled, Length

LEMMA ClearStep ==
    ASSUME IInv, ClearStore
    PROVE  IInv' /\ Length(buf, buf')
<1> DEFINE at == call.at
           t == at # "write" /\ past.torn
<1>1. at \in Clearing /\ buf' = Zeroed(buf, at) /\ UNCHANGED <<det, deck, heard>> /\ Passes(t, 0)
  BY DEF ClearStore
<1>2. Weak(buf') /\ t \in BOOLEAN
  BY <1>1, ZeroedGood DEF IInv, Typed, Pasts
<1>3. /\ past' \in Pasts /\ past'.torn = t
      /\ (\A n \in Nat : Whole(buf', n)) => Whole(buf', past'.frames)
  BY <1>1, <1>2, PassesKeep DEF IInv
<1>4. /\ call' \in Calls
      /\ at = "write" => call'.at = "read"
      /\ at = "read" => call'.at = "size"
      /\ at = "size" => call'.at = "cut"
      /\ at = "cut" => call'.at = "state"
      /\ at = "state" => call'.at \in {"no", "arm"}
  BY <1>1 DEF ClearStore, IInv, Typed, Calls, Clearing, None
<1>5. Typed'
  BY <1>1, <1>2, <1>3, <1>4 DEF IInv, Typed
<1>6. ~t /\ at \in Clearing \ {"write"} => Emptied(buf, at)
  BY DEF IInv
<1>7. ~t /\ at # "state" => Emptied(buf', call'.at) /\ call'.at \notin {"no", "write", "arm"}
  <2>1. Weak(buf)
    BY DEF IInv, Typed
  <2>2. CASE at = "write"
    BY <1>1, <1>4, <2>1, <2>2, ZeroedGood DEF Emptied
  <2>3. ASSUME ~t, at = "read" PROVE Emptied(buf', "size")
    <3>1. Emptied(buf, "read") /\ buf' = Zeroed(buf, "read")
      BY <1>1, <1>6, <2>3 DEF Clearing
    <3>2. buf'.wh = 0 /\ buf'.rh = 0
      BY <2>1, <3>1, ZeroedGood DEF Emptied
    <3> QED
      BY <3>2 DEF Emptied
  <2>4. ASSUME ~t, at = "size" PROVE Emptied(buf', "cut")
    <3>1. Emptied(buf, "size") /\ buf' = Zeroed(buf, "size")
      BY <1>1, <1>6, <2>4 DEF Clearing
    <3>2. buf'.size = 0 /\ buf'.wh = buf.wh /\ buf'.rh = buf.rh
      BY <2>1, <3>1, ZeroedGood
    <3> QED
      BY <3>1, <3>2 DEF Emptied
  <2>5. ASSUME ~t, at = "cut" PROVE Emptied(buf', "state")
    <3>1. Emptied(buf, "cut") /\ buf' = Zeroed(buf, "cut")
      BY <1>1, <1>6, <2>5 DEF Clearing
    <3>2. buf'.size = buf.size /\ ~buf'.cut /\ buf'.wh = buf.wh /\ buf'.rh = buf.rh
      BY <2>1, <3>1, ZeroedGood
    <3> QED
      BY <3>1, <3>2 DEF Emptied
  <2> QED
    BY <1>1, <1>4, <2>2, <2>3, <2>4, <2>5 DEF Clearing
<1>8. ~t /\ at = "state" => Emptied(buf', call'.at) /\ \A n \in Nat : Whole(buf', n)
  <2> SUFFICES ASSUME ~t, at = "state" PROVE Emptied(buf', call'.at) /\ \A n \in Nat : Whole(buf', n)
    OBVIOUS
  <2>1. buf.wh = 0 /\ buf.rh = 0 /\ buf.size = 0 /\ ~buf.cut /\ Weak(buf)
    BY <1>6 DEF Emptied, Clearing, IInv, Typed
  <2>2. buf' = [buf EXCEPT !.st = "idle"]
    BY <1>1, <2>1, ZeroedGood
  <2>3. buf'.st = "idle" /\ buf'.rh = 0 /\ buf'.size = 0
    BY <2>1, <2>2 DEF Weak, Buffers
  <2> QED
    BY <1>4, <2>3 DEF Emptied, Whole, Closed, Unread, OneRun, Open
<1>9. Length(buf, buf')
  BY <1>1, ZeroedGood DEF Length, IInv, Typed
<1> HIDE DEF at, t
<1>10. ~past'.torn => Emptied(buf', call'.at)
  BY <1>3, <1>7, <1>8
<1>11. ~past'.torn /\ call'.at \in {"no", "write", "arm"} => Whole(buf', past'.frames)
  BY <1>3, <1>7, <1>8
<1> QED
  BY <1>5, <1>9, <1>10, <1>11 DEF IInv

LEMMA RestStep ==
    ASSUME IInv, Armed \/ Sized
    PROVE  IInv' /\ Length(buf, buf')
<1>1. past.torn \in BOOLEAN
  BY DEF IInv, Typed, Pasts
<1>2. Passes(past.torn, 0) /\ call' = None
  BY DEF Armed, Sized
<1>3. /\ past' \in Pasts /\ past'.torn = past.torn
      /\ Keeps(buf, buf', 0) /\ Whole(buf, past.frames) => Whole(buf', past'.frames)
      /\ (\A n \in Nat : Whole(buf', n)) => Whole(buf', past'.frames)
  BY <1>1, <1>2, PassesKeep DEF IInv
<1>4. call' \in Calls /\ call'.at = "no" /\ Emptied(buf', call'.at)
  BY <1>2 DEF None, Calls, Emptied
<1>5. CASE Armed
  <2>1. deck' \in Decks /\ det' \in Dets /\ buf' = buf /\ heard' = heard /\ call.at = "arm"
    BY <1>5 DEF Armed, IInv, Typed, Decks, Dets, Listen
  <2>2. Keeps(buf, buf', 0)
    BY <2>1, Stays
  <2>3. Typed'
    BY <1>3, <1>4, <2>1 DEF IInv, Typed
  <2> QED
    BY <1>3, <1>4, <2>1, <2>2, <2>3 DEF IInv, Length
<1>6. CASE Sized
  <2>1. /\ Weak(buf') /\ buf'.size = buf.size /\ (\A n \in Nat : Whole(buf', n))
        /\ UNCHANGED <<det, deck, heard>>
    BY <1>6, CutGood DEF Sized, IInv, Typed
  <2>2. Typed'
    BY <1>3, <1>4, <2>1 DEF IInv, Typed
  <2> QED
    BY <1>3, <1>4, <2>1, <2>2 DEF IInv, Length
<1> QED
  BY <1>5, <1>6

LEMMA InterruptStep ==
    ASSUME IInv, AnyInterrupt
    PROVE  IInv' /\ Length(buf, buf')
<1> DEFINE t == past.torn \/ (call.at \in Clearing \ {"write"} /\ buf' # buf)
<1>1. /\ Weak(buf') /\ det' \in Dets /\ deck' \in Decks /\ heard' = TRUE
      /\ Keeps(buf, buf', 1) /\ call' = call /\ Passes(t, 1)
      /\ buf.cut => buf'.size = buf.size
  BY InterruptSound DEF AnyInterrupt, IInv, Typed
<1>2. t \in BOOLEAN
  BY DEF IInv, Typed, Pasts
<1>3. /\ past' \in Pasts /\ past'.torn = t
      /\ Whole(buf, past.frames) => Whole(buf', past'.frames)
  BY <1>1, <1>2, PassesKeep DEF IInv
<1>4. Typed'
  BY <1>1, <1>3 DEF IInv, Typed
<1>5. ~past'.torn => Emptied(buf', call'.at)
  BY <1>1, <1>3 DEF IInv, Emptied, Clearing
<1>6. ~past'.torn /\ call'.at \in {"no", "write", "arm"} => Whole(buf', past'.frames)
  BY <1>1, <1>3 DEF IInv
<1> QED
  BY <1>1, <1>4, <1>5, <1>6 DEF IInv, Length

LEMMA NextSound ==
    ASSUME IInv, Next
    PROVE  /\ IInv'
           /\ Length(buf, buf') \/ \E n \in Loads : Loaded(n)
BY HandlerStep, ClearStep, RestStep, InterruptStep DEF Next

LEMMA StutterSound == ASSUME IInv, UNCHANGED vars PROVE IInv'
BY DEF IInv, Typed, vars, Weak, FadeBelow, Whole, Closed, Unread, OneRun, Open, Emptied

LEMMA InitSound == Init => IInv
<1> SUFFICES ASSUME Init PROVE IInv
  OBVIOUS
<1>1. call.at = "no" /\ call \in Calls /\ Emptied(buf, call.at)
  BY DEF Init, None, Calls, Emptied
<1>2. past \in Pasts /\ past.frames = 0
  BY DEF Init, Pasts
<1>3. deck \in Decks /\ det \in Dets /\ heard \in BOOLEAN /\ buf = Blank
  BY DEF Init, Decks, Dets
<1> QED
  BY <1>1, <1>2, <1>3, BlankGood DEF IInv, Typed

(* The invariant holds throughout.                                         *)
THEOREM Invariance == Spec => []IInv
<1>1. Init => IInv
  BY InitSound
<1>2. IInv /\ [Next]_vars => IInv'
  BY NextSound, StutterSound
<1> QED
  BY <1>1, <1>2, PTL DEF Spec

(* Both heads, the length and the fade counter stay in range, for every    *)
(* buffer, fade and load, and wherever the interrupt comes.                *)
THEOREM TypeCorrect == Spec => []TypeOK
<1>1. IInv => TypeOK
  BY DEF IInv, Typed, TypeOK, Weak, Dets, Decks, Calls, Pasts
<1> QED
  BY <1>1, Invariance, PTL

(* Between the main loop's calls an idle buffer has no open loop, unless   *)
(* an interrupt came between the stores of its last clear.                 *)
THEOREM ClosedLoop == Spec => []LoopClosed
<1>1. IInv => LoopClosed
  BY DEF IInv, LoopClosed, Whole, None
<1> QED
  BY <1>1, Invariance, PTL

(* Under the same condition the take under way is the frames written since *)
(* it was begun, the first of them in frame 0 and the next one due where   *)
(* the write head is.                                                      *)
THEOREM WholeTake == Spec => []TakeIsOneRun
<1>1. IInv => TakeIsOneRun
  BY DEF IInv, TakeIsOneRun, Whole, None
<1> QED
  BY <1>1, Invariance, PTL

(* The length of a closed loop is changed by a clear and by a load only.   *)
THEOREM FixedLength == Spec => OverdubKeepsLength
<1>1. IInv /\ [Next]_vars
        => [buf.cut /\ buf'.size # buf.size => buf'.size = 0 \/ \E n \in Loads : Loaded(n)]_vars
  BY NextSound DEF Length
<1> QED
  BY <1>1, Invariance, PTL DEF Spec, OverdubKeepsLength

(* An overdub is inside the loop again after one frame.                    *)
THEOREM HeadInLoop == Spec => HeadReturns
<1>1. IInv => [AnyInterrupt /\ Recording(buf') => InLoop(buf')]_vars
  BY InterruptSound DEF AnyInterrupt, IInv, Typed
<1> QED
  BY <1>1, Invariance, PTL DEF HeadReturns

-----------------------------------------------------------------------------
(* The fade counter.  A recording that has been switched on and has not    *)
(* written a frame has a counter of zero; switched off again, it would     *)
(* count down from there.  With the mode switch left alone and one pad in  *)
(* a scan this does not happen: in Slice a recording is switched on inside *)
(* an interrupt, which writes, and elsewhere it is switched off by a pad,  *)
(* which is scanned after an interrupt.                                    *)

Ramp(b) == /\ b.st = "sustain" => b.fade = Fade - 1
           /\ b.st = "fadeout" => b.fade \in 1 .. Fade - 1

Begun(b) == b.st = "fadein" => b.fade # 0

Ramps == Ramp(buf) /\ (Begun(buf) \/ (~deck.slice /\ ~heard))

LEMMA ReadRamp ==
    ASSUME NEW b, Weak(b), NEW r
    PROVE  (Ramp(b) => Ramp(Read(b, r))) /\ (Begun(b) => Begun(Read(b, r)))
BY DEF Read, Weak, Buffers, Ramp, Begun

LEMMA RecordOnRamp ==
    ASSUME NEW b, Weak(b), Ramp(b)
    PROVE  Ramp(RecordOn(b))
BY DEF RecordOn, Weak, Buffers, Ramp

LEMMA RecordOffRamp ==
    ASSUME NEW b, Weak(b), Ramp(b), Begun(b)
    PROVE  Ramp(RecordOff(b)) /\ Begun(RecordOff(b))
<1>1. CASE b.st \notin {"fadein", "sustain"}
  BY <1>1 DEF RecordOff
<1>2. CASE b.st \in {"fadein", "sustain"}
  <2>1. b.fade \in 1 .. Fade - 1
    BY <1>2, BufferAssumption DEF Weak, Buffers, FadeBelow, Ramp, Begun
  <2>2. RecordOff(b).st = "fadeout" /\ RecordOff(b).fade = b.fade
    BY <1>2 DEF RecordOff, Weak, Buffers
  <2> QED
    BY <2>1, <2>2 DEF Ramp, Begun
<1> QED
  BY <1>1, <1>2

LEMMA CutRamp ==
    ASSUME NEW b, Weak(b)
    PROVE  (Ramp(b) => Ramp(Cut(b))) /\ (Begun(b) => Begun(Cut(b)))
BY DEF Cut, Weak, Buffers, Ramp, Begun

LEMMA SizedRamp ==
    ASSUME NEW b, Weak(b), NEW n
    PROVE  (Ramp(b) => Ramp([b EXCEPT !.size = n])) /\ (Begun(b) => Begun([b EXCEPT !.size = n]))
BY DEF Weak, Buffers, Ramp, Begun

LEMMA ZeroedRamp ==
    ASSUME NEW b, Weak(b), NEW at \in Clearing
    PROVE  (Ramp(b) => Ramp(Zeroed(b, at))) /\ (Begun(b) => Begun(Zeroed(b, at)))
BY DEF Clearing, Zeroed, Weak, Buffers, Ramp, Begun

LEMMA AdvancedRamp ==
    ASSUME NEW b, b \in Buffers
    PROVE  (Ramp(b) => Ramp(Advanced(b))) /\ (Begun(b) => Begun(Advanced(b)))
<1>1. Advanced(b).st = b.st /\ Advanced(b).fade = b.fade
  BY DEF Advanced, Cut, Buffers
<1> QED
  BY <1>1 DEF Ramp, Begun

LEMMA WriteRamp ==
    ASSUME NEW b, Weak(b), Ramp(b)
    PROVE  Ramp(Write(b)) /\ Begun(Write(b))
<1>1. CASE b.st = "idle"
  BY <1>1 DEF Write, Begun
<1>2. CASE b.st = "fadein"
  <2> DEFINE c == FadedIn(b)
  <2>1. b.fade + 1 \in 1 .. Fade - 1 /\ b.fade + 1 \in 0 .. Wrap - 1
    BY <1>2, BufferAssumption DEF Weak, Buffers, FadeBelow
  <2>2. c \in Buffers
    BY <1>2, <2>1 DEF Weak, Buffers, Phases, FadedIn
  <2>3. /\ c.st = IF b.fade + 1 = Fade - 1 THEN "sustain" ELSE "fadein"
        /\ c.fade = b.fade + 1
    BY <1>2 DEF Weak, Buffers, FadedIn
  <2>4. Write(b) = Advanced(c)
    BY <1>2 DEF Write
  <2> HIDE DEF c
  <2>5. Ramp(c) /\ Begun(c)
    BY <2>1, <2>3 DEF Ramp, Begun
  <2> QED
    BY <2>2, <2>4, <2>5, AdvancedRamp
<1>3. CASE b.st = "sustain"
  BY <1>3, AdvancedRamp DEF Write, Weak, Begun
<1>4. CASE b.st = "fadeout"
  <2> DEFINE c == FadedOut(b)
  <2>1. b.fade \in 1 .. Fade - 1 /\ Down(b.fade) = b.fade - 1
    BY <1>4, BufferAssumption DEF Weak, Buffers, Ramp, Down
  <2>2. Down(b.fade) \in 0 .. Wrap - 1
    BY <2>1, BufferAssumption
  <2>3. c \in Buffers
    BY <2>2 DEF Weak, Buffers, FadedOut
  <2>4. c.st = "fadeout" /\ c.fade = b.fade - 1
    BY <1>4, <2>1 DEF Weak, Buffers, FadedOut
  <2>5. CASE Down(b.fade) = 0
    <3> DEFINE d == Cut(c)
    <3>1. Write(b) = [d EXCEPT !.st = "idle"]
      BY <1>4, <2>5 DEF Write
    <3>2. [d EXCEPT !.st = "idle"].st = "idle"
      BY <2>3 DEF Cut, Buffers
    <3> QED
      BY <3>1, <3>2 DEF Ramp, Begun
  <2>6. CASE Down(b.fade) # 0
    <3>1. Write(b) = Advanced(c)
      BY <1>4, <2>6 DEF Write
    <3> HIDE DEF c
    <3>2. Ramp(c) /\ Begun(c)
      BY <2>1, <2>4, <2>6, BufferAssumption DEF Ramp, Begun
    <3> QED
      BY <2>3, <3>1, <3>2, AdvancedRamp
  <2> QED
    BY <2>5, <2>6
<1> QED
  BY <1>1, <1>2, <1>3, <1>4 DEF Weak, Buffers, Phases

LEMMA TickedRamp ==
    ASSUME NEW z \in [buf : Buffers, det : Dets, deck : Decks], Sound(z),
           Ramp(z.buf), Begun(z.buf)
    PROVE  Ramp(Ticked(z).buf)
<1> DEFINE c == Clocked(z)
<1>1. c.buf \in {z.buf, RecordOn(z.buf), RecordOff(z.buf)}
  BY DEF Clocked
<1>2. Ramp(c.buf)
  BY <1>1, RecordOnRamp, RecordOffRamp DEF Sound
<1>3. c \in [buf : Buffers, det : Dets, deck : Decks]
  <2>1. RecordOn(z.buf) \in Buffers /\ RecordOff(z.buf) \in Buffers
    BY RecordOnGood, RecordOffGood DEF Sound, Weak
  <2>2. Deafen(z.det) \in Dets
    BY DEF Deafen, Dets
  <2>3. /\ [z.deck EXCEPT !.recordQueued = FALSE] \in Decks
        /\ [z.deck EXCEPT !.recordQueued = FALSE, !.cutQueued = TRUE] \in Decks
    BY DEF Decks
  <2> QED
    BY <2>1, <2>2, <2>3 DEF Clocked
<1> HIDE DEF c
<1>4. Ticked(z) = IF c.deck.playQueued THEN [c EXCEPT !.deck = Played(@)] ELSE c
  BY DEF Ticked, c
<1>5. Ticked(z).buf = c.buf
  BY <1>3, <1>4
<1> QED
  BY <1>2, <1>5

LEMMA FedRamp ==
    ASSUME NEW z \in [buf : Buffers, det : Dets, deck : Decks], Sound(z), Ramp(z.buf),
           NEW edge \in BOOLEAN, NEW loud \in BOOLEAN
    PROVE  Ramp(Fed(z, edge, loud).buf) /\ Begun(Fed(z, edge, loud).buf)
<1> DEFINE t == Detected(z.det, edge, loud)
           o == IF t = "open" THEN RecordOn(z.buf) ELSE z.buf
           w == Write(o)
           c == IF z.deck.cutQueued THEN Cut(w) ELSE w
<1>1. Fed(z, edge, loud).buf = [c EXCEPT !.didCut = FALSE]
  BY DEF Fed
<1>2. Weak(o) /\ Ramp(o)
  BY RecordOnGood, RecordOnRamp DEF Sound
<1> HIDE DEF o
<1>3. Weak(w) /\ Ramp(w) /\ Begun(w)
  BY <1>2, WriteGood, WriteRamp
<1> HIDE DEF w
<1>4. Weak(c) /\ Ramp(c) /\ Begun(c)
  BY <1>3, CutGood, CutRamp
<1> HIDE DEF c
<1>5. [c EXCEPT !.didCut = FALSE].st = c.st /\ [c EXCEPT !.didCut = FALSE].fade = c.fade
  BY <1>4 DEF Weak, Buffers
<1> QED
  BY <1>1, <1>4, <1>5 DEF Ramp, Begun

LEMMA InterruptRamp ==
    ASSUME IInv, Ramp(buf), deck.slice => Begun(buf),
           NEW key \in BOOLEAN, NEW edge \in BOOLEAN, NEW loud \in BOOLEAN,
           Interrupt(key, edge, loud)
    PROVE  Ramp(buf') /\ Begun(buf')
<1>1. PICK b \in Heard(buf) :
        LET z == [buf |-> b, det |-> det, deck |-> deck]
            n == Fed(IF key /\ deck.slice THEN Ticked(z) ELSE z, edge, loud)
        IN  Becomes(n.buf, n.det, n.deck)
  BY DEF Interrupt
<1> DEFINE z == [buf |-> b, det |-> det, deck |-> deck]
           y == IF key /\ deck.slice THEN Ticked(z) ELSE z
<1>2. Weak(b) /\ Ramp(b) /\ (deck.slice => Begun(b))
  <2>1. CASE b = buf
    BY <2>1 DEF IInv, Typed
  <2>2. CASE \E r \in 0 .. buf.size - 1 : b = Read(buf, r)
    BY <2>2, ReadGood, ReadRamp DEF IInv, Typed
  <2> QED
    BY <2>1, <2>2 DEF Heard
<1>3. Sound(z) /\ z \in [buf : Buffers, det : Dets, deck : Decks]
  BY <1>2 DEF IInv, Typed, Sound, Weak
<1>4. z.buf = b
  OBVIOUS
<1> HIDE DEF z
<1>5. Sound(y) /\ y \in [buf : Buffers, det : Dets, deck : Decks] /\ Ramp(y.buf)
  BY <1>2, <1>3, <1>4, TickedSound, TickedRamp
<1>6. buf' = Fed(y, edge, loud).buf
  BY <1>1 DEF Becomes, z
<1> HIDE DEF y
<1> QED
  BY <1>5, <1>6, FedRamp

\* The pads, scanned after an interrupt.
LEMMA PadRamps ==
    ASSUME IInv, Ramps, heard, RecordPad \/ \E sameWay \in BOOLEAN : PlayPad(sameWay)
    PROVE  Ramps'
<1>1. Ramp(buf) /\ Begun(buf)
  BY DEF Ramps
<1>2. heard' = FALSE
  BY DEF RecordPad, PlayPad, Pad
<1>3. Ramp(Disarmed.buf) /\ Begun(Disarmed.buf)
  BY <1>1, RecordOffRamp DEF Disarmed, IInv, Typed
<1>4. CASE buf' = Disarmed.buf
  BY <1>3, <1>4 DEF Ramps
<1>5. CASE /\ buf' = IF deck.slice THEN buf ELSE RecordOn(buf)
           /\ deck' = [deck EXCEPT !.armed = TRUE, !.recordQueued = deck.slice \/ @]
  <2>1. Ramp(buf')
    BY <1>1, <1>5, RecordOnRamp DEF IInv, Typed
  <2>2. deck'.slice = deck.slice
    BY <1>5 DEF IInv, Typed, Decks
  <2> QED
    BY <1>1, <1>2, <1>5, <2>1, <2>2 DEF Ramps
<1>6. CASE UNCHANGED buf
  BY <1>1, <1>6 DEF Ramps
<1>7. CASE Arm
  BY <1>1, <1>7 DEF Arm, Ramps
<1> QED
  BY <1>4, <1>5, <1>6, <1>7 DEF RecordPad, PlayPad, Becomes

\* Every other handler but the mode switch.
LEMMA OtherRamps ==
    ASSUME IInv, Ramps,
           \/ MidiStart \/ Stop
           \/ \E n \in Loads : Loaded(n)
           \/ LoadCancelled \/ ClearStore \/ Armed \/ Sized \/ AnyInterrupt
    PROVE  Ramps'
<1>1. CASE MidiStart
  <2>1. deck'.slice = deck.slice
    BY <1>1 DEF MidiStart, Played, IInv, Typed, Decks
  <2> QED
    BY <1>1, <2>1 DEF MidiStart, Ramps
<1>2. CASE Stop
  <2>1. deck'.slice = deck.slice
    BY <1>2 DEF Stop, Stopped, IInv, Typed, Decks
  <2> QED
    BY <1>2, <2>1 DEF Stop, Ramps
<1>3. CASE \E n \in Loads : Loaded(n)
  BY <1>3, SizedRamp DEF Loaded, IInv, Typed, Ramps
<1>4. CASE LoadCancelled
  BY <1>4 DEF LoadCancelled, Ramps
<1>5. CASE ClearStore
  BY <1>5, ZeroedRamp DEF ClearStore, IInv, Typed, Ramps
<1>6. CASE Armed
  <2>1. deck'.slice = deck.slice
    BY <1>6 DEF Armed, IInv, Typed, Decks
  <2> QED
    BY <1>6, <2>1 DEF Armed, Ramps
<1>7. CASE Sized
  BY <1>7, CutRamp DEF Sized, IInv, Typed, Ramps
<1>8. CASE AnyInterrupt
  BY <1>8, InterruptRamp DEF AnyInterrupt, Ramps
<1> QED
  BY <1>1, <1>2, <1>3, <1>4, <1>5, <1>6, <1>7, <1>8

LEMMA RampsInTable == ASSUME IInv, Ramps PROVE FadeInTable
BY BufferAssumption DEF IInv, Typed, Weak, Buffers, Phases, FadeBelow, Ramps, Ramp, FadeInTable, Recording

(* Unless the mode is switched or two pads are touched in one scan, the    *)
(* fade counter of a recording stays in its table, whatever the fade, the  *)
(* buffer and the loads.                                                   *)
THEOREM CalmFades ==
    ASSUME ~SameScan, ~Switching
    PROVE  Spec => []FadeInTable
<1>1. Init => Ramps
  BY DEF Init, Blank, Ramps, Ramp, Begun
<1>2. IInv /\ Ramps /\ [Next]_vars => Ramps'
  <2>1. ASSUME IInv, Ramps, Next PROVE Ramps'
    BY <2>1, PadRamps, OtherRamps DEF Next, Handler, RecordPad, PlayPad, Pad, SwitchMode
  <2>2. ASSUME Ramps, UNCHANGED vars PROVE Ramps'
    BY <2>2 DEF vars, Ramps
  <2> QED
    BY <2>1, <2>2
<1> QED
  BY <1>1, <1>2, Invariance, RampsInTable, PTL DEF Spec

-----------------------------------------------------------------------------
(* The two settings of MCDeckRecorder.  A step of "clocked" is one of Next *)
(* in which the pads wait for an interrupt, there is no card and the mode  *)
(* switch stays.                                                           *)

LEMMA CalmBuffer ==
    ASSUME NEW b, NEW n
    PROVE  /\ Calm!RecordOn(b) = RecordOn(b)
           /\ Calm!RecordOff(b) = RecordOff(b)
           /\ Calm!Zeroed(b, n) = Zeroed(b, n)
           /\ Calm!Open(b) <=> Open(b)
           /\ Calm!Cut(b) = Cut(b)
           /\ Calm!Read(b, n) = Read(b, n)
           /\ Calm!Write(b) = Write(b)
           /\ Calm!Recording(b) <=> Recording(b)
<1>1. Calm!Advanced(b) = Advanced(b)
  BY DEF Calm!Advanced, Advanced, Calm!Cut, Cut
<1> QED
  BY DEF Calm!RecordOn, RecordOn, Calm!RecordOff, RecordOff, Calm!Zeroed, Zeroed, Calm!Open, Open,
         Calm!Cut, Cut, Calm!Read, Read, Calm!Recording, Recording, Calm!Write, Write,
         Calm!Advanced, Advanced, Calm!FadedIn, FadedIn, Calm!FadedOut, FadedOut, Calm!Down, Down

LEMMA CalmDeck ==
    ASSUME NEW d, NEW b
    PROVE  Calm!Played(d) = Played(d) /\ Calm!Stopped(d) = Stopped(d) /\ Calm!Toggled(d, b) = Toggled(d, b)
BY DEF Calm!Played, Played, Calm!Stopped, Stopped, Calm!Toggled, Toggled

LEMMA CalmDisarmed == Calm!Disarmed = Disarmed
BY CalmBuffer DEF Calm!Disarmed, Disarmed, Calm!Deafen, Deafen

LEMMA CalmTicked == ASSUME NEW z PROVE Calm!Ticked(z) = Ticked(z)
BY DEF Calm!Ticked, Ticked, Calm!Clocked, Clocked, Calm!Recording, Recording,
       Calm!RecordOff, RecordOff, Calm!RecordOn, RecordOn, Calm!Deafen, Deafen, Calm!Played, Played

LEMMA CalmFed ==
    ASSUME NEW z, NEW edge, NEW loud
    PROVE  Calm!Fed(z, edge, loud) = Fed(z, edge, loud)
<1>1. \A b : /\ Calm!RecordOn(b) = RecordOn(b) /\ Calm!Write(b) = Write(b) /\ Calm!Cut(b) = Cut(b)
             /\ Calm!Recording(b) <=> Recording(b)
  BY CalmBuffer
<1>2. \A d : Calm!Played(d) = Played(d)
  BY CalmDeck
<1>3. Calm!Detected(z.det, edge, loud) = Detected(z.det, edge, loud)
  BY DEF Calm!Detected, Detected
<1> QED
  BY <1>1, <1>2, <1>3, Zenon DEF Calm!Fed, Fed

LEMMA CalmPasses == ASSUME NEW t, NEW k PROVE Calm!Passes(t, k) <=> Passes(t, k)
BY DEF Calm!Passes, Passes, Calm!Open, Open

LEMMA CalmInterrupt ==
    ASSUME NEW key, NEW edge, NEW loud, Calm!Interrupt(key, edge, loud)
    PROVE  Interrupt(key, edge, loud)
<1>1. Calm!Heard(buf) = Heard(buf)
  BY CalmBuffer DEF Calm!Heard, Heard
<1> QED
  BY <1>1, CalmTicked, CalmFed, CalmPasses
  DEF Calm!Interrupt, Interrupt, Calm!Becomes, Becomes, Calm!Clearing, Clearing

LEMMA CalmPads ==
    /\ Calm!RecordPad => RecordPad /\ heard
    /\ \A sameWay \in BOOLEAN : Calm!PlayPad(sameWay) => PlayPad(sameWay) /\ heard
<1>1. Calm!Pad => Pad /\ heard
  BY DEF Calm!Pad, Pad
<1>2. Calm!Overdubbing(deck, buf) <=> Overdubbing(deck, buf)
  BY CalmBuffer DEF Calm!Overdubbing, Overdubbing
<1>3. Calm!Arm => Arm
  BY DEF Calm!Arm, Arm
<1>4. Calm!RecordPad => RecordPad /\ heard
  BY <1>1, <1>2, <1>3, CalmBuffer, CalmDisarmed DEF Calm!RecordPad, RecordPad, Calm!Becomes, Becomes
<1>5. \A sameWay \in BOOLEAN : Calm!PlayPad(sameWay) => PlayPad(sameWay) /\ heard
  BY <1>1, CalmBuffer, CalmDeck, CalmDisarmed
  DEF Calm!PlayPad, PlayPad, Calm!Becomes, Becomes, Calm!Overdubbing, Overdubbing
<1> QED
  BY <1>4, <1>5

LEMMA CalmStores ==
    /\ Calm!ClearStore => ClearStore
    /\ Calm!Armed => Armed
    /\ Calm!Sized => Sized
<1>1. Calm!ClearStore => ClearStore
  BY CalmBuffer, CalmPasses DEF Calm!ClearStore, ClearStore, Calm!Clearing, Clearing, Calm!None, None
<1>2. Calm!Armed => Armed
  BY CalmPasses DEF Calm!Armed, Armed, Calm!None, None, Calm!Listen, Listen
<1>3. Calm!Sized => Sized
  BY CalmBuffer, CalmPasses DEF Calm!Sized, Sized, Calm!None, None
<1> QED
  BY <1>1, <1>2, <1>3

LEMMA CalmHandler ==
    ASSUME Calm!Handler
    PROVE  /\ Handler
           /\ \/ heard /\ (RecordPad \/ \E sameWay \in BOOLEAN : PlayPad(sameWay))
              \/ MidiStart \/ Stop
<1>1. CASE Calm!RecordPad
  BY <1>1, CalmPads DEF Handler
<1>2. CASE \E sameWay \in BOOLEAN : Calm!PlayPad(sameWay)
  BY <1>2, CalmPads DEF Handler
<1>3. CASE Calm!MidiStart
  BY <1>3, CalmDeck DEF Calm!MidiStart, MidiStart, Handler
<1>4. CASE Calm!Stop
  BY <1>4, CalmDeck DEF Calm!Stop, Stop, Handler
<1> QED
  BY <1>1, <1>2, <1>3, <1>4 DEF Calm!Handler, Calm!SwitchMode, Calm!LoadCancelled

LEMMA CalmNext ==
    ASSUME Calm!Next
    PROVE  /\ Next
           /\ \/ heard /\ (RecordPad \/ \E sameWay \in BOOLEAN : PlayPad(sameWay))
              \/ MidiStart \/ Stop \/ ClearStore \/ Armed \/ Sized \/ AnyInterrupt
<1>1. CASE call = Calm!None /\ Calm!Handler /\ Calm!Passes(past.torn, 0)
  BY <1>1, CalmHandler, CalmPasses DEF Next, Calm!None, None
<1>2. CASE Calm!ClearStore \/ Calm!Armed \/ Calm!Sized
  BY <1>2, CalmStores DEF Next
<1>3. CASE Calm!AnyInterrupt
  BY <1>3, CalmInterrupt DEF Calm!AnyInterrupt, AnyInterrupt, Next
<1> QED
  BY <1>1, <1>2, <1>3 DEF Calm!Next

MCInvariant == IInv /\ (Clockwork(TRUE) => Ramps)

LEMMA CalmInit == Calm!Init => Init
BY DEF Calm!Init, Init, Calm!Blank, Blank, Calm!None, None

(* What the runs check of the two settings, for every buffer, fade and     *)
(* load: the types, and in "clocked" the fade counter.                     *)
THEOREM FadesStayInTable == MCSpec => []FadesInTable
<1>1. Init => IInv /\ Ramps
  <2>1. Init => IInv
    BY InitSound
  <2>2. Init => Ramps
    BY DEF Init, Blank, Ramps, Ramp, Begun
  <2> QED
    BY <2>1, <2>2
<1>2. MCInit => MCInvariant
  BY <1>1, CalmInit DEF MCInit, MCInvariant, Free, Clockwork
<1>3. MCInvariant /\ [MCNext]_MCVars => MCInvariant'
  <2>1. ASSUME MCInvariant, UNCHANGED setting, Free(Next) PROVE MCInvariant'
    BY <2>1, NextSound DEF MCInvariant, Free, Clockwork
  <2>2. ASSUME MCInvariant, UNCHANGED setting, Clockwork(Calm!Next) PROVE MCInvariant'
    <3>1. IInv /\ Ramps
      BY <2>2 DEF MCInvariant, Clockwork
    <3>2. Next /\ Ramps'
      BY <2>2, <3>1, CalmNext, PadRamps, OtherRamps DEF Clockwork
    <3> QED
      BY <3>1, <3>2, NextSound DEF MCInvariant
  <2>3. ASSUME MCInvariant, UNCHANGED MCVars PROVE MCInvariant'
    BY <2>3, StutterSound DEF MCInvariant, MCVars, vars, Ramps, Clockwork
  <2> QED
    BY <2>1, <2>2, <2>3 DEF MCNext
<1>4. MCInvariant => FadesInTable
  BY RampsInTable
  DEF MCInvariant, FadesInTable, IInv, Typed, TypeOK, Weak, Dets, Decks, Calls, Pasts, Clockwork
<1> QED
  BY <1>2, <1>3, <1>4, PTL DEF MCSpec

=============================================================================
