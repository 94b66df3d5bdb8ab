---------------------------- MODULE Clock_proofs -----------------------------
(***************************************************************************)
(* Proofs about the platform clock: Transport, for any resolution, inputs, *)
(* bar and key intervals (a clock that counts pulses counts them all, and  *)
(* its keys fall on quarters), and, below, SynClock (C), for any clocks,   *)
(* tempi and threshold: each pulse of an external clock is worth exactly   *)
(* its ticks, and the tempo goes towards what is measured and not beyond.  *)
(***************************************************************************)
EXTENDS MCTransport, MCSynClock, FiniteSetTheorems, WellFoundedInduction, TLAPS

LEMMA LeastMember ==
    ASSUME NEW T \in SUBSET Nat, T # {}
    PROVE  \E m \in T : \A n \in T : m <= n
  <1> DEFINE below == {0 .. n - 1 : n \in T}
  <1>1. below \subseteq FiniteSubsetsOf(Nat) /\ below # {}
    <2>1. \A n \in T : IsFiniteSet(0 .. n - 1) /\ 0 .. n - 1 \subseteq Nat
      BY FS_Interval
    <2> QED
      BY <2>1 DEF FiniteSubsetsOf
  <1>2. PICK s \in below : \A r \in below : ~(<<r, s>> \in StrictSubsetOrdering(Nat))
    <2> HIDE DEF below
    <2> QED
      BY <1>1, FS_StrictSubsetOrderingWellFounded, WFMin
  <1>3. PICK m \in T : s = 0 .. m - 1
    OBVIOUS
  <1>4. ASSUME NEW n \in T, n < m
        PROVE  FALSE
    <2>1. /\ 0 .. n - 1 \in below /\ 0 .. n - 1 \subseteq 0 .. m - 1
          /\ n \in 0 .. m - 1 /\ n \notin 0 .. n - 1
      BY <1>4
    <2>2. <<0 .. n - 1, s>> \in StrictSubsetOrdering(Nat)
      BY <2>1, <1>3 DEF StrictSubsetOrdering
    <2> QED
      BY <2>1, <2>2, <1>2
  <1> QED
    BY <1>4

LEMMA Induction ==
    ASSUME NEW S \in SUBSET Nat, 0 \in S, \A n \in S : n + 1 \in S
    PROVE  S = Nat
  <1> SUFFICES ASSUME Nat \ S # {} PROVE FALSE
    OBVIOUS
  <1>1. PICK m \in Nat \ S : \A n \in Nat \ S : m <= n
    BY LeastMember
  <1> QED
    BY <1>1


-----------------------------------------------------------------------------
(* Arithmetic.                                                             *)

LEMMA DivMod ==
    ASSUME NEW a \in Nat, NEW b \in Nat \ {0}
    PROVE  /\ a \div b \in Nat /\ a % b \in 0 .. b - 1
           /\ a = b * (a \div b) + (a % b)
  OBVIOUS

LEMMA Product == \A a, b \in Nat \ {0} : a * b \in Nat \ {0}
  OBVIOUS

Inputs == {"ts4", "midi"}
Worths == {TicksPerClock(s) : s \in Source}
OuterWorths == {TicksPerClock(s) : s \in Inputs}

LEMMA Sizes ==
    /\ PPQN \in Nat \ {0} /\ Resolution \in Nat \ {0} /\ Quarters \in Nat \ {0}
    /\ Bar \in Nat \ {0} /\ Bar = Quarters * PPQN
    /\ Quarters * Resolution \in Nat \ {0}
BY TransportAssumption, Product DEF Bar

\* A clock whose pulse divides a quarter into an even number of ticks.
LEMMA EvenPart ==
    ASSUME NEW p \in Nat \ {0}, PPQN % p = 0, (PPQN \div p) % 2 = 0
    PROVE  /\ PPQN \div p \in Nat /\ PPQN \div p >= 2 /\ PPQN \div p <= PPQN
           /\ \E h \in Nat : PPQN \div p = 2 * h
           /\ \E b \in Nat : Bar = (PPQN \div p) * b
<1> DEFINE t == PPQN \div p
<1>1. t \in Nat /\ PPQN = p * t
  BY DivMod, Sizes
<1>2. t \div 2 \in Nat /\ t = 2 * (t \div 2)
  <2> HIDE DEF t
  <2>1. t % 2 = 0
    BY DEF t
  <2> QED
    BY <1>1, <2>1, DivMod
<1> HIDE DEF t
<1>3. t # 0
  BY <1>1, Sizes
<1>4. t >= 2
  <2> DEFINE h == t \div 2
  <2>1. h \in Nat /\ t = 2 * h
    BY <1>2
  <2> HIDE DEF h
  <2> QED
    BY <1>3, <2>1
<1>5. t <= PPQN
  <2>1. \A a, b \in Nat \ {0} : b <= a * b
    OBVIOUS
  <2> QED
    BY <1>1, <1>3, <2>1
<1>6. Bar = t * (Quarters * p) /\ Quarters * p \in Nat
  <2>1. \A a, b, c \in Nat : a * (b * c) = c * (a * b) /\ a * b \in Nat
    OBVIOUS
  <2> QED
    BY <1>1, <2>1, Sizes
<1> QED
  BY <1>1, <1>2, <1>4, <1>5, <1>6 DEF t

LEMMA InputWorth ==
    ASSUME NEW t \in OuterWorths
    PROVE  /\ t \in Nat /\ t >= 2 /\ t <= PPQN
           /\ \E h \in Nat : t = 2 * h
           /\ \E b \in Nat : Bar = t * b
<1>1. t \in {PPQN \div Ts4, PPQN \div Midi}
  BY DEF OuterWorths, Inputs, TicksPerClock, PulsesPerQuarter, Source
<1>2. CASE t = PPQN \div Ts4
  BY <1>2, EvenPart, TransportAssumption
<1>3. CASE t = PPQN \div Midi
  BY <1>3, EvenPart, TransportAssumption
<1> QED
  BY <1>1, <1>2, <1>3

LEMMA AnyWorth ==
    /\ \A t \in Worths : t \in Nat /\ 1 <= t /\ t <= PPQN
    /\ OuterWorths \subseteq Worths
<1>1. TicksPerClock("internal") = PPQN
  BY Sizes DEF TicksPerClock, PulsesPerQuarter, Source
<1>2. \A t \in Worths : t = PPQN \/ t \in OuterWorths
  BY <1>1 DEF Worths, OuterWorths, Inputs, Source
<1>3. \A t \in Worths : t \in Nat /\ 1 <= t /\ t <= PPQN
  BY <1>2, InputWorth, Sizes
<1> QED
  BY <1>3 DEF Worths, OuterWorths, Inputs, Source

\* A bar of whole pulses: where the timeline is in it does not change how far
\* it is from a pulse.
LEMMA AroundBar ==
    ASSUME NEW t \in OuterWorths, NEW p \in 0 .. Bar - 1, NEW n \in Nat,
           \E q \in Int : p = n + 1 + t * q
    PROVE  \E q \in Int : (p + 1) % Bar = (n + 1) + 1 + t * q
<1>1. PICK q \in Int : p = n + 1 + t * q
  OBVIOUS
<1>2. PICK b \in Nat : Bar = t * b
  BY InputWorth
<1>3. t \in Nat /\ t * q \in Int
  BY InputWorth
<1>4. (p + 1) % Bar = IF p + 1 = Bar THEN 0 ELSE p + 1
  BY Sizes
<1>5. CASE p + 1 # Bar
  <2>1. (p + 1) % Bar = (n + 1) + 1 + t * q
    BY <1>1, <1>3, <1>4, <1>5
  <2> QED
    BY <2>1
<1>6. CASE p + 1 = Bar
  <2>1. t * (q - b) = t * q - t * b /\ q - b \in Int
    BY <1>3
  <2>2. (p + 1) % Bar = (n + 1) + 1 + t * (q - b)
    BY <1>1, <1>2, <1>3, <1>4, <1>6, <2>1
  <2> QED
    BY <2>1, <2>2
<1> QED
  BY <1>5, <1>6

LEMMA Remainder ==
    ASSUME NEW c \in Nat \ {0}, NEW d \in Int, NEW r \in 0 .. (c - 1)
    PROVE  ((c * d) + r) % c = r
  BY SMT

LEMMA OneMore ==
    ASSUME NEW t \in OuterWorths, NEW q \in Int
    PROVE  (1 + t * q) % t = 1
<1>1. t \in Nat \ {0} /\ 1 \in 0 .. (t - 1)
  BY InputWorth
<1>2. ((t * q) + 1) % t = 1
  BY <1>1, Remainder
<1>3. t * q \in Int /\ 1 + t * q = t * q + 1
  BY <1>1
<1> QED
  BY <1>1, <1>2, <1>3

\* Counts that are the same number of triggers from a quarter.
InStep(k, q) == \E j \in Int : k = q + Resolution * j

LEMMA WholeQuarters ==
    /\ \A k \in KeyIntervals : k \in Nat /\ 1 <= k /\ k <= 16 * Resolution
    /\ \A k \in KeyIntervals : k >= Resolution => InStep(k, Resolution)
    /\ \A k \in Nat : k % Resolution = 0 => InStep(k, Resolution)
<1>1. \A k \in KeyIntervals : k = 1 \/ \E j \in 1 .. 16 : k = Resolution * j
  BY TransportAssumption
<1>2. \A r \in Nat \ {0}, j \in 1 .. 16 : r * j \in Nat /\ 1 <= r * j /\ r * j <= 16 * r
  OBVIOUS
<1>3. \A k \in KeyIntervals : k \in Nat /\ 1 <= k /\ k <= 16 * Resolution
  BY <1>1, <1>2, Sizes
<1>4. \A j \in Int : InStep(Resolution * j, Resolution)
  <2> SUFFICES ASSUME NEW j \in Int PROVE Resolution * j = Resolution + Resolution * (j - 1)
    BY DEF InStep
  <2> QED
    BY Sizes
<1>5. ASSUME NEW k \in KeyIntervals, k >= Resolution PROVE InStep(k, Resolution)
  <2>1. CASE k = 1
    <3>1. k = Resolution * 1
      BY <1>5, <2>1, Sizes
    <3> QED
      BY <1>4, <3>1
  <2> QED
    BY <1>1, <1>4, <2>1
<1>6. ASSUME NEW k \in Nat, k % Resolution = 0 PROVE InStep(k, Resolution)
  <2>1. k \div Resolution \in Int /\ k = Resolution * (k \div Resolution)
    BY <1>6, DivMod, Sizes
  <2> QED
    BY <1>4, <2>1
<1> QED
  BY <1>3, <1>5, <1>6

LEMMA InStepOne ==
    ASSUME NEW q \in 1 .. Resolution, InStep(1, q)
    PROVE  q = 1
<1>1. PICK j \in Int : 1 = q + Resolution * j
  BY DEF InStep
<1>2. \A r \in Nat \ {0}, i \in Int : i < 0 => r * i <= 0 - r
  OBVIOUS
<1>3. \A r \in Nat \ {0}, i \in Int : i > 0 => r * i >= r
  OBVIOUS
<1>4. CASE j = 0
  BY <1>1, <1>4, Sizes
<1>5. CASE j > 0
  BY <1>1, <1>3, <1>5, Sizes
<1>6. CASE j < 0
  BY <1>1, <1>2, <1>6, Sizes
<1> QED
  BY <1>4, <1>5, <1>6

LEMMA InStepDown ==
    ASSUME NEW k \in Nat, NEW q \in Nat, InStep(k, q)
    PROVE  InStep(k - 1, q - 1)
<1>1. PICK j \in Int : k = q + Resolution * j
  BY DEF InStep
<1>2. Resolution * j \in Int
  BY Sizes
<1>3. k - 1 = (q - 1) + Resolution * j
  BY <1>1, <1>2
<1> QED
  BY <1>3 DEF InStep

-----------------------------------------------------------------------------
(* One tick of the timeline.                                               *)

Counts == 0 .. (Quarters * Resolution - 1)
Grids == {g \in [pulse : 0 .. Bar - 1, count : Counts, next : {PerTrigger * k : k \in Counts},
                 key : 0 .. 16 * Resolution, quarter : 0 .. Resolution,
                 isKey : BOOLEAN, send : BOOLEAN, interval : KeyIntervals,
                 fresh : BOOLEAN, settled : BOOLEAN] :
            \E k \in KeyIntervals : g.key <= k}
Entries == [key : BOOLEAN, quarter : BOOLEAN, first : BOOLEAN, long : BOOLEAN]
Spans == [open : BOOLEAN, ticks : Nat, outs : Nat,
          paid : SUBSET [ticks : Nat, outs : Nat, due : Nat]]
Lines == [grid : Grids, heard : SUBSET Entries, span : Spans]

\* What OnTick finds.
Trigger(g)  == g.pulse = g.next
Ended(g)    == Trigger(g) /\ g.key <= 1
Quarter(g)  == Trigger(g) /\ g.quarter <= 1
KeyLeft(g)  == IF Ended(g) THEN g.interval ELSE IF Trigger(g) THEN g.key - 1 ELSE g.key
Caught(g)   == Quarter(g) /\ KeyOff(g, KeyLeft(g))
CountNow(g) == IF Trigger(g) THEN (g.count + 1) % (Quarters * Resolution) ELSE g.count

\* A tick turns the grid g into h and is heard as e.
GridTicks(g, h, pulsed) ==
    /\ h.pulse = (g.pulse + 1) % Bar /\ h.count = CountNow(g)
    /\ h.next = (IF Trigger(g) THEN CountNow(g) * PerTrigger ELSE g.next)
    /\ h.key = (IF Caught(g) THEN g.interval ELSE KeyLeft(g))
    /\ h.quarter = (IF Quarter(g) THEN Resolution
                    ELSE IF Trigger(g) THEN g.quarter - 1 ELSE g.quarter)
    /\ h.interval = g.interval
    /\ h.isKey <=> Ended(g) \/ Caught(g)
    /\ h.send <=> ~(g.send \/ pulsed)
    /\ ~h.fresh
    /\ h.settled <=> g.settled \/ Quarter(g)

EntryOf(g, e) ==
    /\ e.key <=> Ended(g) \/ Caught(g)
    /\ e.quarter <=> Quarter(g)
    /\ e.first <=> g.fresh
    /\ e.long <=> g.settled /\ g.interval >= Resolution

SpanTicks(s, p, send) ==
    /\ p.open <=> s.open
    /\ p.paid = s.paid
    /\ s.open => p.ticks = s.ticks + 1 /\ p.outs = IF send THEN s.outs + 1 ELSE s.outs
    /\ ~s.open => p.ticks = s.ticks /\ p.outs = s.outs

LEMMA GridFields ==
    ASSUME NEW g \in Grids
    PROVE  /\ g.pulse \in 0 .. Bar - 1 /\ g.count \in Counts
           /\ g.next \in {PerTrigger * k : k \in Counts}
           /\ g.key \in 0 .. 16 * Resolution /\ g.quarter \in 0 .. Resolution
           /\ g.isKey \in BOOLEAN /\ g.send \in BOOLEAN /\ g.interval \in KeyIntervals
           /\ g.fresh \in BOOLEAN /\ g.settled \in BOOLEAN
           /\ \E k \in KeyIntervals : g.key <= k
  BY DEF Grids

LEMMA PerTriggerNat == PerTrigger \in Nat
  BY DivMod, Sizes DEF PerTrigger

LEMMA TickTyped ==
    ASSUME NEW g \in Grids
    PROVE  /\ (g.pulse + 1) % Bar \in 0 .. Bar - 1
           /\ CountNow(g) \in Counts /\ CountNow(g) * PerTrigger \in {PerTrigger * k : k \in Counts}
           /\ KeyLeft(g) \in 0 .. 16 * Resolution /\ \E k \in KeyIntervals : KeyLeft(g) <= k
           /\ (IF Quarter(g) THEN Resolution ELSE IF Trigger(g) THEN g.quarter - 1 ELSE g.quarter)
                \in 0 .. Resolution
<1>1. (g.pulse + 1) % Bar \in 0 .. Bar - 1
  <2>1. g.pulse + 1 \in Nat
    BY GridFields, Sizes
  <2> QED
    BY <2>1, Sizes, DivMod
<1>2. CountNow(g) \in Counts
  <2>1. g.count \in Nat /\ g.count + 1 \in Nat
    BY GridFields, Sizes DEF Counts
  <2>2. (g.count + 1) % (Quarters * Resolution) \in Counts
    BY <2>1, DivMod, Sizes DEF Counts
  <2> QED
    BY <2>2, GridFields DEF CountNow
<1>3. CountNow(g) * PerTrigger \in {PerTrigger * k : k \in Counts}
  <2>1. CountNow(g) * PerTrigger = PerTrigger * CountNow(g)
    <3>1. CountNow(g) \in Nat
      BY <1>2, Sizes DEF Counts
    <3> QED
      BY <3>1, PerTriggerNat
  <2> QED
    BY <1>2, <2>1
<1>4. /\ KeyLeft(g) \in 0 .. 16 * Resolution
      /\ \E k \in KeyIntervals : KeyLeft(g) <= k
  <2>1. CASE Ended(g)
    <3>1. KeyLeft(g) = g.interval /\ g.interval \in KeyIntervals
      BY <2>1, GridFields DEF KeyLeft
    <3> QED
      BY <3>1, WholeQuarters, Sizes
  <2>2. CASE ~Ended(g) /\ Trigger(g)
    <3>1. KeyLeft(g) = g.key - 1 /\ g.key \in Nat /\ g.key > 1
      BY <2>2, GridFields, Sizes DEF KeyLeft, Ended
    <3>2. PICK k \in KeyIntervals : g.key <= k
      BY GridFields
    <3> QED
      BY <3>1, <3>2, WholeQuarters, GridFields, Sizes
  <2>3. CASE ~Ended(g) /\ ~Trigger(g)
    BY <2>3, GridFields DEF KeyLeft
  <2> QED
    BY <2>1, <2>2, <2>3
<1>5. (IF Quarter(g) THEN Resolution ELSE IF Trigger(g) THEN g.quarter - 1 ELSE g.quarter)
        \in 0 .. Resolution
  <2>1. g.quarter \in 0 .. Resolution
    BY GridFields
  <2> QED
    BY <2>1, Sizes DEF Quarter
<1> QED
  BY <1>1, <1>2, <1>3, <1>4, <1>5

LEMMA OnTickIs ==
    ASSUME NEW r \in Lines, NEW pulsed \in BOOLEAN
    PROVE  /\ OnTick(r, pulsed) \in Lines
           /\ GridTicks(r.grid, OnTick(r, pulsed).grid, pulsed)
           /\ \E e \in Entries : /\ OnTick(r, pulsed).heard = r.heard \cup {e}
                                 /\ EntryOf(r.grid, e)
           /\ SpanTicks(r.span, OnTick(r, pulsed).span, r.grid.send \/ pulsed)
<1> DEFINE g == r.grid
           pulse == (g.pulse + 1) % Bar
           count == CountNow(g)
           next == IF Trigger(g) THEN CountNow(g) * PerTrigger ELSE g.next
           key == IF Caught(g) THEN g.interval ELSE KeyLeft(g)
           quarter == IF Quarter(g) THEN Resolution
                      ELSE IF Trigger(g) THEN g.quarter - 1 ELSE g.quarter
           isKey == Ended(g) \/ Caught(g)
           send == g.send \/ pulsed
           nosend == ~send
           settled == g.settled \/ Quarter(g)
           q == Quarter(g)
           long == g.settled /\ g.interval >= Resolution
           h == [g EXCEPT !.pulse = pulse, !.count = count, !.next = next, !.key = key,
                          !.quarter = quarter, !.isKey = isKey, !.send = nosend,
                          !.fresh = FALSE, !.settled = settled]
           e == [key |-> isKey, quarter |-> q, first |-> g.fresh, long |-> long]
           p == IF ~r.span.open THEN r.span
                ELSE [r.span EXCEPT !.ticks = @ + 1, !.outs = IF send THEN @ + 1 ELSE @]
<1>1. OnTick(r, pulsed) = [grid |-> h, heard |-> r.heard \cup {e}, span |-> p]
  BY Zenon DEF OnTick, Trigger, Ended, Quarter, KeyLeft, Caught, CountNow
<1>2. g \in Grids /\ r.heard \in SUBSET Entries /\ r.span \in Spans
  BY DEF Lines
<1>3. /\ pulse \in 0 .. Bar - 1 /\ count \in Counts /\ next \in {PerTrigger * k : k \in Counts}
      /\ key \in 0 .. 16 * Resolution /\ quarter \in 0 .. Resolution
      /\ \E k \in KeyIntervals : key <= k
  <2> HIDE DEF g
  <2> QED
    BY <1>2, TickTyped, GridFields, WholeQuarters, Sizes
<1>4. /\ isKey \in BOOLEAN /\ send \in BOOLEAN /\ nosend \in BOOLEAN /\ settled \in BOOLEAN
      /\ q \in BOOLEAN /\ long \in BOOLEAN /\ g.fresh \in BOOLEAN
  <2>1. g.settled \in BOOLEAN /\ g.send \in BOOLEAN /\ g.fresh \in BOOLEAN
    BY <1>2, GridFields
  <2> HIDE DEF g
  <2>2. q \in BOOLEAN /\ settled \in BOOLEAN
    BY <2>1 DEF Quarter
  <2>3. isKey \in BOOLEAN
    BY DEF Ended, Caught
  <2>4. send \in BOOLEAN /\ nosend \in BOOLEAN
    BY <2>1
  <2>5. long \in BOOLEAN
    OBVIOUS
  <2> QED
    BY <2>1, <2>2, <2>3, <2>4, <2>5
<1>5. h \in Grids /\ GridTicks(g, h, pulsed)
  <2>1. g \in [pulse : 0 .. Bar - 1, count : Counts, next : {PerTrigger * k : k \in Counts},
               key : 0 .. 16 * Resolution, quarter : 0 .. Resolution,
               isKey : BOOLEAN, send : BOOLEAN, interval : KeyIntervals,
               fresh : BOOLEAN, settled : BOOLEAN]
    <3> HIDE DEF g
    <3> QED
      BY <1>2 DEF Grids
  <2>4. h \in Grids
    <3> HIDE DEF g, pulse, count, next, key, quarter, isKey, nosend, settled
    <3>1. h \in [pulse : 0 .. Bar - 1, count : Counts, next : {PerTrigger * k : k \in Counts},
                 key : 0 .. 16 * Resolution, quarter : 0 .. Resolution,
                 isKey : BOOLEAN, send : BOOLEAN, interval : KeyIntervals,
                 fresh : BOOLEAN, settled : BOOLEAN]
      BY <1>3, <1>4, <2>1
    <3>2. h.key = key
      BY <2>1
    <3> HIDE DEF h
    <3> QED
      BY <1>3, <3>1, <3>2 DEF Grids
  <2>5. /\ h.pulse = pulse /\ h.count = count /\ h.next = next /\ h.key = key
        /\ h.quarter = quarter /\ h.interval = g.interval /\ h.isKey = isKey /\ h.send = nosend
        /\ h.fresh = FALSE /\ h.settled = settled
    <3> HIDE DEF g, pulse, count, next, key, quarter, isKey, nosend, settled
    <3> QED
      BY <2>1
  <2> HIDE DEF h
  <2> QED
    BY <2>4, <2>5 DEF GridTicks
<1>6. e \in Entries /\ EntryOf(g, e)
  <2>1. e.key = isKey /\ e.quarter = q /\ e.first = g.fresh /\ e.long = long
    <3> HIDE DEF isKey, q, long, g
    <3> QED
      OBVIOUS
  <2>2. e \in Entries
    <3> HIDE DEF isKey, q, long, g
    <3> QED
      BY <1>4 DEF Entries
  <2> HIDE DEF e
  <2> QED
    BY <2>1, <2>2 DEF EntryOf
<1>7. p \in Spans /\ SpanTicks(r.span, p, send)
  <2> HIDE DEF g, send
  <2>1. r.span.open \in BOOLEAN /\ r.span.ticks \in Nat /\ r.span.outs \in Nat
    BY <1>2 DEF Spans
  <2>2. CASE r.span.open
    <3>1. p = [r.span EXCEPT !.ticks = @ + 1, !.outs = IF send THEN @ + 1 ELSE @]
      BY <2>2
    <3> DEFINE outs == IF send THEN r.span.outs + 1 ELSE r.span.outs
    <3> HIDE DEF p
    <3>2. p \in Spans
      <4>1. outs \in Nat /\ p = [r.span EXCEPT !.ticks = @ + 1, !.outs = outs]
        BY <2>1, <3>1
      <4>2. r.span.ticks + 1 \in Nat
        BY <2>1
      <4> HIDE DEF outs
      <4> QED
        BY <1>2, <4>1, <4>2 DEF Spans
    <3>3. p.open = r.span.open /\ p.paid = r.span.paid /\ p.ticks = r.span.ticks + 1
          /\ p.outs = IF send THEN r.span.outs + 1 ELSE r.span.outs
      BY <1>2, <3>1 DEF Spans
    <3> QED
      BY <2>2, <3>2, <3>3 DEF SpanTicks
  <2>3. CASE ~r.span.open
    <3>1. p = r.span
      BY <2>3
    <3> HIDE DEF p
    <3> QED
      BY <1>2, <2>3, <3>1 DEF SpanTicks
  <2> QED
    BY <2>2, <2>3
<1>8. OnTick(r, pulsed) \in Lines
  <2> HIDE DEF h, e, p
  <2> QED
    BY <1>1, <1>2, <1>5, <1>6, <1>7 DEF Lines
<1> HIDE DEF h, e, p
<1>9. OnTick(r, pulsed).grid = h /\ OnTick(r, pulsed).heard = r.heard \cup {e} /\ OnTick(r, pulsed).span = p
  BY <1>1
<1> QED
  BY <1>5, <1>6, <1>7, <1>8, <1>9

-----------------------------------------------------------------------------
(* Several ticks: OnTicks runs through the values of a function.           *)

OnPulse(pulsed, i, m) == IF i = m THEN pulsed ELSE FALSE

Runs(r, m, pulsed, n, w) ==
    /\ w = [i \in 0 .. n |-> w[i]]
    /\ w[0] = r
    /\ \A i \in 1 .. n : w[i] = OnTick(w[i - 1], OnPulse(pulsed, i, m))

LEMMA RunsExist ==
    ASSUME NEW r, NEW m \in Nat, NEW pulsed \in BOOLEAN
    PROVE  \E w : Runs(r, m, pulsed, m, w)
<1> DEFINE S == {n \in Nat : \E w : Runs(r, m, pulsed, n, w)}
<1>1. 0 \in S
  <2> DEFINE w == [i \in 0 .. 0 |-> r]
  <2>1. w[0] = r /\ w = [i \in 0 .. 0 |-> w[i]]
    OBVIOUS
  <2> HIDE DEF w
  <2>2. Runs(r, m, pulsed, 0, w)
    BY <2>1 DEF Runs
  <2> QED
    BY <2>2
<1>2. ASSUME NEW n \in S PROVE n + 1 \in S
  <2>1. n \in Nat /\ n + 1 \in Nat
    OBVIOUS
  <2>2. PICK w : Runs(r, m, pulsed, n, w)
    OBVIOUS
  <2> DEFINE next == OnTick(w[n], OnPulse(pulsed, n + 1, m))
             v == [i \in 0 .. n + 1 |-> IF i = n + 1 THEN next ELSE w[i]]
  <2> HIDE DEF next
  <2>3. v[0] = r /\ v = [i \in 0 .. n + 1 |-> v[i]]
    <3>1. v[0] = w[0]
      BY <2>1
    <3> QED
      BY <2>1, <2>2, <3>1 DEF Runs
  <2>4. ASSUME NEW i \in 1 .. n + 1 PROVE v[i] = OnTick(v[i - 1], OnPulse(pulsed, i, m))
    <3>1. CASE i = n + 1
      <4>1. v[i] = next /\ v[i - 1] = w[n]
        BY <2>1, <3>1
      <4> HIDE DEF v
      <4> QED
        BY <3>1, <4>1 DEF next
    <3>2. CASE i # n + 1
      <4>1. i \in 1 .. n /\ v[i] = w[i] /\ v[i - 1] = w[i - 1]
        BY <2>1, <3>2
      <4> HIDE DEF v
      <4> QED
        BY <2>2, <4>1 DEF Runs
    <3> QED
      BY <3>1, <3>2
  <2> HIDE DEF v
  <2>5. Runs(r, m, pulsed, n + 1, v)
    BY <2>3, <2>4 DEF Runs
  <2> QED
    BY <2>1, <2>5
<1> HIDE DEF S
<1>3. S = Nat
  <2>1. S \in SUBSET Nat
    BY DEF S
  <2> QED
    BY <1>1, <1>2, <2>1, Induction
<1> QED
  BY <1>3 DEF S

LEMMA OnTicksIs ==
    ASSUME NEW r, NEW m \in Nat, NEW pulsed \in BOOLEAN
    PROVE  \E w : Runs(r, m, pulsed, m, w) /\ OnTicks(r, m, pulsed) = w[m]
<1> DEFINE Is(w) == w = [i \in 0 .. m |-> IF i = 0 THEN r ELSE OnTick(w[i - 1], pulsed /\ i = m)]
           z == CHOOSE w : Is(w)
<1>0. \A i : OnPulse(pulsed, i, m) = (pulsed /\ i = m)
  BY Zenon DEF OnPulse
<1>1. PICK w : Runs(r, m, pulsed, m, w)
  BY RunsExist
<1>2. Is(w)
  <2>1. \A i \in 0 .. m : w[i] = IF i = 0 THEN r ELSE OnTick(w[i - 1], OnPulse(pulsed, i, m))
    <3>1. \A i \in 0 .. m : i = 0 \/ i \in 1 .. m
      OBVIOUS
    <3> QED
      BY <1>1, <3>1 DEF Runs
  <2>2. w = [i \in 0 .. m |-> w[i]]
    BY <1>1 DEF Runs
  <2>3. \A i \in 0 .. m : w[i] = IF i = 0 THEN r ELSE OnTick(w[i - 1], pulsed /\ i = m)
    BY <1>0, <2>1, Zenon
  <2> QED
    BY <2>2, <2>3, Zenon
<1>3. Is(z)
  <2> HIDE DEF Is
  <2> QED
    BY <1>2
<1>4. OnTicks(r, m, pulsed) = z[m]
  BY Zenon DEF OnTicks
<1> HIDE DEF z
<1>5. Runs(r, m, pulsed, m, z)
  <2>1. \A i \in 0 .. m : z[i] = IF i = 0 THEN r ELSE OnTick(z[i - 1], pulsed /\ i = m)
    BY <1>3, Zenon
  <2>2. \A i \in 0 .. m : z[i] = IF i = 0 THEN r ELSE OnTick(z[i - 1], OnPulse(pulsed, i, m))
    BY <1>0, <2>1, Zenon
  <2>3. z[0] = r /\ \A i \in 1 .. m : z[i] = OnTick(z[i - 1], OnPulse(pulsed, i, m))
    <3>1. 0 \in 0 .. m /\ \A i \in 1 .. m : i \in 0 .. m /\ i # 0
      OBVIOUS
    <3> QED
      BY <2>2, <3>1
  <2>4. z = [i \in 0 .. m |-> z[i]]
    <3> DEFINE f == [i \in 0 .. m |-> IF i = 0 THEN r ELSE OnTick(z[i - 1], pulsed /\ i = m)]
    <3>1. z = f /\ f = [i \in 0 .. m |-> f[i]]
      BY <1>3, Zenon
    <3> QED
      BY <3>1, Zenon
  <2> QED
    BY <2>3, <2>4 DEF Runs
<1> QED
  BY <1>4, <1>5

\* What holds of the i-th value because it held of the one before, holds of the last.
LEMMA AfterTicks ==
    ASSUME NEW r, NEW m \in Nat, NEW pulsed \in BOOLEAN, NEW T,
           r \in T[0],
           \A i \in 1 .. m : \A x \in T[i - 1] : OnTick(x, OnPulse(pulsed, i, m)) \in T[i]
    PROVE  OnTicks(r, m, pulsed) \in T[m]
<1>1. PICK w : Runs(r, m, pulsed, m, w) /\ OnTicks(r, m, pulsed) = w[m]
  BY OnTicksIs
<1> DEFINE S == {n \in Nat : n <= m => w[n] \in T[n]}
<1>2. 0 \in S
  BY <1>1 DEF Runs
<1>3. ASSUME NEW n \in S PROVE n + 1 \in S
  <2>1. n \in Nat
    OBVIOUS
  <2> SUFFICES ASSUME n + 1 <= m PROVE w[n + 1] \in T[n + 1]
    BY <2>1
  <2>2. n + 1 \in 1 .. m /\ (n + 1) - 1 = n /\ w[n] \in T[n]
    BY <2>1
  <2>3. w[n + 1] = OnTick(w[n], OnPulse(pulsed, n + 1, m))
    BY <1>1, <2>2 DEF Runs
  <2> QED
    BY <2>2, <2>3
<1> HIDE DEF S
<1>4. S = Nat
  <2>1. S \in SUBSET Nat
    BY DEF S
  <2> QED
    BY <1>2, <1>3, <2>1, Induction
<1> QED
  BY <1>1, <1>4 DEF S

LEMMA OnTicksTyped ==
    ASSUME NEW r \in Lines, NEW m \in Nat, NEW pulsed \in BOOLEAN
    PROVE  OnTicks(r, m, pulsed) \in Lines
<1> DEFINE T == [i \in 0 .. m |-> Lines]
<1>1. ASSUME NEW i \in 1 .. m, NEW x \in T[i - 1] PROVE OnTick(x, OnPulse(pulsed, i, m)) \in T[i]
  <2>1. x \in Lines /\ i \in 0 .. m /\ i - 1 \in 0 .. m
    OBVIOUS
  <2>2. OnPulse(pulsed, i, m) \in BOOLEAN
    BY DEF OnPulse
  <2> QED
    BY <2>1, <2>2, OnTickIs
<1>2. r \in T[0]
  OBVIOUS
<1>3. T[m] = Lines
  OBVIOUS
<1> HIDE DEF T
<1> QED
  BY <1>1, <1>2, <1>3, AfterTicks

-----------------------------------------------------------------------------
(* The clock: types, and a clock that runs is less than a pulse ahead.     *)

Clocks == [running : BOOLEAN, armed : BOOLEAN, ext : BOOLEAN, hold : BOOLEAN,
           ahead : 0 .. PPQN - 1, tpc : Worths]

InTime(c) == c.ahead <= c.tpc - 1

LEMMA WorthTwo == \A t \in Worths : t \in Nat /\ 2 <= t /\ t <= PPQN
<1>1. PPQN \div Ts4 \in OuterWorths
  BY DEF OuterWorths, Inputs, TicksPerClock, PulsesPerQuarter, Source
<1>2. PPQN >= 2 /\ PPQN \in Nat
  BY <1>1, InputWorth, Sizes
<1>3. TicksPerClock("internal") = PPQN
  BY Sizes DEF TicksPerClock, PulsesPerQuarter, Source
<1>4. \A t \in Worths : t = PPQN \/ t \in OuterWorths
  BY <1>3 DEF Worths, OuterWorths, Inputs, Source
<1> QED
  BY <1>2, <1>4, InputWorth

LEMMA ClockFields ==
    ASSUME NEW c \in Clocks
    PROVE  /\ c.running \in BOOLEAN /\ c.armed \in BOOLEAN /\ c.ext \in BOOLEAN /\ c.hold \in BOOLEAN
           /\ c.ahead \in Nat /\ c.ahead <= PPQN - 1
           /\ c.tpc \in Worths /\ c.tpc \in Nat /\ 2 <= c.tpc /\ c.tpc <= PPQN
  BY WorthTwo, Sizes DEF Clocks

LEMMA FreeFits ==
    ASSUME NEW c \in Clocks, InTime(c), NEW n \in 0 .. 1
    PROVE  /\ FreeTicks(c, n) \in 0 .. n
           /\ c.ext => c.ahead + FreeTicks(c, n) \in 0 .. c.tpc - 1
           /\ ~c.ext => FreeTicks(c, n) = n
           /\ (IF c.ext \/ c.ahead + FreeTicks(c, n) < c.tpc THEN c.ahead + FreeTicks(c, n)
                                                           ELSE c.tpc - 1) \in 0 .. c.tpc - 1
  BY ClockFields DEF InTime, FreeTicks

LEMMA SpannedTyped ==
    ASSUME NEW r \in Lines, NEW whole \in BOOLEAN, NEW due \in Nat
    PROVE  /\ Spanned(r, whole, due) \in Lines
           /\ Spanned(r, whole, due).grid = r.grid /\ Spanned(r, whole, due).heard = r.heard
           /\ Spanned(r, whole, due).span =
                [open |-> TRUE, ticks |-> 0, outs |-> 0,
                 paid |-> IF whole /\ r.span.open
                          THEN {[ticks |-> r.span.ticks, outs |-> r.span.outs, due |-> due]}
                          ELSE {}]
<1> DEFINE one == [ticks |-> r.span.ticks, outs |-> r.span.outs, due |-> due]
           paid == IF whole /\ r.span.open THEN {one} ELSE {}
           s == [open |-> TRUE, ticks |-> 0, outs |-> 0, paid |-> paid]
<1>1. r.span \in Spans /\ r.grid \in Grids /\ r.heard \in SUBSET Entries
  BY DEF Lines
<1>2. one \in [ticks : Nat, outs : Nat, due : Nat]
  BY <1>1 DEF Spans
<1>3. s \in Spans
  <2>1. paid \in SUBSET [ticks : Nat, outs : Nat, due : Nat]
    <3> HIDE DEF one
    <3> QED
      BY <1>2
  <2> HIDE DEF paid
  <2> QED
    BY <2>1 DEF Spans
<1>4. Spanned(r, whole, due) = [r EXCEPT !.span = s]
  BY Zenon DEF Spanned
<1>5. [r EXCEPT !.span = s] \in Lines
  <2> HIDE DEF s
  <2> QED
    BY <1>3 DEF Lines
<1>6. [r EXCEPT !.span = s].span = s /\ [r EXCEPT !.span = s].grid = r.grid
      /\ [r EXCEPT !.span = s].heard = r.heard
  <2> HIDE DEF s
  <2> QED
    BY DEF Lines
<1> QED
  BY <1>4, <1>5, <1>6, Zenon

LEMMA EmitFreeIs ==
    ASSUME NEW c \in Clocks, InTime(c), NEW r \in Lines, NEW n \in 0 .. 1
    PROVE  /\ EmitFree(c, r, n).clk \in Clocks /\ InTime(EmitFree(c, r, n).clk)
           /\ EmitFree(c, r, n).clk.running = c.running /\ EmitFree(c, r, n).clk.armed = c.armed
           /\ EmitFree(c, r, n).clk.ext = c.ext /\ EmitFree(c, r, n).clk.tpc = c.tpc
           /\ c.hold => EmitFree(c, r, n).clk = c /\ EmitFree(c, r, n).r = r
           /\ ~c.hold => /\ EmitFree(c, r, n).clk.ahead =
                              IF c.ext \/ c.ahead + FreeTicks(c, n) < c.tpc
                              THEN c.ahead + FreeTicks(c, n) ELSE c.tpc - 1
                         /\ EmitFree(c, r, n).r = OnTicks(r, FreeTicks(c, n), FALSE)
           /\ EmitFree(c, r, n).r \in Lines
<1> DEFINE m == FreeTicks(c, n)
           held == c.ext /\ c.ahead + n >= c.tpc - 1
           ahead == IF c.ext \/ c.ahead + m < c.tpc THEN c.ahead + m ELSE c.tpc - 1
           d == [c EXCEPT !.hold = held, !.ahead = ahead]
<1>1. CASE c.hold
  <2>1. EmitFree(c, r, n) = [clk |-> c, r |-> r]
    BY <1>1, Zenon DEF EmitFree
  <2> QED
    BY <1>1, <2>1
<1>2. CASE ~c.hold
  <2>1. EmitFree(c, r, n) = [clk |-> d, r |-> OnTicks(r, m, FALSE)]
    BY <1>2, Zenon DEF EmitFree
  <2>2. m \in Nat /\ ahead \in 0 .. c.tpc - 1
    BY FreeFits
  <2>3. held \in BOOLEAN
    BY ClockFields
  <2> HIDE DEF m, held, ahead
  <2>4. /\ d \in Clocks /\ InTime(d) /\ d.ahead = ahead
        /\ d.running = c.running /\ d.armed = c.armed /\ d.ext = c.ext /\ d.tpc = c.tpc
    <3>1. ahead \in 0 .. PPQN - 1
      BY <2>2, ClockFields, Sizes
    <3>2. d \in Clocks
      BY <2>3, <3>1 DEF Clocks
    <3>3. /\ d.ahead = ahead /\ d.running = c.running /\ d.armed = c.armed
          /\ d.ext = c.ext /\ d.tpc = c.tpc
      BY DEF Clocks
    <3> HIDE DEF d
    <3> QED
      BY <2>2, <3>2, <3>3, ClockFields DEF InTime
  <2>5. OnTicks(r, m, FALSE) \in Lines
    BY <2>2, OnTicksTyped
  <2> HIDE DEF d
  <2>6. EmitFree(c, r, n).clk = d /\ EmitFree(c, r, n).r = OnTicks(r, m, FALSE)
    BY <2>1
  <2> QED
    BY <1>2, <2>4, <2>5, <2>6 DEF m, ahead
<1> QED
  BY <1>1, <1>2, ClockFields

LEMMA EmitKickOffIs ==
    ASSUME NEW c \in Clocks, InTime(c), c.ext, NEW r \in Lines, NEW n \in 0 .. 1
    PROVE  LET m == FreeTicks(c, n)
               k == EmitKickOff(c, r, n)
           IN  /\ k.clk \in Clocks /\ InTime(k.clk)
               /\ k.clk.running = c.running /\ k.clk.armed = c.armed
               /\ k.clk.ext = c.ext /\ k.clk.tpc = c.tpc
               /\ c.hold => k.clk = c /\ k.r = r
               /\ ~c.hold => /\ k.clk.ahead = c.ahead + m
                             /\ k.r = Spanned(OnTicks(r, IF m > 0 THEN m ELSE 1, TRUE), FALSE, c.tpc)
               /\ k.r \in Lines
<1> DEFINE m == FreeTicks(c, n)
           k == EmitKickOff(c, r, n)
           held == c.ahead + n >= c.tpc - 1
           ahead == c.ahead + m
           some == IF m > 0 THEN m ELSE 1
           d == [c EXCEPT !.hold = held, !.ahead = ahead]
           s == Spanned(OnTicks(r, some, TRUE), FALSE, c.tpc)
<1>1. CASE c.hold
  <2>1. k = [clk |-> c, r |-> r]
    BY <1>1, Zenon DEF EmitKickOff
  <2> HIDE DEF k
  <2>2. k.clk = c /\ k.r = r
    BY <2>1
  <2> QED
    BY <1>1, <2>2 DEF k
<1>2. CASE ~c.hold
  <2>1. k = [clk |-> d, r |-> s]
    BY <1>2, Zenon DEF EmitKickOff
  <2>2. some \in Nat /\ ahead \in 0 .. c.tpc - 1
    BY FreeFits
  <2>3. held \in BOOLEAN
    BY ClockFields
  <2> HIDE DEF m, held, ahead, some
  <2>4. /\ d \in Clocks /\ InTime(d) /\ d.ahead = ahead
        /\ d.running = c.running /\ d.armed = c.armed /\ d.ext = c.ext /\ d.tpc = c.tpc
    <3>1. ahead \in 0 .. PPQN - 1
      BY <2>2, ClockFields, Sizes
    <3>2. d \in Clocks
      BY <2>3, <3>1 DEF Clocks
    <3>3. /\ d.ahead = ahead /\ d.running = c.running /\ d.armed = c.armed
          /\ d.ext = c.ext /\ d.tpc = c.tpc
      BY DEF Clocks
    <3> HIDE DEF d
    <3> QED
      BY <2>2, <3>2, <3>3, ClockFields DEF InTime
  <2>5. OnTicks(r, some, TRUE) \in Lines
    BY <2>2, OnTicksTyped
  <2>6. s \in Lines
    BY <2>5, SpannedTyped, ClockFields
  <2> HIDE DEF d, s, k
  <2>7. k.clk = d /\ k.r = s
    BY <2>1
  <2> QED
    BY <1>2, <2>4, <2>6, <2>7 DEF m, ahead, s, some, k
<1> QED
  BY <1>1, <1>2, ClockFields

LEMMA EmitOwedIs ==
    ASSUME NEW c \in Clocks, InTime(c), NEW r \in Lines
    PROVE  LET k == EmitOwed(c, r)
           IN  /\ k.clk \in Clocks /\ InTime(k.clk) /\ k.clk.ahead = 0
               /\ k.clk.running = c.running /\ k.clk.armed = c.armed /\ k.clk.hold = c.hold
               /\ k.clk.ext = c.ext /\ k.clk.tpc = c.tpc
               /\ c.tpc - c.ahead \in 1 .. c.tpc
               /\ k.r = Spanned(OnTicks(r, c.tpc - c.ahead, TRUE), TRUE, c.tpc)
               /\ k.r \in Lines
<1> DEFINE k == EmitOwed(c, r)
           m == c.tpc - c.ahead
           d == [c EXCEPT !.ahead = 0]
           s == Spanned(OnTicks(r, m, TRUE), TRUE, c.tpc)
<1>1. k = [clk |-> d, r |-> s]
  BY Zenon DEF EmitOwed
<1>2. m \in 1 .. c.tpc /\ m \in Nat
  BY ClockFields DEF InTime
<1>3. d \in Clocks
  <2>1. 0 \in 0 .. PPQN - 1
    BY Sizes
  <2> QED
    BY <2>1 DEF Clocks
<1>4. /\ d.ahead = 0 /\ d.running = c.running /\ d.armed = c.armed /\ d.ext = c.ext
      /\ d.tpc = c.tpc /\ d.hold = c.hold
  BY DEF Clocks
<1> HIDE DEF d
<1>5. InTime(d)
  BY <1>4, ClockFields DEF InTime
<1>6. OnTicks(r, m, TRUE) \in Lines
  <2> HIDE DEF m
  <2> QED
    BY <1>2, OnTicksTyped
<1>7. s \in Lines
  BY <1>6, SpannedTyped, ClockFields
<1> HIDE DEF s, k
<1>8. k.clk = d /\ k.r = s
  BY <1>1
<1> QED
  BY <1>2, <1>3, <1>4, <1>5, <1>7, <1>8 DEF s, k, m

-----------------------------------------------------------------------------
(* What a block does, case by case.                                        *)

LEMMA ClkRunIs ==
    ASSUME NEW c \in Clocks
    PROVE  /\ ClkRun(c) \in Clocks /\ InTime(ClkRun(c))
           /\ ClkRun(c).ahead = 0 /\ ClkRun(c).hold = FALSE
           /\ ClkRun(c).ext = c.ext /\ ClkRun(c).tpc = c.tpc
           /\ c.ext => ClkRun(c).armed = TRUE /\ ClkRun(c).running = c.running
           /\ ~c.ext => ClkRun(c).running = TRUE /\ ClkRun(c).armed = c.armed
<1> DEFINE z == ClkReset(c)
           d == ClkRun(c)
<1>1. /\ z \in Clocks /\ z.ahead = 0 /\ z.hold = FALSE /\ z.ext = c.ext /\ z.tpc = c.tpc
      /\ z.running = c.running /\ z.armed = c.armed
  <2>1. 0 \in 0 .. PPQN - 1
    BY Sizes
  <2> QED
    BY <2>1 DEF ClkReset, Clocks
<1>2. d = IF z.ext THEN [z EXCEPT !.armed = TRUE] ELSE [z EXCEPT !.running = TRUE]
  BY Zenon DEF ClkRun, ClkArmed
<1> HIDE DEF z, d
<1>3. /\ d \in Clocks /\ d.ahead = z.ahead /\ d.hold = z.hold /\ d.ext = z.ext /\ d.tpc = z.tpc
      /\ z.ext => d.armed = TRUE /\ d.running = z.running
      /\ ~z.ext => d.running = TRUE /\ d.armed = z.armed
  <2>1. CASE z.ext
    BY <1>1, <1>2, <2>1 DEF Clocks
  <2>2. CASE ~z.ext
    BY <1>1, <1>2, <2>2 DEF Clocks
  <2> QED
    BY <2>1, <2>2
<1>4. InTime(d)
  BY <1>1, <1>3, ClockFields DEF InTime
<1> QED
  BY <1>1, <1>3, <1>4 DEF d

LEMMA ClkStopIs ==
    ASSUME NEW c \in Clocks
    PROVE  /\ ClkStop(c) \in Clocks /\ ClkStop(c).running = FALSE
           /\ ClkStop(c).ahead = c.ahead /\ ClkStop(c).hold = c.hold /\ ClkStop(c).armed = c.armed
           /\ ClkStop(c).ext = c.ext /\ ClkStop(c).tpc = c.tpc
  BY DEF ClkStop, Clocks

LEMMA ReleasedIs ==
    ASSUME NEW c \in Clocks
    PROVE  LET d == [c EXCEPT !.hold = FALSE]
           IN  /\ d \in Clocks /\ d.hold = FALSE /\ d.ahead = c.ahead /\ d.running = c.running
               /\ d.armed = c.armed /\ d.ext = c.ext /\ d.tpc = c.tpc
  BY DEF Clocks

LEMMA KickedOffIs ==
    ASSUME NEW c \in Clocks, InTime(c), c.ext, NEW r \in Lines, NEW n \in 0 .. 1
    PROVE  LET k == KickedOff(c, r, n)
           IN  /\ k.clk \in Clocks /\ InTime(k.clk)
               /\ k.clk.running = TRUE /\ k.clk.armed = FALSE
               /\ k.clk.ext = c.ext /\ k.clk.tpc = c.tpc
               /\ k.r \in Lines
               /\ ~c.running /\ c.ahead = 0 /\ ~c.hold =>
                    k.clk.ahead = 0 /\ k.r = Spanned(OnTicks(r, 1, TRUE), FALSE, c.tpc)
<1> DEFINE k == KickedOff(c, r, n)
           d == [c EXCEPT !.armed = FALSE, !.running = TRUE]
           o == IF c.running THEN n ELSE 0
           e == EmitKickOff(d, r, o)
<1>1. k = e
  BY Zenon DEF KickedOff
<1>2. /\ d \in Clocks /\ d.armed = FALSE /\ d.running = TRUE /\ d.ext = c.ext /\ d.tpc = c.tpc
      /\ d.ahead = c.ahead /\ d.hold = c.hold
  BY DEF Clocks
<1>3. o \in 0 .. 1
  OBVIOUS
<1> HIDE DEF d, o
<1>4. InTime(d)
  BY <1>2 DEF InTime
<1>5. /\ e.clk \in Clocks /\ InTime(e.clk)
      /\ e.clk.running = d.running /\ e.clk.armed = d.armed
      /\ e.clk.ext = d.ext /\ e.clk.tpc = d.tpc
      /\ ~d.hold => /\ e.clk.ahead = d.ahead + FreeTicks(d, o)
                    /\ e.r = Spanned(OnTicks(r, IF FreeTicks(d, o) > 0 THEN FreeTicks(d, o) ELSE 1, TRUE),
                                     FALSE, d.tpc)
      /\ e.r \in Lines
  <2> HIDE DEF e
  <2>1. d.ext
    BY <1>2
  <2> QED
    BY <1>2, <1>3, <1>4, <2>1, EmitKickOffIs, Zenon DEF e
<1>6. ~c.running => FreeTicks(d, o) = 0
  <2>1. ~c.running => o = 0
    BY DEF o
  <2>2. FreeTicks(d, o) \in 0 .. o
    BY <1>2, <1>3, <1>4, FreeFits
  <2> QED
    BY <2>1, <2>2, <1>3
<1> HIDE DEF e, k
<1>7. ASSUME ~c.running, c.ahead = 0, ~c.hold
      PROVE  k.clk.ahead = 0 /\ k.r = Spanned(OnTicks(r, 1, TRUE), FALSE, c.tpc)
  <2>1. FreeTicks(d, o) = 0 /\ ~d.hold /\ d.ahead = 0
    BY <1>2, <1>6, <1>7
  <2>2. (IF FreeTicks(d, o) > 0 THEN FreeTicks(d, o) ELSE 1) = 1
    BY <2>1
  <2>3. e.r = Spanned(OnTicks(r, 1, TRUE), FALSE, d.tpc)
    BY <1>5, <2>1, <2>2, Zenon
  <2>4. e.clk.ahead = 0
    <3>1. e.clk.ahead = d.ahead + FreeTicks(d, o)
      BY <1>5, <2>1, Zenon
    <3>2. \A x, y \in Int : x = 0 /\ y = 0 => x + y = 0
      OBVIOUS
    <3> QED
      BY <2>1, <3>1, <3>2
  <2> QED
    BY <1>1, <1>2, <2>3, <2>4
<1> QED
  BY <1>1, <1>2, <1>5, <1>7 DEF k

\* The ways a block may go, which ends as t.
Moves(c, r, edge, blocks, n, t) ==
    \/ ~c.running /\ ~edge /\ t = [clk |-> c, r |-> r]
    \/ /\ c.running /\ ~(c.ext /\ edge) /\ ~(c.ext /\ blocks >= Gone)
       /\ t = EmitFree(c, r, n)
    \/ c.running /\ c.ext /\ edge /\ c.armed /\ t = KickedOff(c, r, n)
    \/ /\ c.running /\ c.ext /\ edge /\ ~c.armed
       /\ t = EmitOwed([c EXCEPT !.hold = FALSE], r)
    \/ ~c.running /\ c.ext /\ edge /\ t = KickedOff(ClkRun(c), r, n)
    \/ ~c.running /\ ~c.ext /\ edge /\ t = EmitFree(ClkRun(c), r, n)
    \/ /\ c.running /\ c.ext /\ ~edge /\ blocks >= Gone
       /\ t = [clk |-> ClkStop(c), r |-> Unspanned([r EXCEPT !.grid = Realigned(@)])]

LEMMA TickCases ==
    ASSUME NEW c \in Clocks, NEW r, NEW edge \in BOOLEAN, NEW blocks, NEW n
    PROVE  Moves(c, r, edge, blocks, n, Tick(c, r, edge, blocks, n))
<1> DEFINE t == Tick(c, r, edge, blocks, n)
<1>1. CASE edge /\ c.running
  <2>1. t = ClkTick(c, r, TRUE, n)
    BY <1>1, Zenon DEF Tick
  <2>2. CASE c.ext
    <3>1. t = ExternalTick(c, r, n)
      BY <2>1, <2>2, Zenon DEF ClkTick
    <3> QED
      BY <1>1, <2>2, <3>1, Zenon DEF ExternalTick, Moves
  <2>3. CASE ~c.ext
    <3>1. t = EmitFree(c, r, n)
      BY <1>1, <2>1, <2>3, Zenon DEF ClkTick
    <3> QED
      BY <1>1, <2>3, <3>1, Zenon DEF Moves
  <2> QED
    BY <2>2, <2>3, Zenon
<1>2. CASE edge /\ ~c.running
  <2> DEFINE d == ClkRun(c)
  <2>1. t = ClkTick(d, r, TRUE, n)
    BY <1>2, Zenon DEF Tick
  <2>2. CASE c.ext
    <3>1. d.ext /\ d.armed
      BY <2>2, ClkRunIs
    <3>2. t = ExternalTick(d, r, n)
      BY <2>1, <3>1, Zenon DEF ClkTick
    <3>3. t = KickedOff(d, r, n)
      BY <3>1, <3>2, Zenon DEF ExternalTick
    <3> QED
      BY <1>2, <2>2, <3>3, Zenon DEF Moves
  <2>3. CASE ~c.ext
    <3>1. ~d.ext /\ d.running
      BY <2>3, ClkRunIs
    <3>2. t = EmitFree(d, r, n)
      BY <2>1, <3>1, Zenon DEF ClkTick
    <3> QED
      BY <1>2, <2>3, <3>2, Zenon DEF Moves
  <2> QED
    BY <2>2, <2>3, Zenon
<1>3. CASE ~edge
  <2>1. CASE c.ext /\ blocks >= Gone
    <3>1. t = IF c.running
              THEN [clk |-> ClkStop(c), r |-> Unspanned([r EXCEPT !.grid = Realigned(@)])]
              ELSE [clk |-> c, r |-> r]
      BY <1>3, <2>1, Zenon DEF Tick
    <3> QED
      BY <1>3, <2>1, <3>1, Zenon DEF Moves
  <2>2. CASE ~(c.ext /\ blocks >= Gone)
    <3>1. t = ClkTick(c, r, FALSE, n)
      BY <1>3, <2>2, Zenon DEF Tick
    <3>2. t = IF c.running THEN EmitFree(c, r, n) ELSE [clk |-> c, r |-> r]
      BY <3>1, Zenon DEF ClkTick
    <3> QED
      BY <1>3, <2>2, <3>2, Zenon DEF Moves
  <2> QED
    BY <2>1, <2>2, Zenon
<1> QED
  BY <1>1, <1>2, <1>3, Zenon

LEMMA MidiCases ==
    ASSUME NEW c \in Clocks, NEW r, NEW blocks
    PROVE  LET t == MidiStart(c, r, blocks)
               s == [r EXCEPT !.grid = Realigned(@)]
           IN  \/ ~(source # "internal" /\ blocks >= Recent) /\ t = [clk |-> c, r |-> r]
               \/ /\ source # "internal" /\ c.running
                  /\ t = [clk |-> ClkRun(ClkStop(c)), r |-> Unspanned(s)]
               \/ source # "internal" /\ ~c.running /\ t = [clk |-> c, r |-> s]
               \/ /\ source # "internal" /\ ~(blocks >= Recent)
                  /\ t = [clk |-> c,
                          r |-> [r EXCEPT !.grid = MadeKey([@ EXCEPT !.quarter = Resolution])]]
<1> DEFINE t == MidiStart(c, r, blocks)
           s == [r EXCEPT !.grid = Realigned(@)]
<1>1. CASE source = "internal"
  BY <1>1, Zenon DEF MidiStart
<1>2. CASE source # "internal" /\ blocks >= Recent
  <2>1. t = [clk |-> Restarted(c), r |-> IF c.running THEN Unspanned(s) ELSE s]
    BY <1>2, Zenon DEF MidiStart
  <2>2. CASE c.running
    BY <1>2, <2>1, <2>2, Zenon DEF Restarted
  <2>3. CASE ~c.running
    BY <1>2, <2>1, <2>3, Zenon DEF Restarted
  <2> QED
    BY <2>2, <2>3, Zenon
<1>3. CASE source # "internal" /\ ~(blocks >= Recent)
  BY <1>3, Zenon DEF MidiStart
<1> QED
  BY <1>1, <1>2, <1>3, Zenon

LEMMA RealignedIs ==
    ASSUME NEW g \in Grids
    PROVE  LET h == Realigned(g)
           IN  /\ h \in Grids
               /\ h.key = 0 /\ h.quarter = 0 /\ h.pulse = 0 /\ h.count = 0 /\ h.next = 0
               /\ h.send = g.send /\ h.interval = g.interval /\ h.settled = g.settled
<1> DEFINE h == Realigned(g)
<1>1. g \in [pulse : 0 .. Bar - 1, count : Counts, next : {PerTrigger * k : k \in Counts},
             key : 0 .. 16 * Resolution, quarter : 0 .. Resolution,
             isKey : BOOLEAN, send : BOOLEAN, interval : KeyIntervals,
             fresh : BOOLEAN, settled : BOOLEAN]
  BY DEF Grids
<1>2. /\ 0 \in 0 .. Bar - 1 /\ 0 \in Counts /\ 0 \in {PerTrigger * k : k \in Counts}
      /\ 0 \in 0 .. 16 * Resolution /\ 0 \in 0 .. Resolution
  <2>1. 0 \in Counts /\ PerTrigger * 0 = 0
    BY Sizes, PerTriggerNat DEF Counts
  <2> QED
    BY <2>1, Sizes
<1>3. h = [g EXCEPT !.key = 0, !.quarter = 0, !.pulse = 0, !.count = 0, !.next = 0, !.fresh = TRUE]
  BY Zenon DEF Realigned
<1>4. h \in [pulse : 0 .. Bar - 1, count : Counts, next : {PerTrigger * k : k \in Counts},
             key : 0 .. 16 * Resolution, quarter : 0 .. Resolution,
             isKey : BOOLEAN, send : BOOLEAN, interval : KeyIntervals,
             fresh : BOOLEAN, settled : BOOLEAN]
  <2> HIDE DEF h
  <2> QED
    BY <1>1, <1>2, <1>3
<1>5. /\ h.key = 0 /\ h.quarter = 0 /\ h.pulse = 0 /\ h.count = 0 /\ h.next = 0
      /\ h.send = g.send /\ h.interval = g.interval /\ h.settled = g.settled
  <2> HIDE DEF h
  <2> QED
    BY <1>1, <1>3
<1> HIDE DEF h
<1>6. \E k \in KeyIntervals : h.key <= k
  BY <1>5, WholeQuarters, TransportAssumption
<1>7. h \in Grids
  BY <1>4, <1>6 DEF Grids
<1> QED
  BY <1>5, <1>7 DEF h

LEMMA KeyedIs ==
    ASSUME NEW g \in Grids
    PROVE  LET h == MadeKey([g EXCEPT !.quarter = Resolution])
           IN  /\ h \in Grids
               /\ h.key = g.interval /\ h.quarter = Resolution /\ h.fresh = FALSE
               /\ h.pulse = g.pulse /\ h.count = g.count /\ h.next = g.next
               /\ h.send = g.send /\ h.interval = g.interval /\ h.settled = g.settled
<1> DEFINE q == [g EXCEPT !.quarter = Resolution]
           h == MadeKey(q)
<1>1. g \in [pulse : 0 .. Bar - 1, count : Counts, next : {PerTrigger * k : k \in Counts},
             key : 0 .. 16 * Resolution, quarter : 0 .. Resolution,
             isKey : BOOLEAN, send : BOOLEAN, interval : KeyIntervals,
             fresh : BOOLEAN, settled : BOOLEAN]
  BY DEF Grids
<1>2. Resolution \in 0 .. Resolution /\ g.interval \in KeyIntervals
      /\ g.interval \in 0 .. 16 * Resolution
  BY GridFields, WholeQuarters, Sizes
<1>3. /\ q \in [pulse : 0 .. Bar - 1, count : Counts, next : {PerTrigger * k : k \in Counts},
                key : 0 .. 16 * Resolution, quarter : 0 .. Resolution,
                isKey : BOOLEAN, send : BOOLEAN, interval : KeyIntervals,
                fresh : BOOLEAN, settled : BOOLEAN]
      /\ q.quarter = Resolution /\ q.pulse = g.pulse /\ q.count = g.count /\ q.next = g.next
      /\ q.send = g.send /\ q.interval = g.interval /\ q.settled = g.settled
  BY <1>1, <1>2
<1>4. h = [q EXCEPT !.key = q.interval, !.isKey = TRUE, !.fresh = FALSE]
  BY Zenon DEF MadeKey
<1> HIDE DEF q, h
<1>5. /\ h \in [pulse : 0 .. Bar - 1, count : Counts, next : {PerTrigger * k : k \in Counts},
                key : 0 .. 16 * Resolution, quarter : 0 .. Resolution,
                isKey : BOOLEAN, send : BOOLEAN, interval : KeyIntervals,
                fresh : BOOLEAN, settled : BOOLEAN]
      /\ h.key = q.interval /\ h.fresh = FALSE
      /\ h.quarter = q.quarter /\ h.pulse = q.pulse /\ h.count = q.count /\ h.next = q.next
      /\ h.send = q.send /\ h.interval = q.interval /\ h.settled = q.settled
  BY <1>2, <1>3, <1>4
<1>6. h \in Grids
  BY <1>2, <1>3, <1>5, WholeQuarters DEF Grids
<1> QED
  BY <1>3, <1>5, <1>6 DEF h, q

LEMMA LineSet ==
    ASSUME NEW r \in Lines, NEW h \in Grids
    PROVE  /\ [r EXCEPT !.grid = h] \in Lines
           /\ [r EXCEPT !.grid = h].grid = h /\ [r EXCEPT !.grid = h].heard = r.heard
           /\ [r EXCEPT !.grid = h].span = r.span
  BY DEF Lines

LEMMA UnspannedIs ==
    ASSUME NEW r \in Lines
    PROVE  /\ Unspanned(r) \in Lines
           /\ Unspanned(r).grid = r.grid /\ Unspanned(r).heard = r.heard
           /\ Unspanned(r).span = NoSpan
<1>1. NoSpan \in Spans
  BY DEF NoSpan, Spans
<1> QED
  BY <1>1 DEF Unspanned, Lines

-----------------------------------------------------------------------------
(* What every step of the timeline keeps, a block keeps.                   *)

Begun(x) == [x EXCEPT !.grid = Realigned(@)]
Keyed(x) == [x EXCEPT !.grid = MadeKey([@ EXCEPT !.quarter = Resolution])]

Kept(S) ==
    /\ S \subseteq Lines
    /\ \A x \in S, pulsed \in BOOLEAN : OnTick(x, pulsed) \in S
    /\ \A x \in S, whole \in BOOLEAN, due \in Nat : Spanned(x, whole, due) \in S
    /\ \A x \in S : Unspanned(x) \in S /\ Begun(x) \in S /\ Keyed(x) \in S

LEMMA BegunIs ==
    ASSUME NEW r \in Lines
    PROVE  /\ Begun(r) \in Lines /\ Begun(r).grid = Realigned(r.grid)
           /\ Begun(r).heard = r.heard /\ Begun(r).span = r.span
<1>1. r.grid \in Grids
  BY DEF Lines
<1>2. Realigned(r.grid) \in Grids
  BY <1>1, RealignedIs
<1>3. Begun(r) = [r EXCEPT !.grid = Realigned(r.grid)]
  BY Zenon DEF Begun
<1> QED
  BY <1>2, <1>3, LineSet

LEMMA KeyedLine ==
    ASSUME NEW r \in Lines
    PROVE  /\ Keyed(r) \in Lines /\ Keyed(r).grid = MadeKey([r.grid EXCEPT !.quarter = Resolution])
           /\ Keyed(r).heard = r.heard /\ Keyed(r).span = r.span
<1> DEFINE h == MadeKey([r.grid EXCEPT !.quarter = Resolution])
<1>1. r.grid \in Grids
  BY DEF Lines
<1>2. h \in Grids
  BY <1>1, KeyedIs
<1>3. Keyed(r) = [r EXCEPT !.grid = h]
  BY Zenon DEF Keyed
<1> HIDE DEF h
<1>4. /\ [r EXCEPT !.grid = h] \in Lines
      /\ [r EXCEPT !.grid = h].grid = h /\ [r EXCEPT !.grid = h].heard = r.heard
      /\ [r EXCEPT !.grid = h].span = r.span
  BY <1>2, LineSet
<1> QED
  BY <1>3, <1>4 DEF h

LEMMA LinesKept == Kept(Lines)
  BY OnTickIs, SpannedTyped, UnspannedIs, BegunIs, KeyedLine DEF Kept

LEMMA KeptTicks ==
    ASSUME NEW S, Kept(S), NEW r \in S, NEW m \in Nat, NEW pulsed \in BOOLEAN
    PROVE  OnTicks(r, m, pulsed) \in S
<1> DEFINE T == [i \in 0 .. m |-> S]
<1>1. ASSUME NEW i \in 1 .. m, NEW x \in T[i - 1] PROVE OnTick(x, OnPulse(pulsed, i, m)) \in T[i]
  <2>1. x \in S /\ i \in 0 .. m /\ i - 1 \in 0 .. m
    OBVIOUS
  <2>2. OnPulse(pulsed, i, m) \in BOOLEAN
    BY DEF OnPulse
  <2> QED
    BY <2>1, <2>2 DEF Kept
<1>2. r \in T[0]
  OBVIOUS
<1>3. T[m] = S
  OBVIOUS
<1> HIDE DEF T
<1> QED
  BY <1>1, <1>2, <1>3, AfterTicks

LEMMA KeptKickOff ==
    ASSUME NEW S, Kept(S), NEW r \in S, NEW c \in Clocks, InTime(c), c.ext, NEW n \in 0 .. 1
    PROVE  KickedOff(c, r, n).r \in S
<1> DEFINE k == KickedOff(c, r, n)
           d == [c EXCEPT !.armed = FALSE, !.running = TRUE]
           o == IF c.running THEN n ELSE 0
           e == EmitKickOff(d, r, o)
           m == IF FreeTicks(d, o) > 0 THEN FreeTicks(d, o) ELSE 1
<1>1. k = e
  BY Zenon DEF KickedOff
<1>2. d \in Clocks /\ d.ext = c.ext /\ d.tpc = c.tpc /\ d.ahead = c.ahead
  BY DEF Clocks
<1>3. o \in 0 .. 1 /\ r \in Lines
  BY DEF Kept
<1> HIDE DEF d, o
<1>4. InTime(d) /\ d.ext /\ d.hold \in BOOLEAN /\ d.tpc \in Nat
  BY <1>2, ClockFields DEF InTime
<1>5. m \in Nat
  BY <1>2, <1>3, <1>4, FreeFits
<1>6. CASE d.hold
  <2>1. e.r = r
    BY <1>2, <1>3, <1>4, <1>6, EmitKickOffIs, Zenon
  <2> QED
    BY <1>1, <2>1
<1>7. CASE ~d.hold
  <2>1. e.r = Spanned(OnTicks(r, m, TRUE), FALSE, d.tpc)
    BY <1>2, <1>3, <1>4, <1>7, EmitKickOffIs, Zenon
  <2> HIDE DEF e, k, m
  <2>2. OnTicks(r, m, TRUE) \in S
    BY <1>5, KeptTicks
  <2>3. Spanned(OnTicks(r, m, TRUE), FALSE, d.tpc) \in S
    BY <1>4, <2>2 DEF Kept
  <2> QED
    BY <1>1, <2>1, <2>3 DEF k
<1> QED
  BY <1>4, <1>6, <1>7

LEMMA KeptFree ==
    ASSUME NEW S, Kept(S), NEW r \in S, NEW c \in Clocks, InTime(c), NEW n \in 0 .. 1
    PROVE  EmitFree(c, r, n).r \in S
<1>1. r \in Lines /\ c.hold \in BOOLEAN
  BY ClockFields DEF Kept
<1>2. FreeTicks(c, n) \in Nat
  BY FreeFits
<1>3. OnTicks(r, FreeTicks(c, n), FALSE) \in S
  BY <1>2, KeptTicks
<1>4. EmitFree(c, r, n).r = r \/ EmitFree(c, r, n).r = OnTicks(r, FreeTicks(c, n), FALSE)
  BY <1>1, EmitFreeIs, Zenon
<1> QED
  BY <1>3, <1>4

LEMMA KeptOwed ==
    ASSUME NEW S, Kept(S), NEW r \in S, NEW c \in Clocks, InTime(c)
    PROVE  EmitOwed(c, r).r \in S
<1>1. r \in Lines /\ c.tpc \in Nat
  BY ClockFields DEF Kept
<1> DEFINE m == c.tpc - c.ahead
<1>2. /\ m \in 1 .. c.tpc
      /\ EmitOwed(c, r).r = Spanned(OnTicks(r, m, TRUE), TRUE, c.tpc)
  BY <1>1, EmitOwedIs, Zenon
<1>3. m \in Nat
  BY <1>1, <1>2
<1> HIDE DEF m
<1>4. OnTicks(r, m, TRUE) \in S
  BY <1>3, KeptTicks
<1>5. Spanned(OnTicks(r, m, TRUE), TRUE, c.tpc) \in S
  BY <1>1, <1>4 DEF Kept
<1> QED
  BY <1>2, <1>5

LEMMA TickKeeps ==
    ASSUME NEW S, Kept(S), NEW r \in S, NEW c \in Clocks, c.running => InTime(c),
           NEW edge \in BOOLEAN, NEW blocks, NEW n \in 0 .. 1
    PROVE  Tick(c, r, edge, blocks, n).r \in S
<1> DEFINE t == Tick(c, r, edge, blocks, n)
           off == [clk |-> ClkStop(c), r |-> Unspanned([r EXCEPT !.grid = Realigned(@)])]
<1>0. ClkRun(c) \in Clocks /\ InTime(ClkRun(c)) /\ ClkRun(c).ext = c.ext
  BY ClkRunIs
<1>1. CASE t = [clk |-> c, r |-> r]
  BY <1>1
<1>2. CASE c.running /\ t = EmitFree(c, r, n)
  <2>1. EmitFree(c, r, n).r \in S
    BY <1>2, KeptFree
  <2> QED
    BY <1>2, <2>1
<1>3. CASE c.running /\ c.ext /\ t = KickedOff(c, r, n)
  <2>1. KickedOff(c, r, n).r \in S
    BY <1>3, KeptKickOff
  <2> QED
    BY <1>3, <2>1
<1>4. CASE c.running /\ t = EmitOwed([c EXCEPT !.hold = FALSE], r)
  <2> DEFINE d == [c EXCEPT !.hold = FALSE]
  <2>1. d \in Clocks /\ InTime(d)
    <3>1. d \in Clocks /\ d.ahead = c.ahead /\ d.tpc = c.tpc
      BY ReleasedIs
    <3> HIDE DEF d
    <3> QED
      BY <1>4, <3>1 DEF InTime
  <2>2. t = EmitOwed(d, r)
    BY <1>4, Zenon
  <2> HIDE DEF d
  <2>3. EmitOwed(d, r).r \in S
    BY <2>1, KeptOwed
  <2> QED
    BY <2>2, <2>3
<1>5. CASE c.ext /\ t = KickedOff(ClkRun(c), r, n)
  <2>1. KickedOff(ClkRun(c), r, n).r \in S
    BY <1>0, <1>5, KeptKickOff
  <2> QED
    BY <1>5, <2>1
<1>6. CASE t = EmitFree(ClkRun(c), r, n)
  <2>1. EmitFree(ClkRun(c), r, n).r \in S
    BY <1>0, KeptFree
  <2> QED
    BY <1>6, <2>1
<1>7. CASE t = off
  <2>1. off = [clk |-> ClkStop(c), r |-> Unspanned(Begun(r))]
    BY Zenon DEF Begun
  <2>2. Unspanned(Begun(r)) \in S
    BY DEF Kept
  <2> QED
    BY <1>7, <2>1, <2>2
<1>8. \/ t = [clk |-> c, r |-> r]
      \/ c.running /\ t = EmitFree(c, r, n)
      \/ c.running /\ c.ext /\ t = KickedOff(c, r, n)
      \/ c.running /\ t = EmitOwed([c EXCEPT !.hold = FALSE], r)
      \/ c.ext /\ t = KickedOff(ClkRun(c), r, n)
      \/ t = EmitFree(ClkRun(c), r, n)
      \/ t = off
  <2>1. Moves(c, r, edge, blocks, n, t)
    BY TickCases
  <2> HIDE DEF t
  <2> QED
    BY <2>1, Zenon DEF Moves
<1> QED
  BY <1>1, <1>2, <1>3, <1>4, <1>5, <1>6, <1>7, <1>8, Zenon

LEMMA MidiKeeps ==
    ASSUME NEW S, Kept(S), NEW r \in S, NEW c \in Clocks, NEW blocks
    PROVE  MidiStart(c, r, blocks).r \in S
<1> DEFINE t == MidiStart(c, r, blocks)
<1>1. \/ t = [clk |-> c, r |-> r]
      \/ t = [clk |-> ClkRun(ClkStop(c)), r |-> Unspanned(Begun(r))]
      \/ t = [clk |-> c, r |-> Begun(r)]
      \/ t = [clk |-> c, r |-> Keyed(r)]
  BY MidiCases, Zenon DEF Begun, Keyed
<1>2. Unspanned(Begun(r)) \in S /\ Begun(r) \in S /\ Keyed(r) \in S
  BY DEF Kept
<1> HIDE DEF t
<1>3. t.r \in S
  BY <1>1, <1>2
<1> QED
  BY <1>3 DEF t

(* The clock itself: it keeps in time, and one that stood is at most one    *)
(* tick ahead when the block has started it.                               *)
Ran(c, d) ==
    /\ d \in Clocks /\ (d.running => InTime(d))
    /\ d.ext = c.ext /\ d.tpc = c.tpc
    /\ ~c.running => d.ahead = c.ahead \/ d.ahead <= 1
    /\ ~c.running /\ d.running => d.ahead <= 1

LEMMA TickClock ==
    ASSUME NEW r \in Lines, NEW c \in Clocks, c.running => InTime(c),
           NEW edge \in BOOLEAN, NEW blocks, NEW n \in 0 .. 1
    PROVE  Ran(c, Tick(c, r, edge, blocks, n).clk)
<1> DEFINE t == Tick(c, r, edge, blocks, n)
           off == [clk |-> ClkStop(c), r |-> Unspanned([r EXCEPT !.grid = Realigned(@)])]
           e == ClkRun(c)
           Fine(d) == /\ d \in Clocks /\ (d.running => InTime(d))
                      /\ d.ext = c.ext /\ d.tpc = c.tpc
                      /\ ~c.running => d.ahead = c.ahead \/ d.ahead <= 1
                      /\ ~c.running /\ d.running => d.ahead <= 1
<1> SUFFICES Fine(t.clk)
  BY Zenon DEF Ran
<1>0. /\ e \in Clocks /\ InTime(e) /\ e.ext = c.ext /\ e.tpc = c.tpc /\ e.ahead = 0 /\ e.hold = FALSE
      /\ c.ext => e.running = c.running
  BY ClkRunIs
<1> HIDE DEF e
<1>1. CASE ~c.running /\ t = [clk |-> c, r |-> r]
  BY <1>1
<1>2. CASE c.running /\ t = EmitFree(c, r, n)
  <2>1. /\ EmitFree(c, r, n).clk \in Clocks /\ InTime(EmitFree(c, r, n).clk)
        /\ EmitFree(c, r, n).clk.ext = c.ext /\ EmitFree(c, r, n).clk.tpc = c.tpc
    BY <1>2, EmitFreeIs, ZenonT(40)
  <2> QED
    BY <1>2, <2>1
<1>3. CASE c.running /\ c.ext /\ t = KickedOff(c, r, n)
  <2>1. /\ KickedOff(c, r, n).clk \in Clocks /\ InTime(KickedOff(c, r, n).clk)
        /\ KickedOff(c, r, n).clk.ext = c.ext /\ KickedOff(c, r, n).clk.tpc = c.tpc
    BY <1>3, KickedOffIs, ZenonT(40)
  <2> QED
    BY <1>3, <2>1
<1>4. CASE c.running /\ t = EmitOwed([c EXCEPT !.hold = FALSE], r)
  <2> DEFINE d == [c EXCEPT !.hold = FALSE]
  <2>1. d \in Clocks /\ InTime(d) /\ d.ext = c.ext /\ d.tpc = c.tpc
    <3>1. d \in Clocks /\ d.ahead = c.ahead /\ d.tpc = c.tpc /\ d.ext = c.ext
      BY ReleasedIs
    <3> HIDE DEF d
    <3> QED
      BY <1>4, <3>1 DEF InTime
  <2>2. t = EmitOwed(d, r)
    BY <1>4, Zenon
  <2> HIDE DEF d
  <2>3. /\ EmitOwed(d, r).clk \in Clocks /\ InTime(EmitOwed(d, r).clk)
        /\ EmitOwed(d, r).clk.ext = d.ext /\ EmitOwed(d, r).clk.tpc = d.tpc
    BY <2>1, EmitOwedIs, Zenon
  <2> QED
    BY <1>4, <2>1, <2>2, <2>3
<1>5. CASE ~c.running /\ c.ext /\ t = KickedOff(e, r, n)
  <2>1. /\ KickedOff(e, r, n).clk \in Clocks /\ InTime(KickedOff(e, r, n).clk)
        /\ KickedOff(e, r, n).clk.ext = e.ext /\ KickedOff(e, r, n).clk.tpc = e.tpc
        /\ KickedOff(e, r, n).clk.ahead = 0
    <3>1. e.ext /\ ~e.running /\ ~e.hold
      BY <1>0, <1>5
    <3> QED
      BY <1>0, <3>1, KickedOffIs, ZenonT(40)
  <2>2. Fine(KickedOff(e, r, n).clk)
    <3> DEFINE k == KickedOff(e, r, n).clk
    <3>1. k \in Clocks /\ InTime(k) /\ k.ext = c.ext /\ k.tpc = c.tpc /\ k.ahead <= 1
      BY <1>0, <2>1
    <3> QED
      BY <3>1, Zenon
  <2> QED
    BY <1>5, <2>2, Zenon
<1>6. CASE ~c.running /\ ~c.ext /\ t = EmitFree(e, r, n)
  <2>1. /\ EmitFree(e, r, n).clk \in Clocks /\ InTime(EmitFree(e, r, n).clk)
        /\ EmitFree(e, r, n).clk.ext = e.ext /\ EmitFree(e, r, n).clk.tpc = e.tpc
        /\ EmitFree(e, r, n).clk.ahead = IF e.ext \/ e.ahead + FreeTicks(e, n) < e.tpc
                              THEN e.ahead + FreeTicks(e, n) ELSE e.tpc - 1
    <3>1. ~e.hold
      BY <1>0
    <3> QED
      BY <1>0, <3>1, EmitFreeIs, Zenon
  <2>2. ~e.ext /\ FreeTicks(e, n) = n /\ e.tpc \in Nat /\ e.tpc >= 2
    BY <1>0, <1>6, FreeFits, ClockFields
  <2>3. EmitFree(e, r, n).clk.ahead <= 1
    BY <1>0, <2>1, <2>2
  <2> QED
    BY <1>0, <1>6, <2>1, <2>3
<1>7. CASE c.running /\ t = off
  <2>1. t.clk = ClkStop(c)
    BY <1>7
  <2>2. /\ ClkStop(c) \in Clocks /\ ClkStop(c).running = FALSE
        /\ ClkStop(c).ext = c.ext /\ ClkStop(c).tpc = c.tpc
    BY ClkStopIs
  <2> QED
    BY <1>7, <2>1, <2>2
<1>8. \/ ~c.running /\ t = [clk |-> c, r |-> r]
      \/ c.running /\ t = EmitFree(c, r, n)
      \/ c.running /\ c.ext /\ t = KickedOff(c, r, n)
      \/ c.running /\ t = EmitOwed([c EXCEPT !.hold = FALSE], r)
      \/ ~c.running /\ c.ext /\ t = KickedOff(e, r, n)
      \/ ~c.running /\ ~c.ext /\ t = EmitFree(e, r, n)
      \/ c.running /\ t = off
  <2>1. Moves(c, r, edge, blocks, n, t)
    BY TickCases
  <2> HIDE DEF t
  <2> QED
    BY <2>1, Zenon DEF Moves, e
<1> QED
  BY <1>1, <1>2, <1>3, <1>4, <1>5, <1>6, <1>7, <1>8, Zenon

LEMMA MidiClock ==
    ASSUME NEW r \in Lines, NEW c \in Clocks, c.running => InTime(c), NEW blocks
    PROVE  /\ Ran(c, MidiStart(c, r, blocks).clk)
           /\ ~c.running => MidiStart(c, r, blocks).clk = c
<1> DEFINE t == MidiStart(c, r, blocks)
           e == ClkRun(ClkStop(c))
<1>1. t.clk = c \/ (c.running /\ t.clk = e)
  <2>1. \/ t = [clk |-> c, r |-> r]
        \/ (c.running /\ t = [clk |-> e, r |-> Unspanned(Begun(r))])
        \/ t = [clk |-> c, r |-> Begun(r)]
        \/ t = [clk |-> c, r |-> Keyed(r)]
    BY MidiCases, Zenon DEF Begun, Keyed
  <2> HIDE DEF t, e
  <2> QED
    BY <2>1
<1>2. ClkStop(c) \in Clocks /\ ClkStop(c).ext = c.ext /\ ClkStop(c).tpc = c.tpc
  BY ClkStopIs
<1>3. e \in Clocks /\ InTime(e) /\ e.ext = c.ext /\ e.tpc = c.tpc
  <2>1. \A d \in Clocks : ClkRun(d) \in Clocks /\ InTime(ClkRun(d)) /\ ClkRun(d).ext = d.ext
                          /\ ClkRun(d).tpc = d.tpc
    BY ClkRunIs
  <2> QED
    BY <1>2, <2>1, Zenon
<1> HIDE DEF e
<1>4. Ran(c, c) /\ (c.running => Ran(c, e))
  <2>1. c.running \in BOOLEAN
    BY ClockFields
  <2> QED
    BY <1>3, <2>1, Zenon DEF Ran
<1>5. c.running \in BOOLEAN
  BY ClockFields
<1> QED
  BY <1>1, <1>4, <1>5, Zenon

-----------------------------------------------------------------------------
(* A block of the interrupt.                                               *)

Silent(quiet) == [grid |-> [grid EXCEPT !.fresh = @ \/ quiet], heard |-> {},
                  span |-> [span EXCEPT !.paid = {}]]
Woken(start, quiet, blocks) == IF start THEN MidiStart(clk, Silent(quiet), blocks)
                               ELSE [clk |-> clk, r |-> Silent(quiet)]
After(start, quiet, blocks, edge, n) ==
    Tick(Woken(start, quiet, blocks).clk, Woken(start, quiet, blocks).r, edge, blocks, n)

\* A block without the bounds of Preempt.
Effect(start, high, n) ==
    /\ LET edge   == high /\ ~level
           blocks == IF since < Gone THEN since + 1 ELSE since
           quiet  == clk.ext /\ clk.running /\ blocks = Gone /\ ~edge
           silent == [grid |-> [grid EXCEPT !.fresh = @ \/ quiet], heard |-> {}, span |-> [span EXCEPT !.paid = {}]]
           begun  == IF start THEN MidiStart(clk, silent, blocks)
                     ELSE [clk |-> clk, r |-> silent]
           ticked == Tick(begun.clk, begun.r, edge, blocks, n)
       IN  /\ clk' = ticked.clk /\ grid' = ticked.r.grid
           /\ heard' = ticked.r.heard /\ span' = ticked.r.span
           /\ since' = IF edge THEN 0 ELSE blocks
    /\ level' = high
    /\ main' = IF main.at = "idle" THEN main ELSE [main EXCEPT !.slips = @ + 1]
    /\ UNCHANGED source

LEMMA SilentIs ==
    ASSUME grid \in Grids, span \in Spans, NEW quiet \in BOOLEAN
    PROVE  /\ Silent(quiet) \in Lines
           /\ Silent(quiet).heard = {}
           /\ Silent(quiet).span = [span EXCEPT !.paid = {}]
           /\ Silent(quiet).grid \in Grids
           /\ Silent(quiet).grid = [grid EXCEPT !.fresh = @ \/ quiet]
<1> DEFINE fresh == grid.fresh \/ quiet
           h == [grid EXCEPT !.fresh = fresh]
           p == [span EXCEPT !.paid = {}]
<1>1. Silent(quiet) = [grid |-> h, heard |-> {}, span |-> p]
  BY Zenon DEF Silent
<1>2. fresh \in BOOLEAN
  OBVIOUS
<1>3. p \in Spans
  BY DEF Spans
<1>4. h \in Grids
  <2> HIDE DEF fresh
  <2>1. grid \in [pulse : 0 .. Bar - 1, count : Counts, next : {PerTrigger * k : k \in Counts},
                  key : 0 .. 16 * Resolution, quarter : 0 .. Resolution,
                  isKey : BOOLEAN, send : BOOLEAN, interval : KeyIntervals,
                  fresh : BOOLEAN, settled : BOOLEAN]
    BY DEF Grids
  <2>2. /\ h \in [pulse : 0 .. Bar - 1, count : Counts, next : {PerTrigger * k : k \in Counts},
                  key : 0 .. 16 * Resolution, quarter : 0 .. Resolution,
                  isKey : BOOLEAN, send : BOOLEAN, interval : KeyIntervals,
                  fresh : BOOLEAN, settled : BOOLEAN]
        /\ h.key = grid.key
    BY <1>2, <2>1
  <2> HIDE DEF h
  <2> QED
    BY <2>2 DEF Grids
<1>5. h = [grid EXCEPT !.fresh = @ \/ quiet]
  BY Zenon
<1> HIDE DEF h, p
<1>6. Silent(quiet) \in Lines
  BY <1>1, <1>3, <1>4 DEF Lines
<1>7. Silent(quiet).grid = h /\ Silent(quiet).heard = {} /\ Silent(quiet).span = p
  BY <1>1
<1> QED
  BY <1>4, <1>5, <1>6, <1>7 DEF p

LEMMA EffectIs ==
    ASSUME since \in 0 .. Gone, level \in BOOLEAN,
           NEW start \in BOOLEAN, NEW high \in BOOLEAN, NEW n \in 0 .. 1, Effect(start, high, n)
    PROVE  \E edge, quiet \in BOOLEAN, blocks \in 0 .. Gone :
             /\ quiet => clk.ext /\ clk.running /\ blocks >= Gone /\ ~edge
             /\ clk' = After(start, quiet, blocks, edge, n).clk
             /\ grid' = After(start, quiet, blocks, edge, n).r.grid
             /\ heard' = After(start, quiet, blocks, edge, n).r.heard
             /\ span' = After(start, quiet, blocks, edge, n).r.span
             /\ since' \in 0 .. Gone
<1> DEFINE edge   == high /\ ~level
           blocks == IF since < Gone THEN since + 1 ELSE since
           quiet  == clk.ext /\ clk.running /\ blocks = Gone /\ ~edge
           t      == After(start, quiet, blocks, edge, n)
<1>1. clk' = t.clk /\ grid' = t.r.grid /\ heard' = t.r.heard /\ span' = t.r.span
      /\ since' = IF edge THEN 0 ELSE blocks
  BY Zenon DEF Effect, After, Woken, Silent
<1>2. Gone \in Nat
  BY TransportAssumption
<1>3. blocks \in 0 .. Gone
  BY <1>2
<1>4. edge \in BOOLEAN
  OBVIOUS
<1>5. quiet \in BOOLEAN
  <2> HIDE DEF blocks, edge
  <2> QED
    BY Zenon
<1>6. quiet => clk.ext /\ clk.running /\ blocks >= Gone /\ ~edge
  BY <1>2, <1>3
<1>7. since' \in 0 .. Gone
  BY <1>1, <1>2, <1>3
<1> HIDE DEF edge, blocks, quiet
<1> QED
  BY <1>1, <1>3, <1>4, <1>5, <1>6, <1>7

LEMMA WokenIs ==
    ASSUME NEW S, Kept(S), NEW start \in BOOLEAN, NEW quiet \in BOOLEAN, Silent(quiet) \in S,
           clk \in Clocks, clk.running => InTime(clk), NEW blocks
    PROVE  /\ Woken(start, quiet, blocks).r \in S
           /\ Ran(clk, Woken(start, quiet, blocks).clk)
           /\ ~clk.running => Woken(start, quiet, blocks).clk = clk
<1>1. CASE start
  <2>1. Woken(start, quiet, blocks) = MidiStart(clk, Silent(quiet), blocks)
    BY <1>1, Zenon DEF Woken
  <2>2. MidiStart(clk, Silent(quiet), blocks).r \in S
    BY MidiKeeps
  <2>3. Silent(quiet) \in Lines
    BY DEF Kept
  <2>4. /\ Ran(clk, MidiStart(clk, Silent(quiet), blocks).clk)
        /\ ~clk.running => MidiStart(clk, Silent(quiet), blocks).clk = clk
    BY <2>3, MidiClock
  <2> QED
    BY <2>1, <2>2, <2>4, Zenon
<1>2. CASE ~start
  <2>1. Woken(start, quiet, blocks) = [clk |-> clk, r |-> Silent(quiet)]
    BY <1>2, Zenon DEF Woken
  <2>2. Woken(start, quiet, blocks).clk = clk /\ Woken(start, quiet, blocks).r = Silent(quiet)
    BY <2>1
  <2>3. Ran(clk, clk)
    BY Zenon DEF Ran
  <2> QED
    BY <2>2, <2>3
<1> QED
  BY <1>1, <1>2

LEMMA AfterIs ==
    ASSUME NEW S, Kept(S), NEW start \in BOOLEAN, NEW quiet \in BOOLEAN, Silent(quiet) \in S,
           clk \in Clocks, clk.running => InTime(clk), NEW blocks, NEW edge \in BOOLEAN,
           NEW n \in 0 .. 1
    PROVE  /\ After(start, quiet, blocks, edge, n).r \in S
           /\ Ran(clk, After(start, quiet, blocks, edge, n).clk)
<1> DEFINE w == Woken(start, quiet, blocks)
           t == Tick(w.clk, w.r, edge, blocks, n)
<1>1. /\ w.r \in S
      /\ Ran(clk, w.clk)
      /\ ~clk.running => w.clk = clk
  BY WokenIs
<1>2. After(start, quiet, blocks, edge, n) = t
  BY Zenon DEF After
<1> HIDE DEF w
<1>3. w.r \in Lines /\ w.clk \in Clocks /\ (w.clk.running => InTime(w.clk))
  BY <1>1 DEF Kept, Ran
<1>4. t.r \in S
  BY <1>1, <1>3, TickKeeps
<1>5. Ran(w.clk, t.clk)
  BY <1>3, TickClock
<1> HIDE DEF t
<1>6. Ran(clk, t.clk)
  BY <1>1, <1>5, Zenon DEF Ran
<1> QED
  BY <1>2, <1>4, <1>6, Zenon

-----------------------------------------------------------------------------
(* The type invariant, with p blocks at most in an operation of the main   *)
(* loop.  TypeOK alone is not inductive: the ticks of a pulse change while *)
(* the main loop switches the source, and a clock that a block has started *)
(* in between would be ahead of its next pulse, but that it cannot be more *)
(* than one tick ahead yet.                                                *)

Switching == {"source", "ppqn", "ext", "since", "run", "flag"}
Again == {"rerun", "reflag"}
Places == {"idle", "keys", "quarters", "pulse", "count", "next", "restart", "quarter", "make"}
            \cup Switching \cup Again

TInv(p) ==
    /\ clk \in Clocks /\ grid \in Grids /\ source \in Source /\ since \in 0 .. Gone
    /\ level \in BOOLEAN /\ heard \in SUBSET Entries /\ span \in Spans
    /\ main \in [at : Places, op : {"none", "toggle", "reset"}, slips : 0 .. p]
    /\ clk.running => InTime(clk)
    /\ main.at = "idle" => main = Idle
    /\ main.at \in Switching => main.op = "toggle"
    /\ clk.running /\ (main.op = "toggle" \/ main.at \in Again) => main.slips = 1
    /\ clk.running /\ main.op = "toggle" => clk.ahead <= 1
    /\ main.op = "toggle" /\ main.at \in Again => main.slips = 1
    /\ main.at \in {"flag", "reflag"} => clk.ahead <= 1

\* The steps of either setting.
Blocks(p) == \E start, high \in BOOLEAN, n \in 0 .. 1 :
               /\ Effect(start, high, n)
               /\ main.at # "idle" => main.slips < p
TSteps(p) ==
    \/ Blocks(p) \/ ToggleSource \/ Reset \/ MainStep
    \/ \E k \in KeyIntervals : TurnKeyInterval(k)

LEMMA TBlock ==
    ASSUME NEW p \in 0 .. 1, TInv(p), Blocks(p)
    PROVE  TInv(p)'
<1>1. PICK start \in BOOLEAN, high \in BOOLEAN, n \in 0 .. 1 :
        Effect(start, high, n) /\ (main.at # "idle" => main.slips < p)
  BY DEF Blocks
<1>2. /\ since \in 0 .. Gone /\ level \in BOOLEAN /\ grid \in Grids /\ span \in Spans
      /\ clk \in Clocks
      /\ clk.running => InTime(clk)
  BY DEF TInv
<1>3. PICK edge \in BOOLEAN, quiet \in BOOLEAN, blocks \in 0 .. Gone :
        /\ clk' = After(start, quiet, blocks, edge, n).clk
        /\ grid' = After(start, quiet, blocks, edge, n).r.grid
        /\ heard' = After(start, quiet, blocks, edge, n).r.heard
        /\ span' = After(start, quiet, blocks, edge, n).r.span
        /\ since' \in 0 .. Gone
  BY <1>1, <1>2, EffectIs
<1>4. Silent(quiet) \in Lines
  BY <1>2, SilentIs
<1> DEFINE t == After(start, quiet, blocks, edge, n)
<1>5. t.r \in Lines /\ Ran(clk, t.clk)
  BY <1>2, <1>4, LinesKept, AfterIs
<1>6. /\ clk' \in Clocks
      /\ clk'.running => InTime(clk')
      /\ ~clk.running => clk'.ahead = clk.ahead \/ clk'.ahead <= 1
      /\ ~clk.running /\ clk'.running => clk'.ahead <= 1
  BY <1>3, <1>5, Zenon DEF Ran
<1>7. grid' \in Grids /\ heard' \in SUBSET Entries /\ span' \in Spans
  BY <1>3, <1>5 DEF Lines
<1>8. level' \in BOOLEAN /\ source' = source
      /\ main' = IF main.at = "idle" THEN main ELSE [main EXCEPT !.slips = @ + 1]
  BY <1>1, Zenon DEF Effect
<1>9. /\ main' \in [at : Places, op : {"none", "toggle", "reset"}, slips : 0 .. p]
      /\ main'.at = main.at /\ main'.op = main.op
      /\ main.at = "idle" => main' = main
      /\ main.at # "idle" => main.slips = 0 /\ main'.slips = 1
  <2>1. main \in [at : Places, op : {"none", "toggle", "reset"}, slips : 0 .. p]
    BY DEF TInv
  <2>2. CASE main.at = "idle"
    BY <1>8, <2>1, <2>2
  <2>3. CASE main.at # "idle"
    BY <1>1, <1>8, <2>1, <2>3
  <2> QED
    BY <2>2, <2>3
<1>10. clk'.ahead \in Nat /\ clk'.running \in BOOLEAN /\ clk.running \in BOOLEAN
  BY <1>2, <1>6, ClockFields
<1>11. InTime(clk') <=> InTime(clk)'
  BY DEF InTime
<1>12. source \in Source
  BY DEF TInv
<1> HIDE DEF t
<1>13. main.at = "idle" => main = Idle /\ main.op = "none"
  BY DEF TInv, Idle
<1>14. main.at \in Switching => main.op = "toggle"
  BY DEF TInv
<1>15. clk.running /\ (main.op = "toggle" \/ main.at \in Again) => main.slips = 1
  BY DEF TInv
<1>16. main.at \in {"flag", "reflag"} => clk.ahead <= 1
  BY DEF TInv
<1>17. main'.at = "idle" => main' = Idle
  BY <1>9, <1>13
<1>18. main'.at \in Switching => main'.op = "toggle"
  BY <1>9, <1>14
<1>19. clk'.running /\ (main'.op = "toggle" \/ main'.at \in Again) => main'.slips = 1
  BY <1>9, <1>13 DEF Again
<1>20. clk'.running /\ main'.op = "toggle" => clk'.ahead <= 1
  BY <1>6, <1>9, <1>10, <1>13, <1>15
<1>21. main'.op = "toggle" /\ main'.at \in Again => main'.slips = 1
  BY <1>9, <1>13
<1>22. main'.at \in {"flag", "reflag"} => clk'.ahead <= 1
  <2>1. main'.at \in {"flag", "reflag"} => ~clk.running
    <3>1. main.slips # 1 /\ (main.op = "toggle" \/ main.at \in Again) => ~clk.running
      BY <1>15, Zenon
    <3>2. main'.at \in {"flag", "reflag"} => main.at \in {"flag", "reflag"} /\ main.slips = 0
      BY <1>9
    <3>3. main.at \in {"flag", "reflag"} => main.op = "toggle" \/ main.at \in Again
      BY <1>14 DEF Switching, Again
    <3>4. main.slips = 0 => main.slips # 1
      OBVIOUS
    <3> QED
      BY <3>1, <3>2, <3>3, <3>4, Zenon
  <2> QED
    BY <1>6, <1>9, <1>10, <1>16, <2>1
<1> QED
  BY <1>3, <1>6, <1>7, <1>8, <1>9, <1>11, <1>12, <1>17, <1>18, <1>19, <1>20, <1>21, <1>22 DEF TInv

LEMMA Goers ==
    ASSUME NEW p \in Nat, NEW place \in Places,
           main \in [at : Places, op : {"none", "toggle", "reset"}, slips : 0 .. p], Goes(place)
    PROVE  /\ main' \in [at : Places, op : {"none", "toggle", "reset"}, slips : 0 .. p]
           /\ main'.at = place
           /\ place = "idle" => main' = Idle /\ main'.op = "none"
           /\ place # "idle" => main'.op = main.op /\ main'.slips = main.slips
<1>1. CASE place = "idle"
  <2>1. main' = Idle
    BY <1>1 DEF Goes
  <2>2. "idle" \in Places
    BY DEF Places
  <2> QED
    BY <1>1, <2>1, <2>2 DEF Idle
<1>2. CASE place # "idle"
  <2>1. main' = [main EXCEPT !.at = place]
    BY <1>2 DEF Goes
  <2> QED
    BY <1>2, <2>1
<1> QED
  BY <1>1, <1>2

LEMMA PlaceNames ==
    /\ {"idle", "keys", "quarters", "pulse", "count", "next", "restart", "quarter", "make",
        "source", "ppqn", "ext", "since", "run", "flag", "rerun", "reflag"} = Places
  BY DEF Places, Switching, Again

(* The stores of the main loop into the grid.                              *)
LEMMA GridStores ==
    ASSUME NEW g \in Grids, NEW k \in KeyIntervals
    PROVE  /\ [g EXCEPT !.key = 0] \in Grids /\ [g EXCEPT !.quarter = 0] \in Grids
           /\ [g EXCEPT !.pulse = 0] \in Grids /\ [g EXCEPT !.count = 0] \in Grids
           /\ [g EXCEPT !.next = 0, !.fresh = TRUE] \in Grids
           /\ [g EXCEPT !.quarter = Resolution] \in Grids
           /\ [g EXCEPT !.interval = k, !.settled = FALSE] \in Grids
           /\ MadeKey(g) \in Grids
<1>1. /\ 0 \in 0 .. Bar - 1 /\ 0 \in Counts /\ 0 \in {PerTrigger * i : i \in Counts}
      /\ 0 \in 0 .. 16 * Resolution /\ 0 \in 0 .. Resolution /\ Resolution \in 0 .. Resolution
  <2>1. 0 \in Counts /\ PerTrigger * 0 = 0
    BY Sizes, PerTriggerNat DEF Counts
  <2> QED
    BY <2>1, Sizes
<1>2. g.interval \in KeyIntervals /\ g.interval \in 0 .. 16 * Resolution
      /\ \E i \in KeyIntervals : g.key <= i /\ 0 <= i
  BY GridFields, WholeQuarters
<1>3. g \in [pulse : 0 .. Bar - 1, count : Counts, next : {PerTrigger * i : i \in Counts},
             key : 0 .. 16 * Resolution, quarter : 0 .. Resolution,
             isKey : BOOLEAN, send : BOOLEAN, interval : KeyIntervals,
             fresh : BOOLEAN, settled : BOOLEAN]
  BY DEF Grids
<1>4. [g EXCEPT !.key = 0] \in Grids
  BY <1>1, <1>2, <1>3 DEF Grids
<1>5. [g EXCEPT !.quarter = 0] \in Grids
  BY <1>1, <1>2, <1>3 DEF Grids
<1>6. [g EXCEPT !.pulse = 0] \in Grids
  BY <1>1, <1>2, <1>3 DEF Grids
<1>7. [g EXCEPT !.count = 0] \in Grids
  BY <1>1, <1>2, <1>3 DEF Grids
<1>8. [g EXCEPT !.next = 0, !.fresh = TRUE] \in Grids
  BY <1>1, <1>2, <1>3 DEF Grids
<1>9. [g EXCEPT !.quarter = Resolution] \in Grids
  BY <1>1, <1>2, <1>3 DEF Grids
<1>10. [g EXCEPT !.interval = k, !.settled = FALSE] \in Grids
  BY <1>1, <1>2, <1>3 DEF Grids
<1>11. MadeKey(g) \in Grids
  <2> DEFINE h == [g EXCEPT !.key = g.interval, !.isKey = TRUE, !.fresh = FALSE]
  <2>1. MadeKey(g) = h
    BY Zenon DEF MadeKey
  <2>2. h \in [pulse : 0 .. Bar - 1, count : Counts, next : {PerTrigger * i : i \in Counts},
               key : 0 .. 16 * Resolution, quarter : 0 .. Resolution,
               isKey : BOOLEAN, send : BOOLEAN, interval : KeyIntervals,
               fresh : BOOLEAN, settled : BOOLEAN] /\ h.key = g.interval
    BY <1>2, <1>3
  <2> HIDE DEF h
  <2>3. g.interval <= g.interval
    BY <1>2, WholeQuarters
  <2>4. h \in Grids
    BY <1>2, <2>2, <2>3 DEF Grids
  <2> QED
    BY <2>1, <2>4
<1> QED
  BY <1>4, <1>5, <1>6, <1>7, <1>8, <1>9, <1>10, <1>11

LEMMA TRealign ==
    ASSUME NEW p \in 0 .. 1, TInv(p), Realign
    PROVE  TInv(p)'
<1>1. UNCHANGED <<clk, source, since, level, heard, span>>
  BY DEF Realign
<1>2. PICK place \in {"quarters", "pulse", "count", "next", "restart"} : Goes(place)
  BY DEF Realign
<1>3. grid' \in Grids
  <2>1. grid \in Grids /\ \E k \in KeyIntervals : TRUE
    BY TransportAssumption DEF TInv
  <2> QED
    BY <2>1, GridStores DEF Realign
<1>4. main.at \in {"keys", "quarters", "pulse", "count", "next"}
  BY DEF Realign
<1>0. p \in Nat
  OBVIOUS
<1>5. place \in Places /\ main \in [at : Places, op : {"none", "toggle", "reset"}, slips : 0 .. p]
  BY <1>2, PlaceNames DEF TInv
<1>6. /\ main' \in [at : Places, op : {"none", "toggle", "reset"}, slips : 0 .. p]
      /\ main'.at = place
      /\ main'.op = main.op /\ main'.slips = main.slips
  BY <1>0, <1>2, <1>5, Goers
<1>7. main'.at \notin Switching \cup Again \cup {"idle"} /\ main.at \notin Switching \cup Again \cup {"idle"}
  BY <1>2, <1>4, <1>6 DEF Switching, Again
<1>8. InTime(clk)' <=> InTime(clk)
  BY <1>1 DEF InTime
<1> QED
  BY <1>1, <1>3, <1>6, <1>7, <1>8 DEF TInv, Switching, Again

LEMMA TRestart ==
    ASSUME NEW p \in 0 .. 1, TInv(p), Restart
    PROVE  TInv(p)'
<1>1. UNCHANGED <<grid, source, since, level, heard, span>> /\ main.at = "restart"
  BY DEF Restart
<1>0. p \in Nat
  OBVIOUS
<1>2. main \in [at : Places, op : {"none", "toggle", "reset"}, slips : 0 .. p]
  BY DEF TInv
<1>3. CASE clk.running
  <2>1. clk' = ClkStop(clk) /\ Goes("rerun")
    BY <1>3 DEF Restart
  <2>2. /\ main' \in [at : Places, op : {"none", "toggle", "reset"}, slips : 0 .. p]
        /\ main'.at = "rerun" /\ main'.op = main.op /\ main'.slips = main.slips
    BY <1>0, <1>2, <2>1, Goers, PlaceNames
  <2>3. clk' \in Clocks /\ clk'.running = FALSE
    BY <2>1, ClkStopIs DEF TInv
  <2> QED
    BY <1>1, <1>3, <2>2, <2>3 DEF TInv, Switching, Again
<1>4. CASE ~clk.running
  <2>1. clk' = clk /\ Goes(Onward)
    BY <1>4 DEF Restart
  <2>2. Onward \in {"source", "idle"} /\ (main.op = "toggle" <=> Onward = "source")
    BY DEF Onward
  <2>3. /\ main' \in [at : Places, op : {"none", "toggle", "reset"}, slips : 0 .. p]
        /\ main'.at = Onward
        /\ Onward = "idle" => main' = Idle /\ main'.op = "none"
        /\ Onward = "source" => main'.op = main.op /\ main'.slips = main.slips
    BY <1>0, <1>2, <2>1, <2>2, Goers, PlaceNames
  <2> QED
    BY <1>1, <1>4, <2>1, <2>2, <2>3 DEF TInv, Switching, Again
<1> QED
  BY <1>3, <1>4

LEMMA TSimulate ==
    ASSUME NEW p \in 0 .. 1, TInv(p), SimulateKey
    PROVE  TInv(p)'
<1>1. UNCHANGED <<clk, source, since, level, heard, span>>
  BY DEF SimulateKey
<1>2. PICK place \in {"make", "idle"} : Goes(place)
  BY DEF SimulateKey
<1>3. grid' \in Grids
  <2>1. grid \in Grids /\ \E k \in KeyIntervals : TRUE
    BY TransportAssumption DEF TInv
  <2> QED
    BY <2>1, GridStores DEF SimulateKey
<1>4. main.at \in {"quarter", "make"}
  BY DEF SimulateKey
<1>0. p \in Nat
  OBVIOUS
<1>5. place \in Places /\ main \in [at : Places, op : {"none", "toggle", "reset"}, slips : 0 .. p]
  BY <1>2, PlaceNames DEF TInv
<1>6. /\ main' \in [at : Places, op : {"none", "toggle", "reset"}, slips : 0 .. p]
      /\ main'.at = place
      /\ place = "idle" => main' = Idle /\ main'.op = "none"
      /\ place # "idle" => main'.op = main.op /\ main'.slips = main.slips
  BY <1>0, <1>2, <1>5, Goers
<1>7. main'.at \notin Switching \cup Again /\ main.at \notin Switching \cup Again
  BY <1>2, <1>4, <1>6 DEF Switching, Again
<1>8. InTime(clk)' <=> InTime(clk)
  BY <1>1 DEF InTime
<1> QED
  BY <1>1, <1>2, <1>3, <1>6, <1>7, <1>8 DEF TInv, Switching, Again

LEMMA TSource ==
    ASSUME NEW p \in 0 .. 1, TInv(p), SetSource \/ SetPPQNIn \/ SetExternalClock \/ ArmDropout
    PROVE  TInv(p)'
<1>1. UNCHANGED <<grid, level, heard, span>> /\ main.at \in {"source", "ppqn", "ext", "since"}
  BY DEF SetSource, SetPPQNIn, SetExternalClock, ArmDropout
<1>2. PICK place \in {"ppqn", "ext", "since", "run"} : Goes(place)
  BY DEF SetSource, SetPPQNIn, SetExternalClock, ArmDropout
<1>3. source' \in Source
  <2>1. \A s \in Source : NextSource[s] \in Source
    BY DEF NextSource, Source
  <2> QED
    BY <2>1 DEF SetSource, SetPPQNIn, SetExternalClock, ArmDropout, TInv
<1>4. since' \in 0 .. Gone
  <2>1. 0 \in 0 .. Gone
    BY TransportAssumption
  <2>2. since \in 0 .. Gone
    BY DEF TInv
  <2> QED
    BY <2>1, <2>2 DEF SetSource, SetPPQNIn, SetExternalClock, ArmDropout, TInv
<1>0. p \in Nat
  OBVIOUS
<1>5. place \in Places /\ main \in [at : Places, op : {"none", "toggle", "reset"}, slips : 0 .. p]
  BY <1>2, PlaceNames DEF TInv
<1>6. /\ main' \in [at : Places, op : {"none", "toggle", "reset"}, slips : 0 .. p]
      /\ main'.at = place
      /\ main'.op = main.op /\ main'.slips = main.slips
  BY <1>0, <1>2, <1>5, Goers
<1>7. main.op = "toggle" /\ clk \in Clocks
  BY <1>1 DEF TInv, Switching
<1>8. /\ clk' \in Clocks /\ clk'.running = clk.running /\ clk'.ahead = clk.ahead
  <2>1. CASE SetPPQNIn
    <3>1. TicksPerClock(source) \in Worths
      BY DEF Worths, TInv
    <3>2. clk' = [clk EXCEPT !.tpc = TicksPerClock(source)]
      BY <2>1 DEF SetPPQNIn
    <3> QED
      BY <1>7, <3>1, <3>2 DEF Clocks
  <2>2. CASE SetExternalClock
    <3> DEFINE pulsed == source # "internal"
    <3>1. clk' = [clk EXCEPT !.ext = pulsed] /\ pulsed \in BOOLEAN
      BY <2>2 DEF SetExternalClock
    <3> HIDE DEF pulsed
    <3> QED
      BY <1>7, <3>1 DEF Clocks
  <2>3. CASE SetSource \/ ArmDropout
    BY <1>7, <2>3 DEF SetSource, ArmDropout
  <2> QED
    BY <2>1, <2>2, <2>3
<1>9. clk'.running => clk'.ahead <= 1
  BY <1>7, <1>8 DEF TInv
<1>10. InTime(clk)' <=> InTime(clk')
  BY DEF InTime
<1>11. clk'.running => InTime(clk')
  BY <1>8, <1>9, ClockFields DEF InTime
<1>12. main'.at \in Switching /\ main'.at \notin Again \cup {"idle", "flag", "reflag"}
  BY <1>2, <1>6 DEF Switching, Again
<1> QED
  BY <1>1, <1>3, <1>4, <1>6, <1>7, <1>8, <1>9, <1>10, <1>11, <1>12 DEF TInv

LEMMA ResetIs ==
    ASSUME NEW c \in Clocks
    PROVE  /\ ClkReset(c) \in Clocks /\ ClkReset(c).ahead = 0 /\ ClkReset(c).hold = FALSE
           /\ ClkReset(c).running = c.running /\ ClkReset(c).armed = c.armed
           /\ ClkReset(c).ext = c.ext /\ ClkReset(c).tpc = c.tpc
<1>1. 0 \in 0 .. PPQN - 1
  BY Sizes
<1> QED
  BY <1>1 DEF ClkReset, Clocks

LEMMA ArmedIs ==
    ASSUME NEW c \in Clocks
    PROVE  /\ ClkArmed(c) \in Clocks /\ ClkArmed(c).ahead = c.ahead /\ ClkArmed(c).hold = c.hold
           /\ ClkArmed(c).ext = c.ext /\ ClkArmed(c).tpc = c.tpc
           /\ c.ext => ClkArmed(c).armed = TRUE /\ ClkArmed(c).running = c.running
           /\ ~c.ext => ClkArmed(c).running = TRUE /\ ClkArmed(c).armed = c.armed
<1>1. CASE c.ext
  BY <1>1 DEF ClkArmed, Clocks
<1>2. CASE ~c.ext
  BY <1>2 DEF ClkArmed, Clocks
<1> QED
  BY <1>1, <1>2

LEMMA TRun ==
    ASSUME NEW p \in 0 .. 1, TInv(p), Run
    PROVE  TInv(p)'
<1>1. UNCHANGED <<grid, source, since, level, heard>> /\ span' \in Spans
  BY DEF Run, NoSpan, Spans
<1>0. p \in Nat
  OBVIOUS
<1>2. main \in [at : Places, op : {"none", "toggle", "reset"}, slips : 0 .. p] /\ clk \in Clocks
  BY DEF TInv
<1>3. CASE main.at \in {"run", "rerun"}
  <2>1. clk' = ClkReset(clk)
    BY <1>3 DEF Run
  <2>2. clk' \in Clocks /\ clk'.ahead <= 1
    <3>1. clk' \in Clocks /\ clk'.ahead = 0
      BY <1>2, <2>1, ResetIs
    <3> QED
      BY <3>1
  <2>3. clk'.running <=> clk.running
    BY <1>2, <2>1, ResetIs
  <2>4. InTime(clk)'
    <3>1. clk'.tpc \in Nat /\ 2 <= clk'.tpc /\ clk'.ahead \in Nat
      BY <2>2, ClockFields
    <3> QED
      BY <2>2, <3>1 DEF InTime
  <2>5. PICK place \in {"flag", "reflag"} :
          Goes(place) /\ (place = "flag" <=> main.at = "run")
    BY <1>3 DEF Run
  <2>6. /\ main' \in [at : Places, op : {"none", "toggle", "reset"}, slips : 0 .. p]
        /\ main'.at = place /\ main'.op = main.op /\ main'.slips = main.slips
    BY <1>0, <1>2, <2>5, Goers, PlaceNames
  <2>7. main'.at \in Switching => main'.op = "toggle"
    BY <2>5, <2>6 DEF TInv, Switching
  <2>8. main'.at \in Again <=> main.at \in Again
    BY <1>3, <2>5, <2>6 DEF Again
  <2>9. clk'.running /\ (main'.op = "toggle" \/ main'.at \in Again) => main'.slips = 1
    BY <2>3, <2>6, <2>8 DEF TInv
  <2>10. main'.op = "toggle" /\ main'.at \in Again => main'.slips = 1
    BY <2>6, <2>8 DEF TInv
  <2>11. main'.at # "idle"
    BY <2>5, <2>6
  <2> QED
    BY <1>1, <2>2, <2>4, <2>6, <2>7, <2>9, <2>10, <2>11 DEF TInv
<1>4. CASE main.at \in {"flag", "reflag"}
  <2>1. clk' = ClkArmed(clk)
    BY <1>4 DEF Run
  <2>2. PICK place \in {"idle", "source"} :
          /\ Goes(place)
          /\ place = "source" => main.op = "toggle" /\ main.at = "reflag"
    BY <1>4 DEF Run, Onward
  <2>3. /\ main' \in [at : Places, op : {"none", "toggle", "reset"}, slips : 0 .. p]
        /\ main'.at = place
        /\ place = "idle" => main' = Idle /\ main'.op = "none"
        /\ place # "idle" => main'.op = main.op /\ main'.slips = main.slips
    BY <1>0, <1>2, <2>2, Goers, PlaceNames
  <2>4. clk' \in Clocks /\ clk'.ahead = clk.ahead /\ clk.ahead <= 1
    BY <1>2, <1>4, <2>1, ArmedIs DEF TInv
  <2>5. InTime(clk)'
    BY <2>4, ClockFields DEF InTime
  <2>6. place = "source" => main'.slips = 1
    BY <2>2, <2>3 DEF TInv, Again
  <2> QED
    BY <1>1, <2>2, <2>3, <2>4, <2>5, <2>6 DEF TInv, Switching, Again
<1> QED
  BY <1>3, <1>4 DEF Run

LEMMA TOther ==
    ASSUME NEW p \in 0 .. 1, TInv(p),
           ToggleSource \/ Reset \/ \E k \in KeyIntervals : TurnKeyInterval(k)
    PROVE  TInv(p)'
<1>1. /\ main \in [at : Places, op : {"none", "toggle", "reset"}, slips : 0 .. p]
      /\ main.at = "idle" /\ main = Idle /\ clk \in Clocks
  BY DEF TInv, ToggleSource, Reset, TurnKeyInterval
<1>2. main.slips = 0
  BY <1>1 DEF Idle
<1>3. CASE ToggleSource
  <2>1. clk' \in Clocks /\ clk'.running = FALSE
    BY <1>1, <1>3, ClkStopIs DEF ToggleSource
  <2>2. /\ main' \in [at : Places, op : {"none", "toggle", "reset"}, slips : 0 .. p]
        /\ main'.at = "keys" /\ main'.slips = 0
    BY <1>1, <1>2, <1>3, PlaceNames DEF ToggleSource
  <2> QED
    BY <1>3, <2>1, <2>2 DEF TInv, ToggleSource, Switching, Again
<1>4. CASE Reset
  <2>1. UNCHANGED <<clk, grid, source, since, level, heard, span>>
    BY <1>4 DEF Reset
  <2>2. /\ main' \in [at : Places, op : {"none", "toggle", "reset"}, slips : 0 .. p]
        /\ main'.at \in {"keys", "quarter"} /\ main'.op = "reset"
    BY <1>1, <1>4, PlaceNames DEF Reset
  <2>3. InTime(clk)' <=> InTime(clk)
    BY <2>1 DEF InTime
  <2> QED
    BY <2>1, <2>2, <2>3 DEF TInv, Switching, Again
<1>5. CASE \E k \in KeyIntervals : TurnKeyInterval(k)
  <2>1. UNCHANGED <<clk, source, since, level, main, heard, span>>
    BY <1>5 DEF TurnKeyInterval
  <2>2. grid' \in Grids
    <3>1. PICK k \in KeyIntervals : grid' = [grid EXCEPT !.interval = k, !.settled = FALSE]
      BY <1>5 DEF TurnKeyInterval
    <3>2. grid \in Grids
      BY DEF TInv
    <3>3. [grid EXCEPT !.interval = k, !.settled = FALSE] \in Grids
      BY <3>2, GridStores
    <3> QED
      BY <3>1, <3>3
  <2>3. InTime(clk)' <=> InTime(clk)
    BY <2>1 DEF InTime
  <2> QED
    BY <2>1, <2>2, <2>3 DEF TInv
<1> QED
  BY <1>3, <1>4, <1>5

LEMMA TNext ==
    ASSUME NEW p \in 0 .. 1, TInv(p), TSteps(p)
    PROVE  TInv(p)'
BY TBlock, TRealign, TRestart, TSimulate, TSource, TRun, TOther DEF TSteps, MainStep

LEMMA TStarts == ASSUME NEW p \in 0 .. 1, Init PROVE TInv(p)
<1>1. clk \in Clocks /\ clk.ahead = 0
  <2>1. TicksPerClock("ts4") \in Worths /\ 0 \in 0 .. PPQN - 1
    BY Sizes DEF Worths, Source
  <2> QED
    BY <2>1 DEF Init, Clocks
<1>2. grid \in Grids
  <2>1. /\ 0 \in 0 .. Bar - 1 /\ 0 \in Counts /\ 0 \in {PerTrigger * i : i \in Counts}
        /\ 0 \in 0 .. 16 * Resolution /\ 0 \in 0 .. Resolution /\ Resolution \in KeyIntervals
        /\ 0 <= Resolution
    <3>1. 0 \in Counts /\ PerTrigger * 0 = 0
      BY Sizes, PerTriggerNat DEF Counts
    <3> QED
      BY <3>1, Sizes, TransportAssumption
  <2> QED
    BY <2>1 DEF Init, Grids
<1>3. main = Idle /\ main \in [at : Places, op : {"none", "toggle", "reset"}, slips : 0 .. p]
  <2>1. 0 \in 0 .. p /\ "idle" \in Places
    BY DEF Places
  <2> QED
    BY <2>1 DEF Init, Idle
<1>4. /\ source \in Source /\ since \in 0 .. Gone /\ level \in BOOLEAN /\ heard \in SUBSET Entries
      /\ span \in Spans
  <2>1. 0 \in 0 .. Gone
    BY TransportAssumption
  <2>2. NoSpan \in Spans
    BY DEF NoSpan, Spans
  <2> QED
    BY <2>1, <2>2 DEF Init, Source
<1>5. InTime(clk)
  BY <1>1, ClockFields DEF InTime
<1> QED
  BY <1>1, <1>2, <1>3, <1>4, <1>5 DEF TInv, Idle, Switching, Again

-----------------------------------------------------------------------------
(* Keys and quarters.  Every step of the timeline keeps a grid whose keys  *)
(* are in step with its quarters, as long as it is realigned as a whole.   *)

GridSound(g) ==
    /\ g.fresh => g.pulse = g.next /\ g.key <= 1 /\ g.quarter <= 1
    /\ g.settled /\ g.interval >= Resolution => InStep(g.key, g.quarter)
    /\ g.key = 0 <=> g.quarter = 0

EntrySound(e) == /\ e.first => e.key /\ e.quarter
                 /\ e.long /\ e.key => e.quarter

SoundLines == {x \in Lines : GridSound(x.grid) /\ \A e \in x.heard : EntrySound(e)}

LEMMA SoundTick ==
    ASSUME NEW g \in Grids, GridSound(g), NEW h \in Grids, NEW e \in Entries, NEW pulsed \in BOOLEAN,
           GridTicks(g, h, pulsed), EntryOf(g, e)
    PROVE  GridSound(h) /\ EntrySound(e)
<1>1. /\ g.key \in Nat /\ g.quarter \in Nat /\ g.quarter <= Resolution
      /\ g.interval \in KeyIntervals /\ g.interval \in Nat /\ g.interval >= 1
      /\ Resolution \in Nat /\ Resolution >= 1
  BY GridFields, WholeQuarters, Sizes
<1>2. g.fresh \in BOOLEAN /\ g.settled \in BOOLEAN /\ h.settled \in BOOLEAN /\ h.fresh \in BOOLEAN
  BY GridFields
<1>3. ASSUME g.settled, g.interval >= Resolution, Ended(g)
      PROVE  Quarter(g)
  <2>1. InStep(g.key, g.quarter) /\ Trigger(g) /\ g.key <= 1
    BY <1>3 DEF GridSound, Ended
  <2>2. CASE g.key = 0
    BY <1>1, <2>1, <2>2 DEF GridSound, Quarter
  <2>3. CASE g.key = 1
    <3>1. g.quarter \in 1 .. Resolution
      BY <1>1, <2>3 DEF GridSound
    <3>2. g.quarter = 1
      BY <2>1, <2>3, <3>1, InStepOne
    <3> QED
      BY <2>1, <3>2 DEF Quarter
  <2> QED
    BY <1>1, <2>1, <2>2, <2>3
<1>4. EntrySound(e)
  <2>1. g.fresh => Ended(g) /\ Quarter(g)
    BY DEF GridSound, Ended, Quarter, Trigger
  <2>2. g.settled /\ g.interval >= Resolution /\ (Ended(g) \/ Caught(g)) => Quarter(g)
    BY <1>3 DEF Caught
  <2> QED
    BY <2>1, <2>2, Zenon DEF EntryOf, EntrySound
<1>5. ~h.fresh
  BY DEF GridTicks
<1>6. h.interval = g.interval
  BY DEF GridTicks
<1>7. CASE ~Trigger(g)
  <2>1. ~Ended(g) /\ ~Quarter(g) /\ ~Caught(g)
    BY <1>7 DEF Ended, Quarter, Caught
  <2>2. h.key = g.key /\ h.quarter = g.quarter
    BY <1>7, <2>1 DEF GridTicks, KeyLeft
  <2>3. h.settled <=> g.settled
    BY <2>1 DEF GridTicks
  <2> QED
    BY <1>4, <1>5, <1>6, <2>2, <2>3 DEF GridSound
<1>8. CASE Trigger(g) /\ Quarter(g)
  <2>1. h.quarter = Resolution
    BY <1>8 DEF GridTicks
  <2>2. CASE Caught(g)
    <3>1. h.key = g.interval
      BY <2>2 DEF GridTicks
    <3>2. h.interval >= Resolution => InStep(h.key, h.quarter)
      BY <1>1, <1>6, <2>1, <3>1, WholeQuarters
    <3> QED
      BY <1>1, <1>4, <1>5, <2>1, <3>1, <3>2 DEF GridSound
  <2>3. CASE ~Caught(g)
    <3>1. h.key = KeyLeft(g)
      BY <2>3 DEF GridTicks
    <3>2. KeyLeft(g) \in Nat /\ KeyLeft(g) >= 1
      <4>1. CASE Ended(g)
        BY <1>1, <4>1 DEF KeyLeft
      <4>2. CASE ~Ended(g)
        BY <1>1, <1>8, <4>2 DEF KeyLeft, Ended
      <4> QED
        BY <4>1, <4>2
    <3>3. g.interval >= Resolution => KeyLeft(g) % Resolution = 0
      BY <1>8, <2>3 DEF Caught, KeyOff
    <3>4. h.interval >= Resolution => InStep(h.key, h.quarter)
      BY <1>6, <2>1, <3>1, <3>2, <3>3, WholeQuarters
    <3>5. h.key # 0
      BY <3>1, <3>2
    <3>6. h.quarter # 0
      BY <1>1, <2>1
    <3> QED
      BY <1>4, <1>5, <3>4, <3>5, <3>6 DEF GridSound
  <2> QED
    BY <2>2, <2>3
<1>9. CASE Trigger(g) /\ ~Quarter(g)
  <2>1. ~Caught(g)
    BY <1>9 DEF Caught
  <2>2. h.quarter = g.quarter - 1 /\ g.quarter > 1
    BY <1>1, <1>9 DEF GridTicks, Quarter
  <2>3. h.key = KeyLeft(g)
    BY <2>1 DEF GridTicks
  <2>4. h.settled <=> g.settled
    BY <1>9 DEF GridTicks
  <2>5. KeyLeft(g) \in Nat /\ KeyLeft(g) >= 1
    <3>1. CASE Ended(g)
      BY <1>1, <3>1 DEF KeyLeft
    <3>2. CASE ~Ended(g)
      BY <1>1, <1>9, <3>2 DEF KeyLeft, Ended
    <3> QED
      BY <3>1, <3>2
  <2>6. ASSUME g.settled, g.interval >= Resolution PROVE InStep(h.key, h.quarter)
    <3>1. ~Ended(g)
      BY <1>3, <1>9, <2>6
    <3>2. h.key = g.key - 1
      BY <1>9, <2>3, <3>1 DEF KeyLeft
    <3>3. InStep(g.key, g.quarter)
      BY <2>6 DEF GridSound
    <3> QED
      BY <1>1, <2>2, <3>2, <3>3, InStepDown
  <2>7. h.key # 0
    BY <2>3, <2>5
  <2>8. h.quarter # 0
    BY <1>1, <2>2
  <2> QED
    BY <1>2, <1>4, <1>5, <1>6, <2>4, <2>6, <2>7, <2>8 DEF GridSound
<1> QED
  BY <1>7, <1>8, <1>9

LEMMA RealignedSound == ASSUME NEW g \in Grids PROVE GridSound(Realigned(g))
<1> DEFINE h == Realigned(g)
<1>1. h.key = 0 /\ h.quarter = 0 /\ h.pulse = 0 /\ h.next = 0
  BY RealignedIs
<1>2. InStep(0, 0)
  <2>1. 0 = 0 + Resolution * 0
    BY Sizes
  <2> QED
    BY <2>1 DEF InStep
<1> HIDE DEF h
<1>3. GridSound(h)
  BY <1>1, <1>2 DEF GridSound
<1> QED
  BY <1>3 DEF h

LEMMA KeyedSound ==
    ASSUME NEW g \in Grids
    PROVE  GridSound(MadeKey([g EXCEPT !.quarter = Resolution]))
<1> DEFINE h == MadeKey([g EXCEPT !.quarter = Resolution])
<1>1. h.key = g.interval /\ h.quarter = Resolution /\ h.fresh = FALSE /\ h.interval = g.interval
  BY KeyedIs
<1>2. g.interval \in KeyIntervals /\ g.interval \in Nat /\ g.interval >= 1 /\ Resolution # 0
  BY GridFields, WholeQuarters, Sizes
<1> HIDE DEF h
<1>3. h.interval >= Resolution => InStep(h.key, h.quarter)
  BY <1>1, <1>2, WholeQuarters
<1>4. h.key # 0 /\ h.quarter # 0
  BY <1>1, <1>2
<1>5. GridSound(h)
  BY <1>1, <1>3, <1>4 DEF GridSound
<1> QED
  BY <1>5 DEF h

LEMMA SoundKept == Kept(SoundLines)
<1>1. SoundLines \subseteq Lines
  BY DEF SoundLines
<1>2. ASSUME NEW x \in SoundLines, NEW pulsed \in BOOLEAN PROVE OnTick(x, pulsed) \in SoundLines
  <2>1. x \in Lines /\ GridSound(x.grid) /\ (\A e \in x.heard : EntrySound(e)) /\ x.grid \in Grids
    BY DEF SoundLines, Lines
  <2>2. OnTick(x, pulsed) \in Lines /\ GridTicks(x.grid, OnTick(x, pulsed).grid, pulsed)
    BY <2>1, OnTickIs
  <2>3. PICK e \in Entries : OnTick(x, pulsed).heard = x.heard \cup {e} /\ EntryOf(x.grid, e)
    BY <2>1, OnTickIs
  <2>4. OnTick(x, pulsed).grid \in Grids
    BY <2>2 DEF Lines
  <2>5. GridSound(OnTick(x, pulsed).grid) /\ EntrySound(e)
    BY <2>1, <2>2, <2>3, <2>4, SoundTick
  <2> QED
    BY <2>1, <2>2, <2>3, <2>5 DEF SoundLines
<1>3. ASSUME NEW x \in SoundLines, NEW whole \in BOOLEAN, NEW due \in Nat
      PROVE  Spanned(x, whole, due) \in SoundLines
  <2>1. x \in Lines
    BY DEF SoundLines
  <2>2. /\ Spanned(x, whole, due) \in Lines
        /\ Spanned(x, whole, due).grid = x.grid /\ Spanned(x, whole, due).heard = x.heard
    BY <2>1, SpannedTyped
  <2> QED
    BY <2>2 DEF SoundLines
<1>4. ASSUME NEW x \in SoundLines
      PROVE  Unspanned(x) \in SoundLines /\ Begun(x) \in SoundLines /\ Keyed(x) \in SoundLines
  <2>1. x \in Lines /\ x.grid \in Grids
    BY DEF SoundLines, Lines
  <2>2. Unspanned(x) \in SoundLines
    BY <2>1, UnspannedIs DEF SoundLines
  <2>3. Begun(x) \in SoundLines
    BY <2>1, BegunIs, RealignedSound DEF SoundLines
  <2>4. Keyed(x) \in SoundLines
    <3>1. GridSound(Keyed(x).grid)
      BY <2>1, KeyedLine, KeyedSound
    <3> QED
      BY <2>1, <3>1, KeyedLine DEF SoundLines
  <2> QED
    BY <2>2, <2>3, <2>4
<1> QED
  BY <1>1, <1>2, <1>3, <1>4 DEF Kept


-----------------------------------------------------------------------------
(* Pulses.  Between two pulses of a running external clock the ticks given *)
(* out, the MIDI clocks among them and the timeline all say how far the    *)
(* clock is ahead.                                                         *)

Bit(b) == IF b THEN 1 ELSE 0

Paced(g, s, a, t) ==
    /\ s.open /\ s.ticks = a
    /\ 2 * s.outs + Bit(g.send) = a
    /\ \E q \in Int : g.pulse = a + 1 + t * q

PaidUp(q) == q.ticks = q.due /\ 2 * q.outs = q.due

LEMMA PacedTick ==
    ASSUME NEW t \in OuterWorths, NEW x \in Lines, NEW b \in Nat, NEW e \in BOOLEAN,
           Paced(x.grid, x.span, b, t), e => x.grid.send
    PROVE  /\ OnTick(x, e) \in Lines
           /\ Paced(OnTick(x, e).grid, OnTick(x, e).span, b + 1, t)
           /\ OnTick(x, e).span.paid = x.span.paid
<1> DEFINE y == OnTick(x, e)
           send == x.grid.send \/ e
<1>1. y \in Lines /\ GridTicks(x.grid, y.grid, e) /\ SpanTicks(x.span, y.span, send)
  BY OnTickIs
<1>2. x.grid \in Grids /\ y.grid \in Grids /\ x.span \in Spans /\ y.span \in Spans
  BY <1>1 DEF Lines
<1>3. send <=> x.grid.send
  OBVIOUS
<1> HIDE DEF y, send
<1>4. x.grid.send \in BOOLEAN /\ y.grid.send \in BOOLEAN
  BY <1>2, GridFields
<1>5. x.span.outs \in Nat /\ x.span.ticks \in Nat /\ y.span.outs \in Nat
  BY <1>2 DEF Spans
<1>6. x.span.open /\ y.span.open
  BY <1>1 DEF Paced, SpanTicks
<1>7. y.span.ticks = b + 1 /\ y.span.paid = x.span.paid
  BY <1>1, <1>6 DEF Paced, SpanTicks
<1>8. ~y.grid.send <=> x.grid.send
  BY <1>1, <1>3 DEF GridTicks, send
<1>9. y.span.outs = IF send THEN x.span.outs + 1 ELSE x.span.outs
  BY <1>1, <1>6 DEF SpanTicks
<1>10. 2 * y.span.outs + Bit(y.grid.send) = b + 1
  <2>1. 2 * x.span.outs + Bit(x.grid.send) = b
    BY DEF Paced
  <2>0. \A o, c \in Nat : /\ 2 * o + 1 = c => 2 * (o + 1) + 0 = c + 1
                         /\ 2 * o + 0 = c => 2 * o + 1 = c + 1
    OBVIOUS
  <2>2. CASE x.grid.send
    <3>1. Bit(x.grid.send) = 1 /\ Bit(y.grid.send) = 0
      BY <1>8, <2>2 DEF Bit
    <3>2. y.span.outs = x.span.outs + 1
      BY <1>3, <1>9, <2>2
    <3>3. 2 * x.span.outs + 1 = b
      BY <2>1, <3>1, Zenon
    <3>4. 2 * (x.span.outs + 1) + 0 = b + 1
      <4> DEFINE o == x.span.outs
      <4>1. o \in Nat /\ 2 * o + 1 = b
        BY <1>5, <3>3
      <4> HIDE DEF o
      <4>2. 2 * (o + 1) + 0 = b + 1
        BY <4>1
      <4> QED
        BY <4>2 DEF o
    <3> QED
      BY <3>1, <3>2, <3>4, Zenon
  <2>3. CASE ~x.grid.send
    <3>1. Bit(x.grid.send) = 0 /\ Bit(y.grid.send) = 1
      BY <1>8, <2>3 DEF Bit
    <3>2. y.span.outs = x.span.outs
      BY <1>3, <1>9, <2>3
    <3>3. 2 * x.span.outs + 0 = b
      BY <2>1, <3>1, Zenon
    <3>4. 2 * x.span.outs + 1 = b + 1
      BY <1>5, <2>0, <3>3
    <3> QED
      BY <3>1, <3>2, <3>4, Zenon
  <2> QED
    BY <2>2, <2>3
<1>11. \E q \in Int : y.grid.pulse = (b + 1) + 1 + t * q
  <2>1. x.grid.pulse \in 0 .. Bar - 1 /\ y.grid.pulse = (x.grid.pulse + 1) % Bar
    BY <1>1, <1>2, GridFields DEF GridTicks
  <2>2. \E q \in Int : x.grid.pulse = b + 1 + t * q
    BY DEF Paced
  <2> QED
    BY <2>1, <2>2, AroundBar
<1>12. Paced(y.grid, y.span, b + 1, t)
  BY <1>6, <1>7, <1>10, <1>11 DEF Paced
<1> QED
  BY <1>1, <1>7, <1>12 DEF y

\* Half of the ticks of a pulse are MIDI clocks, so the last is one.
LEMMA LastIsClock ==
    ASSUME NEW t \in OuterWorths, NEW g \in Grids, NEW s \in Spans
    PROVE  /\ 2 * s.outs + Bit(g.send) = t - 1 => g.send
           /\ 2 * s.outs + Bit(g.send) = t => ~g.send /\ 2 * s.outs = t
<1>1. PICK h \in Nat : t = 2 * h
  BY InputWorth
<1>2. s.outs \in Nat
  BY DEF Spans
<1>3. g.send \in BOOLEAN
  BY GridFields
<1>4. 2 * s.outs # 2 * h - 1 /\ 2 * s.outs + 1 # 2 * h
  BY <1>2
<1>5. CASE g.send
  <2>1. Bit(g.send) = 1
    BY <1>5 DEF Bit
  <2> QED
    BY <1>1, <1>2, <1>4, <1>5, <2>1
<1>6. CASE ~g.send
  <2>1. Bit(g.send) = 0
    BY <1>6 DEF Bit
  <2> QED
    BY <1>1, <1>2, <1>4, <1>6, <2>1
<1> QED
  BY <1>3, <1>5, <1>6

LEMMA PacedTicks ==
    ASSUME NEW t \in OuterWorths, NEW r \in Lines, NEW a \in Nat, NEW m \in Nat, NEW pulsed \in BOOLEAN,
           Paced(r.grid, r.span, a, t), pulsed => a + m = t
    PROVE  /\ OnTicks(r, m, pulsed) \in Lines
           /\ Paced(OnTicks(r, m, pulsed).grid, OnTicks(r, m, pulsed).span, a + m, t)
           /\ OnTicks(r, m, pulsed).span.paid = r.span.paid
<1> DEFINE At(i) == {x \in Lines : Paced(x.grid, x.span, a + i, t) /\ x.span.paid = r.span.paid}
           T == [i \in 0 .. m |-> At(i)]
<1>1. \A i \in 0 .. m : T[i] = At(i)
  OBVIOUS
<1>2. r \in At(0)
  OBVIOUS
<1>3. ASSUME NEW i \in 1 .. m, NEW x \in At(i - 1)
      PROVE  OnTick(x, OnPulse(pulsed, i, m)) \in At(i)
  <2> DEFINE e == OnPulse(pulsed, i, m)
             b == a + (i - 1)
  <2>1. x \in Lines /\ Paced(x.grid, x.span, b, t) /\ x.span.paid = r.span.paid
    OBVIOUS
  <2>2. e \in BOOLEAN /\ b \in Nat /\ b + 1 = a + i
    <3>1. e \in BOOLEAN
      BY DEF OnPulse
    <3>2. i \in Nat /\ i >= 1
      OBVIOUS
    <3>3. b \in Nat /\ b + 1 = a + i
      BY <3>2
    <3> QED
      BY <3>1, <3>3
  <2>3. e => x.grid.send
    <3>1. e => b = t - 1
      BY InputWorth DEF OnPulse
    <3>2. 2 * x.span.outs + Bit(x.grid.send) = b
      BY <2>1 DEF Paced
    <3>3. x.grid \in Grids /\ x.span \in Spans
      BY <2>1 DEF Lines
    <3> QED
      BY <3>1, <3>2, <3>3, LastIsClock
  <2> HIDE DEF e, b
  <2>4. /\ OnTick(x, e) \in Lines
        /\ Paced(OnTick(x, e).grid, OnTick(x, e).span, b + 1, t)
        /\ OnTick(x, e).span.paid = x.span.paid
    BY <2>1, <2>2, <2>3, PacedTick
  <2>5. OnTick(x, e) \in At(i)
    BY <2>1, <2>2, <2>4
  <2> QED
    BY <2>5 DEF e
<1>4. r \in T[0] /\ T[m] = At(m) /\ \A i \in 1 .. m : i \in 0 .. m /\ i - 1 \in 0 .. m
  BY <1>1, <1>2
<1> HIDE DEF T, At
<1>5. \A i \in 1 .. m : \A x \in T[i - 1] : OnTick(x, OnPulse(pulsed, i, m)) \in T[i]
  BY <1>1, <1>3, <1>4
<1>6. OnTicks(r, m, pulsed) \in At(m)
  BY <1>4, <1>5, AfterTicks
<1> QED
  BY <1>6 DEF At

\* The ticks of the internal clock are nobody's.
LEMMA UnpacedTicks ==
    ASSUME NEW r \in Lines, ~r.span.open, NEW m \in Nat, NEW pulsed \in BOOLEAN
    PROVE  /\ OnTicks(r, m, pulsed) \in Lines
           /\ ~OnTicks(r, m, pulsed).span.open /\ OnTicks(r, m, pulsed).span.paid = r.span.paid
<1> DEFINE S == {x \in Lines : ~x.span.open /\ x.span.paid = r.span.paid}
           T == [i \in 0 .. m |-> S]
<1>1. r \in S
  OBVIOUS
<1>2. ASSUME NEW x \in S, NEW e \in BOOLEAN PROVE OnTick(x, e) \in S
  <2>1. OnTick(x, e) \in Lines /\ SpanTicks(x.span, OnTick(x, e).span, x.grid.send \/ e)
    BY OnTickIs
  <2> QED
    BY <2>1 DEF SpanTicks
<1>3. \A i \in 1 .. m : OnPulse(pulsed, i, m) \in BOOLEAN
  BY DEF OnPulse
<1> HIDE DEF S
<1>4. r \in T[0] /\ T[m] = S /\ \A i \in 0 .. m : T[i] = S
  BY <1>1
<1>5. \A i \in 1 .. m : i \in 0 .. m /\ i - 1 \in 0 .. m
  OBVIOUS
<1> HIDE DEF T
<1>6. \A i \in 1 .. m : \A x \in T[i - 1] : OnTick(x, OnPulse(pulsed, i, m)) \in T[i]
  BY <1>2, <1>3, <1>4, <1>5
<1>7. OnTicks(r, m, pulsed) \in S
  BY <1>4, <1>6, AfterTicks
<1> QED
  BY <1>7 DEF S

LEMMA EvenBar == Bar >= 2
<1>1. PPQN >= 2
  <2>1. PPQN \div Ts4 \in OuterWorths
    BY DEF OuterWorths, Inputs, TicksPerClock, PulsesPerQuarter, Source
  <2>2. PPQN \div Ts4 \in Nat /\ 2 <= PPQN \div Ts4 /\ PPQN \div Ts4 <= PPQN
    BY <2>1, InputWorth
  <2> QED
    BY <2>2, Sizes
<1>2. \A a, b \in Nat \ {0} : b >= 2 => a * b >= 2
  OBVIOUS
<1> QED
  BY <1>1, <1>2, Sizes

\* The tick on the pulse that starts the clock.
LEMMA FirstTick ==
    ASSUME NEW r \in Lines, r.grid.pulse = 0
    PROVE  /\ OnTicks(r, 1, TRUE) \in Lines
           /\ OnTicks(r, 1, TRUE).grid.pulse = 1 /\ ~OnTicks(r, 1, TRUE).grid.send
<1> DEFINE S == {x \in Lines : x.grid.pulse = 1 /\ ~x.grid.send}
           T == [i \in 0 .. 1 |-> IF i = 0 THEN {r} ELSE S]
<1>1. OnTick(r, TRUE) \in S
  <2>1. OnTick(r, TRUE) \in Lines /\ GridTicks(r.grid, OnTick(r, TRUE).grid, TRUE)
    BY OnTickIs
  <2>2. Bar >= 2
    BY Sizes, EvenBar
  <2>3. (0 + 1) % Bar = 1
    BY <2>2, Sizes
  <2> QED
    BY <2>1, <2>3 DEF GridTicks
<1>2. r \in T[0] /\ T[1] = S /\ T[0] = {r}
  OBVIOUS
<1>3. \A i \in 1 .. 1 : i = 1 /\ i - 1 = 0
  OBVIOUS
<1>4. OnPulse(TRUE, 1, 1) = TRUE
  BY DEF OnPulse
<1> HIDE DEF T, S
<1>5. \A i \in 1 .. 1 : \A x \in T[i - 1] : OnTick(x, OnPulse(TRUE, i, 1)) \in T[i]
  BY <1>1, <1>2, <1>3, <1>4
<1>6. OnTicks(r, 1, TRUE) \in S
  BY <1>2, <1>5, AfterTicks
<1> QED
  BY <1>6 DEF S

-----------------------------------------------------------------------------
(* The invariant of the keys, when no block falls into an operation of the *)
(* main loop: half realigned, the grid is not sound, but what is already   *)
(* done of it is known.                                                    *)

Unsound == {"quarters", "pulse", "count", "next", "make"}

KInv ==
    /\ \A e \in heard : EntrySound(e)
    /\ main.at \notin Unsound => GridSound(grid)
    /\ main.at \in {"quarters", "pulse", "count", "next"} => grid.key = 0
    /\ main.at \in {"pulse", "count", "next"} => grid.quarter = 0
    /\ main.at \in {"count", "next"} => grid.pulse = 0
    /\ main.at = "make" => grid.quarter = Resolution

\* A second without a pulse: the clock is stopped and the grid realigned, whatever
\* else comes with this block.
LEMMA QuietIs ==
    ASSUME grid \in Grids, span \in Spans, clk \in Clocks, clk.ext, clk.running,
           NEW start \in BOOLEAN, NEW blocks \in 0 .. Gone, blocks >= Gone, NEW n \in 0 .. 1
    PROVE  /\ After(start, TRUE, blocks, FALSE, n).r.grid = Realigned(Silent(TRUE).grid)
           /\ After(start, TRUE, blocks, FALSE, n).r.heard = {}
           /\ After(start, TRUE, blocks, FALSE, n).r.span = NoSpan
           /\ After(start, TRUE, blocks, FALSE, n).clk.running = FALSE
<1> DEFINE s == Silent(TRUE)
           w == Woken(start, TRUE, blocks)
           u == Unspanned(Begun(s))
           e == ClkRun(ClkStop(clk))
           t == Tick(w.clk, w.r, FALSE, blocks, n)
<1>1. After(start, TRUE, blocks, FALSE, n) = t
  BY Zenon DEF After
<1>2. s \in Lines /\ s.heard = {}
  BY SilentIs
<1>3. u \in Lines /\ u.grid = Realigned(s.grid) /\ u.heard = {} /\ u.span = NoSpan
  <2>1. Begun(s) \in Lines /\ Begun(s).grid = Realigned(s.grid) /\ Begun(s).heard = {}
    BY <1>2, BegunIs
  <2> QED
    BY <2>1, UnspannedIs
<1>4. e \in Clocks /\ e.running = FALSE
  <2>1. ClkStop(clk) \in Clocks /\ ClkStop(clk).running = FALSE /\ ClkStop(clk).ext
    BY ClkStopIs
  <2> QED
    BY <2>1, ClkRunIs
<1>5. blocks >= Recent
  BY TransportAssumption
<1>6. \/ w = [clk |-> clk, r |-> s]
      \/ w = [clk |-> e, r |-> u]
  <2>1. CASE start
    <3>1. w = MidiStart(clk, s, blocks)
      BY <2>1, Zenon DEF Woken
    <3> HIDE DEF w, s
    <3> QED
      BY <1>5, <3>1, MidiCases, Zenon DEF Begun, s
  <2>2. CASE ~start
    BY <2>2, Zenon DEF Woken
  <2> QED
    BY <2>1, <2>2
<1> DEFINE off == [clk |-> ClkStop(clk), r |-> Unspanned([s EXCEPT !.grid = Realigned(@)])]
<1>7. CASE w = [clk |-> clk, r |-> s]
  <2>1. w.clk = clk /\ w.r = s
    <3> HIDE DEF w, s
    <3> QED
      BY <1>7
  <2>2. Moves(clk, s, FALSE, blocks, n, Tick(clk, s, FALSE, blocks, n))
    BY TickCases
  <2>3. Tick(clk, s, FALSE, blocks, n) = off
    <3> HIDE DEF s
    <3> QED
      BY <2>2, Zenon DEF Moves
  <2>4. off = [clk |-> ClkStop(clk), r |-> u]
    BY Zenon DEF Begun
  <2>5. t = [clk |-> ClkStop(clk), r |-> u]
    BY <2>1, <2>3, <2>4, Zenon
  <2> HIDE DEF t, u
  <2>6. t.clk = ClkStop(clk) /\ t.r = u
    BY <2>5
  <2> QED
    BY <1>1, <1>3, <2>6, ClkStopIs DEF s
<1>8. CASE w = [clk |-> e, r |-> u]
  <2> HIDE DEF w, e, u
  <2>1. w.clk = e /\ w.r = u
    BY <1>8
  <2>2. Moves(e, u, FALSE, blocks, n, Tick(e, u, FALSE, blocks, n))
    BY <1>4, TickCases
  <2>3. Tick(e, u, FALSE, blocks, n) = [clk |-> e, r |-> u]
    BY <1>4, <2>2, Zenon DEF Moves
  <2>4. t = [clk |-> e, r |-> u]
    BY <2>1, <2>3, Zenon
  <2> HIDE DEF t
  <2>5. t.clk = e /\ t.r = u
    BY <2>4
  <2> QED
    BY <1>1, <1>3, <1>4, <2>5 DEF s
<1> QED
  BY <1>6, <1>7, <1>8

LEMMA KBlock ==
    ASSUME TInv(0), KInv, Blocks(0)
    PROVE  KInv'
<1>1. PICK start \in BOOLEAN, high \in BOOLEAN, n \in 0 .. 1 :
        Effect(start, high, n) /\ (main.at # "idle" => main.slips < 0)
  BY DEF Blocks
<1>2. /\ since \in 0 .. Gone /\ level \in BOOLEAN /\ grid \in Grids /\ span \in Spans
      /\ clk \in Clocks
      /\ clk.running => InTime(clk)
      /\ main.slips \in 0 .. 0
  BY DEF TInv
<1>3. main.at = "idle" /\ main' = main
  <2>1. ~(main.slips < 0)
    BY <1>2
  <2>2. main.at = "idle"
    BY <1>1, <2>1, Zenon
  <2> QED
    BY <1>1, <2>2, Zenon DEF Effect
<1>4. GridSound(grid)
  BY <1>3 DEF KInv, Unsound
<1>5. PICK edge \in BOOLEAN, quiet \in BOOLEAN, blocks \in 0 .. Gone :
        /\ quiet => clk.ext /\ clk.running /\ blocks >= Gone /\ ~edge
        /\ grid' = After(start, quiet, blocks, edge, n).r.grid
        /\ heard' = After(start, quiet, blocks, edge, n).r.heard
  BY <1>1, <1>2, EffectIs
<1> DEFINE t == After(start, quiet, blocks, edge, n)
<1>6. GridSound(grid') /\ \A e \in heard' : EntrySound(e)
  <2>1. CASE quiet
    <3>1. quiet = TRUE /\ edge = FALSE
      BY <1>5, <2>1
    <3>2. /\ After(start, TRUE, blocks, FALSE, n).r.grid = Realigned(Silent(TRUE).grid)
          /\ After(start, TRUE, blocks, FALSE, n).r.heard = {}
      BY <1>2, <1>5, <2>1, QuietIs, ZenonT(40)
    <3>3. t.r.grid = Realigned(Silent(TRUE).grid) /\ t.r.heard = {}
      BY <3>1, <3>2, Zenon
    <3>4. Silent(TRUE).grid \in Grids
      BY <1>2, SilentIs
    <3>5. GridSound(Realigned(Silent(TRUE).grid))
      BY <3>4, RealignedSound
    <3> HIDE DEF t
    <3>6. grid' = Realigned(Silent(TRUE).grid) /\ heard' = {}
      BY <1>5, <3>3 DEF t
    <3> QED
      BY <3>5, <3>6
  <2>2. CASE ~quiet
    <3>1. Silent(quiet) \in SoundLines
      <4>1. /\ Silent(quiet) \in Lines /\ Silent(quiet).heard = {}
            /\ Silent(quiet).grid = [grid EXCEPT !.fresh = @ \/ quiet]
        BY <1>2, SilentIs
      <4> DEFINE h == Silent(quiet).grid
      <4>2. /\ h.fresh <=> grid.fresh
            /\ h.pulse = grid.pulse /\ h.next = grid.next /\ h.key = grid.key
            /\ h.quarter = grid.quarter /\ h.settled = grid.settled /\ h.interval = grid.interval
        <5>1. grid.fresh \in BOOLEAN
          BY <1>2, GridFields
        <5> QED
          BY <1>2, <2>2, <4>1, <5>1 DEF Grids
      <4> HIDE DEF h
      <4>3. GridSound(h)
        BY <1>4, <4>2 DEF GridSound
      <4> QED
        BY <4>1, <4>3 DEF SoundLines, h
    <3>2. t.r \in SoundLines
      BY <1>2, <3>1, SoundKept, AfterIs
    <3> HIDE DEF t
    <3> QED
      BY <1>5, <3>2 DEF SoundLines, t
  <2> QED
    BY <2>1, <2>2
<1>7. GridSound(grid)'
  BY <1>6 DEF GridSound, InStep
<1> QED
  BY <1>3, <1>6, <1>7 DEF KInv

LEMMA GridPlaces ==
    \A place \in Places : place \in Unsound \/
       place \notin {"quarters", "pulse", "count", "next", "make"}
  BY DEF Unsound

\* The grid stays, and so does what is known of it.
LEMMA KGridStays ==
    ASSUME KInv, UNCHANGED <<grid, heard>>, main.at \notin Unsound, main'.at \notin Unsound
    PROVE  KInv'
<1>1. GridSound(grid)' <=> GridSound(grid)
  BY DEF GridSound, InStep
<1> QED
  BY <1>1 DEF KInv, Unsound

LEMMA KRealign ==
    ASSUME TInv(0), KInv, Realign
    PROVE  KInv'
<1>1. /\ grid \in Grids /\ heard' = heard
      /\ main \in [at : Places, op : {"none", "toggle", "reset"}, slips : 0 .. 0]
  BY DEF TInv, Realign
<1>2. \A place \in Places \ {"idle"} : Goes(place) => main'.at = place
  BY <1>1, Goers
<1>3. \A e \in heard' : EntrySound(e)
  BY <1>1 DEF KInv
<1>4. CASE main.at = "keys" /\ Goes("quarters") /\ grid' = [grid EXCEPT !.key = 0]
  <2>1. main'.at = "quarters"
    BY <1>2, <1>4, PlaceNames
  <2>2. grid'.key = 0
    BY <1>1, <1>4 DEF Grids
  <2> QED
    BY <1>3, <2>1, <2>2 DEF KInv, Unsound
<1>5. CASE main.at = "quarters" /\ Goes("pulse") /\ grid' = [grid EXCEPT !.quarter = 0]
  <2>1. main'.at = "pulse"
    BY <1>2, <1>5, PlaceNames
  <2>2. grid'.key = 0 /\ grid'.quarter = 0
    BY <1>1, <1>5 DEF Grids, KInv
  <2> QED
    BY <1>3, <2>1, <2>2 DEF KInv, Unsound
<1>6. CASE main.at = "pulse" /\ Goes("count") /\ grid' = [grid EXCEPT !.pulse = 0]
  <2>1. main'.at = "count"
    BY <1>2, <1>6, PlaceNames
  <2>2. grid'.key = 0 /\ grid'.quarter = 0 /\ grid'.pulse = 0
    BY <1>1, <1>6 DEF Grids, KInv
  <2> QED
    BY <1>3, <2>1, <2>2 DEF KInv, Unsound
<1>7. CASE main.at = "count" /\ Goes("next") /\ grid' = [grid EXCEPT !.count = 0]
  <2>1. main'.at = "next"
    BY <1>2, <1>7, PlaceNames
  <2>2. grid'.key = 0 /\ grid'.quarter = 0 /\ grid'.pulse = 0
    BY <1>1, <1>7 DEF Grids, KInv
  <2> QED
    BY <1>3, <2>1, <2>2 DEF KInv, Unsound
<1>8. CASE main.at = "next" /\ Goes("restart") /\ grid' = [grid EXCEPT !.next = 0, !.fresh = TRUE]
  <2>1. main'.at = "restart"
    BY <1>2, <1>8, PlaceNames
  <2>2. grid'.key = 0 /\ grid'.quarter = 0 /\ grid'.pulse = 0 /\ grid'.next = 0
    BY <1>1, <1>8 DEF Grids, KInv
  <2>3. InStep(0, 0)
    <3>1. 0 = 0 + Resolution * 0
      BY Sizes
    <3> QED
      BY <3>1 DEF InStep
  <2>4. GridSound(grid)'
    BY <2>2, <2>3 DEF GridSound, InStep
  <2> QED
    BY <1>3, <2>1, <2>4 DEF KInv, Unsound
<1> QED
  BY <1>4, <1>5, <1>6, <1>7, <1>8 DEF Realign

LEMMA KSimulate ==
    ASSUME TInv(0), KInv, SimulateKey
    PROVE  KInv'
<1>1. /\ grid \in Grids /\ heard' = heard
      /\ main \in [at : Places, op : {"none", "toggle", "reset"}, slips : 0 .. 0]
  BY DEF TInv, SimulateKey
<1>2. \A place \in Places : Goes(place) => main'.at = place
  BY <1>1, Goers
<1>3. \A e \in heard' : EntrySound(e)
  BY <1>1 DEF KInv
<1>4. CASE main.at = "quarter" /\ Goes("make") /\ grid' = [grid EXCEPT !.quarter = Resolution]
  <2>1. main'.at = "make"
    BY <1>2, <1>4, PlaceNames
  <2>2. grid'.quarter = Resolution
    BY <1>1, <1>4 DEF Grids
  <2> QED
    BY <1>3, <2>1, <2>2 DEF KInv, Unsound
<1>5. CASE main.at = "make" /\ Goes("idle") /\ grid' = MadeKey(grid)
  <2>1. main'.at = "idle"
    BY <1>2, <1>5, PlaceNames
  <2>2. grid.quarter = Resolution
    BY <1>5 DEF KInv
  <2>3. [grid EXCEPT !.quarter = Resolution] = grid
    BY <1>1, <2>2 DEF Grids
  <2>4. GridSound(MadeKey(grid))
    BY <1>1, <2>3, KeyedSound
  <2>5. GridSound(grid)'
    BY <1>5, <2>4 DEF GridSound, InStep
  <2> QED
    BY <1>3, <2>1, <2>5 DEF KInv, Unsound
<1> QED
  BY <1>4, <1>5 DEF SimulateKey

LEMMA KTurn ==
    ASSUME TInv(0), KInv, NEW k \in KeyIntervals, TurnKeyInterval(k)
    PROVE  KInv'
<1>1. /\ grid \in Grids /\ heard' = heard /\ main' = main /\ main.at = "idle"
      /\ grid' = [grid EXCEPT !.interval = k, !.settled = FALSE]
  BY DEF TInv, TurnKeyInterval
<1>2. /\ grid'.settled = FALSE /\ grid'.fresh = grid.fresh /\ grid'.pulse = grid.pulse
      /\ grid'.next = grid.next /\ grid'.key = grid.key /\ grid'.quarter = grid.quarter
  BY <1>1 DEF Grids
<1>3. GridSound(grid)'
  BY <1>1, <1>2 DEF KInv, Unsound, GridSound
<1> QED
  BY <1>1, <1>3 DEF KInv, Unsound

LEMMA KOther ==
    ASSUME TInv(0), KInv, ToggleSource \/ Reset \/ Restart \/ SetSource \/ SetPPQNIn
                          \/ SetExternalClock \/ ArmDropout \/ Run
    PROVE  KInv'
<1>1. UNCHANGED <<grid, heard>>
  BY DEF ToggleSource, Reset, Restart, SetSource, SetPPQNIn, SetExternalClock, ArmDropout, Run
<1>2. main \in [at : Places, op : {"none", "toggle", "reset"}, slips : 0 .. 0]
  BY DEF TInv
<1>3. main.at \in {"idle", "restart", "source", "ppqn", "ext", "since", "run", "flag", "rerun", "reflag"}
  BY DEF ToggleSource, Reset, Restart, SetSource, SetPPQNIn, SetExternalClock, ArmDropout, Run
<1>4. main'.at \in {"idle", "keys", "quarter", "source", "ppqn", "ext", "since", "run", "flag",
                    "rerun", "reflag"}
  <2>1. CASE ToggleSource \/ Reset
    BY <1>2, <2>1 DEF ToggleSource, Reset
  <2>2. CASE ~(ToggleSource \/ Reset)
    <3>1. PICK place \in {"idle", "source", "ppqn", "ext", "since", "run", "flag", "rerun", "reflag"} :
            Goes(place)
      BY <2>2 DEF Restart, SetSource, SetPPQNIn, SetExternalClock, ArmDropout, Run, Onward
    <3>2. main'.at = place
      <4>1. place \in Places
        BY PlaceNames
      <4> QED
        BY <1>2, <3>1, <4>1, Goers
    <3> QED
      BY <3>2
  <2> QED
    BY <2>1, <2>2
<1> QED
  BY <1>1, <1>3, <1>4, KGridStays DEF Unsound

LEMMA KNext ==
    ASSUME TInv(0), KInv, TSteps(0)
    PROVE  KInv'
  BY KBlock, KRealign, KSimulate, KTurn, KOther DEF TSteps, MainStep

LEMMA KStarts == ASSUME Init PROVE KInv
<1>1. grid.key = 0 /\ grid.quarter = 0 /\ ~grid.fresh /\ grid.settled = FALSE /\ main.at = "idle"
      /\ heard = {}
  BY DEF Init
<1> QED
  BY <1>1 DEF KInv, GridSound, Unsound

\* What a block, the pulses and the starts keep of clock and timeline together.
PacedClock(c, r) ==
    /\ \A q \in r.span.paid : PaidUp(q)
    /\ c.ext => c.tpc \in OuterWorths
    /\ c.ext /\ c.armed => ~c.running
    /\ c.ext /\ c.running => Paced(r.grid, r.span, c.ahead, c.tpc)
    /\ c.ext /\ ~c.running => r.grid.pulse = 0
    /\ r.span.open => c.ext /\ c.running

LEMMA PacedFree ==
    ASSUME NEW c \in Clocks, InTime(c), NEW r \in Lines, PacedClock(c, r), NEW n \in 0 .. 1,
           c.running
    PROVE  PacedClock(EmitFree(c, r, n).clk, EmitFree(c, r, n).r)
<1> DEFINE k == EmitFree(c, r, n)
           m == FreeTicks(c, n)
           y == OnTicks(r, m, FALSE)
<1>1. CASE c.hold
  <2>1. k.clk = c /\ k.r = r
    BY <1>1, EmitFreeIs, Zenon
  <2> QED
    BY <2>1, Zenon
<1>2. CASE ~c.hold
  <2>1. /\ k.clk \in Clocks
        /\ k.clk.running = c.running /\ k.clk.armed = c.armed
        /\ k.clk.ext = c.ext /\ k.clk.tpc = c.tpc
        /\ k.clk.ahead = IF c.ext \/ c.ahead + m < c.tpc THEN c.ahead + m ELSE c.tpc - 1
        /\ k.r = y
    BY <1>2, EmitFreeIs, ZenonT(40)
  <2>2. m \in Nat /\ c.ahead \in Nat
    BY FreeFits, ClockFields
  <2>3. c.running \in BOOLEAN /\ c.armed \in BOOLEAN /\ c.ext \in BOOLEAN
    BY ClockFields
  <2> HIDE DEF k, m, y
  <2>4. CASE c.ext
    <3>1. c.tpc \in OuterWorths /\ Paced(r.grid, r.span, c.ahead, c.tpc) /\ ~c.armed
      BY <2>3, <2>4, Zenon DEF PacedClock
    <3>2. Paced(y.grid, y.span, c.ahead + m, c.tpc) /\ y.span.paid = r.span.paid
      BY <2>2, <3>1, PacedTicks DEF y
    <3>3. k.clk.ahead = c.ahead + m
      BY <2>1, <2>4, Zenon
    <3> QED
      BY <2>1, <2>3, <2>4, <3>1, <3>2, <3>3, Zenon DEF PacedClock, k
  <2>5. CASE ~c.ext
    <3>1. ~r.span.open
      BY <2>5, Zenon DEF PacedClock
    <3>2. ~y.span.open /\ y.span.paid = r.span.paid
      BY <2>2, <3>1, UnpacedTicks DEF y
    <3> QED
      BY <2>1, <2>5, <3>2, Zenon DEF PacedClock, k
  <2> QED
    BY <2>4, <2>5
<1> QED
  BY <1>1, <1>2, ClockFields

\* A pulse pays for itself, and counting begins anew.
LEMMA PacedOwed ==
    ASSUME NEW c \in Clocks, InTime(c), NEW r \in Lines, PacedClock(c, r), c.running, c.ext
    PROVE  PacedClock(EmitOwed(c, r).clk, EmitOwed(c, r).r)
<1> DEFINE k == EmitOwed(c, r)
           m == c.tpc - c.ahead
           y == OnTicks(r, m, TRUE)
           s == Spanned(y, TRUE, c.tpc)
<1>1. /\ k.clk \in Clocks /\ k.clk.ahead = 0
      /\ k.clk.running = c.running /\ k.clk.armed = c.armed
      /\ k.clk.ext = c.ext /\ k.clk.tpc = c.tpc
      /\ m \in 1 .. c.tpc /\ k.r = s
  BY EmitOwedIs, Zenon
<1>2. /\ c.tpc \in OuterWorths /\ Paced(r.grid, r.span, c.ahead, c.tpc) /\ ~c.armed
  <2>1. c.armed \in BOOLEAN
    BY ClockFields
  <2> QED
    BY <2>1, Zenon DEF PacedClock
<1>3. c.ahead \in Nat /\ c.tpc \in Nat /\ m \in Nat /\ c.ahead + m = c.tpc
  BY <1>1, ClockFields
<1> HIDE DEF m
<1>4. /\ y \in Lines /\ Paced(y.grid, y.span, c.tpc, c.tpc) /\ y.span.paid = r.span.paid
  <2>1. /\ y \in Lines /\ Paced(y.grid, y.span, c.ahead + m, c.tpc) /\ y.span.paid = r.span.paid
    BY <1>2, <1>3, PacedTicks, ZenonT(40)
  <2> QED
    BY <1>3, <2>1, Zenon
<1> HIDE DEF y
<1> DEFINE one == [ticks |-> y.span.ticks, outs |-> y.span.outs, due |-> c.tpc]
<1>5. s \in Lines /\ s.grid = y.grid
      /\ s.span = [open |-> TRUE, ticks |-> 0, outs |-> 0, paid |-> {one}]
  <2>1. s \in Lines /\ s.grid = y.grid
        /\ s.span = [open |-> TRUE, ticks |-> 0, outs |-> 0,
                     paid |-> IF TRUE /\ y.span.open THEN {one} ELSE {}]
    BY <1>3, <1>4, SpannedTyped
  <2>2. y.span.open
    BY <1>4 DEF Paced
  <2>3. (IF TRUE /\ y.span.open THEN {one} ELSE {}) = {one}
    BY <2>2, Zenon
  <2> QED
    BY <2>1, <2>3, Zenon
<1>6. y.grid \in Grids /\ y.span \in Spans
  BY <1>4 DEF Lines
<1>7. ~y.grid.send /\ 2 * y.span.outs = c.tpc /\ y.span.ticks = c.tpc
  <2>1. 2 * y.span.outs + Bit(y.grid.send) = c.tpc /\ y.span.ticks = c.tpc
    BY <1>4 DEF Paced
  <2> QED
    BY <1>2, <1>6, <2>1, LastIsClock
<1>8. PaidUp(one)
  BY <1>7 DEF PaidUp
<1> HIDE DEF one, s, k
<1>9. /\ s.span.open /\ s.span.ticks = 0 /\ s.span.outs = 0 /\ s.span.paid = {one}
  BY <1>5
<1>10. \E q \in Int : y.grid.pulse = 0 + 1 + c.tpc * q
  <2>1. PICK q \in Int : y.grid.pulse = c.tpc + 1 + c.tpc * q
    BY <1>4 DEF Paced
  <2>2. c.tpc * (q + 1) = c.tpc * q + c.tpc /\ q + 1 \in Int /\ c.tpc * q \in Int
    BY <1>3
  <2>3. y.grid.pulse = 0 + 1 + c.tpc * (q + 1)
    BY <1>3, <2>1, <2>2
  <2> QED
    BY <2>2, <2>3
<1>11. Paced(s.grid, s.span, 0, c.tpc)
  <2>1. Bit(s.grid.send) = 0
    BY <1>5, <1>7 DEF Bit
  <2>2. 2 * s.span.outs + Bit(s.grid.send) = 0
    BY <1>9, <2>1
  <2> QED
    BY <1>5, <1>9, <1>10, <2>2, Zenon DEF Paced
<1>12. \A q \in s.span.paid : PaidUp(q)
  BY <1>8, <1>9
<1>13. PacedClock(k.clk, s)
  BY <1>1, <1>2, <1>11, <1>12, Zenon DEF PacedClock
<1> QED
  BY <1>1, <1>13 DEF k

\* The first pulse begins a span.
LEMMA PacedKickOff ==
    ASSUME NEW c \in Clocks, NEW r \in Lines, PacedClock(c, r), ~c.running, c.ext,
           NEW n \in 0 .. 1
    PROVE  PacedClock(KickedOff(ClkRun(c), r, n).clk, KickedOff(ClkRun(c), r, n).r)
<1> DEFINE e == ClkRun(c)
           k == KickedOff(e, r, n)
           y == OnTicks(r, 1, TRUE)
           s == Spanned(y, FALSE, c.tpc)
<1>1. /\ e \in Clocks /\ InTime(e) /\ e.ext = c.ext /\ e.tpc = c.tpc
      /\ ~e.running /\ e.ahead = 0 /\ ~e.hold
  <2>1. /\ e \in Clocks /\ InTime(e) /\ e.ext = c.ext /\ e.tpc = c.tpc
        /\ e.running = c.running /\ e.ahead = 0 /\ e.hold = FALSE
    BY ClkRunIs
  <2> QED
    BY <2>1
<1> HIDE DEF e
<1>2. /\ k.clk.running = TRUE /\ k.clk.armed = FALSE
      /\ k.clk.ext = e.ext /\ k.clk.tpc = e.tpc
      /\ k.clk.ahead = 0 /\ k.r = Spanned(y, FALSE, e.tpc)
  BY <1>1, KickedOffIs, ZenonT(40)
<1>3. r.grid.pulse = 0 /\ c.tpc \in OuterWorths /\ c.tpc \in Nat
  BY ClockFields DEF PacedClock
<1>4. y \in Lines /\ y.grid.pulse = 1 /\ ~y.grid.send
  BY <1>3, FirstTick
<1> HIDE DEF y
<1>5. s \in Lines /\ s.grid = y.grid
      /\ s.span = [open |-> TRUE, ticks |-> 0, outs |-> 0, paid |-> {}]
  <2>1. s.span = [open |-> TRUE, ticks |-> 0, outs |-> 0,
                  paid |-> IF FALSE /\ y.span.open
                          THEN {[ticks |-> y.span.ticks, outs |-> y.span.outs, due |-> c.tpc]}
                          ELSE {}] /\ s \in Lines /\ s.grid = y.grid
    BY <1>3, <1>4, SpannedTyped
  <2> QED
    BY <2>1
<1> HIDE DEF s, k
<1>6. s.span.open /\ s.span.ticks = 0 /\ s.span.outs = 0 /\ s.span.paid = {}
  BY <1>5
<1>7. Paced(s.grid, s.span, 0, c.tpc)
  <2>1. Bit(s.grid.send) = 0
    BY <1>4, <1>5 DEF Bit
  <2>2. 2 * s.span.outs + Bit(s.grid.send) = 0
    BY <1>6, <2>1
  <2>3. s.grid.pulse = 0 + 1 + c.tpc * 0
    BY <1>3, <1>4, <1>5
  <2>4. 0 \in Int
    OBVIOUS
  <2> QED
    BY <1>6, <2>2, <2>3, <2>4, Zenon DEF Paced
<1>8. k.r = s
  BY <1>1, <1>2, Zenon DEF s
<1>9. PacedClock(k.clk, s)
  <2>1. \A q \in s.span.paid : PaidUp(q)
    BY <1>6
  <2> QED
    BY <1>1, <1>2, <1>3, <1>7, <2>1, Zenon DEF PacedClock
<1> QED
  BY <1>8, <1>9 DEF k, e

LEMMA PacedStep ==
    ASSUME NEW c \in Clocks, c.running => InTime(c), NEW r \in Lines, PacedClock(c, r),
           NEW edge \in BOOLEAN, NEW blocks, NEW n \in 0 .. 1
    PROVE  PacedClock(Tick(c, r, edge, blocks, n).clk, Tick(c, r, edge, blocks, n).r)
<1> DEFINE t == Tick(c, r, edge, blocks, n)
           off == [clk |-> ClkStop(c), r |-> Unspanned([r EXCEPT !.grid = Realigned(@)])]
           Fine(k) == PacedClock(k.clk, k.r)
<1> SUFFICES Fine(t)
  OBVIOUS
<1>1. CASE ~c.running /\ ~edge /\ t = [clk |-> c, r |-> r]
  <2>1. t.clk = c /\ t.r = r
    <3> HIDE DEF t
    <3> QED
      BY <1>1
  <2> QED
    BY <2>1, Zenon
<1>2. CASE c.running /\ t = EmitFree(c, r, n)
  <2>1. Fine(EmitFree(c, r, n))
    BY <1>2, PacedFree
  <2> QED
    BY <1>2, <2>1, Zenon
<1>3. CASE c.running /\ c.ext /\ c.armed
  BY <1>3, Zenon DEF PacedClock
<1>4. CASE c.running /\ c.ext /\ t = EmitOwed([c EXCEPT !.hold = FALSE], r)
  <2> DEFINE d == [c EXCEPT !.hold = FALSE]
  <2>1. /\ d \in Clocks /\ d.ext = c.ext /\ d.tpc = c.tpc /\ d.ahead = c.ahead
        /\ d.running = c.running /\ d.armed = c.armed
    BY ReleasedIs
  <2>2. t = EmitOwed(d, r)
    BY <1>4, Zenon
  <2> HIDE DEF d
  <2>3. InTime(d)
    BY <1>4, <2>1 DEF InTime
  <2>4. PacedClock(d, r)
    BY <2>1, Zenon DEF PacedClock
  <2>5. d.running /\ d.ext
    BY <1>4, <2>1
  <2>6. Fine(EmitOwed(d, r))
    BY <2>1, <2>3, <2>4, <2>5, PacedOwed
  <2> QED
    BY <2>2, <2>6, Zenon
<1>5. CASE ~c.running /\ c.ext /\ t = KickedOff(ClkRun(c), r, n)
  <2>1. Fine(KickedOff(ClkRun(c), r, n))
    BY <1>5, PacedKickOff
  <2> QED
    BY <1>5, <2>1, Zenon
<1>6. CASE ~c.running /\ ~c.ext /\ t = EmitFree(ClkRun(c), r, n)
  <2> DEFINE e == ClkRun(c)
  <2>1. e \in Clocks /\ InTime(e) /\ e.ext = c.ext /\ e.running = TRUE
    BY <1>6, ClkRunIs
  <2> HIDE DEF e
  <2>2. PacedClock(e, r)
    BY <1>6, <2>1, Zenon DEF PacedClock
  <2>3. Fine(EmitFree(e, r, n))
    BY <2>1, <2>2, PacedFree
  <2> QED
    BY <1>6, <2>3, Zenon DEF e
<1>7. CASE c.running /\ t = off
  <2> DEFINE u == Unspanned(Begun(r))
  <2>1. off = [clk |-> ClkStop(c), r |-> u]
    BY Zenon DEF Begun
  <2>2. /\ u \in Lines /\ u.grid.pulse = 0 /\ u.span = NoSpan
    <3>1. Begun(r) \in Lines /\ Begun(r).grid = Realigned(r.grid) /\ r.grid \in Grids
      BY BegunIs DEF Lines
    <3> QED
      BY <3>1, UnspannedIs, RealignedIs
  <2>3. ~u.span.open /\ u.span.paid = {}
    BY <2>2 DEF NoSpan
  <2>4. ClkStop(c).running = FALSE /\ ClkStop(c).ext = c.ext /\ ClkStop(c).tpc = c.tpc
    BY ClkStopIs
  <2>5. \A q \in u.span.paid : PaidUp(q)
    BY <2>3
  <2>6. PacedClock(ClkStop(c), u)
    BY <2>2, <2>3, <2>4, <2>5, Zenon DEF PacedClock
  <2> HIDE DEF u, t
  <2>7. t.clk = ClkStop(c) /\ t.r = u
    BY <1>7, <2>1
  <2> QED
    BY <2>6, <2>7, Zenon
<1>8. \/ ~c.running /\ ~edge /\ t = [clk |-> c, r |-> r]
      \/ c.running /\ t = EmitFree(c, r, n)
      \/ c.running /\ c.ext /\ c.armed
      \/ c.running /\ c.ext /\ t = EmitOwed([c EXCEPT !.hold = FALSE], r)
      \/ ~c.running /\ c.ext /\ t = KickedOff(ClkRun(c), r, n)
      \/ ~c.running /\ ~c.ext /\ t = EmitFree(ClkRun(c), r, n)
      \/ c.running /\ t = off
  <2>1. Moves(c, r, edge, blocks, n, t)
    BY TickCases
  <2> HIDE DEF t
  <2> QED
    BY <2>1, Zenon DEF Moves
<1> HIDE DEF t, off, Fine
<1> QED
  BY <1>1, <1>2, <1>3, <1>4, <1>5, <1>6, <1>7, <1>8, Zenon

LEMMA PacedMidi ==
    ASSUME NEW c \in Clocks, NEW r \in Lines, PacedClock(c, r), NEW blocks
    PROVE  PacedClock(MidiStart(c, r, blocks).clk, MidiStart(c, r, blocks).r)
<1> DEFINE t == MidiStart(c, r, blocks)
           e == ClkRun(ClkStop(c))
           b == Begun(r)
           u == Unspanned(b)
           y == Keyed(r)
<1>1. \/ t = [clk |-> c, r |-> r]
      \/ c.running /\ t = [clk |-> e, r |-> u]
      \/ ~c.running /\ t = [clk |-> c, r |-> b]
      \/ t = [clk |-> c, r |-> y]
  BY MidiCases, Zenon DEF Begun, Keyed
<1>2. /\ b \in Lines /\ b.grid.pulse = 0 /\ b.span = r.span /\ r.grid \in Grids /\ r.span \in Spans
  <2>1. r.grid \in Grids /\ r.span \in Spans
    BY DEF Lines
  <2> QED
    BY <2>1, BegunIs, RealignedIs
<1>3. u.grid = b.grid /\ u.span = NoSpan
  BY <1>2, UnspannedIs
<1>4. /\ y.grid.pulse = r.grid.pulse /\ y.grid.send = r.grid.send /\ y.span = r.span
  <2>1. y.grid = MadeKey([r.grid EXCEPT !.quarter = Resolution]) /\ y.span = r.span
    BY KeyedLine
  <2> HIDE DEF y
  <2> QED
    BY <1>2, <2>1, KeyedIs
<1>5. /\ e.ext = c.ext /\ e.tpc = c.tpc
      /\ c.ext => ~e.running
  <2>1. /\ ClkStop(c) \in Clocks /\ ClkStop(c).running = FALSE /\ ClkStop(c).ext = c.ext
        /\ ClkStop(c).tpc = c.tpc
    BY ClkStopIs
  <2> QED
    BY <2>1, ClkRunIs
<1> HIDE DEF e, b, u, y
<1>6. PacedClock(e, u)
  <2>1. ~u.span.open /\ u.span.paid = {} /\ u.grid.pulse = 0
    BY <1>2, <1>3 DEF NoSpan
  <2>2. \A q \in u.span.paid : PaidUp(q)
    BY <2>1
  <2>3. c.ext => c.tpc \in OuterWorths
    BY Zenon DEF PacedClock
  <2> QED
    BY <1>5, <2>1, <2>2, <2>3, Zenon DEF PacedClock
<1>7. ~c.running => PacedClock(c, b)
  BY <1>2, Zenon DEF PacedClock
<1>8. PacedClock(c, y)
  <2>1. Paced(r.grid, r.span, c.ahead, c.tpc) => Paced(y.grid, y.span, c.ahead, c.tpc)
    BY <1>4, Zenon DEF Paced
  <2> QED
    BY <1>4, <2>1, Zenon DEF PacedClock
<1> HIDE DEF t
<1>9. \/ t.clk = c /\ t.r = r
      \/ t.clk = e /\ t.r = u
      \/ ~c.running /\ t.clk = c /\ t.r = b
      \/ t.clk = c /\ t.r = y
  BY <1>1
<1>10. PacedClock(t.clk, t.r)
  BY <1>6, <1>7, <1>8, <1>9, Zenon
<1> QED
  BY <1>10 DEF t

LEMMA PacedAfter ==
    ASSUME grid \in Grids, span \in Spans, clk \in Clocks, clk.running => InTime(clk),
           NEW start \in BOOLEAN, NEW quiet \in BOOLEAN, NEW blocks, NEW edge \in BOOLEAN,
           NEW n \in 0 .. 1, PacedClock(clk, Silent(quiet))
    PROVE  PacedClock(After(start, quiet, blocks, edge, n).clk, After(start, quiet, blocks, edge, n).r)
<1> DEFINE w == Woken(start, quiet, blocks)
           t == Tick(w.clk, w.r, edge, blocks, n)
<1>1. Silent(quiet) \in Lines
  BY SilentIs
<1>2. w.r \in Lines /\ Ran(clk, w.clk)
  BY <1>1, LinesKept, WokenIs
<1>3. w.clk \in Clocks /\ (w.clk.running => InTime(w.clk))
  <2> HIDE DEF w
  <2> QED
    BY <1>2, Zenon DEF Ran
<1>4. PacedClock(w.clk, w.r)
  <2>1. CASE start
    <3>1. w = MidiStart(clk, Silent(quiet), blocks)
      BY <2>1, Zenon DEF Woken
    <3>2. PacedClock(MidiStart(clk, Silent(quiet), blocks).clk, MidiStart(clk, Silent(quiet), blocks).r)
      BY <1>1, PacedMidi
    <3> QED
      BY <3>1, <3>2, Zenon
  <2>2. CASE ~start
    <3>1. w = [clk |-> clk, r |-> Silent(quiet)]
      BY <2>2, Zenon DEF Woken
    <3> HIDE DEF w
    <3>2. w.clk = clk /\ w.r = Silent(quiet)
      BY <3>1
    <3> QED
      BY <3>2, Zenon
  <2> QED
    BY <2>1, <2>2, Zenon
<1>5. After(start, quiet, blocks, edge, n) = t
  BY Zenon DEF After
<1> HIDE DEF w
<1>6. PacedClock(t.clk, t.r)
  BY <1>2, <1>3, <1>4, PacedStep
<1> QED
  BY <1>5, <1>6, Zenon

-----------------------------------------------------------------------------
(* The invariant of the pulses, when no block falls into an operation of   *)
(* the main loop.  While it realigns, the timeline has left the pulses and *)
(* stands at zero; while it switches, the clock stands.                    *)

Zeroed == {"count", "next", "restart"} \cup Switching \cup Again

PInv ==
    /\ \A q \in span.paid : PaidUp(q)
    /\ main.at = "ext" => clk.tpc = TicksPerClock(source)
    /\ main.at # "ext" /\ clk.ext => clk.tpc \in OuterWorths
    /\ clk.ext /\ clk.armed => ~clk.running
    /\ clk.ext /\ clk.running => /\ span.open /\ span.ticks = clk.ahead
                                 /\ 2 * span.outs + Bit(grid.send) = clk.ahead
    /\ main.at \notin Zeroed /\ clk.ext /\ clk.running =>
         \E q \in Int : grid.pulse = clk.ahead + 1 + clk.tpc * q
    /\ main.at \in Zeroed => grid.pulse = 0
    /\ main.op # "toggle" /\ clk.ext /\ ~clk.running => grid.pulse = 0
    /\ main.op # "toggle" /\ main.at \notin Again /\ span.open => clk.ext /\ clk.running
    /\ main.at \in {"quarter", "make"} => main.op # "toggle"

LEMMA Stands == ASSUME TInv(0) PROVE main.op = "toggle" \/ main.at \in Again => ~clk.running
<1>1. main.slips # 1
  BY DEF TInv
<1>2. clk.running /\ (main.op = "toggle" \/ main.at \in Again) => main.slips = 1
  BY DEF TInv
<1> QED
  BY <1>1, <1>2, Zenon

LEMMA IdlePaced ==
    ASSUME TInv(0), PInv, main.at = "idle"
    PROVE  PacedClock(clk, [grid |-> grid, heard |-> heard, span |-> span])
<1> DEFINE r == [grid |-> grid, heard |-> heard, span |-> span]
<1>1. r.grid = grid /\ r.span = span
  OBVIOUS
<1>2. main.op # "toggle" /\ main.at \notin Again /\ main.at \notin Zeroed /\ main.at # "ext"
  BY DEF TInv, Idle, Again, Zeroed, Switching
<1> HIDE DEF r
<1>3. clk.ext /\ clk.running => Paced(grid, span, clk.ahead, clk.tpc)
  BY <1>2, Zenon DEF PInv, Paced
<1>4. PacedClock(clk, r)
  BY <1>1, <1>2, <1>3, Zenon DEF PInv, PacedClock
<1> QED
  BY <1>4 DEF r

LEMMA PBlock ==
    ASSUME TInv(0), PInv, Blocks(0)
    PROVE  PInv'
<1>0. TInv(0)'
  BY TBlock
<1>1. PICK start \in BOOLEAN, high \in BOOLEAN, n \in 0 .. 1 :
        Effect(start, high, n) /\ (main.at # "idle" => main.slips < 0)
  BY DEF Blocks
<1>2. /\ since \in 0 .. Gone /\ level \in BOOLEAN /\ grid \in Grids /\ span \in Spans
      /\ clk \in Clocks
      /\ clk.running => InTime(clk)
      /\ main.slips \in 0 .. 0
  BY DEF TInv
<1>3. main.at = "idle" /\ main' = main
  <2>1. ~(main.slips < 0)
    BY <1>2
  <2>2. main.at = "idle"
    BY <1>1, <2>1, Zenon
  <2> QED
    BY <1>1, <2>2, Zenon DEF Effect
<1>4. PICK edge \in BOOLEAN, quiet \in BOOLEAN, blocks \in 0 .. Gone :
        /\ clk' = After(start, quiet, blocks, edge, n).clk
        /\ grid' = After(start, quiet, blocks, edge, n).r.grid
        /\ heard' = After(start, quiet, blocks, edge, n).r.heard
        /\ span' = After(start, quiet, blocks, edge, n).r.span
  BY <1>1, <1>2, EffectIs
<1> DEFINE r == [grid |-> grid, heard |-> heard, span |-> span]
           s == Silent(quiet)
           t == After(start, quiet, blocks, edge, n)
<1>5. PacedClock(clk, r)
  BY <1>3, IdlePaced
<1>6. PacedClock(clk, s)
  <2>1. r.grid = grid /\ r.span = span
    OBVIOUS
  <2>2. /\ s.span = [span EXCEPT !.paid = {}]
        /\ s.grid = [grid EXCEPT !.fresh = @ \/ quiet]
    BY <1>2, SilentIs
  <2> HIDE DEF r, s
  <2>3. /\ s.span.open = span.open /\ s.span.ticks = span.ticks /\ s.span.outs = span.outs
        /\ s.span.paid = {}
    BY <1>2, <2>2 DEF Spans
  <2>4. s.grid.pulse = grid.pulse /\ s.grid.send = grid.send
    <3> DEFINE fresh == grid.fresh \/ quiet
    <3>1. s.grid = [grid EXCEPT !.fresh = fresh]
      BY <2>2, Zenon
    <3> HIDE DEF fresh
    <3> QED
      BY <1>2, <3>1 DEF Grids
  <2>5. \A q \in s.span.paid : PaidUp(q)
    BY <2>3
  <2>6. Paced(r.grid, r.span, clk.ahead, clk.tpc) => Paced(s.grid, s.span, clk.ahead, clk.tpc)
    BY <2>1, <2>3, <2>4, Zenon DEF Paced
  <2> QED
    BY <1>5, <2>1, <2>3, <2>4, <2>5, <2>6, Zenon DEF PacedClock
<1>7. PacedClock(t.clk, t.r)
  BY <1>2, <1>6, PacedAfter
<1> DEFINE z == [grid |-> grid', heard |-> heard', span |-> span']
<1>8. PacedClock(clk', z)
  <2>1. z.grid = t.r.grid /\ z.span = t.r.span /\ clk' = t.clk
    BY <1>4
  <2> HIDE DEF z, t
  <2>2. Paced(t.r.grid, t.r.span, t.clk.ahead, t.clk.tpc) => Paced(z.grid, z.span, clk'.ahead, clk'.tpc)
    BY <2>1, Zenon DEF Paced
  <2> QED
    BY <1>7, <2>1, <2>2, Zenon DEF PacedClock
<1>9. main'.op # "toggle" /\ main'.at \notin Again /\ main'.at \notin Zeroed /\ main'.at # "ext"
      /\ main'.at \notin {"quarter", "make"}
  BY <1>3 DEF TInv, Idle, Again, Zeroed, Switching
<1>10. z.grid = grid' /\ z.span = span'
  OBVIOUS
<1> HIDE DEF z
<1>11. clk'.ext /\ clk'.running =>
         /\ span'.open /\ span'.ticks = clk'.ahead /\ 2 * span'.outs + Bit(grid'.send) = clk'.ahead
         /\ \E q \in Int : grid'.pulse = clk'.ahead + 1 + clk'.tpc * q
  BY <1>8, <1>10, Zenon DEF PacedClock, Paced
<1>12. \A q \in span'.paid : PaidUp(q)
  BY <1>8, <1>10, Zenon DEF PacedClock
<1>13. /\ clk'.ext => clk'.tpc \in OuterWorths
       /\ clk'.ext /\ clk'.armed => ~clk'.running
       /\ clk'.ext /\ ~clk'.running => grid'.pulse = 0
       /\ span'.open => clk'.ext /\ clk'.running
  BY <1>8, <1>10, Zenon DEF PacedClock
<1> QED
  BY <1>9, <1>11, <1>12, <1>13, Zenon DEF PInv, Bit

\* A store of the main loop into the grid.
LEMMA PGrid ==
    ASSUME PInv, UNCHANGED <<clk, span, source>>, grid'.send = grid.send,
           main.at # "ext", main'.at # "ext", main.at \notin Again,
           main'.at \in {"quarter", "make"} => main'.op # "toggle",
           main'.op # "toggle" => main.op # "toggle",
           \/ grid'.pulse = grid.pulse /\ (main.at \in Zeroed <=> main'.at \in Zeroed)
           \/ grid'.pulse = 0 /\ main'.at \in Zeroed
    PROVE  PInv'
<1>1. clk' = clk /\ span' = span
  OBVIOUS
<1>2. \A q \in span'.paid : PaidUp(q)
  BY <1>1, Zenon DEF PInv
<1>3. /\ main'.at # "ext" /\ clk'.ext => clk'.tpc \in OuterWorths
      /\ clk'.ext /\ clk'.armed => ~clk'.running
      /\ clk'.ext /\ clk'.running => /\ span'.open /\ span'.ticks = clk'.ahead
                                     /\ 2 * span'.outs + Bit(grid'.send) = clk'.ahead
      /\ main'.op # "toggle" /\ main'.at \notin Again /\ span'.open => clk'.ext /\ clk'.running
  BY <1>1, Zenon DEF PInv, Bit
<1>4. CASE grid'.pulse = grid.pulse /\ (main.at \in Zeroed <=> main'.at \in Zeroed)
  <2>1. /\ main'.at \notin Zeroed /\ clk'.ext /\ clk'.running =>
             \E q \in Int : grid'.pulse = clk'.ahead + 1 + clk'.tpc * q
        /\ main'.at \in Zeroed => grid'.pulse = 0
        /\ main'.op # "toggle" /\ clk'.ext /\ ~clk'.running => grid'.pulse = 0
    BY <1>1, <1>4, Zenon DEF PInv
  <2> QED
    BY <1>2, <1>3, <2>1, Zenon DEF PInv, Bit
<1>5. CASE grid'.pulse = 0 /\ main'.at \in Zeroed
  BY <1>2, <1>3, <1>5, Zenon DEF PInv, Bit
<1> QED
  BY <1>4, <1>5

\* A step that leaves the external clock standing.
LEMMA PStand ==
    ASSUME clk'.ext => ~clk'.running, \A q \in span'.paid : PaidUp(q),
           main'.at = "ext" => clk'.tpc = TicksPerClock(source'),
           main'.at # "ext" /\ clk'.ext => clk'.tpc \in OuterWorths,
           main'.at \in Zeroed => grid'.pulse = 0,
           main'.op # "toggle" /\ clk'.ext => grid'.pulse = 0,
           main'.op # "toggle" /\ main'.at \notin Again => ~span'.open,
           main'.at \notin {"quarter", "make"}
    PROVE  PInv'
<1>1. TicksPerClock(source)' = TicksPerClock(source')
  BY DEF TicksPerClock
<1> QED
  BY <1>1, Zenon DEF PInv

LEMMA PRealign ==
    ASSUME TInv(0), PInv, Realign
    PROVE  PInv'
<1>1. /\ grid \in Grids /\ UNCHANGED <<clk, span, source>>
      /\ main \in [at : Places, op : {"none", "toggle", "reset"}, slips : 0 .. 0]
  BY DEF TInv, Realign
<1>2. \A place \in Places \ {"idle"} : Goes(place) => main'.at = place /\ main'.op = main.op
  BY <1>1, Goers
<1>3. /\ main'.op = main.op
      /\ main.at \in {"keys", "quarters", "pulse", "count", "next"}
      /\ main'.at \in {"quarters", "pulse", "count", "next", "restart"}
  BY <1>2, PlaceNames DEF Realign
<1>4. grid'.send = grid.send
  BY <1>1 DEF Realign, Grids
<1>5. \/ grid'.pulse = grid.pulse /\ (main.at \in Zeroed <=> main'.at \in Zeroed)
      \/ grid'.pulse = 0 /\ main'.at \in Zeroed
  <2>1. CASE main.at = "keys" /\ Goes("quarters") /\ grid' = [grid EXCEPT !.key = 0]
    <3>1. main'.at = "quarters" /\ grid'.pulse = grid.pulse
      BY <1>1, <1>2, <2>1, PlaceNames DEF Grids
    <3> QED
      BY <2>1, <3>1 DEF Zeroed, Switching, Again
  <2>2. CASE main.at = "quarters" /\ Goes("pulse") /\ grid' = [grid EXCEPT !.quarter = 0]
    <3>1. main'.at = "pulse" /\ grid'.pulse = grid.pulse
      BY <1>1, <1>2, <2>2, PlaceNames DEF Grids
    <3> QED
      BY <2>2, <3>1 DEF Zeroed, Switching, Again
  <2>3. CASE main.at = "pulse" /\ Goes("count") /\ grid' = [grid EXCEPT !.pulse = 0]
    <3>1. main'.at = "count" /\ grid'.pulse = 0
      BY <1>1, <1>2, <2>3, PlaceNames DEF Grids
    <3> QED
      BY <3>1 DEF Zeroed
  <2>4. CASE main.at = "count" /\ Goes("next") /\ grid' = [grid EXCEPT !.count = 0]
    <3>1. main'.at = "next" /\ grid'.pulse = grid.pulse
      BY <1>1, <1>2, <2>4, PlaceNames DEF Grids
    <3> QED
      BY <2>4, <3>1 DEF Zeroed
  <2>5. CASE main.at = "next" /\ Goes("restart") /\ grid' = [grid EXCEPT !.next = 0, !.fresh = TRUE]
    <3>1. main'.at = "restart" /\ grid'.pulse = grid.pulse
      BY <1>1, <1>2, <2>5, PlaceNames DEF Grids
    <3> QED
      BY <2>5, <3>1 DEF Zeroed
  <2> QED
    BY <2>1, <2>2, <2>3, <2>4, <2>5 DEF Realign
<1>6. main.at \notin Again /\ main.at # "ext" /\ main'.at # "ext" /\ main'.at \notin {"quarter", "make"}
  BY <1>3 DEF Again
<1> QED
  BY <1>1, <1>3, <1>4, <1>5, <1>6, PGrid

LEMMA PSimulate ==
    ASSUME TInv(0), PInv, SimulateKey
    PROVE  PInv'
<1>1. /\ grid \in Grids /\ UNCHANGED <<clk, span, source>>
      /\ main \in [at : Places, op : {"none", "toggle", "reset"}, slips : 0 .. 0]
  BY DEF TInv, SimulateKey
<1>2. main.at \in {"quarter", "make"} /\ main.op # "toggle"
  BY DEF SimulateKey, PInv
<1>3. main'.at \in {"make", "idle"} /\ main'.op # "toggle"
  <2>1. \A place \in {"make", "idle"} : Goes(place) => main'.at = place /\ main'.op # "toggle"
    BY <1>1, <1>2, Goers, PlaceNames
  <2> QED
    BY <2>1 DEF SimulateKey
<1>4. grid'.send = grid.send /\ grid'.pulse = grid.pulse
  BY <1>1 DEF SimulateKey, MadeKey, Grids
<1>5. main.at \notin Again \cup Zeroed /\ main'.at \notin Zeroed /\ main.at # "ext" /\ main'.at # "ext"
  BY <1>2, <1>3 DEF Again, Zeroed, Switching
<1> QED
  BY <1>1, <1>2, <1>3, <1>4, <1>5, PGrid

LEMMA PIdle ==
    ASSUME TInv(0), PInv, Reset \/ \E k \in KeyIntervals : TurnKeyInterval(k)
    PROVE  PInv'
<1>0. UNCHANGED <<clk, span, source>> /\ main.at = "idle"
  BY DEF Reset, TurnKeyInterval
<1>1. /\ grid \in Grids /\ UNCHANGED <<clk, span, source>> /\ main.at = "idle" /\ main.op # "toggle"
      /\ main \in [at : Places, op : {"none", "toggle", "reset"}, slips : 0 .. 0]
  BY <1>0 DEF TInv, Idle
<1>2. main'.op # "toggle" /\ main'.at \in {"idle", "keys", "quarter"}
  BY <1>1 DEF Reset, TurnKeyInterval
<1>3. grid'.send = grid.send /\ grid'.pulse = grid.pulse
  BY <1>1 DEF Reset, TurnKeyInterval, Grids
<1>4. main.at \notin Again \cup Zeroed /\ main'.at \notin Zeroed /\ main.at # "ext" /\ main'.at # "ext"
  BY <1>1, <1>2 DEF Again, Zeroed, Switching
<1> QED
  BY <1>1, <1>2, <1>3, <1>4, PGrid

LEMMA PToggle ==
    ASSUME TInv(0), PInv, ToggleSource
    PROVE  PInv'
<1>1. /\ clk \in Clocks /\ main.at = "idle" /\ clk' = ClkStop(clk) /\ span' = span
      /\ main \in [at : Places, op : {"none", "toggle", "reset"}, slips : 0 .. 0]
      /\ main' = [main EXCEPT !.at = "keys", !.op = "toggle"]
  BY DEF TInv, ToggleSource
<1>2. clk'.running = FALSE /\ clk'.ext = clk.ext /\ clk'.tpc = clk.tpc
  BY <1>1, ClkStopIs
<1>3. main'.at = "keys" /\ main'.op = "toggle" /\ main'.at \notin Zeroed \cup {"quarter", "make"}
  BY <1>1 DEF Zeroed, Switching, Again
<1>4. \A q \in span'.paid : PaidUp(q)
  BY <1>1, Zenon DEF PInv
<1>5. clk'.ext => clk'.tpc \in OuterWorths
  BY <1>1, <1>2 DEF PInv
<1> QED
  BY <1>2, <1>3, <1>4, <1>5, PStand

LEMMA PRestart ==
    ASSUME TInv(0), PInv, Restart
    PROVE  PInv'
<1>1. /\ clk \in Clocks /\ main.at = "restart" /\ UNCHANGED <<span, grid, source>>
      /\ main \in [at : Places, op : {"none", "toggle", "reset"}, slips : 0 .. 0]
  BY DEF TInv, Restart
<1>2. grid'.pulse = 0
  BY <1>1 DEF PInv, Zeroed
<1>3. \A q \in span'.paid : PaidUp(q)
  BY <1>1, Zenon DEF PInv
<1>4. clk.ext => clk.tpc \in OuterWorths
  BY <1>1 DEF PInv
<1>5. CASE clk.running
  <2>1. clk' = ClkStop(clk) /\ Goes("rerun")
    BY <1>5 DEF Restart
  <2>2. main'.at = "rerun"
    BY <1>1, <2>1, Goers, PlaceNames
  <2>3. clk'.running = FALSE /\ clk'.ext = clk.ext /\ clk'.tpc = clk.tpc
    BY <1>1, <2>1, ClkStopIs
  <2>4. main'.at \in Again /\ main'.at # "ext" /\ main'.at \notin {"quarter", "make"}
    BY <2>2 DEF Again
  <2> QED
    BY <1>2, <1>3, <1>4, <2>3, <2>4, PStand
<1>6. CASE ~clk.running
  <2>1. clk' = clk /\ Goes(Onward)
    BY <1>6 DEF Restart
  <2>2. Onward \in {"source", "idle"} /\ (main.op = "toggle" <=> Onward = "source")
    BY DEF Onward
  <2>3. /\ main'.at \in {"source", "idle"}
        /\ main'.op # "toggle" => main.op # "toggle"
    BY <1>1, <2>1, <2>2, Goers, PlaceNames
  <2>4. main'.op # "toggle" => ~span'.open
    <3>1. main.at \notin Again
      BY <1>1 DEF Again
    <3> QED
      BY <1>1, <1>6, <2>3, <3>1, Zenon DEF PInv
  <2>5. main'.at # "ext" /\ main'.at \notin {"quarter", "make"}
    BY <2>3
  <2> QED
    BY <1>2, <1>3, <1>4, <1>6, <2>1, <2>4, <2>5, PStand
<1> QED
  BY <1>5, <1>6

LEMMA PSource ==
    ASSUME TInv(0), PInv, SetSource \/ SetPPQNIn \/ SetExternalClock \/ ArmDropout
    PROVE  PInv'
<1>1. /\ clk \in Clocks /\ UNCHANGED <<span, grid>> /\ source \in Source
      /\ main.at \in {"source", "ppqn", "ext", "since"}
      /\ main \in [at : Places, op : {"none", "toggle", "reset"}, slips : 0 .. 0]
  BY DEF TInv, SetSource, SetPPQNIn, SetExternalClock, ArmDropout
<1>2. main.op = "toggle" /\ ~clk.running
  <2>1. main.op = "toggle"
    BY <1>1 DEF TInv, Switching
  <2> QED
    BY <2>1, Stands
<1>3. grid'.pulse = 0 /\ \A q \in span'.paid : PaidUp(q)
  BY <1>1 DEF PInv, Zeroed, Switching
<1>4. \A place \in Places \ {"idle"} : Goes(place) => main'.at = place /\ main'.op = "toggle"
  BY <1>1, <1>2, Goers
<1>5. CASE SetSource
  <2>1. main'.at = "ppqn" /\ main'.op = "toggle" /\ clk' = clk /\ main.at = "source"
    BY <1>4, <1>5, PlaceNames DEF SetSource
  <2>2. clk'.ext => clk'.tpc \in OuterWorths
    BY <2>1 DEF PInv
  <2> QED
    BY <1>2, <1>3, <2>1, <2>2, PStand
<1>6. CASE SetPPQNIn
  <2>1. main'.at = "ext" /\ main'.op = "toggle" /\ source' = source
    BY <1>4, <1>6, PlaceNames DEF SetPPQNIn
  <2>2. clk'.running = clk.running /\ clk'.tpc = TicksPerClock(source')
    BY <1>1, <1>6, <2>1 DEF SetPPQNIn, Clocks
  <2> QED
    BY <1>2, <1>3, <2>1, <2>2, PStand
<1>7. CASE SetExternalClock
  <2> DEFINE pulsed == source # "internal"
  <2>1. main'.at = "since" /\ main'.op = "toggle" /\ main.at = "ext" /\ clk' = [clk EXCEPT !.ext = pulsed]
    BY <1>4, <1>7, PlaceNames DEF SetExternalClock
  <2>2. clk.tpc = TicksPerClock(source)
    BY <2>1 DEF PInv
  <2>3. pulsed => TicksPerClock(source) \in OuterWorths
    BY <1>1 DEF OuterWorths, Inputs, Source
  <2> HIDE DEF pulsed
  <2>4. clk'.running = clk.running /\ clk'.tpc = clk.tpc /\ clk'.ext = pulsed
    BY <1>1, <2>1 DEF Clocks
  <2>5. clk'.ext => clk'.tpc \in OuterWorths
    BY <2>2, <2>3, <2>4
  <2> QED
    BY <1>2, <1>3, <2>1, <2>4, <2>5, PStand
<1>8. CASE ArmDropout
  <2>1. main'.at = "run" /\ main'.op = "toggle" /\ clk' = clk /\ main.at = "since"
    BY <1>4, <1>8, PlaceNames DEF ArmDropout
  <2>2. clk'.ext => clk'.tpc \in OuterWorths
    BY <2>1 DEF PInv
  <2> QED
    BY <1>2, <1>3, <2>1, <2>2, PStand
<1> QED
  BY <1>5, <1>6, <1>7, <1>8

LEMMA PRun ==
    ASSUME TInv(0), PInv, Run
    PROVE  PInv'
<1>1. /\ clk \in Clocks /\ grid' = grid /\ span' = NoSpan
      /\ main.at \in {"run", "rerun", "flag", "reflag"}
      /\ main \in [at : Places, op : {"none", "toggle", "reset"}, slips : 0 .. 0]
  BY DEF TInv, Run
<1>2. ~clk.running
  <2>1. main.op = "toggle" \/ main.at \in Again
    BY <1>1 DEF TInv, Switching, Again
  <2> QED
    BY <2>1, Stands
<1>3. grid'.pulse = 0
  BY <1>1 DEF PInv, Zeroed, Switching, Again
<1>4. (\A q \in span'.paid : PaidUp(q)) /\ ~span'.open
  BY <1>1 DEF NoSpan
<1>5. clk'.ext = clk.ext /\ clk'.tpc = clk.tpc /\ (clk'.ext => ~clk'.running)
  <2>1. CASE clk' = ClkReset(clk)
    BY <1>1, <1>2, <2>1, ResetIs
  <2>2. CASE clk' = ClkArmed(clk)
    BY <1>1, <1>2, <2>2, ArmedIs
  <2> QED
    BY <2>1, <2>2 DEF Run
<1>6. clk.ext => clk.tpc \in OuterWorths
  BY <1>1 DEF PInv
<1>7. main'.at \in {"flag", "reflag", "idle", "source"}
  <2>1. \A place \in Places : Goes(place) => main'.at = place
    BY <1>1, Goers
  <2>2. PICK place \in {"flag", "reflag", "idle", "source"} : Goes(place)
    BY DEF Run, Onward
  <2> QED
    BY <2>1, <2>2, PlaceNames
<1>8. main'.at # "ext" /\ main'.at \notin {"quarter", "make"}
  BY <1>7
<1> QED
  BY <1>3, <1>4, <1>5, <1>6, <1>8, PStand

LEMMA PNext ==
    ASSUME TInv(0), PInv, TSteps(0)
    PROVE  PInv'
  BY PBlock, PRealign, PSimulate, PIdle, PToggle, PRestart, PSource, PRun DEF TSteps, MainStep

LEMMA PStarts == ASSUME Init PROVE PInv
<1>1. /\ clk.running = TRUE /\ clk.ext = FALSE /\ grid.pulse = 0 /\ main.at = "idle" /\ main.op = "none"
      /\ span = NoSpan
  BY DEF Init
<1>2. (\A q \in span.paid : PaidUp(q)) /\ ~span.open
  BY <1>1 DEF NoSpan
<1>3. main.at \notin Zeroed /\ main.at # "ext" /\ main.at \notin {"quarter", "make"}
  BY <1>1 DEF Zeroed, Switching, Again
<1> QED
  BY <1>1, <1>2, <1>3, Zenon DEF PInv

-----------------------------------------------------------------------------
(* Both settings.                                                          *)

Settled(s) ==
    /\ s \in {"counting", "switching"}
    /\ s = "counting" => TInv(0) /\ KInv /\ PInv
    /\ s = "switching" => TInv(Preempt)

\* No block falls into an operation of the main loop that is counted in one step.
LEMMA UninterruptedIs == ASSUME TInv(0), Uninterrupted PROVE TSteps(0)
<1>1. CASE AnyBlock
  <2>1. PICK start \in BOOLEAN, high \in BOOLEAN, n \in 0 .. 1 : Block(start, high, n)
    BY <1>1 DEF AnyBlock
  <2>2. Effect(start, high, n)
    BY <2>1 DEF Block, Effect
  <2>3. main.at = "idle"
    <3>1. /\ main \in [at : Places, op : {"none", "toggle", "reset"}, slips : 0 .. 0]
          /\ main'.slips = 0
      BY DEF TInv, Uninterrupted
    <3>2. main.at # "idle" => main' = [main EXCEPT !.slips = @ + 1]
      BY <2>1 DEF Block
    <3> QED
      BY <3>1, <3>2
  <2>4. Blocks(0)
    BY <2>2, <2>3 DEF Blocks
  <2> QED
    BY <2>4 DEF TSteps
<1> QED
  BY <1>1 DEF Uninterrupted, Next, TSteps

LEMMA InterruptedIs == ASSUME Interrupted PROVE TSteps(Preempt)
<1>1. CASE \E n \in 0 .. 1 : BlockFor(n)
  <2>1. PICK n \in 0 .. 1, high \in BOOLEAN : Block(FALSE, high, n)
    BY <1>1 DEF BlockFor
  <2>2. FALSE \in BOOLEAN /\ Effect(FALSE, high, n) /\ (main.at # "idle" => main.slips < Preempt)
    BY <2>1 DEF Block, Effect
  <2>3. Blocks(Preempt)
    BY <2>2 DEF Blocks
  <2> QED
    BY <2>3 DEF TSteps
<1> QED
  BY <1>1 DEF Interrupted, TSteps

LEMMA TStutters == ASSUME NEW p \in 0 .. 1, TInv(p), UNCHANGED vars PROVE TInv(p)'
<1>1. UNCHANGED <<clk, grid, source, since, level, main, heard, span>>
  BY DEF vars
<1>2. InTime(clk)' <=> InTime(clk)
  BY <1>1 DEF InTime
<1> QED
  BY <1>1, <1>2 DEF TInv

LEMMA KStutters == ASSUME KInv, UNCHANGED vars PROVE KInv'
<1>1. UNCHANGED <<grid, main, heard>>
  BY DEF vars
<1>2. GridSound(grid)' <=> GridSound(grid)
  BY <1>1 DEF GridSound
<1> QED
  BY <1>1, <1>2 DEF KInv

LEMMA PStutters == ASSUME PInv, UNCHANGED vars PROVE PInv'
  BY Zenon DEF PInv, vars

LEMMA SettledKept ==
    ASSUME Preempt \in 0 .. 1, Settled(setting), [MCNext]_MCVars
    PROVE  Settled(setting)'
<1>1. UNCHANGED setting /\ setting \in {"counting", "switching"}
  BY DEF MCNext, MCVars, Settled
<1>2. CASE setting = "counting"
  <2>1. TInv(0) /\ KInv /\ PInv
    BY <1>2 DEF Settled
  <2>2. CASE UNCHANGED vars
    BY <1>1, <1>2, <2>1, <2>2, TStutters, KStutters, PStutters DEF Settled
  <2>3. CASE ~UNCHANGED vars
    <3>1. Uninterrupted
      BY <1>2, <2>3 DEF MCNext, MCVars, Counting, Switches
    <3>2. TSteps(0)
      BY <2>1, <3>1, UninterruptedIs
    <3> QED
      BY <1>1, <1>2, <2>1, <3>2, TNext, KNext, PNext DEF Settled
  <2> QED
    BY <2>2, <2>3
<1>3. CASE setting = "switching"
  <2>1. TInv(Preempt)
    BY <1>3 DEF Settled
  <2>2. CASE UNCHANGED vars
    BY <1>1, <1>3, <2>1, <2>2, TStutters DEF Settled
  <2>3. CASE ~UNCHANGED vars
    <3>1. Interrupted
      BY <1>3, <2>3 DEF MCNext, MCVars, Counting, Switches
    <3> QED
      BY <1>1, <1>3, <2>1, <3>1, InterruptedIs, TNext DEF Settled
  <2> QED
    BY <2>2, <2>3
<1> QED
  BY <1>1, <1>2, <1>3

LEMMA AlwaysSettled == ASSUME Preempt \in 0 .. 1 PROVE MCSpec => []Settled(setting)
<1>1. MCInit => Settled(setting)
  <2> SUFFICES ASSUME MCInit PROVE Settled(setting)
    OBVIOUS
  <2>1. Init /\ setting \in {"counting", "switching"}
    BY DEF MCInit
  <2> QED
    BY <2>1, TStarts, KStarts, PStarts DEF Settled
<1>2. Settled(setting) /\ [MCNext]_MCVars => Settled(setting)'
  <2> SUFFICES ASSUME Settled(setting), [MCNext]_MCVars PROVE Settled(setting)'
    OBVIOUS
  <2>1. UNCHANGED setting
    BY DEF MCNext, MCVars
  <2> QED
    BY <2>1, SettledKept DEF Settled
<1> QED
  BY <1>1, <1>2, PTL DEF MCSpec

-----------------------------------------------------------------------------
(* What follows.                                                           *)

LEMMA TypesHold == ASSUME Preempt \in 0 .. 1, NEW p \in 0 .. Preempt, TInv(p) PROVE TypeOK
<1>1. clk \in Clocks /\ grid \in Grids /\ main.slips \in 0 .. Preempt
  BY DEF TInv
<1>2. clk \in [running : BOOLEAN, armed : BOOLEAN, ext : BOOLEAN, hold : BOOLEAN,
               ahead : 0 .. PPQN - 1, tpc : {TicksPerClock(s) : s \in Source}]
  BY <1>1 DEF Clocks, Worths
<1>3. /\ grid \in [pulse : 0 .. Bar - 1, count : 0 .. Quarters * Resolution - 1,
                   next : {PerTrigger * k : k \in 0 .. Quarters * Resolution - 1},
                   key : 0 .. 16 * Resolution, quarter : 0 .. Resolution,
                   isKey : BOOLEAN, send : BOOLEAN, interval : KeyIntervals,
                   fresh : BOOLEAN, settled : BOOLEAN]
      /\ \E k \in KeyIntervals : grid.key <= k
  BY <1>1 DEF Grids, Counts
<1> QED
  BY <1>1, <1>2, <1>3 DEF TypeOK, TInv

LEMMA PulsesHold == ASSUME TInv(0), PInv PROVE ArmedOrRunning /\ PulsesArePaid /\ PulsesOnGrid
<1>1. ArmedOrRunning
  BY DEF PInv, ArmedOrRunning
<1>2. PulsesArePaid
  BY DEF PInv, PulsesArePaid, PaidUp
<1>3. ASSUME main.at = "idle", span.open
      PROVE  (grid.pulse - span.ticks) % clk.tpc = 1
  <2>1. main.op # "toggle" /\ main.at \notin Again /\ main.at \notin Zeroed /\ main.at # "ext"
    BY <1>3 DEF TInv, Idle, Again, Zeroed, Switching
  <2>2. clk.ext /\ clk.running
    BY <1>3, <2>1, Zenon DEF PInv
  <2>3. clk.tpc \in OuterWorths /\ span.ticks = clk.ahead
    BY <2>1, <2>2, Zenon DEF PInv
  <2>4. \E q \in Int : grid.pulse = clk.ahead + 1 + clk.tpc * q
    BY <2>1, <2>2, Zenon DEF PInv
  <2>5. PICK q \in Int : grid.pulse = clk.ahead + 1 + clk.tpc * q
    BY <2>4
  <2>6. clk.ahead \in Nat /\ clk.tpc \in Nat /\ clk.tpc * q \in Int
    BY ClockFields DEF TInv
  <2>7. grid.pulse - span.ticks = 1 + clk.tpc * q
    BY <2>3, <2>5, <2>6
  <2> QED
    BY <2>3, <2>7, OneMore
<1> QED
  BY <1>1, <1>2, <1>3 DEF PulsesOnGrid

(* The clock keeps its types, and between two operations of the main loop  *)
(* an external clock that waits for its first pulse does not run: for any  *)
(* resolution, inputs, bar and key intervals.  Two blocks cannot fall into *)
(* one operation: it takes microseconds, and they come 2 ms apart.         *)
THEOREM ClockIsConsistent == ASSUME Preempt \in 0 .. 1 PROVE MCSpec => []ClockConsistent
<1>1. Settled(setting) => ClockConsistent
  <2> SUFFICES ASSUME Settled(setting) PROVE ClockConsistent
    OBVIOUS
  <2>1. 0 \in 0 .. Preempt /\ Preempt \in 0 .. Preempt
    OBVIOUS
  <2> QED
    BY <2>1, TypesHold, PulsesHold DEF Settled, ClockConsistent
<1> QED
  BY <1>1, AlwaysSettled, PTL

(* A key interval of a quarter or more puts its keys on quarters, and the  *)
(* first tick after a realignment or a second of silence is both.          *)
THEOREM KeysAreOnQuarters == ASSUME Preempt \in 0 .. 1 PROVE MCSpec => []KeysFallOnQuarters
<1>1. KInv => KeysOnQuarters /\ FirstIsKey
  BY DEF KInv, EntrySound, KeysOnQuarters, FirstIsKey
<1>2. Settled(setting) => KeysFallOnQuarters
  BY <1>1 DEF Settled, KeysFallOnQuarters
<1> QED
  BY <1>2, AlwaysSettled, PTL

(* Between two pulses of an external clock the timeline advances by the    *)
(* ticks of a pulse, half of them go out as MIDI clock, and the pulses     *)
(* stay on the grid of the bar.                                            *)
THEOREM PulsesAreCounted == ASSUME Preempt \in 0 .. 1 PROVE MCSpec => []PulsesCount
<1>1. Settled(setting) => PulsesCount
  BY PulsesHold DEF Settled, PulsesCount
<1> QED
  BY <1>1, AlwaysSettled, PTL

-----------------------------------------------------------------------------
(* SynClock.  The counts alone are not inductive: what a                   *)
(* pulse measures is right because the ticks counted for the tempo and     *)
(* their rest are the time since the last pulse.                           *)

GhostType ==
    /\ given \in Nat \cup {-1} /\ owed \in Nat \cup {-1} /\ lag \in Int

\* An external clock that is waited for finds the counters at zero.
ArmedAtZero == ext /\ armed => /\ ~running /\ ~hold
                               /\ ticks = 0 /\ last = 0 /\ fticks = 0 /\ tempoTicks = 0

\* The calls of _on_tick since the last pulse are the ticks since that pulse.
GivenAreTicks == ext /\ given >= 0 => given = ticks - last

\* Time since the last pulse, in the units of _fticks; a kick-off has one block more.
Elapsed == tempoTicks * tempo + fticks
ElapsedMeasured == ext /\ given >= 0 => Elapsed \in {gap * C!TrTime, (gap + 1) * C!TrTime}

\* Only a pulse leaves something owed, and a clock that stands is owed nothing.
NothingOwedAtRest == ~running => owed = -1

\* On the internal clock what is not yet given is the rest of the last block.
LagIsRest == BlockTime = Interval /\ ~ext => lag = fticks

FreeNeverHeld == ~ext => ~hold

SInv == /\ C!TypeOK /\ C!AheadBounded /\ C!OneCount /\ C!ExactPerPulse
        /\ GhostType /\ ArmedAtZero /\ GivenAreTicks /\ ElapsedMeasured
        /\ NothingOwedAtRest /\ LagIsRest /\ FreeNeverHeld
-----------------------------------------------------------------------------
(* Arithmetic.                                                             *)

LEMMA ClockConstants ==
    /\ {PPQNOut, Interval, BlockTime, Thresh, MaxGap} \subseteq Nat \ {0}
    /\ PPQNIns \subseteq Nat \ {0}
    /\ \A p \in PPQNIns : PPQNOut % p = 0 /\ PPQNOut \div p >= 2
    /\ Tempos \subseteq Nat /\ Tempos # {} /\ 0 \notin Tempos
  BY ClockParameters DEF C!SynClockAssumption


LEMMA DivUnique ==
    ASSUME NEW q \in Nat, NEW b \in Nat \ {0}
    PROVE  (b * q) \div b = q
  OBVIOUS

LEMMA TrTimeIs == C!TrTime \in Nat \ {0} /\ C!TrTime = PPQNOut * Interval
  <1>1. \A a, b \in Nat \ {0} : a * b \in Nat \ {0}
    OBVIOUS
  <1> QED
    BY <1>1, ClockConstants DEF C!TrTime

LEMMA PulseWorth ==
    ASSUME NEW p \in PPQNIns
    PROVE  p \in Nat \ {0} /\ PPQNOut \div p \in Nat /\ PPQNOut \div p >= 2
  BY DivMod, ClockConstants

LEMMA WorthAndRest ==
    ASSUME NEW f \in Nat, tempo \in Nat \ {0}
    PROVE  /\ C!Worth(f) \in Nat /\ C!Rest(f) \in 0 .. tempo - 1
           /\ f + C!TrTime = tempo * C!Worth(f) + C!Rest(f)
  <1>1. f + C!TrTime \in Nat
    BY TrTimeIs
  <1> QED
    BY <1>1, DivMod DEF C!Worth, C!Rest

\* A block more, in ticks and rest.
LEMMA ElapsedPlus ==
    ASSUME NEW f \in Nat, NEW t \in Nat, tempo \in Nat \ {0}
    PROVE  (t + C!Worth(f)) * tempo + C!Rest(f) = t * tempo + f + C!TrTime
  <1>1. \A w \in Nat : (t + w) * tempo = t * tempo + tempo * w
    OBVIOUS
  <1>2. t * tempo \in Nat /\ tempo * C!Worth(f) \in Nat
    BY WorthAndRest
  <1> QED
    BY <1>1, <1>2, WorthAndRest, TrTimeIs

\* What a tempo moves to, when `q` is the measured time of a tick: towards q * p
\* and not beyond.
LEMMA TowardsMeasured ==
    ASSUME NEW t \in Nat \ {0}, NEW p \in Nat \ {0}, NEW q \in Nat \ {0}
    PROVE  LET u == t + q - t \div p
           IN  /\ u \in Nat \ {0}
               /\ t <= q * p => u \in t .. q * p
               /\ t >= q * p => u \in q * p .. t
  <1> DEFINE e == t \div p
             r == t % p
  <1>1. e \in Nat /\ r \in 0 .. p - 1 /\ t = p * e + r
    BY DivMod
  <1> HIDE DEF e, r
  <1>2. q * p \in Nat /\ p * e \in Nat /\ e <= p * e
    <2>1. \A a, b \in Nat : a * b \in Nat
      OBVIOUS
    <2>2. \A a \in Nat : a <= p * a
      OBVIOUS
    <2> QED
      BY <2>1, <2>2, <1>1
  <1>3. CASE q = e
    <2>1. q * p = p * e
      BY <1>1, <1>3
    <2> QED
      BY <1>1, <1>2, <1>3, <2>1 DEF e
  <1>4. CASE q > e
    <2> DEFINE k == q - e
    <2>1. k \in Nat \ {0} /\ q = e + k
      BY <1>1, <1>4
    <2> HIDE DEF k
    <2>2. q * p = p * e + k * p
      BY <2>1, <1>1
    <2>3. k * p \in Nat /\ k + p <= k * p + 1
      <3>1. \A a, b \in Nat : a * b \in Nat
        OBVIOUS
      <3>2. (k - 1) * (p - 1) = k * p - k - p + 1
        BY <2>1
      <3>3. (k - 1) * (p - 1) \in Nat
        BY <3>1, <2>1
      <3> QED
        BY <3>1, <3>2, <3>3, <2>1
    <2> QED
      BY <1>1, <1>2, <2>1, <2>2, <2>3 DEF e
  <1>5. CASE q < e
    <2> DEFINE k == e - q
    <2>1. k \in Nat \ {0} /\ e = q + k
      BY <1>1, <1>5
    <2> HIDE DEF k
    <2>2. p * e = q * p + k * p
      BY <2>1, <1>1
    <2>3. k * p \in Nat /\ k <= k * p
      <3>1. \A a, b \in Nat : a * b \in Nat
        OBVIOUS
      <3>2. \A a \in Nat : a <= a * p
        OBVIOUS
      <3> QED
        BY <3>1, <3>2, <2>1
    <2> QED
      BY <1>1, <1>2, <2>1, <2>2, <2>3 DEF e
  <1> QED
    BY <1>1, <1>3, <1>4, <1>5
-----------------------------------------------------------------------------
(* The branches of _emit_ticks.                                            *)

Counters == [ticks : Nat, last : Nat, fticks : Nat, tempoTicks : Nat, hold : BOOLEAN]

\* What holds of the counters as _emit_ticks finds them, overflown or not.
LEMMA FoundSound ==
    ASSUME SInv
    PROVE  /\ C!Now \in Counters
           /\ ~C!Overflown => C!Now = [ticks |-> ticks, last |-> last, fticks |-> fticks,
                                   tempoTicks |-> tempoTicks, hold |-> hold]
           /\ C!Overflown => /\ C!Now.ticks = 0 /\ C!Now.last = 0 /\ C!Now.fticks = 0
                           /\ C!Now.tempoTicks = 0 /\ ~C!Now.hold
           /\ ext => /\ C!Now.ticks - C!Now.last \in 0 .. perClock - 1
                     /\ IF C!Now.hold THEN /\ C!Now.ticks - C!Now.last = perClock - 1
                                         /\ C!Now.tempoTicks >= C!Now.ticks - C!Now.last
                        ELSE C!Now.tempoTicks = C!Now.ticks - C!Now.last
           /\ ~ext => ~C!Now.hold
           /\ perClock \in Nat /\ perClock >= 2 /\ tempo \in Nat \ {0}
  <1>1. perClock \in Nat /\ perClock >= 2 /\ tempo \in Nat \ {0}
    BY PulseWorth DEF SInv, C!TypeOK
  <1>2. CASE C!Overflown
    BY <1>1, <1>2 DEF C!Now, Counters
  <1>3. CASE ~C!Overflown
    BY <1>1, <1>3 DEF C!Now, Counters, SInv, C!TypeOK, C!AheadBounded, C!OneCount, FreeNeverHeld
  <1> QED
    BY <1>1, <1>2, <1>3

\* What a branch leaves of the counters and the tempo.
CountsRight ==
    /\ {ticks, last, fticks, tempoTicks} \subseteq Nat /\ hold \in BOOLEAN
    /\ tempo \in Nat \ {0}
    /\ given \in Nat \cup {-1} /\ lag \in Int
    /\ C!AheadBounded /\ C!OneCount /\ GivenAreTicks /\ LagIsRest /\ FreeNeverHeld

LEMMA HeldRight ==
    ASSUME SInv, C!Now.hold, C!EmitHeld(C!Now), UNCHANGED C!settings
    PROVE  /\ CountsRight'
           /\ ext /\ given' >= 0 => given = given' /\ Elapsed' = Elapsed + C!TrTime
  <1>1. ext /\ ~C!Overflown /\ hold /\ C!Now = [ticks |-> ticks, last |-> last, fticks |-> fticks,
                                   tempoTicks |-> tempoTicks, hold |-> hold]
    BY FoundSound
  <1>2. C!Worth(fticks) \in Nat /\ C!Rest(fticks) \in Nat
    BY WorthAndRest DEF SInv, C!TypeOK
  <1>3. Elapsed' = Elapsed + C!TrTime
    BY <1>1, ElapsedPlus DEF Elapsed, C!EmitHeld, SInv, C!TypeOK
  <1>4. given' = given
    BY <1>1 DEF C!EmitHeld, C!Given, SInv, GhostType
  <1> QED
    BY <1>1, <1>2, <1>3, <1>4
    DEF C!EmitHeld, CountsRight, C!settings, SInv, C!TypeOK, GhostType, C!AheadBounded, C!OneCount,
        GivenAreTicks, LagIsRest, FreeNeverHeld

LEMMA FreeRight ==
    ASSUME SInv, ~C!Now.hold, NEW kick \in BOOLEAN, C!EmitFree(C!Now, kick), UNCHANGED C!settings,
           ext => (kick <=> armed)
    PROVE  /\ CountsRight'
           /\ ext /\ ~kick /\ given' >= 0 => given >= 0 /\ Elapsed' = Elapsed + C!TrTime
           /\ ext /\ kick /\ given' >= 0 => Elapsed' = C!TrTime
           /\ BlockTime = Interval /\ ~ext => lag' = C!Rest(C!Now.fticks)
  <1> DEFINE n == C!Worth(C!Now.fticks)
             full == C!Full(C!Now, n)
             m == IF full THEN perClock - 1 - (C!Now.ticks - C!Now.last) ELSE n
  <1>1. C!Now \in Counters /\ perClock \in Nat /\ perClock >= 2 /\ tempo \in Nat \ {0}
    BY FoundSound
  <1>2. n \in Nat /\ C!Rest(C!Now.fticks) \in 0 .. tempo - 1
        /\ C!Now.fticks + C!TrTime = tempo * n + C!Rest(C!Now.fticks)
    BY <1>1, WorthAndRest DEF Counters
  <1>3. ext => /\ C!Now.ticks - C!Now.last \in 0 .. perClock - 1
               /\ C!Now.tempoTicks = C!Now.ticks - C!Now.last
    BY FoundSound
  <1>4. m \in Nat /\ (full => ext) /\ (full <=> ext /\ C!Now.tempoTicks + n >= perClock - 1)
    BY <1>1, <1>2, <1>3 DEF C!Full, Counters
  <1>5. /\ ticks' = C!Now.ticks + m /\ last' = C!Now.last
        /\ fticks' = C!Rest(C!Now.fticks)
        /\ tempoTicks' = IF ext THEN C!Now.tempoTicks + n ELSE C!Now.tempoTicks
        /\ hold' = full
        /\ given' = IF ~kick THEN C!Given(m) ELSE IF m = 0 THEN 0 ELSE -1
        /\ lag' = IF ext THEN 0
                  ELSE (IF C!Overflown THEN 0 ELSE lag) + BlockTime * PPQNOut - m * tempo
        /\ tempo' = tempo /\ ext' = ext /\ perClock' = perClock
    BY DEF C!EmitFree, C!settings
  <1>6. C!AheadBounded' /\ C!OneCount' /\ FreeNeverHeld'
    BY <1>1, <1>2, <1>3, <1>4, <1>5 DEF C!AheadBounded, C!OneCount, FreeNeverHeld, Counters
  <1>7. given' \in Nat \cup {-1} /\ GivenAreTicks'
    <2>1. CASE kick
      <3>1. ext => C!Now.ticks = 0 /\ C!Now.last = 0
        BY <2>1, FoundSound DEF SInv, ArmedAtZero
      <3> QED
        BY <1>4, <1>5, <2>1, <3>1 DEF GivenAreTicks
    <2>2. CASE ~kick
      BY <1>1, <1>4, <1>5, <2>2, FoundSound DEF C!Given, GivenAreTicks, Counters, SInv, GhostType
    <2> QED
      BY <2>1, <2>2
  <1>8. lag' \in Int /\ (BlockTime = Interval /\ ~ext => lag' = C!Rest(C!Now.fticks))
    <2>1. m * tempo \in Int /\ BlockTime * PPQNOut \in Int /\ m * tempo = tempo * m
      BY <1>1, <1>4, ClockConstants
    <2>2. ASSUME BlockTime = Interval, ~ext PROVE lag' = C!Rest(C!Now.fticks)
      <3>1. BlockTime * PPQNOut = C!TrTime
        BY <2>2, TrTimeIs, ClockConstants
      <3>2. (IF C!Overflown THEN 0 ELSE lag) = C!Now.fticks
        BY <2>2, FoundSound DEF SInv, LagIsRest
      <3>3. m * tempo = tempo * n /\ tempo * n \in Int
        BY <2>1, <2>2, <1>4
      <3>4. lag' = C!Now.fticks + C!TrTime - tempo * n
        BY <1>5, <2>2, <3>1, <3>2, <3>3
      <3>5. C!Now.fticks \in Nat
        BY <1>1 DEF Counters
      <3> HIDE DEF n, m, full
      <3> QED
        BY <1>2, <3>3, <3>4, <3>5, TrTimeIs
    <2> QED
      BY <1>5, <2>1, <2>2 DEF SInv, GhostType
  <1>9. Elapsed' = IF ext THEN C!Now.tempoTicks * tempo + C!Now.fticks + C!TrTime ELSE Elapsed'
    BY <1>1, <1>5, ElapsedPlus DEF Elapsed, Counters
  <1>10. ext /\ ~kick /\ given' >= 0 => given >= 0 /\ Elapsed' = Elapsed + C!TrTime
    BY <1>1, <1>4, <1>5, <1>9, FoundSound DEF C!Given, Elapsed, SInv, GhostType
  <1>11. ext /\ kick /\ given' >= 0 => Elapsed' = C!TrTime
    <2>1. ext /\ kick => C!Now.tempoTicks = 0 /\ C!Now.fticks = 0
      BY FoundSound DEF SInv, ArmedAtZero
    <2>2. \A t \in Nat : 0 * t = 0
      OBVIOUS
    <2>3. ext /\ kick => C!Now.tempoTicks * tempo = 0
      BY <1>1, <2>1, <2>2
    <2> QED
      BY <1>9, <2>1, <2>3, TrTimeIs
  <1>12. {ticks, last, fticks, tempoTicks}' \subseteq Nat /\ hold' \in BOOLEAN /\ LagIsRest'
    <2>1. hold' \in BOOLEAN
      BY <1>5 DEF C!Full, SInv, C!TypeOK
    <2>2. {ticks, last, fticks, tempoTicks}' \subseteq Nat
      <3> HIDE DEF n, full, m
      <3>1. C!Now.ticks \in Nat /\ C!Now.last \in Nat /\ C!Now.tempoTicks \in Nat
        BY <1>1 DEF Counters
      <3>2. ticks' \in Nat /\ last' \in Nat /\ fticks' \in Nat
        BY <1>2, <1>4, <1>5, <3>1, <1>1
      <3>3. tempoTicks' \in Nat
        BY <1>2, <1>5, <3>1
      <3> QED
        BY <3>2, <3>3
    <2>3. LagIsRest'
      BY <1>5, <1>8 DEF LagIsRest
    <2> QED
      BY <2>1, <2>2, <2>3
  <1> HIDE DEF n, full, m
  <1> QED
    BY <1>1, <1>5, <1>6, <1>7, <1>8, <1>10, <1>11, <1>12 DEF CountsRight
\* A pulse gives what is owed, and the tempo goes towards what was measured.
LEMMA PulseRight ==
    ASSUME SInv, ext, C!EmitPulse([C!Now EXCEPT !.hold = FALSE]), UNCHANGED C!settings
    PROVE  /\ CountsRight' /\ given' = 0 /\ Elapsed' = 0
           /\ owed' \in {-1, perClock}
           /\ owed' >= 0 => C!FollowsPulse
  <1> DEFINE c == [C!Now EXCEPT !.hold = FALSE]
             q == (c.tempoTicks * tempo + c.fticks + C!TrTime) \div PPQNOut
  <1>1. c \in Counters /\ perClock \in Nat /\ perClock >= 2 /\ tempo \in Nat \ {0}
        /\ c.ticks = C!Now.ticks /\ c.last = C!Now.last /\ c.fticks = C!Now.fticks
        /\ c.tempoTicks = C!Now.tempoTicks /\ ~c.hold
        /\ c.ticks - c.last \in 0 .. perClock - 1
    BY FoundSound DEF Counters
  <1>2. C!Owed(c) = perClock - (c.ticks - c.last) /\ C!Owed(c) >= 1 /\ c.ticks + C!Owed(c) = perClock + c.last
    BY <1>1 DEF C!Owed, Counters
  <1>3. ppqnIn \in PPQNIns /\ ppqnIn \in Nat \ {0} /\ PPQNOut \in Nat \ {0} /\ Interval \in Nat \ {0}
    BY PulseWorth, ClockConstants DEF SInv, C!TypeOK
  <1>4. /\ ticks' = perClock + c.last /\ last' = perClock + c.last
        /\ tempo' = tempo + q - tempo \div ppqnIn
        /\ tempoTicks' = 0 /\ fticks' = 0 /\ ~hold' /\ hold' \in BOOLEAN
        /\ owed' = C!Given(C!Owed(c)) /\ given' = 0 /\ lag' = lag
        /\ ext' /\ perClock' = perClock
    BY <1>1, <1>2 DEF C!EmitPulse, C!NewTempo, C!settings
  <1>5. q \in Nat \ {0}
    <2> DEFINE e == c.tempoTicks * tempo + c.fticks
    <2>1. e \in Nat
      <3>1. \A a, b \in Nat : a * b \in Nat
        OBVIOUS
      <3> QED
        BY <1>1, <3>1 DEF Counters
    <2>2. e + C!TrTime \in Nat /\ e + C!TrTime >= PPQNOut
      <3>1. \A a, b \in Nat \ {0} : a * b >= a
        OBVIOUS
      <3> HIDE DEF e
      <3> QED
        BY <1>3, <2>1, <3>1, TrTimeIs
    <2> HIDE DEF e
    <2>3. \A a \in Nat, b \in Nat \ {0} : a >= b => a \div b \in Nat \ {0}
      OBVIOUS
    <2> QED
      BY <1>3, <2>2, <2>3 DEF e
  <1>6. tempo' \in Nat \ {0}
    BY <1>1, <1>3, <1>4, <1>5, TowardsMeasured
  <1>7. CountsRight'
    BY <1>1, <1>4, <1>6
    DEF CountsRight, C!AheadBounded, C!OneCount, GivenAreTicks, LagIsRest, FreeNeverHeld, Counters,
        SInv, GhostType
  <1>8. Elapsed' = 0
    <2>1. \A t \in Nat : 0 * t + 0 = 0
      OBVIOUS
    <2> QED
      BY <1>4, <1>6, <2>1 DEF Elapsed
  <1>9. CASE given < 0 \/ C!Overflown
    BY <1>4, <1>7, <1>8, <1>9 DEF C!Given
  <1>10. CASE given >= 0 /\ ~C!Overflown
    <2>1. owed' = given + C!Owed(c) /\ given = c.ticks - c.last
      BY <1>1, <1>4, <1>10, FoundSound DEF C!Given, SInv, GivenAreTicks
    <2>2. owed' = perClock
      BY <1>1, <1>2, <2>1 DEF Counters
    <2>3. c.tempoTicks * tempo + c.fticks = Elapsed
      BY <1>1, <1>10, FoundSound DEF Elapsed
    <2>4. PICK b \in {gap + 1, gap + 2} : Elapsed + C!TrTime = b * C!TrTime
      <3>1. gap \in Nat /\ Elapsed \in {gap * C!TrTime, (gap + 1) * C!TrTime}
        BY <1>10 DEF SInv, C!TypeOK, ElapsedMeasured
      <3>2. \A g \in Nat : /\ g * C!TrTime + C!TrTime = (g + 1) * C!TrTime
                            /\ (g + 1) * C!TrTime + C!TrTime = (g + 2) * C!TrTime
        BY TrTimeIs
      <3> QED
        BY <3>1, <3>2
    <2>5. b \in Nat \ {0}
      BY <2>4 DEF SInv, C!TypeOK
    <2>6. q = b * Interval
      <3>1. b * C!TrTime = PPQNOut * (b * Interval) /\ b * Interval \in Nat
        <4>1. \A x, y, z \in Nat : x * (y * z) = y * (x * z) /\ x * y \in Nat
          OBVIOUS
        <4> QED
          BY <1>3, <2>5, <4>1, TrTimeIs
      <3>2. q = (PPQNOut * (b * Interval)) \div PPQNOut
        BY <2>3, <2>4, <3>1
      <3> HIDE DEF q
      <3> QED
        BY <1>3, <3>1, <3>2, DivUnique
    <2>7. tempo' = tempo + b * Interval - tempo \div ppqnIn
      BY <1>4, <2>6
    <2>8. b * Interval \in Nat \ {0}
      BY <1>5, <2>6
    <2>9. /\ tempo <= b * Interval * ppqnIn => tempo' \in tempo .. b * Interval * ppqnIn
          /\ tempo >= b * Interval * ppqnIn => tempo' \in b * Interval * ppqnIn .. tempo
      BY <1>1, <1>3, <2>7, <2>8, TowardsMeasured
    <2>10. b * Interval * ppqnIn \in Nat
      <3>1. \A x, y \in Nat : x * y \in Nat
        OBVIOUS
      <3> QED
        BY <1>3, <2>8, <3>1
    <2>11. C!FollowsPulse
      BY <1>1, <2>4, <2>9, <2>10 DEF C!FollowsPulse
    <2> QED
      BY <1>4, <1>7, <1>8, <2>2, <2>11
  <1> QED
    BY <1>9, <1>10 DEF SInv, GhostType
-----------------------------------------------------------------------------
(* The operations.                                                         *)

LEMMA InitPays == C!Init => SInv
  <1> SUFFICES ASSUME C!Init PROVE SInv
    OBVIOUS
  <1>1. perClock \in Nat /\ perClock >= 2
    BY PulseWorth DEF C!Init
  <1>2. C!TypeOK
    <2>1. tempo \in Nat \ {0} /\ manual \in Tempos /\ ppqnIn \in PPQNIns
      BY ClockConstants DEF C!Init
    <2>2. {running, armed, ext, hold} \subseteq BOOLEAN
      BY DEF C!Init
    <2> QED
      BY <2>1, <2>2 DEF C!Init, C!TypeOK
  <1> QED
    BY <1>1, <1>2
    DEF C!Init, SInv, C!AheadBounded, C!OneCount, C!ExactPerPulse, GhostType, ArmedAtZero, GivenAreTicks,
        ElapsedMeasured, NothingOwedAtRest, LagIsRest, FreeNeverHeld

LEMMA PulsePays == ASSUME SInv, C!Pulse PROVE SInv' /\ C!FollowsPulse /\ C!KeepsOwn
  <1>1. /\ ext /\ running' = TRUE /\ armed' = FALSE /\ gap' = 0 /\ ext' = ext /\ UNCHANGED C!settings
        /\ manual' = manual /\ ppqnIn' = ppqnIn /\ perClock' = perClock
    BY DEF C!Pulse, C!settings
  <1>2. C!KeepsOwn
    BY <1>1 DEF C!KeepsOwn
  <1>3. ASSUME CountsRight', owed' \in {-1, perClock}, owed' >= 0 => C!FollowsPulse,
               given' >= 0 => Elapsed' \in {0, C!TrTime}
        PROVE  SInv' /\ C!FollowsPulse
    <2>1. gap' * C!TrTime = 0 /\ (gap' + 1) * C!TrTime = C!TrTime
      BY <1>1, TrTimeIs
    <2>2. ElapsedMeasured'
      BY <1>3, <2>1 DEF ElapsedMeasured, C!TrTime
    <2>3. GhostType' /\ C!ExactPerPulse'
      BY <1>1, <1>3, PulseWorth DEF CountsRight, GhostType, C!ExactPerPulse, SInv, C!TypeOK
    <2>4. C!TypeOK'
      <3>1. {running, armed, ext, hold}' \subseteq BOOLEAN
        BY <1>1, <1>3 DEF CountsRight
      <3>2. {ticks, last, fticks, tempoTicks, gap}' \subseteq Nat
        BY <1>1, <1>3 DEF CountsRight
      <3>3. tempo' \in Nat \ {0} /\ manual' \in Tempos /\ ppqnIn' \in PPQNIns
            /\ perClock' = PPQNOut \div ppqnIn'
        BY <1>1, <1>3 DEF CountsRight, SInv, C!TypeOK
      <3> QED
        BY <3>1, <3>2, <3>3 DEF C!TypeOK
    <2> QED
      BY <1>1, <1>3, <2>2, <2>3, <2>4
      DEF SInv, CountsRight, ArmedAtZero, NothingOwedAtRest, C!FollowsPulse
  <1>4. CASE armed
    <2>1. ~C!Now.hold
      <3>1. ~hold
        BY <1>1, <1>4 DEF SInv, ArmedAtZero
      <3> QED
        BY <3>1, FoundSound
    <2>2. owed' = -1 /\ C!EmitFree(C!Now, TRUE) /\ TRUE \in BOOLEAN
      BY <1>4, <2>1 DEF C!Pulse
    <2>3. CountsRight' /\ (given' >= 0 => Elapsed' = C!TrTime)
      BY <1>1, <1>4, <2>1, <2>2, FreeRight
    <2> QED
      BY <1>2, <1>3, <2>2, <2>3
  <1>5. CASE ~armed
    <2>1. C!EmitPulse([C!Now EXCEPT !.hold = FALSE])
      BY <1>5 DEF C!Pulse
    <2> QED
      BY <1>1, <1>2, <1>3, <2>1, PulseRight
  <1> QED
    BY <1>4, <1>5

LEMMA TickPays == ASSUME SInv, C!TickFree PROVE SInv' /\ C!FollowsPulse /\ (BlockTime = Interval => C!KeepsOwn)
  <1>1. /\ running /\ running' = running /\ armed' = armed /\ ext' = ext /\ owed' = -1
        /\ gap' = IF ext THEN gap + 1 ELSE 0
        /\ manual' = manual /\ ppqnIn' = ppqnIn /\ perClock' = perClock /\ UNCHANGED C!settings
    BY DEF C!TickFree, C!settings
  <1>2. C!FollowsPulse
    BY <1>1 DEF C!FollowsPulse
  <1>3. ext => ~armed
    BY <1>1 DEF SInv, ArmedAtZero
  <1>4. /\ CountsRight'
        /\ ext /\ given' >= 0 => given >= 0 /\ Elapsed' = Elapsed + C!TrTime
        /\ BlockTime = Interval /\ ~ext => lag' = C!Rest(C!Now.fticks)
    <2>1. CASE C!Now.hold
      <3>1. C!EmitHeld(C!Now)
        BY <2>1 DEF C!TickFree
      <3> QED
        BY <1>1, <2>1, <3>1, HeldRight, FoundSound
    <2>2. CASE ~C!Now.hold
      <3>1. C!EmitFree(C!Now, FALSE) /\ FALSE \in BOOLEAN
        BY <2>2 DEF C!TickFree
      <3> QED
        BY <1>1, <1>3, <2>2, <3>1, FreeRight
    <2> QED
      BY <2>1, <2>2
  <1>5. BlockTime = Interval => C!KeepsOwn
    BY <1>1, <1>4, FoundSound, WorthAndRest DEF C!KeepsOwn, Counters
  <1>6. ElapsedMeasured'
    <2>1. \A g \in Nat : /\ g * C!TrTime + C!TrTime = (g + 1) * C!TrTime
                          /\ (g + 1) * C!TrTime + C!TrTime = (g + 1 + 1) * C!TrTime
      BY TrTimeIs
    <2>2. ext /\ given' >= 0 => Elapsed' \in {gap * C!TrTime + C!TrTime, (gap + 1) * C!TrTime + C!TrTime}
      BY <1>4 DEF SInv, ElapsedMeasured
    <2>3. gap \in Nat
      BY DEF SInv, C!TypeOK
    <2> QED
      BY <1>1, <2>1, <2>2, <2>3 DEF ElapsedMeasured, C!TrTime
  <1>7. C!TypeOK' /\ GhostType' /\ C!ExactPerPulse'
    BY <1>1, <1>4 DEF C!TypeOK, GhostType, C!ExactPerPulse, SInv, CountsRight
  <1> QED
    BY <1>1, <1>2, <1>3, <1>4, <1>5, <1>6, <1>7 DEF SInv, CountsRight, ArmedAtZero, NothingOwedAtRest

\* The other operations set the counters to zero, or leave them, and owe nothing.
LEMMA ZeroedRight ==
    ASSUME C!Zeroed, given' = -1, owed' \in Nat \cup {-1}, lag' = 0, gap' = 0,
           running' => ~ext' \/ ~armed', ~running' => owed' = -1,
           {running, armed, ext}' \subseteq BOOLEAN, tempo' \in Nat \ {0}, manual' \in Tempos,
           ppqnIn' \in PPQNIns, perClock' = PPQNOut \div ppqnIn', owed' \in {-1, perClock'}
    PROVE  SInv'
  <1>1. perClock' \in Nat /\ perClock' >= 2
    BY PulseWorth
  <1>2. /\ fticks' = 0 /\ ticks' = 0 /\ last' = 0 /\ tempoTicks' = 0 /\ hold' = FALSE
    BY DEF C!Zeroed
  <1>3. C!TypeOK'
    <2>1. {running, armed, ext, hold}' \subseteq BOOLEAN
      BY <1>2
    <2>2. {ticks, last, fticks, tempoTicks, gap}' \subseteq Nat
      BY <1>2
    <2> QED
      BY <2>1, <2>2 DEF C!TypeOK
  <1>4. C!AheadBounded' /\ C!OneCount' /\ C!ExactPerPulse' /\ GhostType'
    BY <1>1, <1>2 DEF C!AheadBounded, C!OneCount, C!ExactPerPulse, GhostType
  <1>5. ArmedAtZero' /\ GivenAreTicks' /\ ElapsedMeasured' /\ NothingOwedAtRest' /\ LagIsRest' /\ FreeNeverHeld'
    BY <1>2 DEF ArmedAtZero, GivenAreTicks, ElapsedMeasured, NothingOwedAtRest, LagIsRest, FreeNeverHeld
  <1> QED
    BY <1>3, <1>4, <1>5 DEF SInv

LEMMA RestartPays == ASSUME SInv, C!Restart PROVE SInv' /\ owed' = -1
  BY ZeroedRight DEF C!Restart, C!settings, SInv, C!TypeOK

LEMMA RunPays == ASSUME SInv, C!Run PROVE SInv' /\ owed' = -1
  <1>1. owed' = -1
    BY DEF C!Run, SInv, NothingOwedAtRest
  <1>2. C!Zeroed /\ given' = -1 /\ lag' = 0 /\ gap' = 0
    BY DEF C!Run
  <1>3. {running, armed, ext}' \subseteq BOOLEAN /\ (running' => ~ext' \/ ~armed')
    BY DEF C!Run, C!Started, C!settings, SInv, C!TypeOK
  <1>4. /\ tempo' \in Nat \ {0} /\ manual' \in Tempos
        /\ ppqnIn' \in PPQNIns /\ perClock' = PPQNOut \div ppqnIn'
    BY DEF C!Run, C!settings, SInv, C!TypeOK
  <1> QED
    BY <1>1, <1>2, <1>3, <1>4, ZeroedRight

LEMMA SourcePays ==
    ASSUME SInv, NEW p \in PPQNIns, NEW e \in BOOLEAN, C!SetSource(p, e) PROVE SInv' /\ owed' = -1
  <1>1. C!Zeroed /\ given' = -1 /\ lag' = 0 /\ gap' = 0 /\ owed' = -1
    BY DEF C!SetSource
  <1>2. {running, armed, ext}' \subseteq BOOLEAN /\ (running' => ~ext' \/ ~armed')
    BY DEF C!SetSource, SInv, C!TypeOK
  <1>3. /\ tempo' \in Nat \ {0} /\ manual' \in Tempos
        /\ ppqnIn' \in PPQNIns /\ perClock' = PPQNOut \div ppqnIn'
    BY DEF C!SetSource, SInv, C!TypeOK
  <1> QED
    BY <1>1, <1>2, <1>3, ZeroedRight

LEMMA DropoutPays == ASSUME SInv, C!Dropout PROVE SInv' /\ owed' = -1
  <1>1. C!TypeOK'
    <2>1. {running, armed, ext, hold}' \subseteq BOOLEAN
      BY DEF C!Dropout, C!settings, SInv, C!TypeOK
    <2> QED
      BY <2>1 DEF C!Dropout, C!settings, SInv, C!TypeOK
  <1> QED
    BY <1>1
    DEF C!Dropout, C!settings, SInv, C!AheadBounded, C!OneCount, C!ExactPerPulse, GhostType,
        ArmedAtZero, GivenAreTicks, ElapsedMeasured, NothingOwedAtRest, LagIsRest, FreeNeverHeld

LEMMA TempoPays == ASSUME SInv, NEW t \in Tempos, C!SetTempo(t) PROVE SInv' /\ owed' = -1
  <1>1. t \in Nat \ {0}
    BY ClockConstants
  <1> QED
    BY <1>1
    DEF C!SetTempo, SInv, C!TypeOK, C!AheadBounded, C!OneCount, C!ExactPerPulse, GhostType, ArmedAtZero,
        GivenAreTicks, ElapsedMeasured, NothingOwedAtRest, LagIsRest, FreeNeverHeld

LEMMA StutterPays == ASSUME SInv, UNCHANGED C!vars PROVE SInv'
  BY DEF C!vars, SInv, C!TypeOK, C!AheadBounded, C!OneCount, C!ExactPerPulse, GhostType, ArmedAtZero,
     GivenAreTicks, ElapsedMeasured, NothingOwedAtRest, LagIsRest, FreeNeverHeld, Elapsed

LEMMA NextPays ==
    ASSUME SInv, C!Next PROVE SInv' /\ C!FollowsPulse /\ (BlockTime = Interval => C!KeepsOwn)
  <1>1. CASE C!Pulse
    BY <1>1, PulsePays
  <1>2. CASE C!TickFree
    BY <1>2, TickPays
  <1>3. CASE ~C!Pulse /\ ~C!TickFree
    <2>1. SInv' /\ owed' = -1
      BY <1>3, RestartPays, DropoutPays, RunPays, SourcePays, TempoPays DEF C!Next
    <2> QED
      BY <1>3, <2>1 DEF C!FollowsPulse, C!KeepsOwn
  <1> QED
    BY <1>1, <1>2, <1>3

LEMMA AlwaysPays == ClockSpec => []SInv
  <1>1. SInv /\ [C!Next]_(C!vars) => SInv'
    BY NextPays, StutterPays
  <1> QED
    BY <1>1, InitPays, PTL DEF ClockSpec, C!Spec

-----------------------------------------------------------------------------
(* What follows.                                                           *)

(* Between two pulses of an external clock _on_tick is called exactly as   *)
(* often as a pulse has ticks, however early or late the pulse comes, and  *)
(* the timeline is never a pulse ahead nor behind.                         *)
THEOREM ExactlyPaid == ClockSpec => []PulsesPaid
  <1>1. SInv => PulsesPaid
    BY DEF SInv, PulsesPaid, C!PulsesArePaid
  <1> QED
    BY <1>1, AlwaysPays, PTL

(* On every pulse the tempo goes towards the measured interval and never   *)
(* beyond it.                                                              *)
THEOREM TempoFollows == ClockSpec => [][C!FollowsPulse]_(C!vars)
  <1>1. SInv /\ [C!Next]_(C!vars) => [C!FollowsPulse]_(C!vars)
    BY NextPays
  <1> QED
    BY <1>1, AlwaysPays, PTL DEF ClockSpec, C!Spec

(* And the internal clock runs at the tempo it shows, if it is called as   *)
(* often as it was told it would be.                                       *)
THEOREM TempoRight == ASSUME BlockTime = Interval PROVE ClockSpec => TempoIsRight
  <1>1. SInv /\ [C!Next]_(C!vars) => [C!FollowsPulse /\ C!KeepsOwn]_(C!vars)
    BY NextPays
  <1> QED
    BY <1>1, AlwaysPays, PTL DEF ClockSpec, C!Spec, TempoIsRight, C!TempoIsRight
=============================================================================
