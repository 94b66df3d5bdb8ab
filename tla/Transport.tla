------------------------------ MODULE Transport ------------------------------
(***************************************************************************)
(* The platform clock: transport/transport.cpp with the SynClock and the   *)
(* Divider it owns, and CoreUI::tick, which drives it.                     *)
(*                                                                         *)
(* The audio interrupt runs CoreUI::tick once per block of 2 ms (`Block`), *)
(* which steps the clock and counts ticks into sixteenths, quarters and    *)
(* keys.  The main loop changes the source and realigns the grid, store by *)
(* store (`main.at`); `Preempt` blocks may fall between those stores.      *)
(*                                                                         *)
(* Module SynClock has the arithmetic of the tempo.  Here a block is worth *)
(* `n` ticks, and of _ticks, _ticks_at_last_clock and _tempo_ticks only    *)
(* what the clock is ahead of the last pulse is kept (SynClock!OneCount).  *)
(***************************************************************************)
EXTENDS Integers

CONSTANTS PPQN,           \* kPPQNIntern: ticks of a quarter
          Ts4, Midi,      \* pulses of a quarter on the two external inputs
          Resolution,     \* Divider: triggers of a quarter
          Quarters,       \* Divider: quarters of a bar
          KeyIntervals,   \* kKeyIntervals, in triggers
          Recent, Gone,   \* 4 ms and 1 s, in blocks
          Preempt         \* bound: blocks inside one operation of the main loop

Source == {"internal", "ts4", "midi"}
PulsesPerQuarter == [s \in Source |-> CASE s = "internal" -> 1
                                        [] s = "ts4" -> Ts4 [] s = "midi" -> Midi]
TicksPerClock(s) == PPQN \div PulsesPerQuarter[s]
PerTrigger == PPQN \div Resolution
Bar == Quarters * PPQN

ASSUME TransportAssumption ==
    /\ {PPQN, Ts4, Midi, Resolution, Quarters, Recent} \subseteq Nat \ {0}
    /\ PPQN % Ts4 = 0 /\ (PPQN \div Ts4) % 2 = 0
    /\ PPQN % Midi = 0 /\ (PPQN \div Midi) % 2 = 0
    /\ PPQN % Resolution = 0
    /\ KeyIntervals \subseteq {1} \cup {Resolution * k : k \in 1..16}
    /\ Resolution \in KeyIntervals
    /\ Gone \in Nat /\ Gone > Recent
    /\ Preempt \in Nat

VARIABLES clk,     \* SynClock
          grid,    \* Divider, and the counts of keys and quarters
          source,  \* Transport::_source
          since,   \* blocks since _reset_us, up to Gone
          level,   \* clock_state: the clock input in the last block
          main,    \* what the main loop is doing, and the blocks that fell into it
          heard,   \* ghost: the ticks the last block gave to the engine
          span     \* ghost: what was given out since the last pulse, and between
                   \* the two pulses before it

vars == <<clk, grid, source, since, level, main, heard, span>>

NoSpan == [open |-> FALSE, ticks |-> 0, outs |-> 0, paid |-> {}]

Init ==
    /\ clk = [running |-> TRUE, armed |-> FALSE, ext |-> FALSE, hold |-> FALSE,
              ahead |-> 0, tpc |-> TicksPerClock("ts4")]
    /\ grid = [pulse |-> 0, count |-> 0, next |-> 0, key |-> 0, quarter |-> 0,
               isKey |-> FALSE, send |-> FALSE, interval |-> Resolution,
               fresh |-> FALSE, settled |-> FALSE]
    /\ source = "internal" /\ since = 0 /\ level = FALSE
    /\ main = [at |-> "idle", op |-> "none", slips |-> 0]
    /\ heard = {} /\ span = NoSpan

-----------------------------------------------------------------------------
(* SynClock.                                                               *)

\* Mutant: how far the clock is ahead of the last pulse is kept.
ClkResetHold(c) == [c EXCEPT !.hold = FALSE]
ClkReset(c) == [c EXCEPT !.hold = FALSE, !.ahead = 0]
\* Mutant: the internal clock too waits for a pulse.
ClkArmedOnly(c) == [c EXCEPT !.armed = TRUE]
ClkArmed(c) == IF c.ext THEN [c EXCEPT !.armed = TRUE] ELSE [c EXCEPT !.running = TRUE]
ClkRun(c)   == ClkArmed(ClkReset(c))
ClkStop(c)  == [c EXCEPT !.running = FALSE]

-----------------------------------------------------------------------------
(* One tick of the timeline.  r is the grid with the two ghosts.           *)

\* Mutant: the key count is never brought back to the quarters.
OutOfStep(g, key) == FALSE
\* At a quarter: the key count would put the next key between two quarters.
KeyOff(g, key) == g.interval >= Resolution /\ key % Resolution # 0

\* Transport::_on_clock_tick, Divider::tick, _make_key.
OnTick(r, ext) ==
    LET g       == r.grid
        send    == g.send \/ ext
        trigger == g.pulse = g.next
        count   == IF trigger THEN (g.count + 1) % (Quarters * Resolution) ELSE g.count
        ended   == trigger /\ g.key <= 1
        quarter == trigger /\ g.quarter <= 1
        key     == IF ended THEN g.interval ELSE IF trigger THEN g.key - 1 ELSE g.key
        caught  == quarter /\ KeyOff(g, key)
    IN  [grid |->
           [g EXCEPT !.pulse = (@ + 1) % Bar, !.count = count,
                     !.next = IF trigger THEN count * PerTrigger ELSE @,
                     !.key = IF caught THEN g.interval ELSE key,
                     !.quarter = IF quarter THEN Resolution
                                 ELSE IF trigger THEN @ - 1 ELSE @,
                     !.isKey = ended \/ caught, !.send = ~send,
                     !.fresh = FALSE, !.settled = @ \/ quarter],
         heard |-> r.heard \cup
           {[key |-> ended \/ caught, quarter |-> quarter, first |-> g.fresh,
             long |-> g.settled /\ g.interval >= Resolution]},
         span |-> IF ~r.span.open THEN r.span
                  ELSE [r.span EXCEPT !.ticks = @ + 1,
                                      !.outs = IF send THEN @ + 1 ELSE @]]

\* m ticks, the last of them on a pulse if ext.
OnTicks(r, m, ext) ==
    LET f[i \in 0..m] == IF i = 0 THEN r ELSE OnTick(f[i - 1], ext /\ i = m)
    IN  f[m]

\* Ghost: an interval between two pulses ends, or only begins.
Spanned(r, whole, due) ==
    [r EXCEPT !.span = [open |-> TRUE, ticks |-> 0, outs |-> 0,
                        paid |-> IF whole /\ r.span.open
                                 THEN {[ticks |-> r.span.ticks, outs |-> r.span.outs, due |-> due]}
                                 ELSE {}]]

\* Ticks of n that an external clock allows before its next pulse.
FreeTicks(c, n) == IF c.ext /\ c.ahead + n >= c.tpc - 1 THEN c.tpc - 1 - c.ahead ELSE n

\* SynClock::_emit_ticks, the regular mode: n is (_fticks + _tr_time) / _tempo_mks.
EmitFree(c, r, n) ==
    LET m == FreeTicks(c, n)
    IN  IF c.hold THEN [clk |-> c, r |-> r]
        ELSE [clk |-> [c EXCEPT !.hold = c.ext /\ c.ahead + n >= c.tpc - 1,
                                !.ahead = IF c.ext \/ c.ahead + m < c.tpc
                                          THEN @ + m ELSE c.tpc - 1],
              r |-> OnTicks(r, m, FALSE)]

\* ...on the pulse that starts the clock: one call of _on_tick at least.
EmitKickOff(c, r, n) ==
    LET m == FreeTicks(c, n)
    IN  IF c.hold THEN [clk |-> c, r |-> r]
        ELSE [clk |-> [c EXCEPT !.hold = c.ahead + n >= c.tpc - 1, !.ahead = @ + m],
              r |-> Spanned(OnTicks(r, IF m > 0 THEN m ELSE 1, TRUE), FALSE, c.tpc)]

\* ...on any other pulse: the ticks still owed before it.
EmitOwed(c, r) ==
    [clk |-> [c EXCEPT !.ahead = 0],
     r |-> Spanned(OnTicks(r, c.tpc - c.ahead, TRUE), TRUE, c.tpc)]

\* A clock that was not running has just been reset, and a block is worth less
\* than a tick to it.
\* Mutant: it stays armed.
KickedOffArmed(c, r, n) == EmitKickOff([c EXCEPT !.running = TRUE], r, 0)
KickedOff(c, r, n) ==
    EmitKickOff([c EXCEPT !.armed = FALSE, !.running = TRUE], r,
                IF c.running THEN n ELSE 0)

\* Mutant: the hold of the last pulse stays.
ExternalTickHeld(c, r, n) ==
    IF c.armed THEN KickedOff(c, r, n)
    ELSE IF c.running /\ ~c.hold THEN EmitOwed(c, r) ELSE [clk |-> c, r |-> r]
\* SynClock::_external_clock_tick.
ExternalTick(c, r, n) ==
    IF c.armed THEN KickedOff(c, r, n)
    ELSE IF c.running THEN EmitOwed([c EXCEPT !.hold = FALSE], r)
    ELSE [clk |-> c, r |-> r]

\* SynClock::Tick.
ClkTick(c, r, edge, n) ==
    IF c.ext /\ edge THEN ExternalTick(c, r, n)
    ELSE IF c.running THEN EmitFree(c, r, n)
    ELSE [clk |-> c, r |-> r]

-----------------------------------------------------------------------------
(* Transport::_divider_reset_counts and reset, run without interruption.   *)

Realigned(g) ==
    [g EXCEPT !.key = 0, !.quarter = 0, !.pulse = 0, !.count = 0, !.next = 0,
              !.fresh = TRUE]

\* Mutant: one trigger more than the interval.
MadeKeyLate(g) == [g EXCEPT !.key = g.interval + 1, !.isKey = TRUE, !.fresh = FALSE]
MadeKey(g) == [g EXCEPT !.key = g.interval, !.isKey = TRUE, !.fresh = FALSE]

\* Mutant: the clock goes on where it is.
RestartedNot(c) == c
Restarted(c) == IF c.running THEN ClkRun(ClkStop(c)) ELSE c

Unspanned(r) == [r EXCEPT !.span = NoSpan]

\* reset, from the interrupt: MIDI Start or Continue.
MidiStart(c, r, blocks) ==
    IF source = "internal" THEN [clk |-> c, r |-> r]
    ELSE IF blocks >= Recent
         THEN [clk |-> Restarted(c),
               r |-> LET s == [r EXCEPT !.grid = Realigned(@)]
                     IN  IF c.running THEN Unspanned(s) ELSE s]
    ELSE [clk |-> c,
          r |-> IF r.grid.isKey THEN r
                ELSE [r EXCEPT !.grid = MadeKey([@ EXCEPT !.quarter = Resolution])]]

\* Mutant: a clock that is gone goes on waiting in its hold.
TickWhileGone(c, r, edge, blocks, n) ==
    IF edge THEN ClkTick(IF c.running THEN c ELSE ClkRun(c), r, TRUE, n)
    ELSE ClkTick(c, r, FALSE, n)
\* Transport::tick.
Tick(c, r, edge, blocks, n) ==
    IF edge
    THEN ClkTick(IF c.running THEN c ELSE ClkRun(c), r, TRUE, n)
    ELSE IF c.ext /\ blocks >= Gone
    THEN IF c.running
         THEN [clk |-> ClkStop(c), r |-> Unspanned([r EXCEPT !.grid = Realigned(@)])]
         ELSE [clk |-> c, r |-> r]
    ELSE ClkTick(c, r, FALSE, n)

-----------------------------------------------------------------------------
(* The audio interrupt: CoreUI::tick.                                      *)

Block(start, high, n) ==
    /\ main.at # "idle" => main.slips < Preempt
    /\ high => source # "internal"
    /\ LET edge   == high /\ ~level
           blocks == IF since < Gone THEN since + 1 ELSE since
           quiet  == clk.ext /\ clk.running /\ blocks = Gone /\ ~edge
           silent == [grid |-> [grid EXCEPT !.fresh = @ \/ quiet], heard |-> {}, span |-> [span EXCEPT !.paid = {}]]
           begun  == IF start THEN MidiStart(clk, silent, blocks)
                     ELSE [clk |-> clk, r |-> silent]
           ticked == Tick(begun.clk, begun.r, edge, blocks, n)
       IN  /\ clk' = ticked.clk /\ grid' = ticked.r.grid
           /\ heard' = ticked.r.heard /\ span' = ticked.r.span
           /\ since' = IF edge THEN 0 ELSE blocks
    /\ level' = high
    /\ main' = IF main.at = "idle" THEN main ELSE [main EXCEPT !.slips = @ + 1]
    /\ UNCHANGED source

-----------------------------------------------------------------------------
(* The main loop.                                                          *)

Idle == [at |-> "idle", op |-> "none", slips |-> 0]
Goes(place) == main' = IF place = "idle" THEN Idle ELSE [main EXCEPT !.at = place]

\* Alt+Tap: toggle_source.
ToggleSource ==
    /\ main.at = "idle"
    /\ main' = [main EXCEPT !.at = "keys", !.op = "toggle"]
    /\ clk' = ClkStop(clk)
    /\ UNCHANGED <<grid, source, since, level, heard, span>>

\* Tap held, and Seq: reset.
Reset ==
    /\ main.at = "idle" /\ source # "internal"
    /\ \/ /\ since >= Recent
          /\ main' = [main EXCEPT !.at = "keys", !.op = "reset"]
       \/ /\ since < Recent /\ ~grid.isKey
          /\ main' = [main EXCEPT !.at = "quarter", !.op = "reset"]
    /\ UNCHANGED <<clk, grid, source, since, level, heard, span>>

\* The stores of _divider_reset_counts and of Divider::reset, in their order.
Realign ==
    /\ \/ main.at = "keys" /\ Goes("quarters") /\ grid' = [grid EXCEPT !.key = 0]
       \/ main.at = "quarters" /\ Goes("pulse") /\ grid' = [grid EXCEPT !.quarter = 0]
       \/ main.at = "pulse" /\ Goes("count") /\ grid' = [grid EXCEPT !.pulse = 0]
       \/ main.at = "count" /\ Goes("next") /\ grid' = [grid EXCEPT !.count = 0]
       \/ /\ main.at = "next" /\ Goes("restart")
          /\ grid' = [grid EXCEPT !.next = 0, !.fresh = TRUE]
    /\ UNCHANGED <<clk, source, since, level, heard, span>>

\* if (IsRunning()) { Stop(); Run(); }, and what follows it.
Onward == IF main.op = "toggle" THEN "source" ELSE "idle"

Restart ==
    /\ main.at = "restart"
    /\ IF clk.running THEN clk' = ClkStop(clk) /\ Goes("rerun")
                      ELSE UNCHANGED clk /\ Goes(Onward)
    /\ UNCHANGED <<grid, source, since, level, heard, span>>

\* The branch that simulates a key.
SimulateKey ==
    /\ \/ /\ main.at = "quarter" /\ Goes("make")
          /\ grid' = [grid EXCEPT !.quarter = Resolution]
       \/ main.at = "make" /\ Goes("idle") /\ grid' = MadeKey(grid)
    /\ UNCHANGED <<clk, source, since, level, heard, span>>

NextSource == [s \in Source |-> CASE s = "internal" -> "ts4"
                                  [] s = "ts4" -> "midi" [] s = "midi" -> "internal"]

SetSource ==
    /\ main.at = "source"
    /\ source' = NextSource[source]
    /\ Goes("ppqn")
    /\ UNCHANGED <<clk, grid, since, level, heard, span>>

SetPPQNIn ==
    /\ main.at = "ppqn"
    /\ clk' = [clk EXCEPT !.tpc = TicksPerClock(source)]
    /\ Goes("ext")
    /\ UNCHANGED <<grid, source, since, level, heard, span>>

SetExternalClock ==
    /\ main.at = "ext"
    /\ clk' = [clk EXCEPT !.ext = source # "internal"]
    /\ Goes("since")
    /\ UNCHANGED <<grid, source, since, level, heard, span>>

ArmDropout ==
    /\ main.at = "since"
    /\ since' = 0
    /\ Goes("run")
    /\ UNCHANGED <<clk, grid, source, level, heard, span>>

\* Run: the counters of the clock, and then the flag that starts it.
Run ==
    /\ \/ /\ \/ main.at = "run" /\ Goes("flag")
             \/ main.at = "rerun" /\ Goes("reflag")
          /\ clk' = ClkReset(clk)
       \/ /\ \/ main.at = "flag" /\ Goes("idle")
             \/ main.at = "reflag" /\ Goes(Onward)
          /\ clk' = ClkArmed(clk)
    /\ span' = NoSpan
    /\ UNCHANGED <<grid, source, since, level, heard>>

\* Tap held, and Mix: set_key_tick_interval_norm.
TurnKeyInterval(k) ==
    /\ main.at = "idle" /\ k # grid.interval
    /\ grid' = [grid EXCEPT !.interval = k, !.settled = FALSE]
    /\ UNCHANGED <<clk, source, since, level, main, heard, span>>

MainStep == \/ Realign \/ Restart \/ SimulateKey \/ SetSource \/ SetPPQNIn
            \/ SetExternalClock \/ ArmDropout \/ Run

AnyBlock == \E start, high \in BOOLEAN, n \in 0..1 : Block(start, high, n)

Next ==
    \/ AnyBlock
    \/ ToggleSource \/ Reset \/ MainStep
    \/ \E k \in KeyIntervals : TurnKeyInterval(k)

Spec == Init /\ [][Next]_vars

\* The codec goes on asking for blocks, of which one now and then is worth a
\* tick, and the main loop finishes what it has begun.
FairSpec ==
    /\ Spec
    /\ WF_vars(MainStep)
    /\ WF_vars(\E start, high \in BOOLEAN : Block(start, high, 1))

-----------------------------------------------------------------------------
(* Properties.                                                             *)

TypeOK ==
    /\ clk \in [running : BOOLEAN, armed : BOOLEAN, ext : BOOLEAN, hold : BOOLEAN,
                ahead : 0..(PPQN - 1), tpc : {TicksPerClock(s) : s \in Source}]
    /\ grid \in [pulse : 0..(Bar - 1), count : 0..(Quarters * Resolution - 1),
                 next : {PerTrigger * k : k \in 0..(Quarters * Resolution - 1)},
                 key : 0..(16 * Resolution), quarter : 0..Resolution,
                 isKey : BOOLEAN, send : BOOLEAN, interval : KeyIntervals,
                 fresh : BOOLEAN, settled : BOOLEAN]
    /\ source \in Source /\ since \in 0..Gone /\ level \in BOOLEAN
    /\ main.slips \in 0..Preempt
    /\ \E k \in KeyIntervals : grid.key <= k

\* After a realignment, and after a second without a pulse, the next tick is a
\* key and a quarter (the comments at transport.cpp:94 and :181).
FirstIsKey == \A e \in heard : e.first => e.key /\ e.quarter

\* A key interval of a quarter or more that the player has left alone for a quarter
\* puts its keys on quarters only, whatever it was before and whenever the grid was
\* realigned (transport.cpp:150).
KeysOnQuarters == \A e \in heard : e.long /\ e.key => e.quarter

\* Between two pulses the timeline advances by exactly the ticks of a pulse, however
\* late the second comes, and half of them go out as MIDI clock.
PulsesArePaid ==
    \A p \in span.paid : p.ticks = p.due /\ 2 * p.outs = p.due

\* While an external clock runs, its pulses fall on the bar's grid: the Divider, which
\* knows nothing of pulses, is as far from its last downbeat as the ticks given out.
PulsesOnGrid ==
    main.at = "idle" /\ span.open => (grid.pulse - span.ticks) % clk.tpc = 1

\* Once the counts and the Divider are reset, and until the next tick, that tick is
\* going to be the key (transport.cpp:181).
NextWillBeKey ==
    main.at = "idle" /\ grid.fresh =>
        grid.pulse = grid.next /\ grid.key <= 1 /\ grid.quarter <= 1

\* A step of the main loop never leaves an external clock both armed and running, so
\* no pulse is taken for a first one, and one that is gone stops rather than holds.
ArmedOrRunning ==
    main.at = "idle" /\ clk.ext => ~(clk.armed /\ clk.running)

\* On an external clock that keeps pulsing the engine goes on hearing ticks, however
\* the source was switched: no hold, arming or dropout is for ever.
PulsesAreHeard ==
    []<>level /\ []<>~level /\ <>[](source # "internal") => []<>(heard # {})

\* Back on the internal clock the timeline runs by itself.
InternalClockRuns == <>[](source = "internal") => []<>(heard # {})
=============================================================================
