------------------------------- MODULE SynClock -------------------------------
(***************************************************************************)
(* transport/synclock.{h,cpp}: the ticks and the tempo of the clock, in    *)
(* the integers of the code.  Its caller, Transport, runs every operation  *)
(* here to its end (what happens when it does not is Transport's subject). *)
(*                                                                         *)
(* Times are in units of the update interval that Init is told; a block    *)
(* really takes Block of them.                                             *)
(***************************************************************************)
EXTENDS Integers

CONSTANTS PPQN,       \* _ppqn_out
          Interval,   \* Init's update_interval_mks
          Block,      \* the time from one call of Tick to the next
          PPQNIns,    \* the clocks that SetPPQNIn is given
          Tempos,     \* tempi of the internal clock, in time per quarter
          Thresh,     \* kOverflowThresh
          MaxGap      \* bound: blocks between two pulses (Transport's one second)

TrTime == PPQN * Interval

\* What is assumed of the constants, by whoever gives them values.
SynClockAssumption ==
    /\ {PPQN, Interval, Block, Thresh, MaxGap} \subseteq Nat \ {0}
    /\ PPQNIns \subseteq Nat \ {0}
    /\ \A p \in PPQNIns : PPQN % p = 0 /\ PPQN \div p >= 2
    /\ Tempos \subseteq Nat /\ Tempos # {} /\ 0 \notin Tempos

VARIABLES running, armed,   \* _is_running, _is_about_to_run
          ext, hold,        \* _external_clock, _hold
          ticks, last,      \* _ticks, _ticks_at_last_clock
          fticks,           \* _fticks
          tempoTicks,       \* _tempo_ticks
          tempo, manual,    \* _tempo_mks, and the tempo SetTempo was given last
          ppqnIn, perClock, \* _ppqn_in, _ticks_per_clock
          gap,              \* blocks since the last pulse
          given,            \* ghost: calls of _on_tick since that pulse, if none of
                            \* the counters was reset since: else -1
          owed,             \* ghost: what `given` was when the last pulse came
          lag               \* ghost: the real time, times PPQN, not yet given as ticks

vars == <<running, armed, ext, hold, ticks, last, fticks, tempoTicks, tempo, manual,
          ppqnIn, perClock, gap, given, owed, lag>>
settings == <<ext, ppqnIn, perClock, manual>>

Init ==
    /\ running = TRUE /\ armed = FALSE /\ ext = FALSE /\ hold = FALSE
    /\ ticks = 0 /\ last = 0 /\ fticks = 0 /\ tempoTicks = 0
    /\ tempo \in Tempos /\ manual = tempo
    /\ ppqnIn \in PPQNIns /\ perClock = PPQN \div ppqnIn
    /\ gap = 0 /\ given = -1 /\ owed = -1 /\ lag = 0

Overflown == ticks >= Thresh \/ fticks >= Thresh \/ tempoTicks >= Thresh

\* The ticks that a block is worth, and what of it remains.
Worth(f)  == (f + TrTime) \div tempo
\* Mutant: what remains is lost.
RestLost(f) == 0
Rest(f)   == (f + TrTime) % tempo

\* Mutant: the ticks counted for the tempo stay.
ZeroedButTempo == /\ fticks' = 0 /\ ticks' = 0 /\ last' = 0 /\ UNCHANGED tempoTicks
                  /\ hold' = FALSE
\* Reset.
Zeroed == /\ fticks' = 0 /\ ticks' = 0 /\ last' = 0 /\ tempoTicks' = 0
          /\ hold' = FALSE

\* Run.
Started == IF ext' THEN armed' = TRUE /\ UNCHANGED running
                   ELSE running' = TRUE /\ UNCHANGED armed

\* The counters as _emit_ticks finds them.
Now == IF Overflown THEN [ticks |-> 0, last |-> 0, fticks |-> 0, tempoTicks |-> 0,
                          hold |-> FALSE]
       ELSE [ticks |-> ticks, last |-> last, fticks |-> fticks,
             tempoTicks |-> tempoTicks, hold |-> hold]

Given(n) == IF given < 0 \/ Overflown THEN -1 ELSE given + n

-----------------------------------------------------------------------------
(* _emit_ticks, by its three branches.                                     *)

\* The timeline waits; only the tempo is still measured.
EmitHeld(c) ==
    /\ fticks' = Rest(c.fticks) /\ tempoTicks' = c.tempoTicks + Worth(c.fticks)
    /\ ticks' = c.ticks /\ last' = c.last /\ hold' = c.hold
    /\ given' = Given(0)
    /\ UNCHANGED <<tempo, lag>>

\* Mutants: the pulse's own block is not measured; the tempo is not moved but replaced.
NewTempoLate(c) == tempo + (c.tempoTicks * tempo + c.fticks) \div PPQN - tempo \div ppqnIn
NewTempoHasty(c) == (c.tempoTicks * tempo + c.fticks + TrTime) \div PPQN
                     - tempo \div ppqnIn
\* The tempo moves by the difference of the measured interval and the expected.
NewTempo(c) == tempo + (c.tempoTicks * tempo + c.fticks + TrTime) \div PPQN
                     - tempo \div ppqnIn

\* Mutant: one tick short of the pulse.
OwedShort(c) == perClock - 1 - c.ticks + c.last
\* The ticks that are still to come before the pulse.
Owed(c) == perClock - c.ticks + c.last

\* A pulse: what is owed is given, and counting begins anew.
EmitPulse(c) ==
    /\ ticks' = c.ticks + Owed(c) /\ last' = c.ticks + Owed(c)
    /\ tempo' = NewTempo(c)
    /\ tempoTicks' = 0 /\ fticks' = 0 /\ hold' = c.hold
    /\ owed' = Given(IF Owed(c) > 0 THEN Owed(c) ELSE 0) /\ given' = 0
    /\ UNCHANGED lag

\* Mutant: an external clock runs on by itself.
FullNever(c, n) == FALSE
\* Only the pulse itself is left to come.
Full(c, n) == ext /\ c.tempoTicks + n >= perClock - 1

\* The regular mode.  A kick-off calls _on_tick even for no tick at all; that call
\* belongs to the pulse.
EmitFree(c, kickOff) ==
    LET n    == Worth(c.fticks)
        full == Full(c, n)
        m    == IF full THEN perClock - 1 - (c.ticks - c.last) ELSE n
    IN  /\ ticks' = c.ticks + m /\ last' = c.last
        /\ fticks' = Rest(c.fticks)
        /\ tempoTicks' = IF ext THEN c.tempoTicks + n ELSE c.tempoTicks
        /\ hold' = full
        /\ given' = IF ~kickOff THEN Given(m) ELSE IF m = 0 THEN 0 ELSE -1
        /\ lag' = IF ext THEN 0
                  ELSE (IF Overflown THEN 0 ELSE lag) + Block * PPQN - m * tempo
        /\ UNCHANGED tempo

-----------------------------------------------------------------------------
(* The operations.                                                         *)

\* Tick(true): _external_clock_tick.
Pulse ==
    /\ ext /\ (running \/ armed)
    /\ running' = TRUE /\ armed' = FALSE
    /\ gap' = 0
    /\ \/ /\ armed /\ owed' = -1
          /\ IF Now.hold THEN EmitHeld(Now) ELSE EmitFree(Now, TRUE)
       \/ ~armed /\ EmitPulse([Now EXCEPT !.hold = FALSE])
    /\ UNCHANGED settings

\* Tick(false).
TickFree ==
    /\ running
    /\ ext => gap < MaxGap
    /\ gap' = IF ext THEN gap + 1 ELSE 0
    /\ IF Now.hold THEN EmitHeld(Now) ELSE EmitFree(Now, FALSE)
    /\ owed' = -1
    /\ UNCHANGED <<running, armed, settings>>

\* Transport's realignment: Stop and Run, on an external clock.
Restart ==
    /\ running /\ ext
    /\ running' = FALSE /\ armed' = TRUE
    /\ Zeroed /\ gap' = 0 /\ given' = -1 /\ owed' = -1 /\ lag' = 0
    /\ UNCHANGED <<tempo, settings>>

\* A dropout: Stop.
Dropout ==
    /\ running /\ ext /\ gap = MaxGap
    /\ running' = FALSE /\ given' = -1 /\ owed' = -1
    /\ UNCHANGED <<armed, hold, ticks, last, fticks, tempoTicks, tempo, gap, lag, settings>>

\* The first pulse after it: Run, before Tick.
Run ==
    /\ ~running /\ ~armed
    /\ UNCHANGED <<tempo, settings, owed>>
    /\ Zeroed /\ Started /\ gap' = 0 /\ given' = -1 /\ lag' = 0

\* toggle_source: Stop, SetPPQNIn, SetExternalClock and Run.
SetSource(p, e) ==
    /\ ppqnIn' = p /\ perClock' = PPQN \div p /\ ext' = e
    /\ running' = ~e /\ armed' = (armed \/ e)
    /\ Zeroed /\ gap' = 0 /\ given' = -1 /\ owed' = -1 /\ lag' = 0
    /\ UNCHANGED <<tempo, manual>>

\* SetTempo, which is only called on the internal clock.
SetTempo(t) ==
    /\ ~ext /\ t # manual
    /\ tempo' = t /\ manual' = t
    /\ owed' = -1
    /\ UNCHANGED <<running, armed, hold, ticks, last, fticks, tempoTicks, gap, given,
                   lag, ext, ppqnIn, perClock>>

Next == \/ Pulse \/ TickFree \/ Restart \/ Dropout \/ Run
        \/ \E p \in PPQNIns, e \in BOOLEAN : SetSource(p, e)
        \/ \E t \in Tempos : SetTempo(t)

Spec == Init /\ [][Next]_vars

-----------------------------------------------------------------------------
(* Properties.                                                             *)

TypeOK ==
    /\ {running, armed, ext, hold} \subseteq BOOLEAN
    /\ {ticks, last, fticks, tempoTicks, gap} \subseteq Nat
    /\ tempo \in Nat \ {0} /\ manual \in Tempos
    /\ ppqnIn \in PPQNIns /\ perClock = PPQN \div ppqnIn

\* On an external clock the timeline is never a whole pulse ahead of the last one
\* nor behind it, so what is owed on the next is at least one tick (synclock.cpp:120).
AheadBounded == ext => ticks - last \in 0..(perClock - 1)

\* What the tempo counts and what the timeline counts are the same ticks until the
\* hold, which is taken as soon as the next pulse alone is left to come.
OneCount == ext => IF hold THEN ticks - last = perClock - 1 /\ tempoTicks >= ticks - last
                   ELSE tempoTicks = ticks - last

\* Between two pulses _on_tick is called exactly as often as a pulse has ticks
\* (test/test_synclock.cpp:3), early or late as the pulses may come.
ExactPerPulse == owed \in {-1, perClock}

\* The pulses and the timeline stay within a pulse of each other, and each
\* pulse is paid for exactly, early or late as it may come.
PulsesArePaid == TypeOK /\ AheadBounded /\ OneCount /\ ExactPerPulse

\* On a pulse the tempo goes towards the interval that was really measured and never
\* beyond it; the first interval after a kick-off is measured one block too long.
FollowsPulse ==
    owed' >= 0 =>
        \E blocks \in {gap + 1, gap + 2} :
          LET measured == blocks * Interval * ppqnIn
          IN  \/ tempo <= measured /\ tempo' \in tempo..measured
              \/ tempo >= measured /\ tempo' \in measured..tempo

\* On the internal clock the time that a block leaves without a tick is less than a
\* tick: the clock runs at the tempo it shows (docs/manual.md:28).
KeepsOwn == TickFree /\ ~ext => lag' \in 0..(tempo - 1)

\* On whichever clock, the tempo is the right one.
TempoIsRight == [][FollowsPulse /\ KeepsOwn]_vars
=============================================================================
