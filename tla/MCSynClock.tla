----------------------------- MODULE MCSynClock -----------------------------
(***************************************************************************)
(* SynClock for TLC: two clocks from outside, and two tempi that are no    *)
(* multiple of a block.  Its constants have names here that Transport's do *)
(* not have, so that one module can speak of both.                         *)
(***************************************************************************)
EXTENDS Integers

CONSTANTS PPQNOut, Interval, BlockTime, PPQNIns, Tempos, Thresh, MaxGap

VARIABLES running, armed, ext, hold, ticks, last, fticks, tempoTicks, tempo, manual,
          ppqnIn, perClock, gap, given, owed, lag

C == INSTANCE SynClock WITH PPQN <- PPQNOut, Block <- BlockTime

ASSUME ClockParameters == C!SynClockAssumption

BothClocks == {2, 4}
TwoTempi == {PPQNOut * Interval + 1, 2 * PPQNOut * Interval + 3}

ClockSpec == C!Spec

-----------------------------------------------------------------------------
(* The properties of SynClock.                                             *)

\* The pulses and the timeline stay within a pulse of each other, and each
\* pulse is paid for exactly, early or late as it may come (PulsesArePaid).
PulsesPaid == C!PulsesArePaid

\* On whichever clock, the tempo is the right one (TempoIsRight).
TempoIsRight == C!TempoIsRight
=============================================================================
