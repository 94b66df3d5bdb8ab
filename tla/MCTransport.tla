---------------------------- MODULE MCTransport ----------------------------
(***************************************************************************)
(* Transport for TLC, in two settings, each with a part of its steps.      *)
(* "counting": MIDI starts, every key interval, and the main loop's calls  *)
(* in one step.  "switching": the interrupt comes between the steps of the *)
(* main loop, under the fairness of Transport.                             *)
(***************************************************************************)
EXTENDS Transport

\* The setting, chosen once and for all.
VARIABLE setting

ShortAndLong == {1, Resolution, 2 * Resolution}

Counting(A) == setting = "counting" /\ A
Switches(A) == setting = "switching" /\ A

\* The steps of each setting.
Uninterrupted == Next /\ main'.slips = 0
BlockFor(n) == \E high \in BOOLEAN : Block(FALSE, high, n)
Interrupted == (\E n \in 0..1 : BlockFor(n)) \/ ToggleSource \/ Reset \/ MainStep

MCInit == Init /\ setting \in {"counting", "switching"}
MCNext == UNCHANGED setting /\ (Counting(Uninterrupted) \/ Switches(Interrupted))
MCVars == <<vars, setting>>

MCSpec ==
    /\ MCInit /\ [][MCNext]_MCVars
    /\ WF_MCVars(Switches(MainStep) /\ UNCHANGED setting)
    /\ WF_MCVars(Switches(BlockFor(1)) /\ UNCHANGED setting)

-----------------------------------------------------------------------------
(* The properties of Transport, each in the setting it is meant for.       *)

\* Types, and a clock that is armed does not run (TypeOK, ArmedOrRunning).
ClockConsistent == TypeOK /\ (setting = "counting" => ArmedOrRunning)

\* Keys fall on quarters, and the first tick after a realignment or a second
\* without a pulse is one (KeysOnQuarters, FirstIsKey).
KeysFallOnQuarters == setting = "counting" => KeysOnQuarters /\ FirstIsKey

\* Between two pulses the timeline advances by the ticks of a pulse, and the
\* pulses stay on the bar's grid (PulsesArePaid, PulsesOnGrid).
PulsesCount == setting = "counting" => PulsesArePaid /\ PulsesOnGrid

\* However the source was switched, a clock that pulses is heard
\* (PulsesAreHeard, InternalClockRuns).
ClocksAreHeard ==
    /\ ([]<>Switches(level) /\ []<>Switches(~level) /\ <>[](source # "internal")
          => []<>Switches(heard # {}))
    /\ (<>[]Switches(source = "internal") => []<>Switches(heard # {}))
=============================================================================
