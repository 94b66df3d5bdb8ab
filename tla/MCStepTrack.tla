----------------------------- MODULE MCStepTrack -----------------------------
(***************************************************************************)
(* StepTrack for TLC, in two settings: "ring" has the constants of the     *)
(* cfg, two slices of two slots; "clocked" has a ring of one slice, under  *)
(* the fairness of StepTrack.                                              *)
(***************************************************************************)
EXTENDS StepTrack

\* The setting, chosen once and for all.
VARIABLE setting

OneSlice == INSTANCE StepTrack WITH Slices <- 1, MaxCount <- 3

Ring(A) == setting = "ring" /\ A
Clocked(A) == setting = "clocked" /\ A

MCInit == Ring(Init) \/ Clocked(OneSlice!Init)
MCNext == UNCHANGED setting /\ (Ring(Next) \/ Clocked(OneSlice!Next))
MCVars == <<vars, setting>>

MCSpec == /\ MCInit /\ [][MCNext]_MCVars
          /\ WF_MCVars(Clocked(OneSlice!Tick(TRUE)) /\ UNCHANGED setting)

-----------------------------------------------------------------------------
(* The properties of StepTrack, each in the setting it is meant for.       *)

\* An empty track plays nothing, and no pattern leads out of the ring
\* (TypeOK, EmptyPlaysNothing, NoJumpToNowhere).
TrackConsistent ==
    setting = "ring" => TypeOK /\ EmptyPlaysNothing /\ NoJumpToNowhere

\* What the clock plays is as long as what was recorded (PatternKeepsLength).
PatternsKeepLength == setting = "ring" => PatternKeepsLength

\* A hit that has been stored is not triggered once more in the slot it was
\* recorded in (NoDoubleHit).
NoDoubleHits ==
    [][Ring(~adding /\ take.hitAt = track.at /\ track'.at = track.at /\ take'.hitAt = None)
         => track'.event = None]_MCVars

\* The clock starts a play that waits for it, and ends a recording that was
\* disarmed (QueuedPlays, DisarmedEnds).
ClockServes ==
    /\ Clocked(queued) ~> Clocked(playing \/ track.empty)
    /\ Clocked(track.recording /\ ~track.armed) ~> Clocked(~track.recording \/ track.armed)
=============================================================================
