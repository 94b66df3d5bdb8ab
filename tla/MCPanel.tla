------------------------------- MODULE MCPanel -------------------------------
(***************************************************************************)
(* Panel for TLC, in two settings: "apart" has the constants of the cfg,   *)
(* every knob and one thing held at a time; "together" has the effect pads *)
(* and Alt in any combination, and no knob.                                *)
(***************************************************************************)
EXTENDS Panel

\* The setting, chosen once and for all.
VARIABLE setting

Uniform == {[l \in Layer |-> p] : p \in Position}

Together == INSTANCE Panel WITH
    Kinds <- {"none"}, Pads <- {"alt", "flux", "grit"}, Habits <- {"both"}

MCInit == (setting = "apart" /\ Init) \/ (setting = "together" /\ Together!Init)
MCNext == /\ UNCHANGED setting
          /\ (setting = "apart" /\ Next) \/ (setting = "together" /\ Together!Next)
MCSpec == MCInit /\ [][MCNext]_<<vars, setting>>

-----------------------------------------------------------------------------
(* LocksOnce holds in both settings, and so does TakesOver.                *)

\* Types, and the engine has what the panel shows (TypeOK, ShowsWhatSounds).
PanelConsistent == (setting = "apart" => TypeOK) /\ ShowsWhatSounds
=============================================================================
