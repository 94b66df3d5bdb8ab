-------------------------------- MODULE Panel --------------------------------
(***************************************************************************)
(* The knobs and the effect pads of a deck (ui/core.ui.cpp, mvalue.cpp,    *)
(* hold.h): a knob has several layers, one per pad or switch that may be   *)
(* held with it.  A layer remembers its value (MValue) and lets the knob   *)
(* change it only from where the knob meets it; what a layer is worth is   *)
(* then sent to the engine or the transport.                               *)
(*                                                                         *)
(* A step is one CoreUI::process() with all it does: pads, the queue of    *)
(* the knobs, switches, the hold of Tap, and the pass that sends values.   *)
(* Whoever plays may change anything between two of them.  Of the knobs    *)
(* one is looked at, `kind`:                                               *)
(*   "sos"     SOS of deck A, of an engine that turns no knobs itself      *)
(*   "pitch"   PITCH of an engine that uses the card (its plain layer is   *)
(*             absolute and left out)                                      *)
(*   "select"  PITCH of an engine with CapAux and CapPitchPickup           *)
(*   "size"    SIZE of the granular engine, in three layouts               *)
(*   "mod"     MODFREQ of deck A; that of deck B has the same two layers   *)
(*   "none"    no knob: the effect pads alone                              *)
(***************************************************************************)
EXTENDS Integers, FiniteSets

CONSTANTS Top,        \* positions of a knob are 0 .. Top
          Near,       \* kTreshold, in positions
          Kinds,      \* the knobs that are looked at
          Pads,       \* the pads that are pressed
          Fresh,      \* values an engine may come up with for its layers
          Habits      \* what the player does, see Hands

Layers(k) ==
    CASE k = "sos"    -> {"flux", "grit", "key", "mix", "feedback"}
      [] k = "pitch"  -> {"flux", "grit"}
      [] k = "select" -> {"flux", "grit", "aux", "speed"}
      [] k = "size"   -> {"size", "poly", "win"}
      [] k = "mod"    -> {"tempo", "rate"}
      [] OTHER        -> {}

Layer    == UNION {Layers(k) : k \in {"sos", "pitch", "select", "size", "mod"}}
Position == 0 .. Top
Effects  == {"flux", "grit"}
Layouts  == {"single", "slice", "chord"}

ASSUME PanelAssumption ==
    /\ {Top, Near} \subseteq Nat
    /\ Pads \subseteq {"alt", "flux", "grit"}
    /\ Fresh \subseteq [Layer -> Position]

VARIABLES kind,     \* the knob looked at
          hand,     \* what CoreUI found in its last pass: pads, switches, the knob, the
                    \* deck's card mode and whether the terminal freezes the panel
          tap,      \* _tap_was_tapped and _tap_hold
          layout,   \* the engine's deck_layout
          layer,    \* per layer its MValue: value and is_tracking
          sent,     \* per layer what the engine or the transport was given
          fx,       \* per effect: Fx's on, lock, and whether it is heard
          renewed   \* history: the layers the last pass set from the engine

vars == <<kind, hand, tap, layout, layer, sent, fx, renewed>>

\* What may be found in a pass.  Without "both" one pad or switch is held at a
\* time, but for Tap after Grit; without "late" the knob rests while the hold of
\* Tap is undecided; "card", "test", "modes" and "fit" are the deck's card mode,
\* the terminal's test mode, the mode switch, and Tap with SIZE.
Hands == [pads : SUBSET Pads, tap : BOOLEAN, mode : Layouts, knob : Position,
          card : IF "card" \in Habits THEN BOOLEAN ELSE {FALSE},
          frozen : IF "test" \in Habits THEN BOOLEAN ELSE {FALSE}]

-----------------------------------------------------------------------------
(* Pads: _on_pad_touch, _on_alt_touch and _on_pad_release, for Fx.         *)

\* Mutant: a lock that is taken away silences an effect that is held.
ToggledOff(f) == [f EXCEPT !.lock = ~@, !.heard = ~f.lock]
\* Fx::toggle_grit_lock and its like.
Toggled(f) == [f EXCEPT !.lock = ~@, !.heard = f.on \/ ~f.lock]

\* Mutant: the lock is not looked at.
SetOnAlways(f, on) == [f EXCEPT !.on = on, !.heard = on]
\* Fx::set_grit_on and its like.
SetOn(f, on) == [f EXCEPT !.on = on, !.heard = IF f.lock THEN @ ELSE on]

\* The pad of an effect is touched, and let go; Alt is touched while it is held.
Touched(f, alt) == IF alt THEN Toggled(f) ELSE SetOn(f, TRUE)
LetGo(f)        == SetOn(f, FALSE)
AltTouched(f)   == Toggled(f)

\* Hardware::ProcessPads scans the pads in the order of their number, Alt last.
Scanned(e, now) ==
    LET down == e \in now.pads
        was  == e \in hand.pads
        alt  == "alt" \in hand.pads
        pad  == CASE down /\ ~was -> Touched(fx[e], alt)
                  [] was /\ ~down -> LetGo(fx[e])
                  [] OTHER        -> fx[e]
    IN  IF "alt" \in now.pads /\ ~alt /\ down THEN AltTouched(pad) ELSE pad

-----------------------------------------------------------------------------
(* The queue: where the knob belongs while `pads` are held.                *)

\* Mutant: a layer moves although the pad of an effect is held.
PlainAlways(pads) == TRUE
Plain(pads) == pads \cap Effects = {}

InLayer(l, now) ==
    LET alt == "alt" \in now.pads
    IN  CASE l \in Effects  -> l \in now.pads
          [] l = "key"      -> Plain(now.pads) /\ ~alt /\ tap.holding
          [] l = "mix"      -> Plain(now.pads) /\ ~alt /\ ~tap.holding
          [] l = "feedback" -> Plain(now.pads) /\ alt /\ ~tap.holding
          [] l = "speed"    -> Plain(now.pads) /\ ~alt
          [] l = "aux"      -> Plain(now.pads) /\ alt
          [] l = "size"     -> layout = "single" \/ ~alt
          [] l \in {"poly", "win"} -> alt
          [] l = "tempo"    -> tap.passed
          [] l = "rate"     -> ~tap.passed

\* The second layer of SIZE.
Under == [single |-> {}, slice |-> {"poly"}, chord |-> {"win"}]

\* The layers whose MValue is told that the knob has moved.
Told(now) ==
    CASE kind = "pitch" -> IF now.card THEN {} ELSE Layers(kind)
      [] kind = "size"  -> IF layout = "slice" /\ tap.passed /\ "fit" \in Habits THEN {}
                           ELSE {"size"} \cup Under[layout]
      [] OTHER -> Layers(kind)

Close(a, b) == a - b <= Near /\ b - a <= Near

\* Mutants: a layer that is left goes on tracking; the knob need not meet the value.
ProcessedOn(m, active, pos) ==
    IF active /\ (m.tracking \/ Close(pos, m.value)) THEN [value |-> pos, tracking |-> TRUE]
    ELSE m
ProcessedAtOnce(m, active, pos) ==
    IF active THEN [value |-> pos, tracking |-> TRUE] ELSE [m EXCEPT !.tracking = FALSE]
\* MValue::process.
Processed(m, active, pos) ==
    IF ~active THEN [m EXCEPT !.tracking = FALSE]
    ELSE IF m.tracking \/ Close(pos, m.value) THEN [value |-> pos, tracking |-> TRUE]
    ELSE m

Queued(now) ==
    [l \in Layers(kind) |-> IF l \in Told(now) /\ now.knob # hand.knob
                     THEN Processed(layer[l], InLayer(l, now), now.knob) ELSE layer[l]]

-----------------------------------------------------------------------------
(* The switches and the hold of Tap.                                       *)

Pressed(now) == now.tap /\ ~tap.was /\ ~now.frozen

\* _process_switches, then _tap_hold.process(); `ripe` is whether 100 ms are over.
Tapped(now, ripe) ==
    LET read == CASE now.frozen -> tap
                  [] ~now.frozen /\ ~now.tap -> [was |-> FALSE, holding |-> FALSE, passed |-> FALSE]
                  [] Pressed(now) -> [tap EXCEPT !.was = TRUE,
                                                 !.holding = @ \/ now.pads \cap {"alt", "grit"} = {}]
                  [] OTHER -> tap
    IN  [read EXCEPT !.passed = @ \/ (read.holding /\ ripe)]

\* Tap while Grit is held: the engine changes the effect and tells its values.
GritTapped(now) == Pressed(now) /\ "alt" \notin now.pads /\ "grit" \in now.pads

\* An engine that has but one effect tells zero (IEngine::toggle_grit_mode).
Zeroed(now) == IF kind = "select" /\ GritTapped(now) THEN {"grit"} ELSE {}

\* The layers that are set from the engine: Tap with Grit, a tap of the tempo, and
\* _reseed_focus, which follows an engine that has turned the knobs elsewhere.
Renewals(now) ==
    CASE kind \in {"sos", "pitch"} /\ GritTapped(now) -> {{"grit"}}
      [] kind = "mod" /\ Pressed(now) /\ now.pads \cap {"alt", "grit"} = {} -> {{}, {"tempo"}}
      [] kind = "select" -> {{}, Layers(kind)}
      [] OTHER -> {{}}

\* MValue::set, by all of them.
Set(v) == [value |-> v, tracking |-> FALSE]

-----------------------------------------------------------------------------
(* The pass that sends.                                                    *)

\* The layers whose values are sent while `pads` are held.
Sends(pads, passed, form) ==
    LET alt  == "alt" \in pads
        held == IF "flux" \in pads THEN {"flux"} ELSE pads \cap {"grit"}
        Or(l) == IF held = {} THEN {l} ELSE held
    IN  CASE kind = "sos"    -> IF passed THEN {"key"} ELSE Or(IF alt THEN "feedback" ELSE "mix")
          [] kind = "pitch"  -> held
          [] kind = "select" -> Or(IF alt THEN "aux" ELSE "speed")
          [] kind = "mod"    -> {IF passed THEN "tempo" ELSE "rate"}
          [] kind = "size"   -> IF form = "slice" /\ alt THEN {"poly"}
                                ELSE {"size"} \cup (Under[form] \cap {"win"})
          [] OTHER -> {}

-----------------------------------------------------------------------------

Careful(now, next) ==
    /\ "both" \notin Habits => /\ Cardinality(now.pads) <= 1
                               /\ now.tap => now.pads \subseteq IF kind = "select" THEN {} ELSE {"grit"}
                               /\ next.holding => now.pads = {}
    /\ "late" \notin Habits /\ kind \in {"sos", "mod"}
          => now.knob = hand.knob \/ (next = tap /\ tap.holding = tap.passed)
    /\ "modes" \notin Habits => now.mode = hand.mode

\* CoreUI::process().
Pass(now, ripe, which, fresh) ==
    LET queued == Queued(now)
        form   == IF now.frozen THEN layout ELSE now.mode
        next   == Tapped(now, ripe)
        goes   == IF now.frozen \/ (now.knob = hand.knob /\ (kind # "size" \/ form = layout)) THEN {}
                  ELSE Sends(now.pads, next.passed, form)
        after  == [l \in Layers(kind) |-> IF l \in which THEN Set(fresh[l])
                                  ELSE IF l \in Zeroed(now) THEN Set(0) ELSE queued[l]]
    IN  /\ Careful(now, next)
        /\ hand' = now /\ tap' = next /\ layout' = form
        /\ fx' = [e \in Effects |-> Scanned(e, now)]
        /\ layer' = after
        /\ sent' = [l \in Layers(kind) |-> IF l \in goes \cup which THEN after[l].value ELSE sent[l]]
        /\ renewed' = which
        /\ UNCHANGED kind

Init ==
    /\ kind \in Kinds
    /\ hand \in {h \in Hands : h.pads = {} /\ ~h.tap /\ ~h.card /\ ~h.frozen}
    /\ tap = [was |-> FALSE, holding |-> FALSE, passed |-> FALSE]
    /\ layout = hand.mode /\ (kind # "size" => layout = "single")
    /\ \E fresh \in Fresh : sent = [l \in Layers(kind) |-> fresh[l]]
    /\ layer = [l \in Layers(kind) |-> Set(sent[l])]
    /\ fx = [e \in Effects |-> [on |-> FALSE, lock |-> FALSE, heard |-> FALSE]]
    /\ renewed = {}

Next == \E now \in Hands, ripe \in BOOLEAN : \E which \in Renewals(now) :
            \E fresh \in IF which = {} THEN {sent} ELSE Fresh : Pass(now, ripe, which, fresh)

Spec == Init /\ [][Next]_vars

-----------------------------------------------------------------------------

\* Every variable has its type.
TypeOK ==
    /\ hand \in Hands /\ layout \in Layouts
    /\ tap \in [was : BOOLEAN, holding : BOOLEAN, passed : BOOLEAN]
    /\ fx \in [Effects -> [on : BOOLEAN, lock : BOOLEAN, heard : BOOLEAN]]
    /\ layer \in [Layers(kind) -> [value : Position, tracking : BOOLEAN]]
    /\ sent \in [Layers(kind) -> Position]

\* A knob takes over a value where it meets it: what the engine is given moves
\* from where the knob was, or by no more than the threshold ("clean takeover with
\* no jumps", core.ui.cpp), unless the engine itself has set it.
TakesOver ==
    [][\A l \in Layers(kind) : sent'[l] # sent[l] => \/ l \in renewed'
                                              \/ Close(sent[l], hand.knob)
                                              \/ Close(sent[l], sent'[l])]_vars

\* What a layer remembers and the ring shows is what the engine has.
ShowsWhatSounds == \A l \in Layers(kind) : layer[l].value = sent[l]

\* An effect is heard while its pad is held, unless it was pressed with Alt, or it is
\* locked; the lock changes once each time pad and Alt come together, whichever is
\* first, and with nothing else (granular.md, "locked on (Alt + effect pad)").
LocksOnce ==
    [][\A e \in Effects :
         LET both(pads) == {"alt", e} \subseteq pads
             met == both(hand'.pads) /\ ~both(hand.pads)
         IN  /\ fx'[e].heard = (fx'[e].on \/ fx'[e].lock)
             /\ e \notin hand'.pads => ~fx'[e].on
             /\ met => fx'[e].lock # fx[e].lock
             /\ fx'[e].lock # fx[e].lock =>
                    met \/ (e \in hand'.pads \ hand.pads /\ "alt" \in hand.pads)]_vars
=============================================================================
