---------------------------- MODULE Panel_proofs ----------------------------
(***************************************************************************)
(* The effect pads lock and sound as they should whatever is pressed with  *)
(* what; and when one thing is held at a time no knob ever jumps and the   *)
(* panel shows what is heard, for every knob, resolution and threshold.    *)
(***************************************************************************)
EXTENDS MCPanel, FiniteSetTheorems, TLAPS

-----------------------------------------------------------------------------
(* The effect pads.                                                        *)

FxState == [on : BOOLEAN, lock : BOOLEAN, heard : BOOLEAN]

\* Inductive: an effect is heard while it is on or locked, and on while it is held.
FxInv ==
    /\ fx \in [Effects -> FxState]
    /\ \A e \in Effects : /\ fx[e].heard <=> (fx[e].on \/ fx[e].lock)
                          /\ fx[e].on => e \in hand.pads

\* What LocksOnce asks of one effect in a step that finds `now`.
LocksAt(e, now, f) ==
    LET both(pads) == {"alt", e} \subseteq pads
        met == both(now.pads) /\ ~both(hand.pads)
    IN  /\ f.heard = (f.on \/ f.lock)
        /\ e \notin now.pads => ~f.on
        /\ met => f.lock # fx[e].lock
        /\ f.lock # fx[e].lock =>
               met \/ (e \in now.pads \ hand.pads /\ "alt" \in hand.pads)

LEMMA ToggledSound ==
    ASSUME NEW f \in FxState
    PROVE  /\ Toggled(f) \in FxState
           /\ Toggled(f).on = f.on
           /\ Toggled(f).lock = ~f.lock
           /\ Toggled(f).heard <=> (f.on \/ ~f.lock)
BY DEF FxState, Toggled

LEMMA SetOnSound ==
    ASSUME NEW f \in FxState, NEW on \in BOOLEAN, f.heard <=> (f.on \/ f.lock)
    PROVE  /\ SetOn(f, on) \in FxState
           /\ SetOn(f, on).on = on
           /\ SetOn(f, on).lock = f.lock
           /\ SetOn(f, on).heard <=> (on \/ f.lock)
BY DEF FxState, SetOn

LEMMA ScannedSound ==
    ASSUME FxInv, NEW now, NEW e \in Effects
    PROVE  Scanned(e, now) \in FxState /\ LocksAt(e, now, Scanned(e, now))
<1> DEFINE f == fx[e]
<1>1. /\ f \in FxState
      /\ f.heard <=> (f.on \/ f.lock)
      /\ f.on => e \in hand.pads
  BY DEF FxInv
<1>2. /\ SetOn(f, TRUE) \in FxState
      /\ SetOn(f, TRUE).on = TRUE
      /\ SetOn(f, TRUE).lock = f.lock
      /\ SetOn(f, TRUE).heard = TRUE
  BY <1>1, SetOnSound
<1>3. /\ SetOn(f, FALSE) \in FxState
      /\ SetOn(f, FALSE).on = FALSE
      /\ SetOn(f, FALSE).lock = f.lock
      /\ SetOn(f, FALSE).heard <=> f.lock
  BY <1>1, SetOnSound
<1>4. CASE e \in now.pads /\ e \notin hand.pads
  <2>1. CASE "alt" \in hand.pads
    <3>1. Scanned(e, now) = Toggled(f)
      BY <1>4, <2>1 DEF Scanned, Touched, LetGo, AltTouched
    <3> QED
      BY <1>1, <1>4, <2>1, <3>1, ToggledSound DEF LocksAt, FxState
  <2>2. CASE "alt" \notin hand.pads /\ "alt" \notin now.pads
    <3>1. Scanned(e, now) = SetOn(f, TRUE)
      BY <1>4, <2>2 DEF Scanned, Touched, LetGo, AltTouched
    <3> QED
      BY <1>1, <1>2, <1>4, <2>2, <3>1 DEF LocksAt, FxState
  <2>3. CASE "alt" \notin hand.pads /\ "alt" \in now.pads
    <3>1. Scanned(e, now) = Toggled(SetOn(f, TRUE))
      BY <1>4, <2>3 DEF Scanned, Touched, LetGo, AltTouched
    <3>2. /\ Scanned(e, now) \in FxState
          /\ Scanned(e, now).lock = ~f.lock
          /\ Scanned(e, now).heard <=> (Scanned(e, now).on \/ Scanned(e, now).lock)
      BY <1>2, <3>1, ToggledSound
    <3> QED
      BY <1>1, <1>4, <2>3, <3>2 DEF LocksAt, FxState
  <2> QED
    BY <2>1, <2>2, <2>3
<1>5. CASE e \notin now.pads /\ e \in hand.pads
  <2>1. Scanned(e, now) = SetOn(f, FALSE)
    BY <1>5 DEF Scanned, Touched, LetGo, AltTouched
  <2> QED
    BY <1>1, <1>3, <1>5, <2>1 DEF LocksAt, FxState
<1>6. CASE e \in now.pads /\ e \in hand.pads /\ "alt" \in now.pads /\ "alt" \notin hand.pads
  <2>1. Scanned(e, now) = Toggled(f)
    BY <1>6 DEF Scanned, Touched, LetGo, AltTouched
  <2> QED
    BY <1>1, <1>6, <2>1, ToggledSound DEF LocksAt, FxState
<1>7. CASE \/ e \notin now.pads /\ e \notin hand.pads
           \/ e \in now.pads /\ e \in hand.pads /\ ("alt" \notin now.pads \/ "alt" \in hand.pads)
  <2>1. Scanned(e, now) = f
    BY <1>7 DEF Scanned, Touched, LetGo, AltTouched
  <2> QED
    BY <1>1, <1>7, <2>1 DEF LocksAt, FxState
<1> QED
  BY <1>4, <1>5, <1>6, <1>7

LEMMA FxNext == FxInv /\ [Next]_vars => FxInv'
<1> SUFFICES ASSUME FxInv, [Next]_vars
             PROVE  FxInv'
  OBVIOUS
<1>1. CASE UNCHANGED vars
  BY <1>1 DEF vars, FxInv
<1>2. CASE Next
  <2>1. fx' = [e \in Effects |-> Scanned(e, hand')]
    BY <1>2 DEF Next, Pass
  <2>2. \A e \in Effects : fx'[e] \in FxState /\ LocksAt(e, hand', fx'[e])
    BY <2>1, ScannedSound
  <2>3. fx' \in [Effects -> FxState]
    BY <2>1, <2>2
  <2>4. \A e \in Effects : /\ fx'[e].heard <=> (fx'[e].on \/ fx'[e].lock)
                           /\ fx'[e].on => e \in hand'.pads
    BY <2>2 DEF LocksAt, FxState
  <2> QED
    BY <2>3, <2>4 DEF FxInv
<1> QED
  BY <1>1, <1>2

(* An effect is heard while it is held or locked, and the lock changes     *)
(* once when pad and Alt meet, in whatever order a scan finds them.        *)
THEOREM PadsLock == Spec => LocksOnce
<1>1. Init => FxInv
  BY DEF Init, FxInv, FxState
<1>2. FxInv /\ [Next]_vars => FxInv'
  BY FxNext
<1>3. FxInv /\ [Next]_vars =>
        [\A e \in Effects :
           LET both(pads) == {"alt", e} \subseteq pads
               met == both(hand'.pads) /\ ~both(hand.pads)
           IN  /\ fx'[e].heard = (fx'[e].on \/ fx'[e].lock)
               /\ e \notin hand'.pads => ~fx'[e].on
               /\ met => fx'[e].lock # fx[e].lock
               /\ fx'[e].lock # fx[e].lock =>
                      met \/ (e \in hand'.pads \ hand.pads /\ "alt" \in hand.pads)]_vars
  <2> SUFFICES ASSUME FxInv, Next
               PROVE  \A e \in Effects : LocksAt(e, hand', fx'[e])
    BY DEF LocksAt
  <2>1. fx' = [e \in Effects |-> Scanned(e, hand')]
    BY DEF Next, Pass
  <2> QED
    BY <2>1, ScannedSound
<1> QED
  BY <1>1, <1>2, <1>3, PTL DEF Spec, LocksOnce

-----------------------------------------------------------------------------
(* The knobs, when whoever plays has none of the Habits.                   *)

Cell == [value : Position, tracking : BOOLEAN]

\* The layers that the layout of the deck leaves to the knob.
Reached(l) == kind = "size" => l = "size" \/ l \in Under[layout]

\* Inductive: a layer that tracks is where the knob is, for it was told of every
\* move; the engine has what the layers remember; Tap passes only what it holds.
KInv ==
    /\ hand \in Hands
    /\ layout = hand.mode
    /\ tap \in [was : BOOLEAN, holding : BOOLEAN, passed : BOOLEAN]
    /\ tap.passed => tap.holding
    /\ layer \in [Layers(kind) -> Cell]
    /\ sent \in [Layers(kind) -> Position]
    /\ ShowsWhatSounds
    /\ \A l \in Layers(kind) : layer[l].tracking => /\ layer[l].value = hand.knob
                                                  /\ Reached(l)

LEMMA LayersKnown == Layers(kind) \subseteq Layer
BY DEF Layers, Layer

\* What is found when nobody has a habit.
LEMMA HandsPlain ==
    ASSUME Habits = {}, NEW now \in Hands
    PROVE  /\ now.pads \subseteq {"alt", "flux", "grit"}
           /\ now.tap \in BOOLEAN
           /\ now.mode \in Layouts
           /\ now.knob \in Position
           /\ now.card = FALSE
           /\ now.frozen = FALSE
BY PanelAssumption DEF Hands

\* A layer moves only to where the knob is, from where it was or from nearby.
LEMMA QueuedSound ==
    ASSUME KInv, Habits = {}, NEW now \in Hands, NEW l \in Layers(kind)
    PROVE  /\ Queued(now)[l] \in Cell
           /\ Queued(now)[l].tracking => Queued(now)[l].value = now.knob /\ Reached(l)
           /\ Queued(now)[l].value # layer[l].value =>
                 /\ now.knob # hand.knob
                 /\ InLayer(l, now) /\ Reached(l)
                 /\ Queued(now)[l].value = now.knob
                 /\ layer[l].value = hand.knob \/ Close(now.knob, layer[l].value)
<1> DEFINE m == layer[l]
<1> DEFINE q == Processed(m, InLayer(l, now), now.knob)
<1>1. m \in Cell /\ (m.tracking => m.value = hand.knob /\ Reached(l))
  BY DEF KInv
<1>2. /\ q \in Cell
      /\ q.tracking => q.value = now.knob
      /\ q.value # m.value => /\ InLayer(l, now)
                              /\ q.value = now.knob
                              /\ m.value = hand.knob \/ Close(now.knob, m.value)
  BY <1>1, HandsPlain DEF Processed, Cell
<1>3. ASSUME now.knob # hand.knob
      PROVE  l \in Told(now) <=> Reached(l)
  <2>1. CASE kind = "size"
    <3>1. Told(now) = {"size"} \cup Under[layout]
      BY <2>1, HandsPlain DEF Told
    <3> QED
      BY <2>1, <3>1 DEF Reached
  <2>2. CASE kind # "size"
    <3>1. Told(now) = Layers(kind)
      BY <2>2, HandsPlain, Zenon DEF Told
    <3> QED
      BY <2>2, <3>1 DEF Reached
  <2> QED
    BY <2>1, <2>2
<1>4. CASE l \in Told(now) /\ now.knob # hand.knob
  <2>1. Queued(now)[l] = q
    BY <1>4 DEF Queued
  <2> QED
    BY <1>2, <1>3, <1>4, <2>1
<1>5. CASE l \notin Told(now) \/ now.knob = hand.knob
  <2>1. Queued(now)[l] = m
    BY <1>5 DEF Queued
  <2> QED
    BY <1>1, <1>3, <1>5, <2>1
<1> QED
  BY <1>4, <1>5

LEMMA OneHeld ==
    ASSUME NEW S, S \subseteq {"alt", "flux", "grit"}, Cardinality(S) <= 1,
           NEW x \in S, NEW y \in S
    PROVE  x = y
<1> SUFFICES ASSUME x # y PROVE FALSE
  OBVIOUS
<1>1. IsFiniteSet({x}) /\ Cardinality({x}) = 1
  BY FS_Singleton
<1>2. Cardinality({x} \cup {y}) = 2
  BY <1>1, FS_AddElement
<1>3. IsFiniteSet({"alt"}) /\ IsFiniteSet({"alt"} \cup {"flux"})
  BY FS_Singleton, FS_AddElement
<1>4. IsFiniteSet(({"alt"} \cup {"flux"}) \cup {"grit"})
  BY <1>3, FS_AddElement
<1>5. IsFiniteSet(S)
  <2>1. S \subseteq ({"alt"} \cup {"flux"}) \cup {"grit"}
    OBVIOUS
  <2> QED
    BY <1>4, <2>1, FS_Subset
<1>6. Cardinality({x} \cup {y}) <= Cardinality(S)
  BY <1>5, FS_Subset
<1>7. Cardinality(S) \in Nat
  BY <1>5, FS_CardinalityType
<1> QED
  BY <1>2, <1>6, <1>7

\* A layer the knob is in is among those that the pass will send.
LEMMA SentWhereMoved ==
    ASSUME KInv, Habits = {}, NEW now \in Hands, NEW next, Careful(now, next),
           next.passed => next.holding,
           now.knob # hand.knob, NEW l \in Layers(kind), InLayer(l, now), Reached(l)
    PROVE  l \in Sends(now.pads, next.passed, layout)
<1> USE DEF Effects
<1>1. /\ now.pads \subseteq {"alt", "flux", "grit"}
      /\ \A x, y \in now.pads : x = y
      /\ next.holding => now.pads = {}
      /\ kind \in {"sos", "mod"} => next = tap /\ tap.holding = tap.passed
  BY HandsPlain, OneHeld DEF Careful
<1>2. CASE kind = "sos"
  <2>1. l \in {"flux", "grit", "key", "mix", "feedback"}
    BY <1>2 DEF Layers
  <2>2. CASE next.passed
    <3>1. Sends(now.pads, next.passed, layout) = {"key"}
      BY <1>2, <2>2 DEF Sends
    <3>2. tap.holding /\ now.pads = {}
      BY <1>1, <1>2, <2>2
    <3> QED
      BY <2>1, <3>1, <3>2 DEF InLayer
  <2>3. CASE ~next.passed
    <3> DEFINE held == IF "flux" \in now.pads THEN {"flux"} ELSE now.pads \cap {"grit"}
    <3> DEFINE d == IF "alt" \in now.pads THEN "feedback" ELSE "mix"
    <3>1. Sends(now.pads, next.passed, layout) = IF held = {} THEN {d} ELSE held
      BY <1>2, <2>3 DEF Sends
    <3>2. ~tap.holding
      BY <1>1, <1>2, <2>3
    <3> QED
      BY <1>1, <2>1, <3>1, <3>2 DEF InLayer, Plain
  <2> QED
    BY <2>2, <2>3
<1>3. CASE kind = "pitch"
  <2>1. l \in {"flux", "grit"} /\ l \in now.pads
    BY <1>3 DEF Layers, InLayer
  <2>2. Sends(now.pads, next.passed, layout) =
            IF "flux" \in now.pads THEN {"flux"} ELSE now.pads \cap {"grit"}
    BY <1>3 DEF Sends
  <2> QED
    BY <1>1, <2>1, <2>2
<1>4. CASE kind = "select"
  <2>1. l \in {"flux", "grit", "aux", "speed"}
    BY <1>4 DEF Layers
  <2> DEFINE held == IF "flux" \in now.pads THEN {"flux"} ELSE now.pads \cap {"grit"}
  <2> DEFINE d == IF "alt" \in now.pads THEN "aux" ELSE "speed"
  <2>2. Sends(now.pads, next.passed, layout) = IF held = {} THEN {d} ELSE held
    BY <1>4 DEF Sends
  <2> QED
    BY <1>1, <2>1, <2>2 DEF InLayer, Plain
<1>5. CASE kind = "mod"
  <2>1. l \in {"tempo", "rate"}
    BY <1>5 DEF Layers
  <2>2. Sends(now.pads, next.passed, layout) = {IF next.passed THEN "tempo" ELSE "rate"}
    BY <1>5 DEF Sends
  <2> QED
    BY <1>1, <1>5, <2>1, <2>2 DEF InLayer
<1>6. CASE kind = "size"
  <2>1. l \in {"size", "poly", "win"}
    BY <1>6 DEF Layers
  <2>2. Sends(now.pads, next.passed, layout) =
            IF layout = "slice" /\ "alt" \in now.pads THEN {"poly"}
            ELSE {"size"} \cup (Under[layout] \cap {"win"})
    BY <1>6 DEF Sends
  <2>3. layout \in {"single", "slice", "chord"}
    BY HandsPlain DEF KInv, Layouts
  <2>4. Under["single"] = {} /\ Under["slice"] = {"poly"} /\ Under["chord"] = {"win"}
    BY DEF Under
  <2>5. (l = "size" => layout = "single" \/ "alt" \notin now.pads) /\ (l # "size" => "alt" \in now.pads)
    BY <2>1 DEF InLayer
  <2>6. l = "size" \/ l \in Under[layout]
    BY <1>6 DEF Reached
  <2> QED
    BY <2>1, <2>2, <2>3, <2>4, <2>5, <2>6
<1> QED
  BY <1>2, <1>3, <1>4, <1>5, <1>6 DEF Layers

\* What TakesOver asks of a step.
TakenOver == \A l \in Layers(kind) : sent'[l] # sent[l] => \/ l \in renewed'
                                                       \/ Close(sent[l], hand.knob)
                                                       \/ Close(sent[l], sent'[l])

LEMMA TappedSound ==
    ASSUME KInv, Habits = {}, NEW now \in Hands, NEW ripe \in BOOLEAN
    PROVE  /\ Tapped(now, ripe) \in [was : BOOLEAN, holding : BOOLEAN, passed : BOOLEAN]
           /\ Tapped(now, ripe).passed => Tapped(now, ripe).holding
BY HandsPlain DEF KInv, Tapped, Pressed

LEMMA PassSound ==
    ASSUME KInv, Habits = {}, NEW now \in Hands, NEW ripe \in BOOLEAN,
           NEW which \in Renewals(now), NEW fresh, which # {} => fresh \in Fresh,
           Pass(now, ripe, which, fresh)
    PROVE  KInv' /\ TakenOver
<1> DEFINE next == Tapped(now, ripe)
<1> DEFINE goes == IF now.knob = hand.knob THEN {} ELSE Sends(now.pads, next.passed, layout)
<1> DEFINE after == [l \in Layers(kind) |-> IF l \in which THEN Set(fresh[l]) ELSE Queued(now)[l]]
<1>1. now.frozen = FALSE /\ now.mode = layout /\ layout' = layout /\ Careful(now, next)
  BY HandsPlain DEF Pass, KInv, Careful
<1>2. Zeroed(now) = {}
  BY HandsPlain DEF Pass, Careful, Zeroed, GritTapped, Pressed
<1>3. /\ kind' = kind /\ hand' = now /\ tap' = next /\ renewed' = which
      /\ layer' = after
      /\ sent' = [l \in Layers(kind) |-> IF l \in goes \cup which THEN after[l].value ELSE sent[l]]
  <2> DEFINE form == IF now.frozen THEN layout ELSE now.mode
  <2>1. form = layout
    BY <1>1
  <2>2. (IF now.frozen \/ (now.knob = hand.knob /\ (kind # "size" \/ form = layout)) THEN {}
         ELSE Sends(now.pads, next.passed, form)) = goes
    BY <1>1, <2>1
  <2>3. [l \in Layers(kind) |-> IF l \in which THEN Set(fresh[l])
                              ELSE IF l \in Zeroed(now) THEN Set(0) ELSE Queued(now)[l]] = after
    BY <1>2
  <2> QED
    BY <2>2, <2>3 DEF Pass
<1>4. next \in [was : BOOLEAN, holding : BOOLEAN, passed : BOOLEAN] /\ (next.passed => next.holding)
  BY TappedSound
<1>5. \A l \in Layers(kind) : l \in which =>
          /\ after[l] \in Cell
          /\ after[l].tracking = FALSE
          /\ sent'[l] = after[l].value
  <2> SUFFICES ASSUME NEW l \in Layers(kind), l \in which
               PROVE  /\ after[l] \in Cell
                      /\ after[l].tracking = FALSE
                      /\ sent'[l] = after[l].value
    OBVIOUS
  <2>1. fresh[l] \in Position
    BY PanelAssumption, LayersKnown
  <2>2. after[l] = [value |-> fresh[l], tracking |-> FALSE]
    BY DEF Set
  <2>3. sent'[l] = after[l].value
    BY <1>3
  <2>4. after[l] \in Cell /\ after[l].tracking = FALSE
    <3> HIDE DEF after
    <3> QED
      BY <2>1, <2>2 DEF Cell
  <2> QED
    BY <2>3, <2>4
<1>6. \A l \in Layers(kind) : l \notin which =>
          /\ after[l] \in Cell
          /\ after[l].tracking => after[l].value = now.knob /\ Reached(l)
          /\ sent'[l] = after[l].value
          /\ sent'[l] # sent[l] => Close(sent[l], hand.knob) \/ Close(sent[l], sent'[l])
  <2> SUFFICES ASSUME NEW l \in Layers(kind), l \notin which
               PROVE  /\ after[l] \in Cell
                      /\ after[l].tracking => after[l].value = now.knob /\ Reached(l)
                      /\ sent'[l] = after[l].value
                      /\ sent'[l] # sent[l] => Close(sent[l], hand.knob) \/ Close(sent[l], sent'[l])
    OBVIOUS
  <2>1. after[l] = Queued(now)[l]
    OBVIOUS
  <2>2. layer[l].value = sent[l] /\ sent[l] \in Position
    BY DEF KInv, ShowsWhatSounds
  <2>3. CASE Queued(now)[l].value = layer[l].value
    <3>1. sent'[l] = sent[l]
      BY <1>3, <2>1, <2>2, <2>3
    <3> QED
      BY <2>1, <2>2, <2>3, <3>1, QueuedSound
  <2>4. CASE Queued(now)[l].value # layer[l].value
    <3>1. /\ now.knob # hand.knob /\ InLayer(l, now) /\ Reached(l)
          /\ Queued(now)[l].value = now.knob
          /\ layer[l].value = hand.knob \/ Close(now.knob, layer[l].value)
      BY <2>4, QueuedSound
    <3>2. l \in goes
      BY <1>1, <1>4, <3>1, SentWhereMoved
    <3>3. sent'[l] = now.knob
      BY <1>3, <2>1, <3>1, <3>2
    <3>4. now.knob \in Position /\ hand.knob \in Position
      BY HandsPlain DEF KInv
    <3>5. layer[l].value = hand.knob => Close(sent[l], hand.knob)
      BY <2>2, <3>4, PanelAssumption DEF Close, Position
    <3>6. Close(now.knob, layer[l].value) => Close(sent[l], sent'[l])
      BY <2>2, <3>3, <3>4, PanelAssumption DEF Close, Position
    <3> QED
      BY <2>1, <3>1, <3>3, <3>5, <3>6, QueuedSound
  <2> QED
    BY <2>3, <2>4
<1>7. TakenOver
  BY <1>3, <1>5, <1>6 DEF TakenOver
<1>8. layer' \in [Layers(kind) -> Cell] /\ sent' \in [Layers(kind) -> Position]
  <2>1. \A l \in Layers(kind) : after[l] \in Cell /\ sent'[l] = after[l].value
    BY <1>5, <1>6
  <2>2. \A l \in Layers(kind) : after[l].value \in Position
    BY <2>1 DEF Cell
  <2> QED
    BY <1>3, <2>1, <2>2
<1>9. ShowsWhatSounds'
  BY <1>3, <1>5, <1>6 DEF ShowsWhatSounds, Layers
<1>10. \A l \in Layers(kind) : after[l].tracking => after[l].value = now.knob /\ Reached(l)
  BY <1>5, <1>6
<1>11. KInv'
  BY <1>1, <1>3, <1>4, <1>8, <1>9, <1>10 DEF KInv, Layers, Reached
<1> QED
  BY <1>7, <1>11

LEMMA KNext == Habits = {} /\ KInv /\ [Next]_vars => KInv' /\ [TakenOver]_vars
<1> SUFFICES ASSUME Habits = {}, KInv, [Next]_vars
             PROVE  KInv' /\ [TakenOver]_vars
  OBVIOUS
<1>1. CASE UNCHANGED vars
  BY <1>1 DEF vars, KInv, ShowsWhatSounds, Layers, Reached
<1>2. CASE Next
  <2>1. PICK now \in Hands, ripe \in BOOLEAN :
            \E which \in Renewals(now) :
               \E fresh \in IF which = {} THEN {sent} ELSE Fresh : Pass(now, ripe, which, fresh)
    BY <1>2 DEF Next
  <2>2. PICK which \in Renewals(now) :
            \E fresh \in IF which = {} THEN {sent} ELSE Fresh : Pass(now, ripe, which, fresh)
    BY <2>1
  <2>3. PICK fresh \in IF which = {} THEN {sent} ELSE Fresh : Pass(now, ripe, which, fresh)
    BY <2>2
  <2> QED
    BY <2>3, PassSound
<1> QED
  BY <1>1, <1>2

LEMMA KStarts == Habits = {} /\ Init => KInv
<1> SUFFICES ASSUME Habits = {}, Init
             PROVE  KInv
  OBVIOUS
<1>1. PICK fresh \in Fresh : sent = [l \in Layers(kind) |-> fresh[l]]
  BY DEF Init
<1>2. sent \in [Layers(kind) -> Position]
  BY <1>1, LayersKnown, PanelAssumption
<1>3. layer = [l \in Layers(kind) |-> [value |-> sent[l], tracking |-> FALSE]]
  BY DEF Init, Set
<1>4. layer \in [Layers(kind) -> Cell] /\ ShowsWhatSounds
  BY <1>2, <1>3 DEF Cell, ShowsWhatSounds
<1> QED
  BY <1>2, <1>3, <1>4 DEF Init, KInv

LEMMA KInvariance == ASSUME Habits = {} PROVE Spec => []KInv
<1>1. Init => KInv
  BY KStarts
<1>2. KInv /\ [Next]_vars => KInv'
  BY KNext
<1> QED
  BY <1>1, <1>2, PTL DEF Spec

(* No knob makes what it turns jump, with one thing held at a time.        *)
THEOREM NoJumps == ASSUME Habits = {} PROVE Spec => TakesOver
<1>1. KInv /\ [Next]_vars =>
        [\A l \in Layers(kind) : sent'[l] # sent[l] => \/ l \in renewed'
                                                   \/ Close(sent[l], hand.knob)
                                                   \/ Close(sent[l], sent'[l])]_vars
  BY KNext DEF TakenOver
<1> QED
  BY <1>1, KInvariance, PTL DEF Spec, TakesOver

(* And the rings show what is heard.                                       *)
THEOREM ShowsTrue == ASSUME Habits = {} PROVE Spec => []ShowsWhatSounds
<1>1. KInv => ShowsWhatSounds
  BY DEF KInv
<1> QED
  BY <1>1, KInvariance, PTL

(* What a pass finds and leaves has its type; in the settings of the runs, *)
(* the second of which has no knob, as well.                               *)
THEOREM PanelIsConsistent ==
    ASSUME Habits = {}
    PROVE  (Spec => []TypeOK) /\ (MCSpec => []PanelConsistent)
<1>1. Init => FxInv
  BY DEF Init, FxInv, FxState
<1>2. Spec => []FxInv
  BY <1>1, FxNext, PTL DEF Spec
<1>3. FxInv /\ KInv => TypeOK /\ ShowsWhatSounds
  <2>1. FxInv => fx \in [Effects -> [on : BOOLEAN, lock : BOOLEAN, heard : BOOLEAN]]
    BY DEF FxInv, FxState
  <2>2. KInv => layout \in Layouts
    BY HandsPlain DEF KInv
  <2> QED
    BY <2>1, <2>2 DEF KInv, TypeOK, Cell
<1> DEFINE Apart == setting = "apart" => FxInv /\ KInv
           Knobless == setting = "together" => kind = "none"
           Chosen == setting \in {"apart", "together"}
<1>4. MCInit => Apart /\ Knobless /\ Chosen
  BY <1>1, KStarts DEF MCInit, Together!Init
<1>5. Apart /\ Knobless /\ Chosen /\ [MCNext]_<<vars, setting>>
        => (Apart /\ Knobless /\ Chosen)'
  <2> SUFFICES ASSUME Apart, Knobless, Chosen, [MCNext]_<<vars, setting>>
               PROVE  (Apart /\ Knobless /\ Chosen)'
    OBVIOUS
  <2>1. setting' = setting
    BY DEF MCNext
  <2>2. CASE setting = "apart"
    <3>1. [Next]_vars
      BY <2>2 DEF MCNext
    <3> QED
      BY <2>1, <2>2, <3>1, FxNext, KNext
  <2>3. CASE setting = "together"
    <3>1. kind' = kind
      BY <2>3 DEF MCNext, vars, Together!Next, Together!Pass
    <3> QED
      BY <2>1, <2>3, <3>1
  <2> QED
    BY <2>2, <2>3
<1>6. Apart /\ Knobless /\ Chosen => PanelConsistent
  <2>1. kind = "none" => ShowsWhatSounds
    BY DEF ShowsWhatSounds, Layers
  <2> QED
    BY <1>3, <2>1 DEF PanelConsistent
<1>7. MCSpec => []PanelConsistent
  BY <1>4, <1>5, <1>6, PTL DEF MCSpec
<1>8. Spec => []TypeOK
  BY <1>2, <1>3, KInvariance, PTL
<1> QED
  BY <1>7, <1>8

=============================================================================
