-------------------------- MODULE Granular_proofs ---------------------------
(***************************************************************************)
(* Proofs about the granular engine.  StepTrack, for a ring of any size:   *)
(* what an empty track plays, where the reader can come to, that a hit is  *)
(* not played twice, and how long the pattern is that a recording leaves.  *)
(* DeckVoices, for any number of voices: how they are handed round, which  *)
(* are counted, and that a loop goes on.                                   *)
(***************************************************************************)
EXTENDS MCStepTrack, MCDeckVoices, FiniteSetTheorems, WellFoundedInduction, TLAPS

-----------------------------------------------------------------------------
(* StepTrack: the inductive invariant.                                     *)

\* While no recording has begun, the writer stands on the first slot and the
\* end of the pattern is out of the reader's way.
Unstarted == track.start = None => /\ ~track.recording /\ track.write = 0
                                   /\ track.end \in {None, 0}

\* The slot remembered against a double trigger is the one of the hit; until it
\* is remembered, no tick has come and the slice is still in it.
HitRemembered ==
    take.hitAt # None => take.hitAt = IF adding THEN track.at ELSE track.hit

\* The first recording has its end ahead, and the writer is where it has got to.
TakeUnderWay ==
    take.open => /\ track.start # None /\ track.recording
                 /\ ~take.early => /\ track.end = None
                                   /\ take.length = track.count
                                   /\ track.start + track.count <= Length
                                        => track.write = track.start + track.count

\* Afterwards the bounds of the pattern are those of that recording.
TakeSetsEnd ==
    track.start # None /\ ~take.open /\ ~take.early =>
        /\ track.end # None
        /\ track.start + take.length <= Length => track.end = track.start + take.length

IInv == /\ TypeOK /\ EmptyPlaysNothing /\ Unstarted /\ HitRemembered
        /\ TakeUnderWay /\ TakeSetsEnd

-----------------------------------------------------------------------------
(* Induction over the naturals.  The intervals below the members of a set  *)
(* of naturals are finite sets, and finite sets are well-founded under     *)
(* inclusion: a set of naturals has a least member.                        *)

LEMMA LeastMember ==
    ASSUME NEW T \in SUBSET Nat, T # {}
    PROVE  \E m \in T : \A n \in T : m <= n
  <1> DEFINE below == {0 .. n - 1 : n \in T}
  <1>1. below \subseteq FiniteSubsetsOf(Nat) /\ below # {}
    <2>1. \A n \in T : IsFiniteSet(0 .. n - 1) /\ 0 .. n - 1 \subseteq Nat
      BY FS_Interval
    <2> QED
      BY <2>1 DEF FiniteSubsetsOf
  <1>2. PICK s \in below : \A r \in below : ~(<<r, s>> \in StrictSubsetOrdering(Nat))
    <2> HIDE DEF below
    <2> QED
      BY <1>1, FS_StrictSubsetOrderingWellFounded, WFMin
  <1>3. PICK m \in T : s = 0 .. m - 1
    OBVIOUS
  <1>4. ASSUME NEW n \in T, n < m
        PROVE  FALSE
    <2>1. /\ 0 .. n - 1 \in below /\ 0 .. n - 1 \subseteq 0 .. m - 1
          /\ n \in 0 .. m - 1 /\ n \notin 0 .. n - 1
      BY <1>4
    <2>2. <<0 .. n - 1, s>> \in StrictSubsetOrdering(Nat)
      BY <2>1, <1>3 DEF StrictSubsetOrdering
    <2> QED
      BY <2>1, <2>2, <1>2
  <1> QED
    BY <1>4

LEMMA Induction ==
    ASSUME NEW S \in SUBSET Nat, 0 \in S, \A n \in S : n + 1 \in S
    PROVE  S = Nat
  <1> SUFFICES ASSUME Nat \ S # {} PROVE FALSE
    OBVIOUS
  <1>1. PICK m \in Nat \ S : \A n \in Nat \ S : m <= n
    BY LeastMember
  <1> QED
    BY <1>1

-----------------------------------------------------------------------------
(* The walk of the reader.                                                 *)

\* The values of `track`.
Tracks == [on : [0 .. Length -> BOOLEAN],
           slice : [0 .. SliceLength - 1 -> Slot],
           event : Slot \cup {None}, ticks : 0 .. 1,
           write : 0 .. Length, read : Slot,
           at : 0 .. SliceLength - 1, hit : 0 .. SliceLength - 1 \cup {None},
           count : 0 .. MaxCount, start : Slot \cup {None},
           end : 0 .. Length \cup {None},
           armed : BOOLEAN, autoCut : BOOLEAN, recording : BOOLEAN,
           empty : BOOLEAN]

\* The end of a pattern without a start is never met by the reader.
EndOutOfWay(t) == t.start = None => t.end \in {None, 0}

LEMMA RingSize == Length \in Nat \ {0}
  <1>1. \A a, b \in Nat \ {0} : a * b \in Nat \ {0}
    OBVIOUS
  <1> QED
    BY <1>1, TrackAssumption DEF Length

LEMMA NextReadInRing ==
    ASSUME NEW t \in Tracks, EndOutOfWay(t), NEW r \in Slot
    PROVE  NextRead(t, r) \in Slot
  <1>1. t.start \in Slot \cup {None}
    BY DEF Tracks
  <1> QED
    BY <1>1, RingSize DEF NextRead, EndOutOfWay, Slot, None

\* A function on the slots can be followed from any slot for any number of steps.
LEMMA StepsExist ==
    ASSUME NEW step \in [Slot -> Slot], NEW r \in Slot, NEW n \in Nat
    PROVE  \E w : w = [i \in 0 .. n |-> IF i = 0 THEN r ELSE step[w[i - 1]]]
  <1> DEFINE Follows(m, w) ==
                 /\ w \in [0 .. m -> Slot] /\ w[0] = r
                 /\ \A i \in 1 .. m : w[i] = step[w[i - 1]]
             S == {m \in Nat : \E w \in [0 .. m -> Slot] : Follows(m, w)}
  <1>1. 0 \in S
    <2>1. Follows(0, [i \in 0 .. 0 |-> r])
      OBVIOUS
    <2> QED
      BY <2>1
  <1>2. ASSUME NEW m \in S
        PROVE  m + 1 \in S
    <2>1. PICK w \in [0 .. m -> Slot] : Follows(m, w)
      OBVIOUS
    <2> DEFINE v == [i \in 0 .. m + 1 |-> IF i = m + 1 THEN step[w[m]] ELSE w[i]]
    <2>2. v \in [0 .. m + 1 -> Slot] /\ v[0] = r
      BY <2>1
    <2>3. \A i \in 1 .. m + 1 : v[i] = step[v[i - 1]]
      BY <2>1
    <2>4. Follows(m + 1, v)
      BY <2>2, <2>3
    <2> HIDE DEF v, Follows
    <2> QED
      BY <2>2, <2>4
  <1>3. n \in S
    BY <1>1, <1>2, Induction
  <1>4. PICK w \in [0 .. n -> Slot] : Follows(n, w)
    BY <1>3
  <1>5. w = [i \in 0 .. n |-> IF i = 0 THEN r ELSE step[w[i - 1]]]
    <2>1. \A i \in 0 .. n : w[i] = IF i = 0 THEN r ELSE step[w[i - 1]]
      BY <1>4
    <2> QED
      BY <2>1
  <1> QED
    BY <1>5

LEMMA StepsFollow ==
    ASSUME NEW step \in [Slot -> Slot], NEW r \in Slot, NEW n \in Nat, NEW w,
           w[0] = r, \A i \in 1 .. n : w[i] = step[w[i - 1]]
    PROVE  \A i \in 0 .. n : w[i] \in Slot
  <1> DEFINE S == {i \in Nat : i <= n => w[i] \in Slot}
  <1>1. 0 \in S
    OBVIOUS
  <1>2. \A i \in S : i + 1 \in S
    OBVIOUS
  <1>3. S = Nat
    BY <1>1, <1>2, Induction
  <1>4. ASSUME NEW i \in 0 .. n
        PROVE  w[i] \in Slot
    <2>1. i \in Nat /\ i <= n
      OBVIOUS
    <2> QED
      BY <1>3, <2>1
  <1> QED
    BY <1>4

\* What WalkFrom computes.
LEMMA WalkFromWalks ==
    ASSUME NEW t \in Tracks, EndOutOfWay(t), NEW r \in Slot, NEW n \in Nat
    PROVE  /\ WalkFrom(t, r, n) \in [0 .. n -> Slot]
           /\ WalkFrom(t, r, n)[0] = r
           /\ \A i \in 1 .. n : WalkFrom(t, r, n)[i]
                                  = NextRead(t, WalkFrom(t, r, n)[i - 1])
  <1> DEFINE step == [s \in Slot |-> NextRead(t, s)]
             w == WalkFrom(t, r, n)
  <1>1. step \in [Slot -> Slot]
    BY NextReadInRing
  <1>2. \E f : f = [i \in 0 .. n |-> IF i = 0 THEN r ELSE step[f[i - 1]]]
    <2> HIDE DEF step
    <2> QED
      BY <1>1, StepsExist
  <1>3. w = [i \in 0 .. n |-> IF i = 0 THEN r ELSE step[w[i - 1]]]
    BY <1>2, Zenon DEF WalkFrom
  <1>4. w[0] = r /\ \A i \in 1 .. n : w[i] = step[w[i - 1]]
    <2> HIDE DEF step
    <2>1. \A i \in 0 .. n : w[i] = IF i = 0 THEN r ELSE step[w[i - 1]]
      BY <1>3
    <2> QED
      BY <2>1
  <1>5. \A i \in 0 .. n : w[i] \in Slot
    <2> HIDE DEF step, w
    <2> QED
      BY <1>1, <1>4, StepsFollow
  <1>6. w \in [0 .. n -> Slot]
    BY <1>3, <1>5
  <1>7. \A i \in 1 .. n : w[i] = NextRead(t, w[i - 1])
    <2>1. \A i \in 1 .. n : w[i - 1] \in Slot
      BY <1>5
    <2> QED
      BY <1>4, <2>1
  <1> QED
    BY <1>4, <1>6, <1>7

\* A new slice moves the reader along the pattern, and nothing else.
LEMMA MadeSliceMoves ==
    ASSUME NEW t \in Tracks, EndOutOfWay(t)
    PROVE  \E s \in [0 .. SliceLength - 1 -> Slot], r \in Slot :
               MadeSlice(t) = [t EXCEPT !.slice = s, !.read = r]
  <1> DEFINE w == WalkFrom(t, t.read, SliceLength)
  <1>1. w \in [0 .. SliceLength -> Slot]
    <2>1. t.read \in Slot /\ SliceLength \in Nat
      BY TrackAssumption DEF Tracks
    <2> QED
      BY <2>1, WalkFromWalks
  <1> HIDE DEF w
  <1>2. /\ [i \in 0 .. SliceLength - 1 |-> w[i]] \in [0 .. SliceLength - 1 -> Slot]
        /\ w[SliceLength] \in Slot
    BY <1>1, TrackAssumption
  <1> QED
    BY <1>2 DEF MadeSlice, w

\* Rewinding leaves the pattern and what is recorded alone.
LEMMA RewoundMoves ==
    ASSUME NEW t \in Tracks, EndOutOfWay(t)
    PROVE  \E s \in [0 .. SliceLength - 1 -> Slot], r \in Slot :
               Rewound(t) = [t EXCEPT !.at = 0, !.ticks = 0, !.count = 0,
                                      !.write = IF t.start = None THEN 0 ELSE t.start,
                                      !.slice = s, !.read = r]
  <1> DEFINE first == IF t.start = None THEN 0 ELSE t.start
             back  == [t EXCEPT !.at = 0, !.ticks = 0, !.write = first,
                                !.read = first, !.count = 0]
  <1>1. t.start \in Slot \cup {None} /\ t.slice \in [0 .. SliceLength - 1 -> Slot]
    BY DEF Tracks
  <1>2. first \in Slot /\ first \in 0 .. Length
    BY <1>1, RingSize DEF Slot
  <1> HIDE DEF first
  <1>3. back \in Tracks /\ EndOutOfWay(back)
    <2>1. 0 \in 0 .. 1 /\ 0 \in 0 .. SliceLength - 1 /\ 0 \in 0 .. MaxCount
      BY TrackAssumption
    <2>2. back \in Tracks
      BY <1>2, <2>1 DEF Tracks
    <2> QED
      BY <2>2 DEF Tracks, EndOutOfWay
  <1>4. CASE t.recording
    <2>1. Rewound(t) = back
      BY <1>4 DEF Rewound, first
    <2>2. back = [t EXCEPT !.at = 0, !.ticks = 0, !.count = 0, !.write = first,
                           !.slice = t.slice, !.read = first]
      BY DEF Tracks
    <2> QED
      BY <1>1, <1>2, <2>1, <2>2 DEF first
  <1>5. CASE ~t.recording
    <2>1. PICK s \in [0 .. SliceLength - 1 -> Slot], r \in Slot :
              MadeSlice(back) = [back EXCEPT !.slice = s, !.read = r]
      BY <1>3, MadeSliceMoves
    <2>2. Rewound(t) = [back EXCEPT !.slice = s, !.read = r]
      BY <1>5, <2>1 DEF Rewound, first
    <2>3. [back EXCEPT !.slice = s, !.read = r]
              = [t EXCEPT !.at = 0, !.ticks = 0, !.count = 0, !.write = first,
                          !.slice = s, !.read = r]
      BY DEF Tracks
    <2> QED
      BY <2>2, <2>3 DEF first
  <1> QED
    BY <1>4, <1>5

-----------------------------------------------------------------------------
(* What a helper of Track may do: move the writer, begin a recording, end  *)
(* one, or clear the pattern; whatever it does, it leaves a sound track.   *)

Sound(t) ==
    /\ t \in Tracks
    /\ t.start = None => ~t.recording /\ t.write = 0 /\ t.end \in {None, 0}

Quiet(t) == t.empty => t.event = None /\ \A s \in Slot : ~t.on[s]

Moves(t, u) ==
    /\ u.start = t.start /\ u.end = t.end /\ u.recording = t.recording
    /\ u.recording => \/ u.write = t.write /\ u.count = t.count
                      \/ u.write = t.start /\ u.count = 0
                      \/ /\ u.write = NextWrite(t)
                         /\ u.count = IF t.count < MaxCount THEN t.count + 1 ELSE t.count

Begins(t, u) ==
    /\ ~t.recording /\ u.recording
    /\ u.start = IF t.start = None THEN t.read ELSE t.start
    /\ u.end = t.end /\ u.write = u.start /\ u.count = 0

Ends(t, u) ==
    /\ ~u.recording
    /\ u.end = IF t.end = None THEN t.write ELSE t.end
    /\ u.start = t.start \/ (t.end = None /\ t.count > Length /\ u.start \in Slot)

Clears(t, u) == u.start = None /\ u.end = None /\ ~u.recording

Goes(t, u) == Sound(u) /\ (Moves(t, u) \/ Begins(t, u) \/ Ends(t, u) \/ Clears(t, u))

\* The fields that hold no part of the pattern's bounds and no place in it.
SameEvents(t, u) ==
    /\ u.on = t.on /\ u.event = t.event /\ u.hit = t.hit /\ u.empty = t.empty
    /\ u.armed = t.armed

LEMMA TracksFields ==
    ASSUME NEW t \in Tracks
    PROVE  /\ t.on \in [0 .. Length -> BOOLEAN]
           /\ t.slice \in [0 .. SliceLength - 1 -> Slot]
           /\ t.event \in Slot \cup {None} /\ t.ticks \in 0 .. 1
           /\ t.write \in 0 .. Length /\ t.read \in Slot
           /\ t.at \in 0 .. SliceLength - 1
           /\ t.hit \in 0 .. SliceLength - 1 \cup {None}
           /\ t.count \in 0 .. MaxCount /\ t.start \in Slot \cup {None}
           /\ t.end \in 0 .. Length \cup {None}
           /\ t.armed \in BOOLEAN /\ t.autoCut \in BOOLEAN
           /\ t.recording \in BOOLEAN /\ t.empty \in BOOLEAN
  BY DEF Tracks

\* The bounds of the ranges, as the solvers need them.
LEMMA Ranges ==
    /\ 0 \in 0 .. 1 /\ 1 \in 0 .. 1 /\ 0 \in 0 .. SliceLength - 1 /\ 0 \in 0 .. MaxCount
    /\ 0 \in Slot /\ Slot \subseteq 0 .. Length /\ None \notin 0 .. Length
    /\ 0 .. Length \subseteq Nat /\ 0 .. SliceLength - 1 \subseteq Nat
    /\ 0 .. MaxCount \subseteq Nat
  BY RingSize, TrackAssumption DEF Slot, None

LEMMA RewoundGoes ==
    ASSUME NEW t \in Tracks, EndOutOfWay(t), t.recording => t.start # None
    PROVE  /\ Rewound(t) \in Tracks /\ Moves(t, Rewound(t)) /\ SameEvents(t, Rewound(t))
           /\ Rewound(t).write = IF t.start = None THEN 0 ELSE t.start
           /\ Rewound(t).count = 0 /\ Rewound(t).ticks = 0
           /\ Rewound(t).autoCut = t.autoCut
  <1> DEFINE first == IF t.start = None THEN 0 ELSE t.start
  <1>1. PICK s \in [0 .. SliceLength - 1 -> Slot], r \in Slot :
            Rewound(t) = [t EXCEPT !.at = 0, !.ticks = 0, !.count = 0, !.write = first,
                                   !.slice = s, !.read = r]
    BY RewoundMoves
  <1>2. first \in 0 .. Length
    BY TracksFields, Ranges
  <1>3. t.start = None \/ first = t.start
    OBVIOUS
  <1> HIDE DEF first
  <1>4. Rewound(t) \in Tracks
    <2>1. 0 \in 0 .. 1 /\ 0 \in 0 .. SliceLength - 1 /\ 0 \in 0 .. MaxCount
      BY Ranges
    <2> QED
      BY <1>1, <1>2, <2>1, ZenonT(60) DEF Tracks
  <1>5. /\ Rewound(t).start = t.start /\ Rewound(t).end = t.end
        /\ Rewound(t).recording = t.recording /\ SameEvents(t, Rewound(t))
        /\ Rewound(t).write = first /\ Rewound(t).count = 0 /\ Rewound(t).ticks = 0
        /\ Rewound(t).autoCut = t.autoCut
    BY <1>1 DEF Tracks, SameEvents
  <1> QED
    BY <1>4, <1>5, TracksFields DEF Moves, first

LEMMA StartedGoes ==
    ASSUME NEW t, Sound(t), ~t.recording
    PROVE  /\ Sound(Started(t)) /\ Begins(t, Started(t)) /\ SameEvents(t, Started(t))
           /\ Started(t).ticks = 0
  <1> DEFINE first == IF t.start = None THEN t.read ELSE t.start
             u == [t EXCEPT !.start = IF @ = None THEN t.read ELSE @,
                            !.write = t.read, !.recording = TRUE]
  <1>1. t \in Tracks
    BY DEF Sound
  <1>2. u = [t EXCEPT !.start = first, !.write = t.read, !.recording = TRUE]
    BY <1>1 DEF Tracks
  <1>3. first \in Slot /\ first # None
    BY <1>1, TracksFields, Ranges
  <1> HIDE DEF u, first
  <1>4. u \in Tracks
    BY <1>1, <1>2, <1>3, TracksFields, Ranges DEF Tracks
  <1>5. /\ u.start = first /\ u.end = t.end /\ u.recording
        /\ SameEvents(t, u)
    BY <1>1, <1>2 DEF Tracks, SameEvents
  <1>6. Started(t) = Rewound(u)
    BY DEF Started, u
  <1>7. EndOutOfWay(u)
    BY <1>3, <1>5 DEF EndOutOfWay
  <1> QED
    BY <1>3, <1>4, <1>5, <1>6, <1>7, RewoundGoes
       DEF Sound, Begins, SameEvents, Moves, first

LEMMA StoppedGoes ==
    ASSUME NEW t, Sound(t)
    PROVE  /\ Sound(Stopped(t)) /\ Ends(t, Stopped(t)) /\ SameEvents(t, Stopped(t))
  <1> DEFINE end == IF t.end = None THEN t.write ELSE t.end
             first == IF t.end = None /\ t.count > Length
                      THEN (IF t.write > 0 THEN t.write - 1 ELSE 0) ELSE t.start
             u == [t EXCEPT !.recording = FALSE, !.autoCut = FALSE,
                            !.end = IF @ = None THEN t.write ELSE @,
                            !.start = IF t.end = None /\ t.count > Length
                                      THEN (IF t.write > 0 THEN t.write - 1 ELSE 0)
                                      ELSE @]
  <1>1. t \in Tracks
    BY DEF Sound
  <1>2. u = [t EXCEPT !.recording = FALSE, !.autoCut = FALSE, !.end = end, !.start = first]
    BY <1>1 DEF Tracks
  <1>3. /\ end \in 0 .. Length /\ first \in Slot \cup {None}
        /\ first = t.start \/ (t.end = None /\ t.count > Length /\ first \in Slot)
    BY <1>1, TracksFields, Ranges, RingSize DEF Slot
  <1>4. first = None => end = 0
    BY <1>1, <1>3, Ranges DEF Sound, None
  <1>5. end = IF t.end = None THEN t.write ELSE t.end
    OBVIOUS
  <1> HIDE DEF u, first, end
  <1>6. u \in Tracks
    BY <1>1, <1>2, <1>3 DEF Tracks
  <1>7. /\ u.start = first /\ u.end = end /\ ~u.recording /\ SameEvents(t, u)
    BY <1>1, <1>2 DEF Tracks, SameEvents
  <1>8. Stopped(t) = Rewound(u)
    BY DEF Stopped, u
  <1>9. EndOutOfWay(u)
    BY <1>4, <1>7 DEF EndOutOfWay
  <1>10. /\ Stopped(t) \in Tracks /\ Moves(u, Stopped(t)) /\ SameEvents(u, Stopped(t))
         /\ Stopped(t).start = None => Stopped(t).write = 0
    BY <1>6, <1>7, <1>8, <1>9, RewoundGoes DEF Moves
  <1> QED
    BY <1>3, <1>4, <1>5, <1>7, <1>10 DEF Sound, Ends, SameEvents, Moves

LEMMA RewoundSound ==
    ASSUME NEW t, Sound(t)
    PROVE  Sound(Rewound(t)) /\ Moves(t, Rewound(t)) /\ SameEvents(t, Rewound(t))
  <1>1. t \in Tracks /\ EndOutOfWay(t) /\ (t.recording => t.start # None)
    BY DEF Sound, EndOutOfWay
  <1>2. /\ Rewound(t) \in Tracks /\ Moves(t, Rewound(t)) /\ SameEvents(t, Rewound(t))
        /\ Rewound(t).write = IF t.start = None THEN 0 ELSE t.start
    BY <1>1, RewoundGoes
  <1> QED
    BY <1>2 DEF Sound, Moves, SameEvents

LEMMA ClearedGoes ==
    ASSUME NEW t, Sound(t), ~t.recording
    PROVE  /\ Sound(Cleared(t)) /\ Clears(t, Cleared(t)) /\ Cleared(t).hit = t.hit
           /\ Quiet(Cleared(t))
  <1> DEFINE on == [s \in 0 .. Length |-> s = Length /\ t.on[s]]
             u == [t EXCEPT !.empty = TRUE, !.start = None, !.end = None, !.event = None,
                            !.on = [s \in 0 .. Length |-> s = Length /\ @[s]]]
  <1>1. t \in Tracks
    BY DEF Sound
  <1>2. u = [t EXCEPT !.empty = TRUE, !.start = None, !.end = None, !.event = None,
                      !.on = on]
    BY <1>1 DEF Tracks
  <1>3. on \in [0 .. Length -> BOOLEAN] /\ \A s \in Slot : ~on[s]
    <2>1. \A s \in Slot : s \in 0 .. Length /\ s # Length
      BY RingSize DEF Slot
    <2>2. \A s \in 0 .. Length : t.on[s] \in BOOLEAN
      BY <1>1, TracksFields
    <2> QED
      BY <2>1, <2>2
  <1> HIDE DEF u, on
  <1>4. u \in Tracks
    BY <1>1, <1>2, <1>3 DEF Tracks
  <1>5. /\ u.start = None /\ u.end = None /\ ~u.recording /\ u.empty /\ u.event = None
        /\ u.on = on /\ u.hit = t.hit
    BY <1>1, <1>2 DEF Tracks
  <1>6. Cleared(t) = Rewound(u)
    BY DEF Cleared, u
  <1>7. /\ Cleared(t) \in Tracks /\ Moves(u, Cleared(t)) /\ SameEvents(u, Cleared(t))
        /\ Cleared(t).write = 0
    BY <1>4, <1>5, <1>6, RewoundGoes DEF EndOutOfWay
  <1> QED
    BY <1>3, <1>5, <1>7 DEF Sound, Quiet, Clears, SameEvents, Moves

\* Fields the bounds of the pattern do not depend on.
LEMMA FlagsGo ==
    ASSUME NEW t, Sound(t), NEW a \in BOOLEAN, NEW c \in BOOLEAN
    PROVE  LET u == [t EXCEPT !.armed = a, !.autoCut = c]
           IN  /\ Sound(u) /\ Moves(t, u) /\ u.hit = t.hit /\ u.recording = t.recording
               /\ u.start = t.start /\ u.end = t.end /\ u.write = t.write
               /\ u.count = t.count /\ (Quiet(t) => Quiet(u))
  <1> DEFINE u == [t EXCEPT !.armed = a, !.autoCut = c]
  <1>1. u \in Tracks
    BY DEF Sound, Tracks
  <1>2. /\ u.hit = t.hit /\ u.recording = t.recording /\ u.start = t.start
        /\ u.end = t.end /\ u.write = t.write /\ u.count = t.count
        /\ u.empty = t.empty /\ u.event = t.event /\ u.on = t.on
    BY DEF Sound, Tracks
  <1> HIDE DEF u
  <1>3. Sound(u) /\ Moves(t, u) /\ (Quiet(t) => Quiet(u))
    BY <1>1, <1>2 DEF Sound, Quiet, Moves
  <1> QED
    BY <1>2, <1>3 DEF u

LEMMA ArmedGoes ==
    ASSUME NEW t, Sound(t), NEW auto \in BOOLEAN
    PROVE  /\ Goes(t, Armed(t, auto)) /\ Armed(t, auto).hit = t.hit
           /\ Quiet(t) => Quiet(Armed(t, auto))
  <1> DEFINE r == IF t.empty THEN Rewound(t) ELSE t
             u == [r EXCEPT !.armed = TRUE, !.autoCut = auto]
  <1>1. Sound(r) /\ Moves(t, r) /\ r.hit = t.hit /\ (Quiet(t) => Quiet(r))
    BY RewoundSound DEF SameEvents, Moves, Quiet
  <1> HIDE DEF r
  <1>2. /\ Sound(u) /\ Moves(r, u) /\ u.hit = r.hit /\ u.recording = r.recording
        /\ u.start = r.start /\ u.end = r.end /\ u.write = r.write /\ u.count = r.count
        /\ Quiet(r) => Quiet(u)
    BY <1>1, FlagsGo
  <1> HIDE DEF u
  <1>3. Armed(t, auto) = u
    BY DEF Armed, u, r
  <1> QED
    BY <1>1, <1>2, <1>3 DEF Goes, Moves

\* Disarming ends the recording, or leaves that to the clock.
LEMMA DisarmedGoes ==
    ASSUME NEW t, Sound(t), NEW force \in BOOLEAN
    PROVE  /\ Goes(t, Disarmed(t, force)) /\ Disarmed(t, force).hit = t.hit
           /\ Ends(t, Disarmed(t, force)) \/ (~force /\ Moves(t, Disarmed(t, force)))
           /\ Quiet(t) => Quiet(Disarmed(t, force))
  <1> DEFINE off == [t EXCEPT !.armed = FALSE]
  <1>1. /\ Sound(off) /\ Moves(t, off) /\ off.hit = t.hit /\ off.recording = t.recording
        /\ off.start = t.start /\ off.end = t.end /\ off.write = t.write
        /\ off.count = t.count /\ (Quiet(t) => Quiet(off))
    <2>1. t.autoCut \in BOOLEAN /\ t \in Tracks
      BY TracksFields DEF Sound
    <2>2. off = [t EXCEPT !.armed = FALSE, !.autoCut = t.autoCut]
      BY <2>1 DEF Tracks
    <2> HIDE DEF off
    <2> QED
      BY <2>1, <2>2, FlagsGo
  <1>2. Disarmed(t, force) = IF force \/ ~t.autoCut THEN Stopped(off) ELSE off
    BY DEF Disarmed
  <1> HIDE DEF off
  <1>3. Sound(Stopped(off)) /\ Ends(off, Stopped(off)) /\ SameEvents(off, Stopped(off))
    BY <1>1, StoppedGoes
  <1>4. Ends(t, Stopped(off)) /\ Stopped(off).hit = t.hit /\ (Quiet(t) => Quiet(Stopped(off)))
    BY <1>1, <1>3 DEF Ends, SameEvents, Quiet
  <1> QED
    BY <1>1, <1>2, <1>3, <1>4 DEF Goes

\* A hit moves nothing, unless it begins the recording.
LEMMA PlacedGoes ==
    ASSUME NEW t, Sound(t)
    PROVE  /\ Goes(t, Placed(t)) /\ Placed(t).hit = t.hit
           /\ ~Placed(t).recording => Placed(t) = t
  <1> DEFINE r == IF ~t.autoCut /\ t.armed /\ ~t.recording THEN Started(t) ELSE t
             on == [r.on EXCEPT ![r.write] = TRUE]
             u == [r EXCEPT !.on = on]
  <1>1. /\ Sound(r) /\ (Moves(t, r) \/ Begins(t, r)) /\ r.hit = t.hit
        /\ ~r.recording => r = t
    BY StartedGoes DEF SameEvents, Moves, Begins
  <1>2. Placed(t) = IF r.recording THEN [r EXCEPT !.on[r.write] = TRUE] ELSE r
    BY DEF Placed
  <1> HIDE DEF r
  <1>3. r \in Tracks
    BY <1>1 DEF Sound
  <1>4. [r EXCEPT !.on[r.write] = TRUE] = u
    BY <1>3 DEF Tracks
  <1>5. on \in [0 .. Length -> BOOLEAN]
    BY <1>3, TracksFields
  <1> HIDE DEF on
  <1>6. CASE ~r.recording
    BY <1>1, <1>2, <1>6 DEF Goes
  <1>7. CASE r.recording
    <2>1. u \in Tracks
      BY <1>3, <1>5, TracksFields DEF Tracks
    <2>2. /\ u.hit = r.hit /\ u.recording = r.recording /\ u.start = r.start
          /\ u.end = r.end /\ u.write = r.write /\ u.count = r.count
      BY <1>3 DEF Tracks
    <2> HIDE DEF u
    <2>3. Sound(u) /\ (Moves(t, u) \/ Begins(t, u))
      BY <1>1, <1>7, <2>1, <2>2 DEF Sound, Moves, Begins
    <2> QED
      BY <1>1, <1>2, <1>4, <1>7, <2>2, <2>3 DEF Goes
  <1> QED
    BY <1>6, <1>7

\* It is remembered by the slice slot, and the track is not empty any more.
LEMMA RememberedGoes ==
    ASSUME NEW t, Sound(t)
    PROVE  /\ Goes(t, Remembered(t)) /\ Remembered(t).hit = t.at
           /\ Quiet(Remembered(t))
  <1> DEFINE u == [t EXCEPT !.hit = t.at, !.empty = FALSE]
  <1>1. t \in Tracks
    BY DEF Sound
  <1>2. u \in Tracks
    BY <1>1, TracksFields DEF Tracks
  <1>3. /\ u.hit = t.at /\ ~u.empty /\ u.recording = t.recording /\ u.start = t.start
        /\ u.end = t.end /\ u.write = t.write /\ u.count = t.count
    BY <1>1 DEF Tracks
  <1>4. Remembered(t) = u
    BY DEF Remembered
  <1> HIDE DEF u
  <1>5. Sound(u) /\ Moves(t, u)
    BY <1>2, <1>3 DEF Sound, Moves
  <1> QED
    BY <1>3, <1>4, <1>5 DEF Goes, Quiet

LEMMA CutGoes ==
    ASSUME NEW t, Sound(t), NEW key \in BOOLEAN
    PROVE  /\ Sound(Cut(t, key)) /\ Cut(t, key).hit = t.hit
           /\ \/ Cut(t, key) = t
              \/ Begins(t, Cut(t, key)) /\ Cut(t, key).ticks = 0
              \/ Ends(t, Cut(t, key))
           /\ Quiet(t) => Quiet(Cut(t, key))
  <1>1. CASE Cut(t, key) = t
    BY <1>1
  <1>2. CASE ~t.recording /\ Cut(t, key) = Started(t)
    BY <1>2, StartedGoes DEF SameEvents, Quiet
  <1>3. CASE Cut(t, key) = Stopped(t)
    BY <1>3, StoppedGoes DEF SameEvents, Quiet
  <1> QED
    BY <1>1, <1>2, <1>3 DEF Cut

LEMMA AdvancedGoes ==
    ASSUME NEW t, Sound(t)
    PROVE  /\ Sound(Advanced(t)) /\ Moves(t, Advanced(t)) /\ SameEvents(t, Advanced(t))
  <1> DEFINE last == t.at + 1 >= SliceLength
             full == IF last /\ (~t.recording \/ t.end # None) THEN MadeSlice(t) ELSE t
             place == IF last THEN 0 ELSE t.at + 1
             next == [full EXCEPT !.ticks = 0, !.at = IF last THEN 0 ELSE @ + 1]
             more == IF t.count < MaxCount THEN t.count + 1 ELSE t.count
             u == [next EXCEPT !.write = NextWrite(next),
                               !.count = IF @ < MaxCount THEN @ + 1 ELSE @]
  <1>1. t \in Tracks /\ EndOutOfWay(t)
    BY DEF Sound, EndOutOfWay
  <1>2. PICK s \in [0 .. SliceLength - 1 -> Slot], r \in Slot :
            full = [t EXCEPT !.slice = s, !.read = r]
    <2>1. CASE full = MadeSlice(t)
      BY <1>1, <2>1, MadeSliceMoves, ZenonT(60)
    <2>2. CASE full = t
      <3>1. t = [t EXCEPT !.slice = t.slice, !.read = t.read]
        BY <1>1 DEF Tracks
      <3>2. t.slice \in [0 .. SliceLength - 1 -> Slot] /\ t.read \in Slot
        BY <1>1, TracksFields
      <3> HIDE DEF full
      <3> QED
        BY <2>2, <3>1, <3>2
    <2> QED
      BY <2>1, <2>2
  <1>3. place \in 0 .. SliceLength - 1
    BY <1>1, TracksFields, TrackAssumption
  <1>4. next = [t EXCEPT !.slice = s, !.read = r, !.ticks = 0, !.at = place]
    BY <1>1, <1>2 DEF Tracks
  <1>5. Advanced(t) = IF t.recording THEN u ELSE next
    BY DEF Advanced
  <1> HIDE DEF last, full, place, next
  <1>6. next \in Tracks
    BY <1>1, <1>3, <1>4, Ranges DEF Tracks
  <1>7. /\ next.start = t.start /\ next.end = t.end /\ next.recording = t.recording
        /\ next.write = t.write /\ next.count = t.count
        /\ SameEvents(t, next)
    BY <1>1, <1>4 DEF Tracks, SameEvents
  <1>8. CASE ~t.recording
    BY <1>5, <1>6, <1>7, <1>8 DEF Sound, Moves, SameEvents
  <1>9. CASE t.recording
    <2>1. NextWrite(next) = NextWrite(t)
      BY <1>7 DEF NextWrite
    <2>2. u = [next EXCEPT !.write = NextWrite(t), !.count = more]
      BY <1>6, <1>7, <2>1 DEF Tracks
    <2>3. t.start \in Slot /\ NextWrite(t) \in 0 .. Length /\ more \in 0 .. MaxCount
      <3>1. t.start \in Slot
        BY <1>1, <1>9, TracksFields DEF Sound
      <3>2. t.write \in 0 .. Length /\ t.count \in 0 .. MaxCount
        BY <1>1, TracksFields
      <3>3. NextWrite(t) \in 0 .. Length
        <4>1. t.write \in Int /\ 0 <= t.write /\ t.write <= Length /\ Length \in Nat
          BY <3>2, RingSize
        <4>2. t.start \in 0 .. Length /\ 0 \in 0 .. Length
          BY <3>1, Ranges
        <4>3. t.write < Length => t.write + 1 \in 0 .. Length
          BY <4>1
        <4> QED
          BY <4>1, <4>2, <4>3 DEF NextWrite
      <3>4. more \in 0 .. MaxCount
        BY <3>2, TrackAssumption
      <3> QED
        BY <3>1, <3>3, <3>4
    <2>4. more = IF t.count < MaxCount THEN t.count + 1 ELSE t.count
      OBVIOUS
    <2> HIDE DEF u, more
    <2>5. u \in Tracks
      BY <1>6, <2>2, <2>3 DEF Tracks
    <2>6. /\ u.start = t.start /\ u.end = t.end /\ u.recording = t.recording
          /\ u.write = NextWrite(t) /\ u.count = more /\ SameEvents(t, u)
      BY <1>6, <1>7, <2>2 DEF Tracks, SameEvents
    <2> QED
      BY <1>5, <1>9, <2>3, <2>4, <2>5, <2>6, Ranges DEF Sound, Moves, SameEvents
  <1> QED
    BY <1>8, <1>9

\* A tick plays no slot that a hit has just been recorded in.
LEMMA TickedGoes ==
    ASSUME NEW t, Sound(t), NEW key \in BOOLEAN
    PROVE  /\ Goes(t, Ticked(t, key)) /\ Ticked(t, key).hit = None
           /\ Ticked(t, key).at = t.hit => Ticked(t, key).event = None
           /\ Quiet(t) => Quiet(Ticked(t, key))
  <1> DEFINE c == Cut(t, key)
             a == IF c.ticks + 1 >= 2 THEN Advanced(c) ELSE [c EXCEPT !.ticks = @ + 1]
             event == IF c.at = a.at /\ a.on[a.slice[a.at]] /\ a.at # a.hit
                      THEN a.slice[a.at] ELSE None
             u == [a EXCEPT !.event = event, !.hit = None]
  <1>1. /\ Sound(c) /\ c.hit = t.hit /\ (Quiet(t) => Quiet(c))
        /\ c = t \/ (Begins(t, c) /\ c.ticks = 0) \/ Ends(t, c)
    BY CutGoes
  <1>2. Ticked(t, key) = u
    BY DEF Ticked
  <1> HIDE DEF c
  <1>3. /\ Sound(a) /\ Moves(c, a) /\ SameEvents(c, a)
        /\ c.ticks = 0 => a.write = c.write /\ a.count = c.count
    <2>1. CASE c.ticks + 1 >= 2
      BY <1>1, <2>1, AdvancedGoes
    <2>2. CASE ~(c.ticks + 1 >= 2)
      <3>1. c \in Tracks
        BY <1>1 DEF Sound
      <3>2. a = [c EXCEPT !.ticks = 1]
        BY <2>2, <3>1, TracksFields DEF Tracks
      <3> HIDE DEF a
      <3>3. a \in Tracks
        BY <3>1, <3>2, Ranges DEF Tracks
      <3>4. /\ a.start = c.start /\ a.end = c.end /\ a.recording = c.recording
            /\ a.write = c.write /\ a.count = c.count /\ SameEvents(c, a)
        BY <3>1, <3>2 DEF Tracks, SameEvents
      <3> QED
        BY <1>1, <3>3, <3>4 DEF Sound, Moves, SameEvents
    <2> QED
      BY <2>1, <2>2
  <1>4. /\ event \in Slot \cup {None}
        /\ event # None => a.at # a.hit /\ a.on[a.slice[a.at]] /\ a.slice[a.at] \in Slot
    BY <1>3, TracksFields DEF Sound
  <1> HIDE DEF a, event
  <1>5. u \in Tracks
    BY <1>3, <1>4 DEF Tracks, Sound
  <1>6. /\ u.start = a.start /\ u.end = a.end /\ u.recording = a.recording
        /\ u.write = a.write /\ u.count = a.count /\ u.on = a.on /\ u.empty = a.empty
        /\ u.event = event /\ u.hit = None /\ u.at = a.at
    BY <1>3 DEF Tracks, Sound
  <1> HIDE DEF u
  <1>7. Sound(u)
    BY <1>3, <1>4, <1>5, <1>6 DEF Sound
  <1>10. Quiet(t) => Quiet(u)
    BY <1>1, <1>3, <1>4, <1>6 DEF Quiet, SameEvents
  <1>8. Moves(c, u) /\ (c.ticks = 0 => u.write = c.write /\ u.count = c.count)
    BY <1>3, <1>6 DEF Moves
  <1>9. Moves(t, u) \/ Begins(t, u) \/ Ends(t, u)
    BY <1>1, <1>8 DEF Moves, Begins, Ends
  <1> QED
    BY <1>1, <1>2, <1>3, <1>4, <1>6, <1>7, <1>9, <1>10 DEF Goes, SameEvents

-----------------------------------------------------------------------------
(* The invariant.                                                          *)

Takes == [length : 0 .. MaxCount, open : BOOLEAN, early : BOOLEAN,
          hitAt : 0 .. SliceLength - 1 \cup {None}]

LEMMA InvIsSound == IInv => Sound(track) /\ (~adding => Quiet(track))
  BY DEF IInv, TypeOK, EmptyPlaysNothing, Unstarted, Sound, Quiet, Tracks

\* What the history makes of a step of the track.
LEMMA NotedType ==
    ASSUME take \in Takes, track' \in Tracks,
           NEW h \in 0 .. SliceLength - 1 \cup {None}, Noted(track', h)
    PROVE  take' \in Takes /\ take'.hitAt = h
  <1> DEFINE base == IF track'.start = None THEN NoTake
                     ELSE IF track.start = None
                          THEN [NoTake EXCEPT !.open = track'.recording,
                                              !.early = track'.end # None]
                     ELSE IF take.open
                          THEN [take EXCEPT !.length = IF track'.recording
                                                       THEN track'.count ELSE @,
                                            !.open = track'.recording]
                     ELSE take
  <1>1. track'.count \in 0 .. MaxCount /\ track'.recording \in BOOLEAN
    BY DEF Tracks
  <1>2. NoTake \in Takes
    BY Ranges DEF NoTake, Takes
  <1>3. base \in Takes
    <2>1. [NoTake EXCEPT !.open = track'.recording, !.early = track'.end # None] \in Takes
      BY <1>1, <1>2 DEF Takes
    <2>2. [take EXCEPT !.length = IF track'.recording THEN track'.count ELSE @,
                       !.open = track'.recording] \in Takes
      <3> DEFINE l == IF track'.recording THEN track'.count ELSE take.length
      <3>1. l \in 0 .. MaxCount
        BY <1>1 DEF Takes
      <3>2. [take EXCEPT !.length = IF track'.recording THEN track'.count ELSE @,
                         !.open = track'.recording]
                = [take EXCEPT !.length = l, !.open = track'.recording]
        BY DEF Takes
      <3> HIDE DEF l
      <3> QED
        BY <1>1, <3>1, <3>2 DEF Takes
    <2> QED
      BY <1>2, <2>1, <2>2
  <1>4. take' = [base EXCEPT !.hitAt = h]
    BY DEF Noted
  <1> HIDE DEF base
  <1> QED
    BY <1>3, <1>4 DEF Takes

\* The bounds of the pattern and the recording that set them stay together.
LEMMA NotedTake ==
    ASSUME IInv, Goes(track, track'),
           NEW h \in 0 .. SliceLength - 1 \cup {None}, Noted(track', h)
    PROVE  TakeUnderWay' /\ TakeSetsEnd'
  <1>1. /\ track \in Tracks /\ track' \in Tracks /\ take \in Takes /\ take' \in Takes
    BY InvIsSound, NotedType DEF IInv, TypeOK, Goes, Sound, Takes
  <1>2. CASE track'.start = None
    <2>1. take'.open = FALSE
      BY <1>2 DEF Noted, NoTake
    <2> QED
      BY <1>2, <2>1 DEF TakeUnderWay, TakeSetsEnd
  <1>3. CASE track'.start # None /\ track.start = None
    <2>1. /\ take'.open = track'.recording /\ take'.length = 0
          /\ ~take'.early <=> track'.end = None
      BY <1>3 DEF Noted, NoTake
    <2>2. ~track.recording /\ track.write = 0
      BY <1>3 DEF IInv, Unstarted
    <2>3. CASE Begins(track, track')
      <3>1. track'.count = 0 /\ track'.write = track'.start /\ track'.recording
        BY <2>3 DEF Begins
      <3>2. track'.start \in Nat
        BY <1>1, <1>3, TracksFields, Ranges
      <3> QED
        BY <1>3, <2>1, <3>1, <3>2 DEF TakeUnderWay, TakeSetsEnd
    <2>4. CASE Ends(track, track')
      <3>1. track'.end # None /\ ~track'.recording
        BY <1>1, <2>4, TracksFields, Ranges DEF Ends
      <3> QED
        BY <2>1, <3>1 DEF TakeUnderWay, TakeSetsEnd
    <2> QED
      BY <1>3, <2>3, <2>4 DEF Goes, Moves, Clears
  <1>4. CASE track'.start # None /\ track.start # None /\ take.open
    <2>1. /\ take'.open = track'.recording /\ take'.early = take.early
          /\ take'.length = IF track'.recording THEN track'.count ELSE take.length
      BY <1>1, <1>4 DEF Noted, Takes
    <2>2. /\ track.recording
          /\ ~take.early => /\ track.end = None /\ take.length = track.count
                            /\ track.start + track.count <= Length
                                 => track.write = track.start + track.count
      BY <1>4 DEF IInv, TakeUnderWay
    <2>3. /\ track.start \in Nat /\ track'.start \in Nat /\ track.count \in Nat
          /\ track.write \in 0 .. Length /\ Length \in Nat /\ MaxCount > Length
      BY <1>1, <1>4, TracksFields, Ranges, RingSize, TrackAssumption
    <2>4. CASE Moves(track, track')
      <3>1. track'.recording /\ track'.start = track.start /\ track'.end = track.end
        BY <2>2, <2>4 DEF Moves
      <3>2. ASSUME ~take.early
            PROVE  track'.start + track'.count <= Length
                     => track'.write = track'.start + track'.count
        BY <2>2, <2>3, <2>4, <3>1, <3>2, TrackAssumption DEF Moves, NextWrite, None
      <3> QED
        BY <1>4, <2>1, <2>2, <3>1, <3>2 DEF TakeUnderWay, TakeSetsEnd
    <2>5. CASE Ends(track, track')
      <3>1. ~track'.recording
        BY <2>5 DEF Ends
      <3>2. ASSUME ~take.early
            PROVE  /\ track'.end # None
                   /\ track'.start + take.length <= Length
                        => track'.end = track'.start + take.length
        <4>1. track'.end = track.write /\ track.write # None
          BY <2>2, <2>3, <2>5, <3>2, Ranges DEF Ends
        <4> QED
          BY <2>2, <2>3, <2>5, <3>2, <4>1 DEF Ends
      <3> QED
        BY <2>1, <3>1, <3>2 DEF TakeUnderWay, TakeSetsEnd
    <2> QED
      BY <1>4, <2>2, <2>4, <2>5 DEF Goes, Begins, Clears
  <1>5. CASE track'.start # None /\ track.start # None /\ ~take.open
    <2>1. /\ take'.open = take.open /\ take'.early = take.early
          /\ take'.length = take.length
      BY <1>1, <1>5 DEF Noted, Takes
    <2>2. CASE take.early
      BY <1>5, <2>1, <2>2 DEF TakeUnderWay, TakeSetsEnd
    <2>3. CASE ~take.early
      <3>1. /\ track.end # None
            /\ track.start + take.length <= Length => track.end = track.start + take.length
        BY <1>5, <2>3 DEF IInv, TakeSetsEnd
      <3>2. track'.start = track.start /\ track'.end = track.end
        BY <1>5, <3>1 DEF Goes, Moves, Begins, Ends, Clears
      <3> QED
        BY <1>5, <2>1, <3>1, <3>2 DEF TakeUnderWay, TakeSetsEnd
    <2> QED
      BY <2>2, <2>3
  <1> QED
    BY <1>2, <1>3, <1>4, <1>5

\* A handler that takes the track a step and notes it keeps the invariant.
LEMMA HandlerKeeps ==
    ASSUME IInv, Goes(track, track'), ~adding' => Quiet(track'),
           playing' \in BOOLEAN, queued' \in BOOLEAN, adding' \in BOOLEAN,
           NEW h \in 0 .. SliceLength - 1 \cup {None}, Noted(track', h),
           h # None => h = IF adding' THEN track'.at ELSE track'.hit
    PROVE  IInv' /\ take'.hitAt = h
  <1>1. Sound(track') /\ track' \in Tracks
    BY DEF Goes, Sound
  <1>3. take \in Takes
    BY DEF IInv, TypeOK, Takes
  <1>4. take' \in Takes /\ take'.hitAt = h
    BY <1>1, <1>3, NotedType
  <1>5. TypeOK'
    BY <1>1, <1>4 DEF TypeOK, Tracks, Takes
  <1>6. EmptyPlaysNothing' /\ Unstarted' /\ HitRemembered'
    BY <1>1, <1>4 DEF Sound, Quiet, EmptyPlaysNothing, Unstarted, HitRemembered
  <1>7. TakeUnderWay' /\ TakeSetsEnd'
    BY NotedTake
  <1> QED
    BY <1>4, <1>5, <1>6, <1>7 DEF IInv

THEOREM InitInv == Init => IInv
  <1> SUFFICES ASSUME Init PROVE IInv
    OBVIOUS
  <1>1. Blank \in Tracks
    <2>1. [i \in 0 .. SliceLength - 1 |-> i] \in [0 .. SliceLength - 1 -> Slot]
      <3>1. \A a, b \in Nat \ {0} : a <= a * b
        OBVIOUS
      <3>2. SliceLength <= Length
        BY <3>1, TrackAssumption DEF Length
      <3> QED
        BY <3>2, RingSize, TrackAssumption DEF Slot
    <2> QED
      BY <2>1, Ranges DEF Blank, Tracks
  <1>2. Sound(Blank) /\ ~Blank.recording /\ Blank.hit = None
    <2>1. Blank.start = None /\ Blank.end = None /\ Blank.write = 0 /\ ~Blank.recording
          /\ Blank.event = None /\ Blank.hit = None /\ \A s \in Slot : ~Blank.on[s]
      BY Ranges DEF Blank
    <2> QED
      BY <1>1, <2>1 DEF Sound
  <1>3. Sound(track) /\ Quiet(track) /\ Clears(Blank, track) /\ track.hit = None
    BY <1>2, ClearedGoes DEF Init
  <1>4. /\ take \in Takes /\ take.hitAt = None /\ take.open = FALSE
        /\ playing \in BOOLEAN /\ queued \in BOOLEAN /\ adding = FALSE
    BY Ranges DEF Init, NoTake, Takes
  <1>5. TypeOK
    BY <1>3, <1>4 DEF TypeOK, Sound, Tracks, Takes
  <1> QED
    BY <1>3, <1>4, <1>5
       DEF IInv, Sound, Quiet, Clears, EmptyPlaysNothing, Unstarted, HitRemembered,
           TakeUnderWay, TakeSetsEnd

\* A tick, and what it plays: nothing in a slice slot that is remembered.
LEMMA TickKeeps ==
    ASSUME IInv, NEW key \in BOOLEAN, Tick(key)
    PROVE  /\ IInv' /\ take'.hitAt = None
           /\ ~adding /\ track'.at = take.hitAt => track'.event = None
  <1>1. /\ Goes(track, track') /\ track'.hit = None
        /\ track'.at = track.hit => track'.event = None
        /\ Quiet(track) => Quiet(track')
    BY InvIsSound, TickedGoes DEF Tick
  <1>2. playing \in BOOLEAN /\ queued \in BOOLEAN /\ adding \in BOOLEAN
    BY DEF IInv, TypeOK
  <1>3. Noted(track', None) /\ adding' = adding
    BY DEF Tick
  <1>4. track.empty \in BOOLEAN
    BY InvIsSound DEF Sound, Tracks
  <1>5. playing' \in BOOLEAN /\ queued' \in BOOLEAN
    BY <1>2, <1>4 DEF Tick
  <1>6. IInv' /\ take'.hitAt = None
    BY <1>1, <1>2, <1>3, <1>5, InvIsSound, HandlerKeeps
  <1>7. track'.at # None
    <2>1. track'.at \in 0 .. SliceLength - 1
      BY <1>1 DEF Goes, Sound, Tracks
    <2> QED
      BY <2>1, Ranges DEF None
  <1>8. ASSUME ~adding, track'.at = take.hitAt
        PROVE  track'.at = track.hit
    BY <1>7, <1>8 DEF IInv, HitRemembered
  <1> QED
    BY <1>1, <1>6, <1>8

\* The pads, MIDI and the gates: what was hit stays so.
LEMMA BecomesKeeps ==
    ASSUME IInv, NEW t, Goes(track, t), Quiet(track) => Quiet(t), t.hit = track.hit,
           Becomes(t), playing' \in BOOLEAN, queued' \in BOOLEAN
    PROVE  IInv' /\ take'.hitAt = take.hitAt
  <1>1. /\ Goes(track, track') /\ track'.hit = track.hit /\ Noted(track', take.hitAt)
        /\ ~adding /\ adding' = FALSE /\ Quiet(track')
    BY InvIsSound DEF Becomes, IInv, TypeOK
  <1>2. /\ take.hitAt \in 0 .. SliceLength - 1 \cup {None}
        /\ take.hitAt # None => take.hitAt = track.hit
    BY <1>1 DEF IInv, TypeOK, HitRemembered
  <1> QED
    BY <1>1, <1>2, HandlerKeeps

LEMMA PlayPadKeeps ==
    ASSUME IInv, PlayPad
    PROVE  IInv' /\ take'.hitAt = take.hitAt
  <1> DEFINE t == IF track.armed THEN Disarmed(track, ~track.recording) ELSE track
  <1>1. Sound(track) /\ (~track.recording) \in BOOLEAN
    BY InvIsSound
  <1>2. Goes(track, t) /\ t.hit = track.hit /\ (Quiet(track) => Quiet(t))
    <2>1. CASE track.armed
      BY <1>1, <2>1, DisarmedGoes
    <2>2. CASE ~track.armed
      BY <1>1, <2>2 DEF Goes, Moves
    <2> QED
      BY <2>1, <2>2
  <1>3. Becomes(t) /\ queued' = ~t.empty /\ playing' = t.empty
    BY DEF PlayPad
  <1> HIDE DEF t
  <1>4. t.empty \in BOOLEAN
    BY <1>2 DEF Goes, Sound, Tracks
  <1> QED
    BY <1>2, <1>3, <1>4, BecomesKeeps

LEMMA StopKeeps ==
    ASSUME IInv, Stop
    PROVE  IInv' /\ take'.hitAt = take.hitAt
  <1>1. /\ Goes(track, Rewound(track)) /\ Rewound(track).hit = track.hit
        /\ Quiet(track) => Quiet(Rewound(track))
    BY InvIsSound, RewoundSound DEF Goes, SameEvents, Quiet
  <1>2. queued \in BOOLEAN
    BY DEF IInv, TypeOK
  <1> QED
    BY <1>1, <1>2, BecomesKeeps DEF Stop

LEMMA ToggleArmKeeps ==
    ASSUME IInv, NEW auto \in BOOLEAN, ToggleArm(auto)
    PROVE  IInv' /\ take'.hitAt = take.hitAt
  <1> DEFINE t == IF track.armed THEN Disarmed(track, FALSE) ELSE Armed(track, auto)
  <1>1. Goes(track, t) /\ t.hit = track.hit /\ (Quiet(track) => Quiet(t))
    BY InvIsSound, DisarmedGoes, ArmedGoes
  <1>2. Becomes(t) /\ UNCHANGED <<playing, queued>> /\ playing \in BOOLEAN /\ queued \in BOOLEAN
    BY DEF ToggleArm, IInv, TypeOK
  <1> HIDE DEF t
  <1> QED
    BY <1>1, <1>2, BecomesKeeps

LEMMA DisarmTrackKeeps ==
    ASSUME IInv, DisarmTrack
    PROVE  IInv' /\ take'.hitAt = take.hitAt
  <1>1. /\ Goes(track, Disarmed(track, FALSE)) /\ Disarmed(track, FALSE).hit = track.hit
        /\ Quiet(track) => Quiet(Disarmed(track, FALSE))
    BY InvIsSound, DisarmedGoes
  <1> QED
    BY <1>1, BecomesKeeps DEF DisarmTrack, IInv, TypeOK

\* A hit is noted in the slice slot of its first half, and the second remembers it.
LEMMA TriggerKeeps ==
    ASSUME IInv, Trigger
    PROVE  IInv' /\ (take'.hitAt = take.hitAt \/ take'.hitAt # None)
  <1> DEFINE h == IF track'.recording THEN track'.at ELSE take.hitAt
  <1>1. /\ Goes(track, track') /\ track'.hit = track.hit /\ ~adding
        /\ ~track'.recording => track' = track
        /\ track'.recording \in BOOLEAN /\ adding' = track'.recording
        /\ Noted(track', h)
    BY InvIsSound, PlacedGoes DEF Trigger, Goes, Sound, Tracks
  <1>2. track'.at \in 0 .. SliceLength - 1 /\ track'.at # None
    <2>1. track'.at \in 0 .. SliceLength - 1
      BY <1>1 DEF Goes, Sound, Tracks
    <2> QED
      BY <2>1, Ranges DEF None
  <1>3. /\ take.hitAt \in 0 .. SliceLength - 1 \cup {None}
        /\ take.hitAt # None => take.hitAt = track.hit
    BY <1>1 DEF IInv, TypeOK, HitRemembered
  <1>4. ~adding' => Quiet(track')
    BY <1>1, InvIsSound
  <1>5. /\ h \in 0 .. SliceLength - 1 \cup {None} /\ (h = take.hitAt \/ h # None)
        /\ h # None => h = IF adding' THEN track'.at ELSE track'.hit
    BY <1>1, <1>2, <1>3
  <1> HIDE DEF h
  <1> QED
    BY <1>1, <1>4, <1>5, HandlerKeeps DEF Trigger, IInv, TypeOK

LEMMA RememberKeeps ==
    ASSUME IInv, Remember
    PROVE  IInv' /\ take'.hitAt = take.hitAt
  <1>1. /\ Goes(track, track') /\ track'.hit = track.at /\ Quiet(track')
        /\ adding /\ adding' = FALSE /\ Noted(track', take.hitAt)
    BY InvIsSound, RememberedGoes DEF Remember
  <1>2. /\ take.hitAt \in 0 .. SliceLength - 1 \cup {None}
        /\ take.hitAt # None => take.hitAt = track.at
    BY <1>1 DEF IInv, TypeOK, HitRemembered
  <1> QED
    BY <1>1, <1>2, HandlerKeeps DEF Remember, IInv, TypeOK

\* Clearing ends the recording first, by force.
LEMMA ClearSequenceKeeps ==
    ASSUME IInv, ClearSequence
    PROVE  IInv' /\ take'.hitAt = take.hitAt
  <1> DEFINE t == Disarmed(track, TRUE)
  <1>1. Sound(t) /\ ~t.recording /\ t.hit = track.hit
    BY InvIsSound, DisarmedGoes DEF Goes, Ends
  <1>2. Becomes(Cleared(t)) /\ UNCHANGED <<playing, queued>>
    BY DEF ClearSequence
  <1> HIDE DEF t
  <1>3. Goes(track, Cleared(t)) /\ Cleared(t).hit = track.hit /\ Quiet(Cleared(t))
    BY <1>1, ClearedGoes DEF Goes, Clears
  <1> QED
    BY <1>2, <1>3, BecomesKeeps DEF IInv, TypeOK

\* Every step keeps the invariant and plays no slot that has just been hit.
LEMMA NextKeeps ==
    ASSUME IInv, Next
    PROVE  /\ IInv'
           /\ ~adding /\ take.hitAt = track.at /\ track'.at = track.at /\ take'.hitAt = None
                => track'.event = None
  <1>1. track.at # None
    <2>1. track.at \in 0 .. SliceLength - 1
      BY InvIsSound, TracksFields DEF Sound
    <2> QED
      BY <2>1, Ranges DEF None
  <1>2. ASSUME NEW key \in BOOLEAN, Tick(key)
        PROVE  IInv' /\ (~adding /\ track'.at = take.hitAt => track'.event = None)
    BY <1>2, TickKeeps
  <1>3. ASSUME Next, ~\E key \in BOOLEAN : Tick(key)
        PROVE  IInv' /\ (take'.hitAt = take.hitAt \/ take'.hitAt # None)
    <2>1. CASE MidiStart
      <3>1. Goes(track, track)
        BY InvIsSound DEF Goes, Moves
      <3> QED
        BY <2>1, <3>1, BecomesKeeps DEF MidiStart
    <2>2. CASE \E auto \in BOOLEAN : ToggleArm(auto)
      BY <2>2, ToggleArmKeeps
    <2> QED
      BY <1>3, <2>1, <2>2, PlayPadKeeps, StopKeeps, DisarmTrackKeeps, TriggerKeeps,
         RememberKeeps, ClearSequenceKeeps
         DEF Next, StopPad, MidiStop
  <1> QED
    BY <1>1, <1>2, <1>3

LEMMA StutterKeeps == ASSUME IInv, UNCHANGED vars PROVE IInv'
  BY DEF IInv, TypeOK, EmptyPlaysNothing, Unstarted, HitRemembered, TakeUnderWay,
         TakeSetsEnd, vars

-----------------------------------------------------------------------------
(* What the invariant says.                                                *)

LEMMA NoJump == IInv => NoJumpToNowhere
  <1>1. ASSUME IInv, track.start = None, NEW r \in Slot
        PROVE  NextRead(track, r) \in Slot
    <2>1. track \in Tracks /\ EndOutOfWay(track)
      BY <1>1, InvIsSound DEF Sound, EndOutOfWay
    <2> QED
      BY <2>1, NextReadInRing
  <1> QED
    BY <1>1 DEF NoJumpToNowhere

\* A pattern that ends before the ring does is walked once from its start to
\* its end.
LEMMA LengthOfPattern ==
    ASSUME NEW n \in Nat \ {0}, Sound(track), track.start # None,
           track.end = track.start + n, track.start + n < Length
    PROVE  PatternLength = n
  <1> DEFINE w == WalkFrom(track, track.start, Length)
             first == track.start
  <1>1. first \in Slot /\ first \in Nat /\ first + n < Length /\ Length \in Nat
    <2>1. track \in Tracks
      BY DEF Sound
    <2> QED
      BY <2>1, TracksFields, Ranges, RingSize
  <1>2. /\ w[0] = first
        /\ \A i \in 1 .. Length : w[i] = NextRead(track, w[i - 1])
    <2>1. track \in Tracks /\ EndOutOfWay(track)
      BY DEF Sound, EndOutOfWay
    <2>2. track.start \in Slot /\ Length \in Nat
      BY <1>1
    <2> QED
      BY <2>1, <2>2, WalkFromWalks, ZenonT(60)
  <1>3. \A i \in 0 .. n - 1 : NextRead(track, first + i)
                                = IF i = n - 1 THEN first ELSE first + i + 1
    BY <1>1 DEF NextRead
  <1> HIDE DEF w, first
  <1>4. ASSUME NEW i \in 0 .. n - 1
        PROVE  w[i] = first + i
    <2> DEFINE S == {j \in Nat : j < n => w[j] = first + j}
    <2>1. 0 \in S
      BY <1>1, <1>2
    <2>2. ASSUME NEW j \in S
          PROVE  j + 1 \in S
      <3>1. CASE j + 1 < n
        <4>1. w[j] = first + j /\ j \in 0 .. n - 1 /\ j # n - 1 /\ j + 1 \in 1 .. Length
          BY <1>1, <3>1
        <4>2. w[j + 1] = NextRead(track, w[(j + 1) - 1]) /\ (j + 1) - 1 = j
          BY <1>2, <4>1
        <4> QED
          BY <1>1, <1>3, <4>1, <4>2
      <3> QED
        BY <3>1
    <2>3. S = Nat
      BY <2>1, <2>2, Induction
    <2>4. i \in Nat /\ i < n
      OBVIOUS
    <2> QED
      BY <2>3, <2>4
  <1>5. w[n] = first
    <2>1. n \in 1 .. Length /\ n - 1 \in 0 .. n - 1
      BY <1>1
    <2>2. w[n] = NextRead(track, w[n - 1]) /\ w[n - 1] = first + (n - 1)
      BY <1>2, <1>4, <2>1
    <2> QED
      BY <1>3, <2>1, <2>2
  <1> DEFINE back == {m \in 1 .. Length : w[m] = first}
  <1>6. n \in back /\ \A m \in back : n <= m
    <2>1. ASSUME NEW m \in 1 .. Length, m < n
          PROVE  w[m] # first
      BY <1>1, <1>4, <2>1
    <2> QED
      BY <1>1, <1>5, <2>1
  <1>7. PatternLength = IF back = {} THEN 0
                        ELSE CHOOSE k \in back : \A m \in back : k <= m
    BY DEF PatternLength, Walk, w, first
  <1>8. \A k \in back : k \in Nat
    OBVIOUS
  <1> HIDE DEF back
  <1>9. \A k \in back : (\A m \in back : k <= m) => k = n
    BY <1>6, <1>8
  <1> QED
    BY <1>6, <1>7, <1>9

LEMMA InvKeepsLength == IInv => PatternKeepsLength
  <1> SUFFICES ASSUME IInv, track.start # None, ~take.open, ~take.early,
                      take.length > 0, track.start + take.length < Length
               PROVE  PatternLength = take.length
    BY DEF PatternKeepsLength
  <1>1. Sound(track) /\ take.length \in Nat \ {0}
    BY InvIsSound, Ranges DEF IInv, TypeOK
  <1>2. track.start \in Nat /\ Length \in Nat
    <2>1. track \in Tracks
      BY <1>1 DEF Sound
    <2> QED
      BY <2>1, TracksFields, Ranges, RingSize
  <1>3. track.end = track.start + take.length
    BY <1>1, <1>2 DEF IInv, TakeSetsEnd
  <1> QED
    BY <1>1, <1>3, LengthOfPattern

-----------------------------------------------------------------------------
(* The theorems, of the component and of its setting in the runs.          *)

\* The invariant holds in every state.
THEOREM TrackInvariant == Spec => []IInv
  <1>1. IInv /\ [Next]_vars => IInv'
    BY NextKeeps, StutterKeeps
  <1> QED
    BY InitInv, <1>1, PTL DEF Spec

\* The same of the ring the runs choose.
LEMMA RingInvariant == MCSpec => [](setting = "ring" => IInv)
  <1>1. MCInit => (setting = "ring" => IInv)
    BY InitInv DEF MCInit, Ring, Clocked
  <1>2. (setting = "ring" => IInv) /\ [MCNext]_MCVars => (setting = "ring" => IInv)'
    BY NextKeeps, StutterKeeps DEF MCNext, MCVars, Ring, Clocked
  <1> QED
    BY <1>1, <1>2, PTL DEF MCSpec

\* A track that calls itself empty plays nothing and holds no hit (deck.cpp takes it
\* for one that does not play), and the reader, which jumps to the start of the
\* pattern at its end, never jumps while there is no start (track.cpp,
\* _advance_read_slot).
THEOREM Consistent ==
    /\ Spec => [](TypeOK /\ EmptyPlaysNothing /\ NoJumpToNowhere)
    /\ MCSpec => []TrackConsistent
  <1>1. IInv => TypeOK /\ EmptyPlaysNothing /\ NoJumpToNowhere
    BY NoJump DEF IInv
  <1>2. (setting = "ring" => IInv) => TrackConsistent
    BY <1>1 DEF TrackConsistent
  <1> QED
    BY <1>1, <1>2, TrackInvariant, RingInvariant, PTL

\* The pattern the clock plays is as long as the recording was that made it, however
\* it was stopped, started, overdubbed and played since (track.cpp, stop_recording).
THEOREM LengthKept ==
    (Spec => []PatternKeepsLength) /\ (MCSpec => []PatternsKeepLength)
  <1>1. (setting = "ring" => IInv) => PatternsKeepLength
    BY InvKeepsLength DEF PatternsKeepLength
  <1> QED
    BY <1>1, InvKeepsLength, TrackInvariant, RingInvariant, PTL

\* The slot a hit was recorded in is not triggered by the clock as well while the
\* slice is still in it (track.cpp:59-60), in every order of hits, ticks and
\* handlers, and with ticks between the two halves of other hits.  A tick between
\* the halves of that hit itself is excepted: it does trigger it.
THEOREM HitsPlayOnce == (Spec => NoDoubleHit) /\ (MCSpec => NoDoubleHits)
  <1> DEFINE Once == ~adding /\ take.hitAt = track.at /\ track'.at = track.at
                       /\ take'.hitAt = None => track'.event = None
             OnceIn == Ring(~adding /\ take.hitAt = track.at /\ track'.at = track.at
                            /\ take'.hitAt = None) => track'.event = None
  <1>1. IInv /\ [Next]_vars => [Once]_vars
    BY NextKeeps
  <1>2. (setting = "ring" => IInv) /\ [MCNext]_MCVars => [OnceIn]_MCVars
    <2>1. ASSUME setting = "ring" => IInv, MCNext
          PROVE  OnceIn
      <3>1. CASE setting = "ring"
        BY <2>1, <3>1, NextKeeps DEF MCNext, Ring, Clocked
      <3>2. CASE setting # "ring"
        BY <3>2 DEF Ring
      <3> QED
        BY <3>1, <3>2
    <2> QED
      BY <2>1
  <1>3. Spec => [][Once]_vars
    BY <1>1, TrackInvariant, PTL DEF Spec
  <1>4. MCSpec => [][OnceIn]_MCVars
    BY <1>2, RingInvariant, PTL DEF MCSpec
  <1> QED
    BY <1>3, <1>4 DEF NoDoubleHit, NoDoubleHits

-----------------------------------------------------------------------------
(* DeckVoices: the dispatcher and the voices.                              *)

Phases == {"idle", "fresh", "spent", "sounds", "decay"}
VoxStates ==
    [st : [V!Voices -> Phases], pending : [V!Voices -> BOOLEAN], sounding : [V!Voices -> BOOLEAN],
     active : [V!Voices -> BOOLEAN], queue : [1 .. N -> V!Voices], holding : V!Voices \cup {V!None}]

Permuted(q) == \A v \in V!Voices : \E i \in 1 .. N : q[i] = v

\* The voice that the main loop holds and has not marked yet, and whether the
\* held voice may be one that it has just released.
Taken == IF main.hold /\ main.pc \in {"shift", "active"} THEN main.v ELSE V!None
Settled == ~(main.pc = "off" \/ (main.hold /\ main.pc = "choose"))

HoldsBut(x, v) == x.holding # V!None /\ x.holding # v => x.active[x.holding]
HoldsActive(x) == Settled => HoldsBut(x, Taken)
Handed(x) == ~Torn /\ main.pc # "shift" => Permuted(x.queue)
CountsRight(x) == \A v \in V!Voices : x.sounding[v] => x.st[v] # "idle"
Alive(x) == \E v \in V!Voices : x.st[v] # "idle"

Intact(x) == x \in VoxStates /\ Handed(x) /\ HoldsActive(x) /\ CountsRight(x)

LEMMA Numbers == N \in Nat /\ N >= 2 /\ V!None \notin V!Voices /\ V!Voices \subseteq Nat
BY Parameters DEF V!VoicesAssumption, V!Voices, V!None

LEMMA DecayedPhase ==
    ASSUME NEW p \in Phases
    PROVE  V!Decayed(p) \in Phases /\ (V!Decayed(p) = "idle" <=> p = "idle")
BY DEF V!Decayed, Phases

LEMMA TriggeredSound ==
    ASSUME NEW x \in VoxStates, NEW v \in V!Voices, CountsRight(x)
    PROVE  /\ V!Triggered(x, v) \in VoxStates /\ CountsRight(V!Triggered(x, v))
           /\ V!Triggered(x, v).queue = x.queue /\ V!Triggered(x, v).holding = x.holding
           /\ V!Triggered(x, v).active = x.active
           /\ Alive(V!Triggered(x, v))
<1>1. CASE x.st[v] = "idle"
  <2> DEFINE y == [x EXCEPT !.st[v] = "fresh"]
  <2>1. /\ y.st = [x.st EXCEPT ![v] = "fresh"] /\ y.pending = x.pending /\ y.sounding = x.sounding
        /\ y.queue = x.queue /\ y.holding = x.holding /\ y.active = x.active
        /\ y = [x EXCEPT !.st = y.st]
    BY DEF VoxStates
  <2>2. /\ y.st \in [V!Voices -> Phases] /\ y.st[v] = "fresh"
        /\ \A w \in V!Voices : w # v => y.st[w] = x.st[w]
    BY <2>1 DEF VoxStates, Phases
  <2>3. y \in VoxStates
    BY <2>1, <2>2 DEF VoxStates
  <2>4. CountsRight(y) /\ Alive(y)
    BY <2>1, <2>2 DEF CountsRight, Alive
  <2> QED
    BY <1>1, <2>1, <2>3, <2>4 DEF V!Triggered
<1>2. CASE x.st[v] # "idle"
  <2> DEFINE y == [x EXCEPT !.st[v] = V!Decayed(@), !.pending[v] = TRUE]
  <2>1. /\ y.st = [x.st EXCEPT ![v] = V!Decayed(x.st[v])]
        /\ y.pending = [x.pending EXCEPT ![v] = TRUE]
        /\ y.sounding = x.sounding
        /\ y.queue = x.queue /\ y.holding = x.holding /\ y.active = x.active
        /\ y = [x EXCEPT !.st = y.st, !.pending = y.pending]
    BY DEF VoxStates
  <2>2. x.st[v] \in Phases
    BY DEF VoxStates
  <2>3. /\ y.st \in [V!Voices -> Phases] /\ y.st[v] # "idle"
        /\ \A w \in V!Voices : w # v => y.st[w] = x.st[w]
    BY <1>2, <2>1, <2>2, DecayedPhase DEF VoxStates
  <2>4. y.pending \in [V!Voices -> BOOLEAN]
    BY <2>1 DEF VoxStates
  <2>5. y \in VoxStates
    BY <2>1, <2>3, <2>4 DEF VoxStates
  <2>6. CountsRight(y) /\ Alive(y)
    BY <2>1, <2>3 DEF CountsRight, Alive
  <2> QED
    BY <1>2, <2>1, <2>5, <2>6 DEF V!Triggered
<1> QED
  BY <1>1, <1>2

LEMMA ReleaseSound ==
    ASSUME NEW x \in VoxStates, NEW v \in V!Voices, CountsRight(x)
    PROVE  /\ V!Release(x, v) \in VoxStates /\ CountsRight(V!Release(x, v))
           /\ V!Release(x, v).queue = x.queue
           /\ Alive(x) => Alive(V!Release(x, v))
<1> DEFINE y == V!Release(x, v)
<1>1. /\ y.st = [x.st EXCEPT ![v] = V!Decayed(x.st[v])] /\ y.active = [x.active EXCEPT ![v] = FALSE]
      /\ y.sounding = x.sounding /\ y.queue = x.queue
      /\ y = [x EXCEPT !.st = y.st, !.active = y.active]
  BY DEF V!Release, VoxStates
<1>2. x.st[v] \in Phases
  BY DEF VoxStates
<1>3. /\ y.st \in [V!Voices -> Phases]
      /\ \A w \in V!Voices : y.st[w] = "idle" <=> x.st[w] = "idle"
  BY <1>1, <1>2, DecayedPhase DEF VoxStates
<1>4. y.active \in [V!Voices -> BOOLEAN]
  BY <1>1 DEF VoxStates
<1> HIDE DEF y
<1>5. y \in VoxStates
  BY <1>1, <1>3, <1>4 DEF VoxStates
<1>6. CountsRight(y) /\ (Alive(x) => Alive(y))
  BY <1>1, <1>3 DEF CountsRight, Alive
<1> QED
  BY <1>1, <1>5, <1>6 DEF y

\* The voice that is taken is one of the queue.
LEMMA FirstIn ==
    ASSUME NEW S, S \subseteq 1 .. N, S # {}
    PROVE  V!First(S) \in S
<1>1. S \in SUBSET Nat
  OBVIOUS
<1>2. \E m \in S : \A n \in S : m <= n
  BY <1>1, LeastMember
<1> QED
  BY <1>2 DEF V!First

LEMMA TakenInQueue ==
    ASSUME NEW x \in VoxStates
    PROVE  V!TakenIndex(x) \in 1 .. N
<1> DEFINE free == {i \in 1 .. N : ~x.active[x.queue[i]]}
           k == V!FreeIndex(x)
           other == {j \in 1 .. N : x.queue[j] # x.holding}
           ahead == {j \in other : j >= k}
<1>1. k \in 1 .. N
  <2>1. free \subseteq 1 .. N /\ k = IF free = {} THEN 1 ELSE V!First(free)
    BY DEF V!FreeIndex
  <2>2. 1 \in 1 .. N
    BY Numbers
  <2> HIDE DEF free, k
  <2>3. free # {} => V!First(free) \in 1 .. N
    BY <2>1, FirstIn
  <2> QED
    BY <2>1, <2>2, <2>3
<1>2. /\ other \subseteq 1 .. N /\ ahead \subseteq 1 .. N
      /\ V!TakenIndex(x) = IF other = {} THEN k ELSE IF ahead = {} THEN V!First(other) ELSE V!First(ahead)
  BY DEF V!TakenIndex, V!NextIndex
<1> HIDE DEF k, other, ahead
<1> QED
  BY <1>1, <1>2, FirstIn

LEMMA MovedBackPermutes ==
    ASSUME NEW q \in [1 .. N -> V!Voices], Permuted(q), NEW i \in 1 .. N
    PROVE  V!MovedBack(q, i) \in [1 .. N -> V!Voices] /\ Permuted(V!MovedBack(q, i))
<1> DEFINE r == V!MovedBack(q, i)
<1>1. r \in [1 .. N -> V!Voices]
  BY Numbers DEF V!MovedBack
<1>2. \A j \in 1 .. N : r[j] = IF j < i THEN q[j] ELSE IF j < N THEN q[j + 1] ELSE q[i]
  BY DEF V!MovedBack
<1>3. ASSUME NEW v \in V!Voices PROVE \E j \in 1 .. N : r[j] = v
  <2>1. PICK k \in 1 .. N : q[k] = v
    BY DEF Permuted
  <2> HIDE DEF r
  <2>2. CASE k < i
    BY <1>2, <2>1, <2>2
  <2>3. CASE k > i
    <3>1. k - 1 \in 1 .. N /\ ~(k - 1 < i) /\ k - 1 < N /\ (k - 1) + 1 = k
      BY <2>3, Numbers
    <3>2. r[k - 1] = q[k]
      BY <1>2, <3>1
    <3> QED
      BY <2>1, <3>1, <3>2
  <2>4. CASE k = i
    <3>1. N \in 1 .. N /\ ~(N < i) /\ ~(N < N)
      BY Numbers
    <3>2. r[N] = q[i]
      BY <1>2, <3>1
    <3> QED
      BY <2>1, <2>4, <3>1, <3>2
  <2> QED
    BY <2>2, <2>3, <2>4, Numbers
<1> QED
  BY <1>1, <1>3 DEF Permuted

\* An event takes a voice, which sounds, and leaves all voices in the queue.
LEMMA EventOnSound ==
    ASSUME NEW x, Intact(x), NEW hold \in BOOLEAN
    PROVE  Intact(V!EventOn(x, hold)) /\ Alive(V!EventOn(x, hold))
<1> DEFINE f == V!Freed(x, hold)
           i == V!TakenIndex(f)
           v == f.queue[i]
           g == [f EXCEPT !.holding = IF hold THEN v ELSE @,
                          !.queue = V!MovedBack(@, i),
                          !.active[v] = TRUE]
<1>1. f \in VoxStates /\ CountsRight(f) /\ f.queue = x.queue
  BY ReleaseSound DEF V!Freed, Intact, VoxStates
<1>2. ~hold => HoldsActive(f)
  BY DEF V!Freed, Intact
<1> HIDE DEF f
<1>3. i \in 1 .. N
  BY <1>1, TakenInQueue
<1> HIDE DEF i
<1>4. v \in V!Voices
  BY <1>1, <1>3 DEF VoxStates
<1>5. /\ V!MovedBack(f.queue, i) \in [1 .. N -> V!Voices]
      /\ ~Torn /\ main.pc # "shift" => Permuted(V!MovedBack(f.queue, i))
  <2>1. V!MovedBack(f.queue, i) \in [1 .. N -> V!Voices]
    BY <1>1, <1>3, Numbers DEF V!MovedBack, VoxStates
  <2> QED
    BY <1>1, <1>3, <2>1, MovedBackPermutes DEF Intact, Handed, VoxStates
<1> HIDE DEF v
<1>6. /\ g.holding = IF hold THEN v ELSE f.holding
      /\ g.queue = V!MovedBack(f.queue, i) /\ g.active = [f.active EXCEPT ![v] = TRUE]
      /\ g.st = f.st /\ g.sounding = f.sounding
      /\ g = [f EXCEPT !.holding = g.holding, !.queue = g.queue, !.active = g.active]
  BY <1>1 DEF VoxStates
<1>7. /\ g.active \in [V!Voices -> BOOLEAN] /\ g.active[v]
      /\ \A w \in V!Voices : f.active[w] => g.active[w]
  BY <1>1, <1>4, <1>6 DEF VoxStates
<1>8. g.holding \in V!Voices \cup {V!None}
  BY <1>1, <1>4, <1>6 DEF VoxStates
<1>9. V!EventOn(x, hold) = V!Triggered(g, v)
  BY DEF V!EventOn, f, i, v
<1> HIDE DEF g
<1>10. g \in VoxStates
  BY <1>1, <1>5, <1>6, <1>7, <1>8 DEF VoxStates
<1>11. HoldsActive(g)
  <2>1. CASE hold
    BY <1>6, <1>7, <2>1 DEF HoldsActive, HoldsBut
  <2>2. CASE ~hold
    BY <1>1, <1>2, <1>6, <1>7, <2>2, Numbers DEF HoldsActive, HoldsBut, VoxStates
  <2> QED
    BY <2>1, <2>2
<1>12. CountsRight(g)
  BY <1>1, <1>6 DEF CountsRight
<1> DEFINE e == V!EventOn(x, hold)
<1>13. /\ e \in VoxStates /\ CountsRight(e) /\ Alive(e)
       /\ e.queue = g.queue /\ e.holding = g.holding /\ e.active = g.active
  BY <1>4, <1>9, <1>10, <1>12, TriggeredSound
<1> HIDE DEF e
<1>14. Handed(e) /\ HoldsActive(e)
  BY <1>5, <1>6, <1>11, <1>13 DEF HoldsActive, HoldsBut, Handed
<1> QED
  BY <1>13, <1>14 DEF Intact, e

-----------------------------------------------------------------------------
(* A frame.                                                                *)

AllModes == {"Reel", "Slice", "Drift"}
DeckStates == [mode : AllModes, pending : AllModes \cup {"None"},
               playing : BOOLEAN, sequenced : BOOLEAN]
States == {z \in [s : VoxStates, deck : DeckStates] : Intact(z.s)}

\* What voices that end make of a deck: the mode that waits becomes its mode.
Switched(k) == [k EXCEPT !.mode = k.pending, !.pending = "None"]
BecomesDeck(k, l) == l = k \/ (k.mode = "Slice" /\ k.pending # "None" /\ l = Switched(k))

LoopsIn(k) == k.playing /\ ~k.sequenced /\ k.mode # "Slice"

\* The main loop is on its way to start a voice.
Starting == \/ main.pc \in {"play", "restart", "release", "choose", "shift", "active", "trigger"}
            \/ main.pc = "off" /\ main.to = "restart"
LoopsAlive(z) == ~Starting /\ LoopsIn(z.deck) => Alive(z.s)

LEMMA SwitchedDeck ==
    ASSUME NEW k \in DeckStates, k.pending # "None"
    PROVE  /\ Switched(k) \in DeckStates /\ Switched(k).pending = "None"
           /\ Switched(k).mode = k.pending
           /\ Switched(k).playing = k.playing /\ Switched(k).sequenced = k.sequenced
BY DEF Switched, DeckStates

\* The record of the two.
LEMMA Both ==
    ASSUME NEW x \in VoxStates, NEW k \in DeckStates, Intact(x)
    PROVE  /\ [s |-> x, deck |-> k] \in States
           /\ [s |-> x, deck |-> k].s = x /\ [s |-> x, deck |-> k].deck = k
BY DEF States

LEMMA BothOf ==
    ASSUME NEW z \in States
    PROVE  /\ z.s \in VoxStates /\ z.deck \in DeckStates /\ Intact(z.s)
           /\ z = [s |-> z.s, deck |-> z.deck]
           /\ \A x : [z EXCEPT !.s = x] = [s |-> x, deck |-> z.deck]
BY DEF States

LEMMA EndedGoes ==
    ASSUME NEW z \in States
    PROVE  V!Ended(z) \in States /\ BecomesDeck(z.deck, V!Ended(z).deck) /\ LoopsAlive(V!Ended(z))
<1>1. /\ z.s \in VoxStates /\ z.deck \in DeckStates /\ Intact(z.s)
      /\ [z EXCEPT !.s = V!Dispatched(z.s)] = [s |-> V!Dispatched(z.s), deck |-> z.deck]
  BY BothOf
<1>2. Intact(V!Dispatched(z.s)) /\ Alive(V!Dispatched(z.s)) /\ V!Dispatched(z.s) \in VoxStates
  BY <1>1, EventOnSound DEF V!Dispatched, Intact
<1>3. V!Generating(z.s) => Alive(z.s)
  BY <1>1 DEF Intact, CountsRight, V!Generating, Alive
<1>4. CASE z.deck.mode = "Slice" /\ z.deck.pending # "None" /\ ~V!Generating(z.s)
  <2>1. V!Ended(z) = [s |-> V!Dispatched(z.s), deck |-> Switched(z.deck)]
    BY <1>4 DEF V!Ended, Switched
  <2>2. Switched(z.deck) \in DeckStates
    BY <1>1, <1>4, SwitchedDeck
  <2> QED
    BY <1>2, <1>4, <2>1, <2>2, Both DEF BecomesDeck, LoopsAlive
<1>5. CASE z.deck.mode # "Slice" /\ z.deck.playing /\ ~V!Generating(z.s)
  <2>1. V!Ended(z) = [s |-> V!Dispatched(z.s), deck |-> z.deck]
    BY <1>1, <1>5 DEF V!Ended
  <2> QED
    BY <1>1, <1>2, <2>1, Both DEF BecomesDeck, LoopsAlive
<1>6. CASE /\ ~(z.deck.mode = "Slice" /\ z.deck.pending # "None" /\ ~V!Generating(z.s))
           /\ ~(z.deck.mode # "Slice" /\ z.deck.playing /\ ~V!Generating(z.s))
  <2>1. V!Ended(z) = z
    BY <1>6 DEF V!Ended
  <2>2. LoopsAlive(z)
    BY <1>3, <1>6 DEF LoopsAlive, LoopsIn
  <2> QED
    BY <2>1, <2>2 DEF BecomesDeck
<1> QED
  BY <1>4, <1>5, <1>6

\* A change of one voice's phase and marks.
Voiced(x, v, p, w, c) ==
    [x EXCEPT !.st = [x.st EXCEPT ![v] = p], !.pending = [x.pending EXCEPT ![v] = w],
              !.sounding = [x.sounding EXCEPT ![v] = c]]

LEMMA VoiceChanges ==
    ASSUME NEW x, Intact(x), NEW v \in V!Voices,
           NEW p \in Phases, NEW w \in BOOLEAN, NEW c \in BOOLEAN,
           c => p # "idle"
    PROVE  /\ Intact(Voiced(x, v, p, w, c)) /\ Voiced(x, v, p, w, c) \in VoxStates
           /\ p # "idle" => Alive(Voiced(x, v, p, w, c))
<1> DEFINE y == Voiced(x, v, p, w, c)
<1>1. /\ y.st = [x.st EXCEPT ![v] = p] /\ y.pending = [x.pending EXCEPT ![v] = w]
      /\ y.sounding = [x.sounding EXCEPT ![v] = c]
      /\ y.active = x.active /\ y.queue = x.queue /\ y.holding = x.holding
      /\ y = [x EXCEPT !.st = y.st, !.pending = y.pending, !.sounding = y.sounding]
  BY DEF Intact, VoxStates, Voiced
<1> HIDE DEF y
<1>2. y.st \in [V!Voices -> Phases] /\ y.st[v] = p /\ \A u \in V!Voices : u # v => y.st[u] = x.st[u]
  BY <1>1 DEF Intact, VoxStates
<1>3. y.pending \in [V!Voices -> BOOLEAN]
  BY <1>1 DEF Intact, VoxStates
<1>4. /\ y.sounding \in [V!Voices -> BOOLEAN] /\ (y.sounding[v] <=> c)
      /\ \A u \in V!Voices : u # v => (y.sounding[u] <=> x.sounding[u])
  BY <1>1 DEF Intact, VoxStates
<1>5. y \in VoxStates
  BY <1>1, <1>2, <1>3, <1>4 DEF Intact, VoxStates
<1>6. CountsRight(y)
  BY <1>2, <1>4 DEF Intact, CountsRight
<1>7. Handed(y) /\ HoldsActive(y)
  BY <1>1 DEF Intact, Handed, HoldsActive, HoldsBut
<1>8. p # "idle" => Alive(y)
  BY <1>2 DEF Alive
<1> QED
  BY <1>2, <1>5, <1>6, <1>7, <1>8 DEF Intact, y

\* The forms in which Vox changes a voice, in the voices and in the deck.
Marked(x, v, c) == [x EXCEPT !.sounding = [x.sounding EXCEPT ![v] = c]]
Enters(x, v, p) == [x EXCEPT !.st[v] = p]
Resumes(x, v, p, w) == [x EXCEPT !.st[v] = p, !.pending[v] = w]
Silences(x, v, p, w) == [x EXCEPT !.st[v] = p, !.sounding[v] = w]
Entered(y, v, p) == [y EXCEPT !.s.st[v] = p]
Resumed(y, v, p, w) == [y EXCEPT !.s.st[v] = p, !.s.pending[v] = w]
Silenced(y, v, p, w) == [y EXCEPT !.s.st[v] = p, !.s.sounding[v] = w]
Heard(z, v) == [z EXCEPT !.s.sounding[v] = (z.s.st[v] # "idle")]
As(z, v, p, w, c) == [s |-> Voiced(z.s, v, p, w, c), deck |-> z.deck]

LEMMA VoicedForms ==
    ASSUME NEW x \in VoxStates, NEW v \in V!Voices, NEW c \in BOOLEAN, NEW p, NEW w \in BOOLEAN
    PROVE  /\ Enters(Marked(x, v, c), v, p) = Voiced(x, v, p, x.pending[v], c)
           /\ Resumes(Marked(x, v, c), v, p, w) = Voiced(x, v, p, w, c)
           /\ Silences(Marked(x, v, c), v, p, w) = Voiced(x, v, p, x.pending[v], w)
           /\ Marked(x, v, c) = Voiced(x, v, x.st[v], x.pending[v], c)
           /\ Marked(x, v, c).st = x.st /\ Marked(x, v, c).pending = x.pending
<1>1. Enters(Marked(x, v, c), v, p) = Voiced(x, v, p, x.pending[v], c)
  BY DEF VoxStates, Voiced, Marked, Enters
<1>2. Resumes(Marked(x, v, c), v, p, w) = Voiced(x, v, p, w, c)
  BY DEF VoxStates, Voiced, Marked, Resumes
<1>3. Silences(Marked(x, v, c), v, p, w) = Voiced(x, v, p, x.pending[v], w)
  BY DEF VoxStates, Voiced, Marked, Silences
<1>4. Marked(x, v, c) = Voiced(x, v, x.st[v], x.pending[v], c)
  BY DEF VoxStates, Voiced, Marked
<1>5. Marked(x, v, c).st = x.st /\ Marked(x, v, c).pending = x.pending
  BY DEF VoxStates, Marked
<1> QED
  BY <1>1, <1>2, <1>3, <1>4, <1>5

InDeck(o, k) == [s |-> o, deck |-> k]

LEMMA InTheDeck ==
    ASSUME NEW o, NEW k, NEW v, NEW p, NEW w
    PROVE  /\ Entered(InDeck(o, k), v, p) = InDeck(Enters(o, v, p), k)
           /\ Resumed(InDeck(o, k), v, p, w) = InDeck(Resumes(o, v, p, w), k)
           /\ Silenced(InDeck(o, k), v, p, w) = InDeck(Silences(o, v, p, w), k)
<1> DEFINE on == InDeck(o, k)
           m == [on EXCEPT !.s.st[v] = p]
           n == [o EXCEPT !.st[v] = p]
<1>1. on = [s |-> o, deck |-> k]
  BY DEF InDeck
<1> HIDE DEF on
<1>2. m = [s |-> n, deck |-> k]
  BY <1>1
<1>3. /\ Resumed(on, v, p, w) = [m EXCEPT !.s.pending[v] = w]
      /\ Silenced(on, v, p, w) = [m EXCEPT !.s.sounding[v] = w]
  BY DEF Resumed, Silenced
<1>4. /\ Resumes(o, v, p, w) = [n EXCEPT !.pending[v] = w]
      /\ Silences(o, v, p, w) = [n EXCEPT !.sounding[v] = w]
  BY DEF Resumes, Silences
<1>5. Entered(on, v, p) = m /\ Enters(o, v, p) = n
  BY DEF Entered, Enters
<1> HIDE DEF m, n
<1>6. [m EXCEPT !.s.pending[v] = w] = [s |-> [n EXCEPT !.pending[v] = w], deck |-> k]
  BY <1>2
<1>7. [m EXCEPT !.s.sounding[v] = w] = [s |-> [n EXCEPT !.sounding[v] = w], deck |-> k]
  BY <1>2
<1> QED
  BY <1>2, <1>3, <1>4, <1>5, <1>6, <1>7 DEF InDeck, on

Awake(z, v) == z.s.st[v] # "idle"

LEMMA Forms ==
    ASSUME NEW z \in States, NEW v \in V!Voices, NEW p, NEW w \in BOOLEAN
    PROVE  /\ Entered(Heard(z, v), v, p) = As(z, v, p, z.s.pending[v], Awake(z, v))
           /\ Resumed(Heard(z, v), v, p, w) = As(z, v, p, w, Awake(z, v))
           /\ Silenced(Heard(z, v), v, p, w) = As(z, v, p, z.s.pending[v], w)
           /\ Heard(z, v) = As(z, v, z.s.st[v], z.s.pending[v], Awake(z, v))
           /\ Heard(z, v).deck = z.deck
           /\ Heard(z, v).s.st = z.s.st /\ Heard(z, v).s.pending = z.s.pending
<1> DEFINE c == Awake(z, v)
           o == Marked(z.s, v, c)
<1>1. z.s \in VoxStates /\ c \in BOOLEAN
  BY BothOf DEF Awake
<1>2. Heard(z, v) = InDeck(o, z.deck)
  BY BothOf DEF Heard, Marked, InDeck, Awake
<1> HIDE DEF c
<1>3. /\ Enters(o, v, p) = Voiced(z.s, v, p, z.s.pending[v], c)
      /\ Resumes(o, v, p, w) = Voiced(z.s, v, p, w, c)
      /\ Silences(o, v, p, w) = Voiced(z.s, v, p, z.s.pending[v], w)
      /\ o = Voiced(z.s, v, z.s.st[v], z.s.pending[v], c)
      /\ o.st = z.s.st /\ o.pending = z.s.pending
  BY <1>1, VoicedForms
<1>4. InDeck(o, z.deck).s = o /\ InDeck(o, z.deck).deck = z.deck
  BY DEF InDeck
<1> HIDE DEF o
<1>5. /\ Entered(InDeck(o, z.deck), v, p) = InDeck(Enters(o, v, p), z.deck)
      /\ Resumed(InDeck(o, z.deck), v, p, w) = InDeck(Resumes(o, v, p, w), z.deck)
      /\ Silenced(InDeck(o, z.deck), v, p, w) = InDeck(Silences(o, v, p, w), z.deck)
  BY InTheDeck
<1>6. /\ Entered(Heard(z, v), v, p) = As(z, v, p, z.s.pending[v], c)
      /\ Resumed(Heard(z, v), v, p, w) = As(z, v, p, w, c)
      /\ Silenced(Heard(z, v), v, p, w) = As(z, v, p, z.s.pending[v], w)
      /\ Heard(z, v) = As(z, v, z.s.st[v], z.s.pending[v], c)
  BY <1>2, <1>3, <1>5, Zenon DEF As, InDeck
<1> QED
  BY <1>2, <1>3, <1>4, <1>6, Zenon DEF c

LEMMA ChangedVoice ==
    ASSUME NEW z \in States, NEW v \in V!Voices,
           NEW p \in Phases, NEW w \in BOOLEAN, NEW c \in BOOLEAN,
           c => p # "idle"
    PROVE  /\ As(z, v, p, w, c) \in States /\ As(z, v, p, w, c).deck = z.deck
           /\ p # "idle" => LoopsAlive(As(z, v, p, w, c))
BY BothOf, VoiceChanges, Both DEF LoopsAlive, As

\* A voice that is processed.
LEMMA ProcessedGoes ==
    ASSUME NEW z \in States, NEW v \in V!Voices, NEW ends \in BOOLEAN
    PROVE  /\ V!Processed(z, v, ends) \in States
           /\ BecomesDeck(z.deck, V!Processed(z, v, ends).deck)
           /\ LoopsAlive(z) => LoopsAlive(V!Processed(z, v, ends))
<1> DEFINE p == z.s.st[v]
           w == z.s.pending[v]
           c == Awake(z, v)
           on == Heard(z, v)
           done == V!Processed(z, v, ends)
<1>1. /\ p \in Phases /\ w \in BOOLEAN /\ c \in BOOLEAN /\ (c <=> p # "idle")
      /\ FALSE \in BOOLEAN /\ "idle" \in Phases
  BY BothOf DEF VoxStates, Awake, Phases
<1>2. /\ \A q : Entered(on, v, q) = As(z, v, q, w, c)
      /\ Resumed(on, v, "fresh", FALSE) = As(z, v, "fresh", FALSE, c)
      /\ Silenced(on, v, "idle", FALSE) = As(z, v, "idle", w, FALSE)
      /\ on = As(z, v, p, w, c)
      /\ on.deck = z.deck /\ on.s.st = z.s.st /\ on.s.pending = z.s.pending
  BY Forms
<1>3. done = CASE p = "fresh" -> Entered(on, v, "sounds")
                [] p = "sounds" /\ ends -> Entered(on, v, "decay")
                [] p = "spent" \/ (p = "decay" /\ ends) -> V!Stopped(on, v)
                [] OTHER -> on
  BY DEF V!Processed, Heard, Entered
<1>4. V!Stopped(on, v) = IF on.s.pending[v] THEN Resumed(on, v, "fresh", FALSE)
                     ELSE V!Ended(Silenced(on, v, "idle", FALSE))
  BY DEF V!Stopped, Resumed, Silenced
<1> HIDE DEF p, w, on, done, c
<1>5. ASSUME NEW q \in Phases \ {"idle"}, NEW r \in BOOLEAN, done = As(z, v, q, r, c)
      PROVE  done \in States /\ BecomesDeck(z.deck, done.deck) /\ LoopsAlive(done)
  <2>1. q \in Phases /\ q # "idle"
    OBVIOUS
  <2>2. c \in BOOLEAN
    BY <1>1
  <2>3. c => q # "idle"
    BY <2>1
  <2>4. /\ As(z, v, q, r, c) \in States /\ As(z, v, q, r, c).deck = z.deck
        /\ q # "idle" => LoopsAlive(As(z, v, q, r, c))
    BY <2>1, <2>2, <2>3, ChangedVoice
  <2> QED
    BY <1>5, <2>1, <2>4, Zenon DEF BecomesDeck
<1>6. CASE p = "fresh" \/ (p = "sounds" /\ ends)
  <2>1. PICK q \in Phases \ {"idle"} : done = As(z, v, q, w, c)
    BY <1>2, <1>3, <1>6 DEF Phases
  <2> QED
    BY <1>1, <1>5, <2>1 DEF done
<1>7. CASE p = "spent" \/ (p = "decay" /\ ends)
  <2>1. done = V!Stopped(on, v)
    BY <1>3, <1>7
  <2>2. CASE w
    <3>1. done = As(z, v, "fresh", FALSE, c)
      BY <1>2, <1>4, <2>1, <2>2 DEF w
    <3> QED
      BY <1>5, <3>1 DEF Phases, done
  <2>3. CASE ~w
    <3> DEFINE none == FALSE
               e == As(z, v, "idle", w, none)
    <3>1. done = V!Ended(e)
      BY <1>2, <1>4, <2>1, <2>3 DEF w
    <3>2. e \in States /\ e.deck = z.deck
      <4>1. "idle" \in Phases /\ w \in BOOLEAN /\ none \in BOOLEAN /\ (none => "idle" # "idle")
        BY <1>1
      <4> HIDE DEF none
      <4> QED
        BY <4>1, ChangedVoice
    <3> HIDE DEF e
    <3> QED
      BY <3>1, <3>2, EndedGoes DEF done
  <2> QED
    BY <2>2, <2>3
<1>8. CASE ~(\/ p = "fresh" \/ (p = "sounds" /\ ends)
             \/ p = "spent" \/ (p = "decay" /\ ends))
  <2>1. done = on
    BY <1>3, <1>8
  <2>2. on \in States
    BY <1>1, <1>2, ChangedVoice
  <2>3. LoopsAlive(z) => LoopsAlive(on)
    BY <1>2 DEF LoopsAlive, Alive
  <2> QED
    BY <1>2, <2>1, <2>2, <2>3 DEF BecomesDeck, done
<1> QED
  BY <1>6, <1>7, <1>8

\* What a mode that waits becomes, it becomes once.
LEMMA GoesOn ==
    ASSUME NEW k \in DeckStates, NEW l, NEW m, BecomesDeck(k, l), BecomesDeck(l, m)
    PROVE  BecomesDeck(k, m)
BY SwitchedDeck DEF BecomesDeck

Run(z, ends, n, w) ==
    /\ w \in [0 .. n -> States] /\ w[0] = z
    /\ \A i \in 1 .. n : w[i] = V!Processed(w[i - 1], i - 1, ends[i - 1])

\* The voices are processed in turn.
LEMMA RunsExist ==
    ASSUME NEW z \in States, NEW ends \in [V!Voices -> BOOLEAN]
    PROVE  \E w : Run(z, ends, N, w)
<1> DEFINE S == {m \in Nat : m <= N => \E w : Run(z, ends, m, w)}
<1>1. 0 \in S
  <2>1. Run(z, ends, 0, [i \in 0 .. 0 |-> z])
    BY DEF Run
  <2> QED
    BY <2>1
<1>2. ASSUME NEW m \in S PROVE m + 1 \in S
  <2> SUFFICES ASSUME m + 1 <= N PROVE \E w : Run(z, ends, m + 1, w)
    OBVIOUS
  <2>1. m \in Nat /\ m <= N /\ m \in V!Voices /\ ends[m] \in BOOLEAN
    BY Numbers DEF V!Voices
  <2>2. PICK w : Run(z, ends, m, w)
    BY <2>1
  <2>3. w[m] \in States
    BY <2>1, <2>2 DEF Run
  <2> DEFINE next == V!Processed(w[m], m, ends[m])
             v == [i \in 0 .. m + 1 |-> IF i = m + 1 THEN next ELSE w[i]]
  <2>4. next \in States
    BY <2>1, <2>3, ProcessedGoes
  <2> HIDE DEF next
  <2>5. v \in [0 .. m + 1 -> States] /\ v[0] = z
    BY <2>1, <2>2, <2>4 DEF Run
  <2>6. ASSUME NEW i \in 1 .. m + 1 PROVE v[i] = V!Processed(v[i - 1], i - 1, ends[i - 1])
    <3>1. CASE i = m + 1
      <4>1. v[i] = next /\ v[i - 1] = w[m] /\ i - 1 = m
        BY <2>1, <3>1
      <4> HIDE DEF v
      <4> QED
        BY <4>1 DEF next
    <3>2. CASE i # m + 1
      <4>1. i \in 1 .. m /\ v[i] = w[i] /\ v[i - 1] = w[i - 1]
        BY <2>1, <3>2
      <4> HIDE DEF v
      <4> QED
        BY <2>2, <4>1 DEF Run
    <3> QED
      BY <3>1, <3>2
  <2> HIDE DEF v
  <2>7. Run(z, ends, m + 1, v)
    BY <2>5, <2>6 DEF Run
  <2> QED
    BY <2>7
<1> HIDE DEF S
<1>3. S = Nat
  <2>1. S \in SUBSET Nat
    BY DEF S
  <2> QED
    BY <1>1, <1>2, <2>1, Induction
<1> QED
  BY <1>3, Numbers DEF S

LEMMA RunGoes ==
    ASSUME NEW z \in States, NEW ends \in [V!Voices -> BOOLEAN],
           NEW w, Run(z, ends, N, w)
    PROVE  w[N] \in States /\ BecomesDeck(z.deck, w[N].deck) /\ (LoopsAlive(z) => LoopsAlive(w[N]))
<1> DEFINE Fine(i) == BecomesDeck(z.deck, w[i].deck) /\ (LoopsAlive(z) => LoopsAlive(w[i]))
           S == {m \in Nat : m <= N => Fine(m)}
<1>1. 0 \in S
  BY DEF Run, BecomesDeck
<1>2. ASSUME NEW m \in S PROVE m + 1 \in S
  <2> SUFFICES ASSUME m + 1 <= N PROVE Fine(m + 1)
    OBVIOUS
  <2>1. /\ m \in Nat /\ m <= N /\ m \in V!Voices /\ ends[m] \in BOOLEAN
        /\ m \in 0 .. N /\ m + 1 \in 1 .. N
    BY Numbers DEF V!Voices
  <2>2. Fine(m) /\ w[m] \in States
    BY <2>1 DEF Run
  <2>3. w[m + 1] = V!Processed(w[m], m, ends[m])
    BY <2>1 DEF Run
  <2>4. BecomesDeck(w[m].deck, w[m + 1].deck) /\ (LoopsAlive(w[m]) => LoopsAlive(w[m + 1]))
    BY <2>1, <2>2, <2>3, ProcessedGoes
  <2>5. z.deck \in DeckStates
    BY BothOf
  <2> QED
    BY <2>2, <2>4, <2>5, GoesOn
<1> HIDE DEF S, Fine
<1>3. S = Nat
  <2>1. S \in SUBSET Nat
    BY DEF S
  <2> QED
    BY <1>1, <1>2, <2>1, Induction
<1>4. N \in 0 .. N /\ N \in Nat
  BY Numbers
<1> QED
  BY <1>3, <1>4, Numbers DEF S, Fine, Run

LEMMA FrameGoes ==
    ASSUME NEW ends \in [V!Voices -> BOOLEAN],
           [s |-> vox, deck |-> deck] \in States, V!Frame(ends)
    PROVE  /\ [s |-> vox', deck |-> deck'] \in States /\ BecomesDeck(deck, deck')
           /\ LoopsAlive([s |-> vox, deck |-> deck]) => LoopsAlive([s |-> vox', deck |-> deck'])
<1> DEFINE z0 == [s |-> vox, deck |-> deck]
           Is(w) == w = [i \in 0 .. N |-> IF i = 0 THEN z0
                                          ELSE V!Processed(w[i - 1], i - 1, ends[i - 1])]
           z == CHOOSE w : Is(w)
<1>1. PICK r : Run(z0, ends, N, r)
  BY RunsExist
<1>2. Is(r)
  <2>1. \A i \in 0 .. N : r[i] = IF i = 0 THEN z0 ELSE V!Processed(r[i - 1], i - 1, ends[i - 1])
    BY <1>1, Numbers DEF Run
  <2>2. r \in [0 .. N -> States]
    BY <1>1 DEF Run
  <2> HIDE DEF z0
  <2> QED
    BY <2>1, <2>2
<1>3. Is(z)
  <2> HIDE DEF Is
  <2> QED
    BY <1>2
<1>4. vox' = z[N].s /\ deck' = z[N].deck
  BY Zenon DEF V!Frame
<1> HIDE DEF z
<1>5. \A i \in 0 .. N : z[i] = IF i = 0 THEN z0 ELSE V!Processed(z[i - 1], i - 1, ends[i - 1])
  BY <1>3
<1>6. Run(z0, ends, N, z)
  <2> DEFINE S == {m \in Nat : m <= N => z[m] \in States}
  <2>1. 0 \in S
    BY <1>5, Numbers
  <2>2. ASSUME NEW m \in S PROVE m + 1 \in S
    <3> SUFFICES ASSUME m + 1 <= N PROVE z[m + 1] \in States
      OBVIOUS
    <3>1. m \in Nat /\ m \in V!Voices /\ ends[m] \in BOOLEAN /\ m + 1 \in 0 .. N /\ m + 1 # 0
          /\ (m + 1) - 1 = m /\ z[m] \in States
      BY Numbers DEF V!Voices
    <3>2. z[m + 1] = V!Processed(z[m], m, ends[m])
      BY <1>5, <3>1
    <3> QED
      BY <3>1, <3>2, ProcessedGoes
  <2> HIDE DEF S
  <2>3. S = Nat
    <3>1. S \in SUBSET Nat
      BY DEF S
    <3> QED
      BY <2>1, <2>2, <3>1, Induction
  <2>4. \A i \in 0 .. N : z[i] \in States
    BY <2>3, Numbers DEF S
  <2>5. z \in [0 .. N -> States]
    BY <1>3, <2>4
  <2> HIDE DEF z0
  <2> QED
    BY <1>5, <2>5, Numbers DEF Run
<1>7. z[N] \in States /\ BecomesDeck(deck, z[N].deck) /\ (LoopsAlive(z0) => LoopsAlive(z[N]))
  BY <1>6, RunGoes
<1>8. z[N] = [s |-> z[N].s, deck |-> z[N].deck]
  BY <1>7, BothOf
<1> QED
  BY <1>4, <1>7, <1>8

-----------------------------------------------------------------------------
(* The steps of a deck.                                                    *)

Places == {"idle", "release", "choose", "shift", "active", "trigger", "busy", "off",
           "play", "defer", "set", "kick", "restart", "turn"}
Follows == {"end", "restart"}
Calls == [pc : Places, i : 0 .. N, v : V!Voices \cup {V!None}, hold : BOOLEAN,
          to : AllModes \cup Follows]

\* What the main loop knows while it is in a call.
Called(c) == /\ c \in Calls
             /\ c.pc = "idle" => c.i = 0
             /\ c.pc = "shift" => c.i \in 1 .. N
             /\ c.pc \in {"shift", "active", "trigger", "busy"} => c.v \in V!Voices
             /\ c.pc = "turn" => c.i \in V!Voices
             /\ c.pc = "off" => c.to \in Follows
             /\ c.pc \in {"defer", "set"} => c.to \in AllModes

\* The queue that the main loop is moving, when it is done.
Moving(q, c) == [j \in 1 .. N |-> IF j < c.i THEN q[j] ELSE IF j < N THEN q[j + 1] ELSE c.v]
Shifting == ~Torn /\ main.pc = "shift" => Permuted(Moving(vox.queue, main))

Z == [s |-> vox, deck |-> deck]
Fine == vox \in VoxStates /\ Intact(vox) /\ deck \in DeckStates /\ Called(main) /\ Shifting
Modal(M) == deck.mode \in M /\ deck.pending \in M \cup {"None"} /\ main.to \in M \cup Follows

\* Every step but a change of mode: the voices stay sound, the mode changes
\* only into the one that waits, and a loop that plays stays alive.
LoopKept == "Slice" # deck.mode /\ LoopsAlive(Z) => (LoopsAlive(Z))'
Kept == Fine' /\ (\A M : Modal(M) => Modal(M)') /\ LoopKept

\* The interrupt's steps leave the main loop where it is.
LEMMA InterruptFine ==
    ASSUME Fine, UNCHANGED main, Intact(vox'), deck' \in DeckStates,
           ~Torn /\ main.pc = "shift" => vox'.queue = vox.queue
    PROVE  Fine'
<1>1. (Intact(vox))' /\ vox' \in VoxStates
  BY DEF Intact, Handed, HoldsActive, HoldsBut, Taken, Settled, CountsRight
<1>2. Shifting'
  BY DEF Fine, Shifting, Moving
<1> QED
  BY <1>1, <1>2 DEF Fine

LEMMA GeneratingAlive == ASSUME Fine, V!Generating(vox) PROVE Alive(vox)
BY DEF Fine, Intact, CountsRight, V!Generating, Alive

LEMMA PlayQueuedKept == Fine /\ V!PlayQueued => Kept
<1> SUFFICES ASSUME Fine, V!PlayQueued PROVE Kept
  OBVIOUS
<1>1. /\ deck' \in DeckStates /\ deck'.mode = deck.mode /\ deck'.pending = deck.pending
      /\ deck'.sequenced = deck.sequenced
  BY DEF Fine, V!PlayQueued, DeckStates
<1>2. CASE V!PlaysAlready
  <2>1. vox' = vox
    BY <1>2 DEF V!PlayQueued
  <2>2. Fine'
    BY <1>1, <2>1, InterruptFine DEF Fine, V!PlayQueued
  <2>3. "Slice" # deck.mode => (LoopsAlive(Z))'
    BY <1>1, <1>2, <2>1, GeneratingAlive DEF V!PlaysAlready, LoopsAlive, LoopsIn, Z
  <2> QED
    BY <1>1, <2>2, <2>3 DEF Kept, LoopKept, Modal, V!PlayQueued
<1>3. CASE ~V!PlaysAlready
  <2>1. vox' = V!EventOn(vox, TRUE)
    BY <1>3 DEF V!PlayQueued, V!Dispatched
  <2>2. Intact(vox') /\ Alive(vox')
    BY <2>1, EventOnSound DEF Fine
  <2>3. Fine'
    BY <1>1, <2>2, InterruptFine DEF V!PlayQueued, V!Calm
  <2> QED
    BY <1>1, <2>2, <2>3 DEF Kept, LoopKept, LoopsAlive, Z, Modal, V!PlayQueued
<1> QED
  BY <1>2, <1>3

LEMMA TickKept == Fine /\ V!Tick => Kept
<1> SUFFICES ASSUME Fine, V!Tick PROVE Kept
  OBVIOUS
<1> DEFINE hold == ~(deck.mode = "Slice" /\ deck.sequenced)
<1>1. hold \in BOOLEAN
  OBVIOUS
<1>2. vox' = V!EventOn(vox, hold) /\ UNCHANGED <<deck, main>>
  BY DEF V!Tick
<1> HIDE DEF hold
<1>3. Intact(vox') /\ Alive(vox')
  BY <1>1, <1>2, EventOnSound DEF Fine
<1>4. Fine'
  BY <1>2, <1>3, InterruptFine DEF Fine, V!Tick, V!Calm
<1> QED
  BY <1>2, <1>3, <1>4 DEF Kept, LoopKept, Modal, LoopsAlive, Z

LEMMA FrameKept ==
    ASSUME NEW ends \in [V!Voices -> BOOLEAN], Fine, V!Frame(ends)
    PROVE  Kept
<1>1. Z \in States
  BY Both DEF Fine, Z
<1>2. /\ [s |-> vox', deck |-> deck'] \in States /\ BecomesDeck(deck, deck')
      /\ LoopsAlive(Z) => LoopsAlive([s |-> vox', deck |-> deck'])
  BY <1>1, FrameGoes DEF Z
<1>3. main' = main /\ V!Calm
  BY Zenon DEF V!Frame
<1>4. Intact(vox') /\ deck' \in DeckStates
  BY <1>2 DEF States
<1>5. Fine'
  BY <1>3, <1>4, InterruptFine DEF V!Calm
<1>6. \A M : Modal(M) => Modal(M)'
  BY <1>2, <1>3, SwitchedDeck DEF BecomesDeck, Modal, Fine
<1>7. LoopsAlive(Z) => (LoopsAlive(Z))'
  BY <1>2, <1>3 DEF LoopsAlive, Starting, Z
<1> QED
  BY <1>5, <1>6, <1>7 DEF Kept, LoopKept

-----------------------------------------------------------------------------
(* The steps of the main loop.                                             *)

\* The calls that begin anew.
LEMMA CallBegins ==
    ASSUME NEW p \in {"idle", "release", "off", "defer", "set", "kick", "restart"},
           NEW hold \in BOOLEAN, NEW to \in AllModes \cup Follows,
           p = "off" => to \in Follows, p \in {"defer", "set"} => to \in AllModes
    PROVE  Called(V!Call(p, hold, to)) /\ V!Call(p, hold, to).pc = p /\ V!Call(p, hold, to).to = to
<1>1. V!Call(p, hold, to) \in Calls
  BY Numbers DEF V!Call, Calls, Places
<1> QED
  BY <1>1 DEF Called, V!Call

LEMMA CallsBegin ==
    /\ Called(V!Idle) /\ V!Idle.pc = "idle" /\ V!Idle.to \in Follows
    /\ \A hold \in BOOLEAN : /\ Called(V!Event(hold)) /\ V!Event(hold).pc = "release"
                             /\ V!Event(hold).to \in Follows
    /\ \A to \in Follows : /\ Called(V!Off(to)) /\ V!Off(to).pc = "off"
                           /\ V!Off(to).to = to
    /\ \A p \in {"kick", "restart"} : /\ Called(V!Call(p, FALSE, "end"))
                                      /\ V!Call(p, FALSE, "end").pc = p
                                      /\ V!Call(p, FALSE, "end").to \in Follows
<1> DEFINE none == FALSE
<1>1. "end" \in Follows /\ none \in BOOLEAN
  BY DEF Follows
<1>2. Called(V!Idle) /\ V!Idle.pc = "idle" /\ V!Idle.to \in Follows
  <2>1. V!Idle = V!Call("idle", none, "end")
    BY DEF V!Idle
  <2> HIDE DEF none
  <2> QED
    BY <1>1, <2>1, CallBegins
<1>3. ASSUME NEW hold \in BOOLEAN
      PROVE  Called(V!Event(hold)) /\ V!Event(hold).pc = "release" /\ V!Event(hold).to \in Follows
  BY <1>1, CallBegins DEF V!Event
<1>4. ASSUME NEW to \in Follows
      PROVE  Called(V!Off(to)) /\ V!Off(to).pc = "off" /\ V!Off(to).to = to
  BY <1>1, CallBegins DEF V!Off
<1>5. ASSUME NEW p \in {"kick", "restart"}
      PROVE  /\ Called(V!Call(p, FALSE, "end")) /\ V!Call(p, FALSE, "end").pc = p
             /\ V!Call(p, FALSE, "end").to \in Follows
  <2>1. V!Call(p, FALSE, "end") \in Calls
    BY Numbers DEF V!Call, Calls, Places, Follows
  <2> QED
    BY <2>1 DEF Called, V!Call, Follows
<1> QED
  BY <1>2, <1>3, <1>4, <1>5

\* A step that leaves the voices alone, and neither comes from the middle of
\* an event or of all_off nor goes there.
LEMMA VoicesStay ==
    ASSUME Fine, UNCHANGED vox, deck' \in DeckStates, Called(main'),
           main.pc \notin {"choose", "shift", "active", "off"},
           main'.pc \notin {"shift", "active"}
    PROVE  Fine'
<1>1. (Intact(vox))'
  BY DEF Fine, Intact, Handed, HoldsActive, HoldsBut, Taken, Settled, CountsRight
<1> QED
  BY <1>1 DEF Fine, Shifting

LEMMA PlayKept == Fine /\ V!Play => Kept
<1> SUFFICES ASSUME Fine, V!Play PROVE Kept
  OBVIOUS
<1>1. deck' \in DeckStates /\ deck'.mode = deck.mode /\ deck'.pending = deck.pending
  BY DEF Fine, V!Play, DeckStates
<1>2. main.pc = "idle" /\ main'.pc = "play" /\ main'.to = main.to /\ Called(main')
  BY DEF Fine, V!Play, V!At, V!Goto, Called, Calls, Places
<1>3. Fine'
  BY <1>1, <1>2, VoicesStay DEF V!Play
<1> QED
  BY <1>1, <1>2, <1>3 DEF Kept, Modal, LoopKept, LoopsAlive, Starting

LEMMA PlayDispatchesKept == Fine /\ V!PlayDispatches => Kept
<1> SUFFICES ASSUME Fine, V!PlayDispatches PROVE Kept
  OBVIOUS
<1>1. /\ main.pc = "play" /\ Called(main') /\ main'.pc \in {"idle", "release"}
      /\ main'.to \in Follows /\ UNCHANGED <<vox, deck>>
  BY CallsBegin DEF V!PlayDispatches, V!At
<1>2. Fine'
  BY <1>1, VoicesStay DEF Fine
<1>3. CASE V!PlaysAlready
  <2>1. "Slice" # deck.mode /\ LoopsIn(deck) => Alive(vox)
    BY <1>3, GeneratingAlive DEF V!PlaysAlready, LoopsIn
  <2> QED
    BY <1>1, <1>2, <2>1 DEF Kept, Modal, LoopKept, LoopsAlive, Z
<1>4. CASE ~V!PlaysAlready
  <2>1. main'.pc = "release"
    BY <1>4, CallsBegin DEF V!PlayDispatches
  <2> QED
    BY <1>1, <1>2, <2>1 DEF Kept, Modal, LoopKept, LoopsAlive, Starting
<1> QED
  BY <1>3, <1>4

LEMMA StopKept == Fine /\ V!Stop => Kept
<1> SUFFICES ASSUME Fine, V!Stop PROVE Kept
  OBVIOUS
<1>1. /\ deck' \in DeckStates /\ deck'.mode = deck.mode /\ deck'.pending = deck.pending
      /\ ~deck'.playing
  BY DEF Fine, V!Stop, DeckStates
<1>2. main.pc = "idle" /\ Called(main') /\ main'.pc = "off" /\ main'.to \in Follows
  BY CallsBegin DEF V!Stop, V!At, Follows
<1>3. Fine'
  BY <1>1, <1>2, VoicesStay DEF V!Stop
<1> QED
  BY <1>1, <1>2, <1>3 DEF Kept, Modal, LoopKept, LoopsAlive, LoopsIn, Z

LEMMA GateKept == ASSUME NEW mono \in BOOLEAN, Fine, V!Gate(mono) PROVE Kept
<1>1. /\ main.pc = "idle" /\ Called(main') /\ main'.pc = "release" /\ main'.to \in Follows
      /\ UNCHANGED <<vox, deck>>
  BY CallsBegin DEF V!Gate, V!At
<1>2. Fine'
  BY <1>1, VoicesStay DEF Fine
<1> QED
  BY <1>1, <1>2 DEF Kept, Modal, LoopKept, LoopsAlive, Starting

LEMMA ClearSequenceKept == Fine /\ V!ClearSequence => Kept
<1> SUFFICES ASSUME Fine, V!ClearSequence PROVE Kept
  OBVIOUS
<1>1. deck' \in DeckStates /\ deck'.mode = deck.mode /\ deck'.pending = deck.pending
  BY DEF Fine, V!ClearSequence, DeckStates
<1>2. /\ main.pc = "idle" /\ Called(main') /\ main'.pc = "off" /\ main'.to = "restart"
  BY CallsBegin DEF V!ClearSequence, V!At, Follows
<1>3. Fine'
  BY <1>1, <1>2, VoicesStay DEF V!ClearSequence
<1> QED
  BY <1>1, <1>2, <1>3 DEF Kept, Modal, LoopKept, LoopsAlive, Starting, Follows

LEMMA RestartsKept == Fine /\ V!Restarts => Kept
<1> SUFFICES ASSUME Fine, V!Restarts PROVE Kept
  OBVIOUS
<1>1. /\ main.pc = "restart" /\ Called(main') /\ main'.pc \in {"idle", "release"}
      /\ main'.to \in Follows /\ UNCHANGED <<vox, deck>>
      /\ deck.playing => main'.pc = "release"
  BY CallsBegin DEF V!Restarts, V!At
<1>2. Fine'
  BY <1>1, VoicesStay DEF Fine
<1> QED
  BY <1>1, <1>2 DEF Kept, Modal, LoopKept, LoopsAlive, LoopsIn, Starting, Z

LEMMA TurnKept == Fine /\ V!Turn => Kept
<1> SUFFICES ASSUME Fine, V!Turn PROVE Kept
  OBVIOUS
<1>1. main.pc = "idle" /\ main'.pc = "turn" /\ main'.to = main.to /\ UNCHANGED <<vox, deck>>
  BY DEF Fine, V!Turn, V!At, V!Goto, Called, Calls
<1>2. Called(main')
  <2>1. main' \in Calls /\ main'.i = 0
    BY <1>1 DEF Fine, V!Turn, V!Goto, Called, Calls, Places
  <2> QED
    BY <1>1, <2>1, Numbers DEF Called, V!Voices
<1>3. Fine'
  BY <1>1, <1>2, VoicesStay DEF Fine
<1> QED
  BY <1>1, <1>3 DEF Kept, Modal, LoopKept, LoopsAlive, Starting, Z

LEMMA TurnsKept == Fine /\ V!Turns => Kept
<1> SUFFICES ASSUME Fine, V!Turns PROVE Kept
  OBVIOUS
<1> DEFINE v == main.i
<1>1. main.pc = "turn" /\ v \in V!Voices /\ UNCHANGED deck
  BY DEF Fine, V!Turns, V!At, Called
<1>2. Called(main') /\ main'.pc \in {"idle", "turn"} /\ main'.to \in {main.to} \cup Follows
  <2>1. CASE main.i < N - 1
    <3>1. main' = [main EXCEPT !.i = v + 1] /\ main \in Calls /\ v + 1 \in V!Voices
          /\ v + 1 \in 0 .. N
      BY <1>1, <2>1, Numbers DEF V!Turns, Fine, Called, V!Voices
    <3> QED
      BY <1>1, <3>1 DEF Called, Calls
  <2>2. CASE ~(main.i < N - 1)
    BY <2>2, CallsBegin DEF V!Turns
  <2> QED
    BY <2>1, <2>2
<1>3. /\ vox' \in VoxStates /\ vox'.queue = vox.queue /\ vox'.holding = vox.holding
      /\ vox'.active = vox.active /\ vox'.sounding = vox.sounding
      /\ \A w \in V!Voices : vox'.st[w] = "idle" <=> vox.st[w] = "idle"
  <2>1. CASE deck.mode # "Drift"
    <3> DEFINE p == V!Turned(vox.st[v])
    <3>1. vox' = [vox EXCEPT !.st = [vox.st EXCEPT ![v] = p]]
      BY <2>1 DEF V!Turns
    <3>2. p \in Phases /\ (p = "idle" <=> vox.st[v] = "idle")
      BY <1>1 DEF V!Turned, Fine, VoxStates, Phases
    <3> HIDE DEF p, v
    <3> QED
      BY <1>1, <3>1, <3>2 DEF Fine, VoxStates
  <2>2. CASE deck.mode = "Drift"
    BY <2>2 DEF V!Turns, Fine
  <2> QED
    BY <2>1, <2>2
<1> HIDE DEF v
<1>4. (Intact(vox))' /\ (Alive(vox) => Alive(vox'))
  BY <1>1, <1>2, <1>3
     DEF Fine, Intact, Handed, HoldsActive, HoldsBut, Taken, Settled, CountsRight, Alive
<1>5. Fine'
  BY <1>1, <1>2, <1>3, <1>4 DEF Fine, Shifting
<1> QED
  BY <1>1, <1>2, <1>4, <1>5 DEF Kept, Modal, LoopKept, LoopsAlive, Starting, Z

LEMMA ModeWaitsKept == Fine /\ V!ModeWaits => Kept
<1> SUFFICES ASSUME Fine, V!ModeWaits PROVE Kept
  OBVIOUS
<1>1. main.pc = "defer" /\ main.to \in AllModes
  BY DEF Fine, V!ModeWaits, V!At, Called
<1>2. /\ deck' \in DeckStates /\ deck'.mode = deck.mode /\ deck'.pending = main.to
      /\ deck'.playing = deck.playing /\ deck'.sequenced = deck.sequenced
  BY <1>1 DEF Fine, V!ModeWaits, DeckStates
<1>3. Called(main') /\ main'.pc = "off" /\ main'.to \in Follows /\ vox' = vox
  BY CallsBegin DEF V!ModeWaits, Follows
<1>4. Fine'
  BY <1>1, <1>2, <1>3, VoicesStay
<1>5. \A M : Modal(M) => Modal(M)'
  BY <1>1, <1>2, <1>3 DEF Modal, AllModes, Follows
<1>6. LoopsAlive(Z) => (LoopsAlive(Z))'
  BY <1>1, <1>2, <1>3 DEF LoopsAlive, LoopsIn, Starting, Z
<1> QED
  BY <1>4, <1>5, <1>6 DEF Kept, LoopKept

LEMMA ModeIsSetKept == Fine /\ V!ModeIsSet => Kept
<1> SUFFICES ASSUME Fine, V!ModeIsSet PROVE Kept
  OBVIOUS
<1>1. main.pc = "set" /\ main.to \in AllModes
  BY DEF Fine, V!ModeIsSet, V!At, Called
<1>2. /\ deck' \in DeckStates /\ deck'.mode = main.to /\ deck'.pending = "None"
      /\ deck'.playing = deck.playing /\ deck'.sequenced = deck.sequenced
  BY <1>1 DEF Fine, V!ModeIsSet, DeckStates
<1>3. Called(main') /\ main'.pc \in {"idle", "kick"} /\ main'.to \in Follows /\ vox' = vox
  BY CallsBegin DEF V!ModeIsSet
<1>4. Fine'
  BY <1>1, <1>2, <1>3, VoicesStay
<1>5. \A M : Modal(M) => Modal(M)'
  BY <1>1, <1>2, <1>3 DEF Modal, AllModes, Follows
<1>6. LoopKept
  BY <1>1, <1>2, <1>3 DEF LoopKept, LoopsAlive, LoopsIn, Starting, Z
<1> QED
  BY <1>4, <1>5, <1>6 DEF Kept

LEMMA KicksKept == Fine /\ V!Kicks => Kept
<1> SUFFICES ASSUME Fine, V!Kicks PROVE Kept
  OBVIOUS
<1>1. /\ main.pc = "kick" /\ Called(main') /\ main'.pc \in {"idle", "release"}
      /\ main'.to \in Follows /\ UNCHANGED <<vox, deck>>
  BY CallsBegin DEF V!Kicks, V!At
<1>2. Fine'
  BY <1>1, VoicesStay DEF Fine
<1> QED
  BY <1>1, <1>2 DEF Kept, Modal, LoopKept, LoopsAlive, Starting, Z

LEMMA SetModeKept ==
    ASSUME NEW m \in AllModes, Fine, V!SetMode(m)
    PROVE  /\ Fine' /\ LoopKept
           /\ \A M : Modal(M) /\ m \in M => Modal(M)'
<1>1. /\ main.pc = "idle" /\ UNCHANGED <<vox, deck>>
      /\ Called(main') /\ main'.pc \in {"defer", "set"} /\ main'.to = m
  <2> DEFINE p == IF V!Waits(m) THEN "defer" ELSE "set"
             none == FALSE
  <2>1. /\ main.pc = "idle" /\ UNCHANGED <<vox, deck>> /\ p \in {"defer", "set"}
        /\ main' = V!Call(p, none, m) /\ none \in BOOLEAN
    BY DEF V!SetMode, V!At
  <2> HIDE DEF p, none
  <2> QED
    BY <2>1, CallBegins
<1>2. Fine'
  BY <1>1, VoicesStay DEF Fine
<1> QED
  BY <1>1, <1>2 DEF Modal, LoopKept, LoopsAlive, Starting, Z

\* event_on and all_off, step by step.
LEMMA EventReleasesKept == Fine /\ V!EventReleases => Kept
<1> SUFFICES ASSUME Fine, V!EventReleases PROVE Kept
  OBVIOUS
<1>1. /\ main.pc = "release" /\ Called(main') /\ main'.pc = "choose" /\ main'.hold = main.hold
      /\ main'.to = main.to /\ UNCHANGED deck
  BY DEF Fine, V!EventReleases, V!At, V!Goto, Called, Calls, Places
<1>2. /\ vox' \in VoxStates /\ CountsRight(vox') /\ vox'.queue = vox.queue
      /\ ~main.hold => vox' = vox
  BY ReleaseSound DEF V!EventReleases, V!Freed, Fine, Intact, VoxStates
<1>3. (Intact(vox))'
  BY <1>1, <1>2 DEF Fine, Intact, Handed, HoldsActive, HoldsBut, Taken, Settled, CountsRight
<1>4. Fine'
  BY <1>1, <1>2, <1>3 DEF Fine, Shifting
<1> QED
  BY <1>1, <1>4 DEF Kept, Modal, LoopKept, LoopsAlive, Starting

LEMMA EventChoosesKept == Fine /\ V!EventChooses => Kept
<1> SUFFICES ASSUME Fine, V!EventChooses PROVE Kept
  OBVIOUS
<1> DEFINE i == V!TakenIndex(vox)
           v == vox.queue[i]
<1>1. i \in 1 .. N /\ v \in V!Voices
  BY TakenInQueue DEF Fine, VoxStates
<1>2. /\ main.pc = "choose" /\ UNCHANGED deck
      /\ main' = [main EXCEPT !.pc = "shift", !.i = i, !.v = v]
      /\ vox' = IF main.hold THEN [vox EXCEPT !.holding = v] ELSE vox
  BY DEF V!EventChooses, V!At
<1> HIDE DEF i
<1>3. Permuted(vox.queue) => Permuted(V!MovedBack(vox.queue, i))
  BY <1>1, MovedBackPermutes DEF Fine, VoxStates
<1>4. V!MovedBack(vox.queue, i) = [j \in 1 .. N |-> IF j < i THEN vox.queue[j]
                                     ELSE IF j < N THEN vox.queue[j + 1] ELSE v]
  BY DEF V!MovedBack
<1> HIDE DEF v
<1>5. /\ Called(main') /\ main'.pc = "shift" /\ main'.i = i /\ main'.v = v
      /\ main'.hold = main.hold /\ main'.to = main.to
  <2>1. main \in Calls /\ i \in 0 .. N
    BY <1>1, Numbers DEF Fine, Called
  <2>2. /\ main' \in Calls /\ main'.pc = "shift" /\ main'.i = i /\ main'.v = v
        /\ main'.hold = main.hold /\ main'.to = main.to
    BY <1>1, <1>2, <2>1 DEF Calls, Places
  <2> QED
    BY <1>1, <2>2 DEF Called
<1>6. /\ vox' \in VoxStates /\ vox'.queue = vox.queue /\ vox'.st = vox.st
      /\ vox'.sounding = vox.sounding /\ vox'.active = vox.active
      /\ vox'.holding = IF main.hold THEN v ELSE vox.holding
  BY <1>1, <1>2 DEF Fine, VoxStates
<1>7. Shifting'
  BY <1>2, <1>3, <1>4, <1>5, <1>6 DEF Shifting, Moving, Fine, Intact, Handed
<1>8. (Intact(vox))'
  BY <1>2, <1>5, <1>6
     DEF Fine, Intact, Handed, HoldsActive, HoldsBut, Taken, Settled, CountsRight
<1>9. Fine'
  BY <1>2, <1>5, <1>6, <1>7, <1>8 DEF Fine
<1> QED
  BY <1>2, <1>5, <1>9 DEF Kept, Modal, LoopKept, LoopsAlive, Starting

LEMMA EventShiftsKept == Fine /\ V!EventShifts => Kept
<1> SUFFICES ASSUME Fine, V!EventShifts PROVE Kept
  OBVIOUS
<1> DEFINE q == vox.queue
           r == vox'.queue
           i == main.i
           v == main.v
<1>1. /\ main.pc = "shift" /\ i \in 1 .. N /\ v \in V!Voices /\ UNCHANGED deck
      /\ q \in [1 .. N -> V!Voices] /\ main \in Calls
  BY DEF V!EventShifts, V!At, Fine, Called, VoxStates
<1>2. /\ r = V!Stored(q, i, v) /\ vox'.st = vox.st /\ vox'.pending = vox.pending
      /\ vox'.sounding = vox.sounding /\ vox'.active = vox.active /\ vox'.holding = vox.holding
      /\ vox' = [vox EXCEPT !.queue = r]
  BY DEF V!EventShifts, Fine, VoxStates
<1>3. /\ r \in [1 .. N -> V!Voices] /\ r[i] = IF i < N THEN q[i + 1] ELSE v
      /\ \A j \in 1 .. N : j # i => r[j] = q[j]
  BY <1>1, <1>2, Numbers DEF V!Stored
<1>4. vox' \in VoxStates
  <2> HIDE DEF r
  <2> QED
    BY <1>2, <1>3 DEF Fine, VoxStates
<1>5. /\ main'.v = v /\ main'.hold = main.hold /\ main'.to = main.to
      /\ i < N => main'.pc = "shift" /\ main'.i = i + 1
      /\ ~(i < N) => main'.pc = "active"
      /\ Called(main')
  <2>1. CASE i < N
    <3>1. main' = [main EXCEPT !.i = i + 1] /\ i + 1 \in 1 .. N /\ i + 1 \in 0 .. N
      BY <1>1, <2>1, Numbers DEF V!EventShifts
    <3>2. /\ main' \in Calls /\ main'.pc = "shift" /\ main'.i = i + 1 /\ main'.v = v
          /\ main'.hold = main.hold /\ main'.to = main.to
      BY <1>1, <3>1 DEF Calls
    <3> QED
      BY <1>1, <2>1, <3>1, <3>2 DEF Called
  <2>2. CASE ~(i < N)
    <3>1. main' = [main EXCEPT !.pc = "active", !.i = 0] /\ 0 \in 0 .. N
      BY <2>2, Numbers DEF V!EventShifts
    <3>2. /\ main' \in Calls /\ main'.pc = "active" /\ main'.v = v
          /\ main'.hold = main.hold /\ main'.to = main.to
      BY <1>1, <3>1 DEF Calls, Places
    <3> QED
      BY <1>1, <2>2, <3>2 DEF Called
  <2> QED
    BY <2>1, <2>2
<1>6. CASE i < N
  <2>1. Moving(r, main') = Moving(q, main)
    <3>1. ASSUME NEW j \in 1 .. N
          PROVE  (IF j < i + 1 THEN r[j] ELSE IF j < N THEN r[j + 1] ELSE v)
                 = (IF j < i THEN q[j] ELSE IF j < N THEN q[j + 1] ELSE v)
      <4>1. CASE j < i
        BY <1>1, <1>3, <4>1, Numbers
      <4>2. CASE j = i
        BY <1>1, <1>3, <1>6, <4>2, Numbers
      <4>3. CASE j > i
        <5>1. /\ ~(j < i) /\ ~(j < i + 1) /\ j # i
              /\ j < N => j + 1 \in 1 .. N /\ j + 1 # i
          BY <1>1, <4>3, Numbers
        <5> HIDE DEF q, r, i, v
        <5> QED
          BY <1>3, <5>1
      <4> QED
        BY <1>1, <4>1, <4>2, <4>3, Numbers
    <3> QED
      BY <1>5, <1>6, <3>1 DEF Moving
  <2>2. Shifting' /\ (Handed(vox))'
    BY <1>1, <1>5, <1>6, <2>1 DEF Shifting, Fine, Handed
  <2> QED
    BY <1>1, <1>2, <1>4, <1>5, <1>6, <2>2
       DEF Fine, Intact, HoldsActive, HoldsBut, Taken, Settled, CountsRight,
           Kept, Modal, LoopKept, LoopsAlive, Starting
<1>7. CASE ~(i < N)
  <2>1. Moving(q, main) = r
    <3>1. i = N
      BY <1>1, <1>7, Numbers
    <3>2. \A j \in 1 .. N : r[j] = IF j < i THEN q[j] ELSE IF j < N THEN q[j + 1] ELSE v
      BY <1>1, <1>3, <3>1, Numbers
    <3> HIDE DEF r
    <3> QED
      BY <1>3, <3>2 DEF Moving
  <2>2. Shifting' /\ (Handed(vox))'
    BY <1>1, <1>5, <1>7, <2>1 DEF Shifting, Fine, Handed
  <2> QED
    BY <1>1, <1>2, <1>4, <1>5, <1>7, <2>2
       DEF Fine, Intact, HoldsActive, HoldsBut, Taken, Settled, CountsRight,
           Kept, Modal, LoopKept, LoopsAlive, Starting
<1> QED
  BY <1>6, <1>7

LEMMA EventMarksKept == Fine /\ V!EventMarks => Kept
<1> SUFFICES ASSUME Fine, V!EventMarks PROVE Kept
  OBVIOUS
<1>1. /\ main.pc = "active" /\ main.v \in V!Voices /\ UNCHANGED deck
      /\ Called(main') /\ main'.pc = "trigger" /\ ~main'.hold /\ main'.to = main.to
  BY DEF Fine, V!EventMarks, V!At, Called, Calls, Places
<1>2. /\ vox' \in VoxStates /\ vox'.queue = vox.queue /\ vox'.st = vox.st
      /\ vox'.sounding = vox.sounding /\ vox'.holding = vox.holding
      /\ vox'.active[main.v] /\ \A w \in V!Voices : vox.active[w] => vox'.active[w]
  BY <1>1 DEF Fine, V!EventMarks, VoxStates
<1>3. (Intact(vox))'
  BY <1>1, <1>2, Numbers
     DEF Fine, Intact, Handed, HoldsActive, HoldsBut, Taken, Settled, CountsRight, VoxStates
<1>4. Fine'
  BY <1>1, <1>2, <1>3 DEF Fine, Shifting
<1> QED
  BY <1>1, <1>4 DEF Kept, Modal, LoopKept, LoopsAlive, Starting

\* A step of the main loop that leaves an event or all_off behind it.
LEMMA EventEnds ==
    ASSUME Fine, UNCHANGED deck, Called(main'), main.pc \in {"trigger", "busy"},
           main'.pc \in {"busy", "idle"}, main'.to \in {main.to} \cup Follows,
           vox' \in VoxStates, CountsRight(vox'), vox'.queue = vox.queue,
           vox'.active = vox.active, vox'.holding = vox.holding,
           main.pc = "busy" => (Alive(vox) => Alive(vox')),
           main.pc = "trigger" => Alive(vox')
    PROVE  Kept
<1>1. (Intact(vox))'
  BY DEF Fine, Intact, Handed, HoldsActive, HoldsBut, Taken, Settled, CountsRight
<1>2. Fine'
  BY <1>1 DEF Fine, Shifting
<1>3. LoopKept
  BY DEF LoopKept, LoopsAlive, Starting, Z
<1> QED
  BY <1>2, <1>3 DEF Kept, Modal

LEMMA EventTriggersKept == Fine /\ V!EventTriggers => Kept
<1> SUFFICES ASSUME Fine, V!EventTriggers PROVE Kept
  OBVIOUS
<1>1. main.pc = "trigger" /\ main.v \in V!Voices /\ UNCHANGED deck
  BY DEF Fine, V!EventTriggers, V!At, Called
<1>2. CASE vox.st[main.v] = "idle"
  <2>1. vox' = V!Triggered(vox, main.v) /\ main' = V!Idle
    BY <1>2 DEF V!EventTriggers
  <2>2. /\ vox' \in VoxStates /\ CountsRight(vox') /\ vox'.queue = vox.queue
        /\ vox'.active = vox.active /\ vox'.holding = vox.holding /\ Alive(vox')
    BY <1>1, <2>1, TriggeredSound DEF Fine, Intact
  <2> QED
    BY <1>1, <2>1, <2>2, CallsBegin, EventEnds
<1>3. CASE vox.st[main.v] # "idle"
  <2>1. vox' = vox /\ main' = [main EXCEPT !.pc = "busy"]
    BY <1>3 DEF V!EventTriggers, V!Goto
  <2>2. Called(main') /\ main'.pc = "busy" /\ main'.to = main.to
    BY <1>1, <2>1 DEF Fine, Called, Calls, Places
  <2>3. Alive(vox')
    BY <1>1, <1>3, <2>1 DEF Alive
  <2> QED
    BY <1>1, <2>1, <2>2, <2>3, EventEnds DEF Fine, Intact
<1> QED
  BY <1>2, <1>3

LEMMA EventWaitsKept == Fine /\ V!EventWaits => Kept
<1> SUFFICES ASSUME Fine, V!EventWaits PROVE Kept
  OBVIOUS
<1> DEFINE v == main.v
           p == V!Decayed(vox.st[v])
<1>1. main.pc = "busy" /\ v \in V!Voices /\ UNCHANGED deck /\ main' = V!Idle
  BY DEF Fine, V!EventWaits, V!At, Called
<1>2. p \in Phases /\ (p = "idle" <=> vox.st[v] = "idle")
  BY <1>1, DecayedPhase DEF Fine, VoxStates
<1>3. vox' = [vox EXCEPT !.st = [vox.st EXCEPT ![v] = p], !.pending = [vox.pending EXCEPT ![v] = TRUE]]
  BY DEF V!EventWaits
<1> HIDE DEF v, p
<1>4. /\ vox' \in VoxStates /\ vox'.queue = vox.queue /\ vox'.sounding = vox.sounding
      /\ vox'.active = vox.active /\ vox'.holding = vox.holding
      /\ \A w \in V!Voices : vox'.st[w] = "idle" <=> vox.st[w] = "idle"
  BY <1>1, <1>2, <1>3 DEF Fine, VoxStates
<1>5. CountsRight(vox') /\ (Alive(vox) => Alive(vox'))
  BY <1>4 DEF Fine, Intact, CountsRight, Alive
<1> QED
  BY <1>1, <1>4, <1>5, CallsBegin, EventEnds

LEMMA OffReleasesKept == Fine /\ V!OffReleases => Kept
<1> SUFFICES ASSUME Fine, V!OffReleases PROVE Kept
  OBVIOUS
<1>1. main.pc = "off" /\ main.to \in Follows /\ main \in Calls /\ UNCHANGED deck
  BY DEF Fine, V!OffReleases, V!At, Called
<1>2. CASE main.i < N
  <2>1. /\ main' = [main EXCEPT !.i = main.i + 1] /\ main.i \in V!Voices /\ main.i + 1 \in 0 .. N
        /\ vox' = IF vox.active[main.i] THEN V!Release(vox, main.i) ELSE vox
    BY <1>1, <1>2, Numbers DEF V!OffReleases, Calls, V!Voices
  <2>2. Called(main') /\ main'.pc = "off" /\ main'.to = main.to
    BY <1>1, <2>1 DEF Called, Calls
  <2>3. /\ vox' \in VoxStates /\ CountsRight(vox') /\ vox'.queue = vox.queue
        /\ Alive(vox) => Alive(vox')
    <3>1. vox \in VoxStates /\ CountsRight(vox)
      BY DEF Fine, Intact
    <3>2. CASE vox.active[main.i]
      BY <2>1, <3>1, <3>2, ReleaseSound
    <3>3. CASE ~vox.active[main.i]
      BY <2>1, <3>1, <3>3
    <3> QED
      BY <3>2, <3>3
  <2>4. (Intact(vox))'
    BY <1>1, <2>2, <2>3 DEF Fine, Intact, Handed, HoldsActive, Settled, CountsRight
  <2>5. Fine'
    BY <1>1, <2>2, <2>3, <2>4 DEF Fine, Shifting
  <2> QED
    BY <1>1, <2>2, <2>3, <2>5 DEF Kept, Modal, LoopKept, LoopsAlive, Starting, Z
<1>3. CASE ~(main.i < N)
  <2>1. /\ main' = IF main.to = "end" THEN V!Idle ELSE V!Call("restart", FALSE, "end")
        /\ vox' = [vox EXCEPT !.holding = V!None]
    BY <1>1, <1>3 DEF V!OffReleases, V!AllOff, Follows
  <2>2. /\ Called(main') /\ main'.to \in Follows
        /\ main'.pc = IF main.to = "end" THEN "idle" ELSE "restart"
    BY <2>1, CallsBegin
  <2>3. /\ vox' \in VoxStates /\ vox'.queue = vox.queue /\ vox'.sounding = vox.sounding
        /\ vox'.st = vox.st /\ vox'.holding = V!None
    BY <2>1 DEF Fine, VoxStates
  <2>4. (Intact(vox))'
    BY <1>1, <2>2, <2>3 DEF Fine, Intact, Handed, HoldsActive, HoldsBut, CountsRight
  <2>5. Fine'
    BY <1>1, <2>2, <2>3, <2>4 DEF Fine, Shifting
  <2> QED
    BY <1>1, <2>2, <2>3, <2>5 DEF Kept, Modal, LoopKept, LoopsAlive, Starting, Alive, Z, Follows
<1> QED
  BY <1>2, <1>3

-----------------------------------------------------------------------------
(* Theorems.                                                               *)

\* A step of a deck whose switch knows the modes M.
Steps(M) == \/ V!Play \/ V!Stop \/ V!AnyGate \/ V!ClearSequence \/ V!Turn
            \/ \E m \in M : V!SetMode(m)
            \/ V!MainStep
            \/ V!PlayQueued \/ V!Tick \/ V!AnyFrame

LEMMA MainStepKept == Fine /\ V!MainStep => Kept
BY EventReleasesKept, EventChoosesKept, EventShiftsKept, EventMarksKept, EventTriggersKept,
   EventWaitsKept, OffReleasesKept, PlayDispatchesKept, ModeWaitsKept, ModeIsSetKept,
   KicksKept, RestartsKept, TurnsKept
   DEF V!MainStep

LEMMA StepsKeep ==
    ASSUME NEW M, M \subseteq AllModes, Fine, Modal(M), Steps(M)
    PROVE  /\ Fine' /\ Modal(M)'
           /\ "Slice" \notin M /\ LoopsAlive(Z) => (LoopsAlive(Z))'
<1> SUFFICES Fine' /\ Modal(M)' /\ LoopKept
  BY DEF Modal, LoopKept
<1>1. CASE V!Play \/ V!Stop \/ V!ClearSequence \/ V!Turn
  BY <1>1, PlayKept, StopKept, ClearSequenceKept, TurnKept DEF Kept
<1>2. CASE V!AnyGate
  BY <1>2, GateKept DEF Kept, V!AnyGate
<1>3. CASE \E m \in M : V!SetMode(m)
  <2>1. PICK m \in M : V!SetMode(m)
    BY <1>3
  <2>2. m \in AllModes
    OBVIOUS
  <2> QED
    BY <2>1, <2>2, SetModeKept
<1>4. CASE V!MainStep
  BY <1>4, MainStepKept DEF Kept
<1>5. CASE V!PlayQueued \/ V!Tick
  BY <1>5, PlayQueuedKept, TickKept DEF Kept
<1>6. CASE V!AnyFrame
  BY <1>6, FrameKept DEF Kept, V!AnyFrame
<1> QED
  BY <1>1, <1>2, <1>3, <1>4, <1>5, <1>6 DEF Steps

\* A deck that begins in one of the modes M.
StartsIn(M) == /\ vox = [st       |-> [v \in V!Voices |-> "idle"],
                     pending  |-> [v \in V!Voices |-> FALSE],
                     sounding |-> [v \in V!Voices |-> FALSE],
                     active   |-> [v \in V!Voices |-> FALSE],
                     queue    |-> [i \in 1 .. N |-> i - 1],
                     holding  |-> V!None]
             /\ deck \in [mode : M, pending : {"None"}, playing : {FALSE}, sequenced : {Sequenced}]
             /\ main = V!Idle

LEMMA BeginsFine ==
    ASSUME NEW M, M \subseteq AllModes, StartsIn(M)
    PROVE  Fine /\ Modal(M) /\ LoopsAlive(Z)
<1>1. /\ deck.mode \in M /\ deck.pending = "None" /\ deck.playing = FALSE
      /\ deck \in DeckStates
  BY Parameters DEF V!VoicesAssumption, StartsIn, DeckStates
<1>2. vox \in VoxStates
  <2>1. \A i \in 1 .. N : i - 1 \in V!Voices
    BY Numbers DEF V!Voices
  <2> QED
    BY <2>1 DEF StartsIn, VoxStates, Phases
<1>3. Permuted(vox.queue)
  <2> SUFFICES ASSUME NEW v \in V!Voices PROVE \E i \in 1 .. N : vox.queue[i] = v
    BY DEF Permuted
  <2>1. v + 1 \in 1 .. N /\ (v + 1) - 1 = v
    BY Numbers DEF V!Voices
  <2> QED
    BY <2>1 DEF StartsIn
<1>4. HoldsActive(vox) /\ CountsRight(vox)
  BY DEF StartsIn, HoldsActive, HoldsBut, CountsRight
<1>5. Called(main) /\ main.pc = "idle" /\ main.to \in Follows
  BY CallsBegin DEF StartsIn
<1> QED
  BY <1>1, <1>2, <1>3, <1>4, <1>5
     DEF Fine, Intact, Handed, Shifting, Modal, LoopsAlive, LoopsIn, Z

Promises == /\ V!TypeOK /\ V!HeldIsActive /\ V!SoundingPlays
            /\ ~Torn => V!QueueHoldsAll

LEMMA FinePromises == Fine /\ Modal(Modes) => Promises
<1> SUFFICES ASSUME Fine, Modal(Modes) PROVE Promises
  OBVIOUS
<1>1. vox \in VoxStates /\ Handed(vox) /\ HoldsActive(vox) /\ CountsRight(vox)
  BY DEF Fine, Intact
<1>2. deck \in [mode : Modes, pending : Modes \cup {"None"}, playing : BOOLEAN, sequenced : BOOLEAN]
  BY DEF Fine, Modal, DeckStates
<1>3. main \in [pc : Places, i : 0 .. N, v : V!Voices \cup {V!None}, hold : BOOLEAN,
                to : Modes \cup Follows]
  BY DEF Fine, Called, Calls, Modal
<1>4. V!TypeOK
  BY <1>1, <1>2, <1>3 DEF V!TypeOK, VoxStates, Phases, Places, Follows
<1>5. V!HeldIsActive
  BY <1>1 DEF V!HeldIsActive, V!ChangesHeld, V!At, HoldsActive, HoldsBut, Taken, Settled
<1> QED
  BY <1>1, <1>4, <1>5 DEF Promises, V!QueueHoldsAll, V!At, Handed, Permuted,
                          V!SoundingPlays, CountsRight

\* The voice that is held is active, and only a voice that plays is counted
\* as one, wherever the interrupt comes between the steps of the main loop;
\* and the queue holds every voice, as long as the interrupt does not
\* dispatch while the main loop moves it (dispatcher.h, generator.cpp): for
\* any number of voices.
THEOREM VoicesRight ==
    V!Spec => [](/\ V!TypeOK /\ V!HeldIsActive /\ V!SoundingPlays
                 /\ ~Torn => V!QueueHoldsAll)
<1> DEFINE I == Fine /\ Modal(Modes)
<1>1. Modes \subseteq AllModes
  BY Parameters DEF AllModes, V!VoicesAssumption
<1>2. V!Init => I
  BY <1>1, BeginsFine DEF V!Init, StartsIn
<1>3. I /\ [V!Next]_(V!vars) => I'
  <2>1. CASE V!Next
    BY <1>1, <2>1, StepsKeep DEF V!Next, Steps
  <2>2. CASE UNCHANGED V!vars
    BY <2>2 DEF V!vars, Fine, Modal, Intact, Handed, HoldsActive, HoldsBut, Taken, Settled,
                CountsRight, Shifting
  <2> QED
    BY <2>1, <2>2
<1>4. I => Promises
  BY FinePromises
<1> QED
  BY <1>2, <1>3, <1>4, PTL DEF V!Spec, Promises

\* Without Slice, a deck that plays and has no sequence has a voice that has
\* begun, is about to begin or is ending, whenever the main loop is not about
\* to start one: "that's where the looping in Reel and Drift is happening"
\* (deck.cpp:521).
THEOREM LoopsLast == ASSUME "Slice" \notin Modes PROVE V!Spec => []V!LoopsOn
<1> DEFINE I == Fine /\ Modal(Modes) /\ LoopsAlive(Z)
<1>1. Modes \subseteq AllModes
  BY Parameters DEF AllModes, V!VoicesAssumption
<1>2. V!Init => I
  BY <1>1, BeginsFine DEF V!Init, StartsIn
<1>3. I /\ [V!Next]_(V!vars) => I'
  <2>1. CASE V!Next
    BY <1>1, <2>1, StepsKeep DEF V!Next, Steps
  <2>2. CASE UNCHANGED V!vars
    BY <2>2 DEF V!vars, Fine, Modal, Intact, Handed, HoldsActive, HoldsBut, Taken, Settled,
                CountsRight, Shifting, Z, LoopsAlive, Starting
  <2> QED
    BY <2>1, <2>2
<1>4. I => V!LoopsOn
  BY DEF LoopsAlive, LoopsIn, Starting, Alive, Z, V!LoopsOn, V!Loops, V!At
<1> QED
  BY <1>2, <1>3, <1>4, PTL DEF V!Spec

\* VoicesRight for the model that TLC checks, in its setting "modes": the
\* other three are instances of it, and LoopsLast is what "free" checks.
THEOREM VoicesAreConsistent ==
    ASSUME ~Torn PROVE VoicesSpec /\ scene = "modes" => []VoicesConsistent
<1> DEFINE I == scene = "modes" /\ Fine /\ Modal(Modes)
<1>1. Modes \subseteq AllModes
  BY Parameters DEF AllModes, V!VoicesAssumption
<1>2. VoicesInit /\ scene = "modes" => I
  BY <1>1, BeginsFine DEF VoicesInit, All, Free, Waiting, ThreeVoices, V!Init, StartsIn
<1>3. I /\ [VoicesNext]_VoicesVars => I'
  <2> SUFFICES ASSUME I, [VoicesNext]_VoicesVars PROVE I'
    OBVIOUS
  <2>1. CASE VoicesNext
    <3>1. V!Next /\ scene' = scene
      BY <2>1 DEF VoicesNext, All, Free, Waiting, ThreeVoices
    <3> QED
      BY <1>1, <3>1, StepsKeep DEF V!Next, Steps
  <2>2. CASE UNCHANGED VoicesVars
    BY <2>2 DEF VoicesVars, Fine, Modal, Intact, Handed, HoldsActive, HoldsBut, Taken, Settled,
                CountsRight, Shifting
  <2> QED
    BY <2>1, <2>2
<1>4. I => VoicesConsistent
  BY FinePromises DEF VoicesConsistent, Promises
<1> QED
  BY <1>2, <1>3, <1>4, PTL DEF VoicesSpec
=============================================================================
