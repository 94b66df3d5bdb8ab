---------------------------- MODULE MCStreamDeck ----------------------------
(***************************************************************************)
(* StreamDeck for TLC, in three settings.  "slow" is one deck on a card    *)
(* that may be slower than the audio, with the constants of the cfg; "two" *)
(* is two decks that share the scratch, on a card that keeps up, and       *)
(* "failing" one deck on a card that fails calls, both under the fairness  *)
(* of StreamDeck.                                                          *)
(***************************************************************************)
EXTENDS StreamDeck

\* The setting, chosen once and for all.
VARIABLE setting

RawFile(n)  == [hdr |-> n, len |-> n, raw |-> TRUE,  conv |-> FALSE]
ConvFile(n) == [hdr |-> n, len |-> n, raw |-> TRUE,  conv |-> TRUE]
WavFile(n)  == [hdr |-> n, len |-> n, raw |-> FALSE, conv |-> FALSE]

\* A file cut short: its header states one frame more than the card holds.
CutFile(n)  == [hdr |-> n, len |-> n - 1, raw |-> FALSE, conv |-> FALSE]

\* The same, opened by the reader that clamps the header to the file.
ClampedFile(n) == [CutFile(n) EXCEPT !.raw = TRUE]

\* A file longer than the ring, one shorter, one without a frame (a take that
\* was stopped at once), and one that is converted.
MCLibrary == {RawFile(4), WavFile(1), WavFile(0), ConvFile(3)}
MCShort   == {ClampedFile(3)}
MCCut     == {CutFile(2)}

Two == INSTANCE StreamDeck WITH
    NDecks <- 2, RingCap <- 2, ScratchCap <- 2, StageCap <- 2, Files <- MCShort,
    Faults <- FALSE, KeepsUp <- TRUE, Block <- 1, Preempt <- 1, MaxTake <- 2, MaxOps <- 4

Failing == INSTANCE StreamDeck WITH
    NDecks <- 1, RingCap <- 2, ScratchCap <- 2, StageCap <- 2, Files <- MCShort,
    Faults <- TRUE, KeepsUp <- TRUE, Block <- 1, Preempt <- 1, MaxTake <- 3, MaxOps <- 4

Slow(A) == setting = "slow" /\ A
InTwo(A) == setting = "two" /\ A

InFailing(A) == setting = "failing" /\ A

MCInit == Slow(Init) \/ InTwo(Two!Init) \/ InFailing(Failing!Init)
MCNext == UNCHANGED setting /\ (Slow(Next) \/ InTwo(Two!Next) \/ InFailing(Failing!Next))
MCVars == <<vars, setting>>

MCSpec ==
    /\ MCInit /\ [][MCNext]_MCVars
    /\ WF_MCVars((InTwo(Two!MainStep) \/ InFailing(Failing!MainStep)) /\ UNCHANGED setting)
    /\ \A d \in 0..1 : WF_MCVars(InTwo(Two!PlayConsume(d, 1)) /\ UNCHANGED setting)

-----------------------------------------------------------------------------
(* The properties of StreamDeck, each in the setting TLC is in.            *)

Either(slow, two, failing) ==
    /\ setting = "slow" => slow
    /\ setting = "two" => two
    /\ setting = "failing" => failing

\* Types, sizes, handles and modes agree (StreamDeck!Consistent).
DecksConsistent == Either(Consistent, Two!Consistent, Failing!Consistent)

\* The listener hears the file, and a take is what was recorded (PlaybackInOrder,
\* TakeIsWhole).
DecksFaithful ==
    /\ Either(PlaybackInOrder, Two!PlaybackInOrder, Failing!PlaybackInOrder)
    /\ Either(TakeIsWhole, Two!TakeIsWhole, Failing!TakeIsWhole)

\* The pump never ends a deck whose loop is on, and only the main loop touches a
\* ring that is being reset (LoopGoesOn, RingLeftAlone).
StreamsUndisturbed ==
    [][Either(NoEarlyEnd /\ OnlyMain, Two!NoEarlyEnd /\ Two!OnlyMain,
              Failing!NoEarlyEnd /\ Failing!OnlyMain)]_MCVars

\* Every take is finished, on a card that fails as well (FinalizingEnds); a deck
\* that plays to the end of its file becomes free (PlaybackEnds).
StreamsEnd ==
    /\ \A d \in 0..1 : InTwo(finalizing[d]) ~> InTwo(~finalizing[d])
    /\ InFailing(finalizing[0]) ~> InFailing(~finalizing[0])
    /\ \A d \in 0..1 : InTwo(mode[d] = "play") ~> InTwo(mode[d] = "idle" \/ loop[d])
=============================================================================
