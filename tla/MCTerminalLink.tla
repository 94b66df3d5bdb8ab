--------------------------- MODULE MCTerminalLink ---------------------------
(***************************************************************************)
(* TerminalLink for TLC, in two settings: "turns" has the constants of the *)
(* cfg and a host that sends a line and waits for the reply; "flood" has a *)
(* host that does not wait, and a ring and a FIFO that overflow.           *)
(***************************************************************************)
EXTENDS TerminalLink

\* The setting, chosen once and for all.
VARIABLE setting

\* Whole lines: the three verbs, with CRLF, blank, as long as allowed, and
\* longer.
Lines == {<<"t", "nl">>, <<"r", "cr", "nl">>, <<"u", "nl">>, <<"nl">>,
          <<"u", "t", "nl">>, <<"u", "t", "r", "t", "nl">>}

\* Parts of lines.
Parts == {<<"t", "nl">>, <<"u">>, <<"nl">>}

\* A host that waits sends whole lines.  The ring has room for one, after the
\* blank ones that may come before it (they have no reply to wait for), and the
\* FIFO for one reply.
IsLine(p) == /\ Len(p) > 0 /\ p[Len(p)] = "nl"
             /\ \A i \in 1 .. Body(p) : p[i] \in Letters

ASSUME TurnsAssumption ==
    /\ Synchronous = TRUE /\ TxCap >= 3
    /\ \A p \in Packets : IsLine(p)
    /\ \E blank \in 0 .. RxCap :
         /\ \A p \in Packets : Body(p) = 0 => Len(p) <= blank
         /\ \A p \in Packets : MaxSent * blank + Len(p) <= RxCap

Rush == INSTANCE TerminalLink WITH
    RxCap <- 3, TxCap <- 5, Packets <- Parts, MaxSent <- 4, Synchronous <- FALSE

Flood(A) == setting = "flood" /\ A
Turns(A) == setting = "turns" /\ A

MCInit == Flood(Rush!Init) \/ Turns(Init)
MCNext == UNCHANGED setting /\ (Flood(Rush!Next) \/ Turns(Next))
MCVars == <<vars, setting>>

MCSpec ==
    /\ MCInit /\ [][MCNext]_MCVars
    /\ WF_MCVars((Flood(Rush!Process) \/ Turns(Process)) /\ UNCHANGED setting)
    /\ WF_MCVars((Flood(Rush!Sent) \/ Turns(Sent)) /\ UNCHANGED setting)
    /\ WF_MCVars((Flood(Rush!Tick) \/ Turns(Tick)) /\ UNCHANGED setting)

-----------------------------------------------------------------------------
(* InFlightStable holds in both settings.                                  *)

\* A host that waits reads the reply to its line (ReplyInTurn).
RepliesInTurn == setting = "turns" => TypeOK /\ ReplyInTurn

\* A host that waits gets its reply; a reply that was dropped is told of, by a
\* report that is not; and a host that falls silent in test mode gives the panel
\* back (Answered, TxLossTold, Thaws).
LinkRecovers ==
    /\ Turns(host.awaited # <<>>) ~> Turns(host.awaited = <<>>)
    /\ Flood(tx.lost) ~> Flood(~tx.lost)
    /\ Thaws
=============================================================================
