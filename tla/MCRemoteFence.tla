---------------------------- MODULE MCRemoteFence ----------------------------
(****************************************************************************)
(* RemoteFence for TLC.                                                     *)
(****************************************************************************)
EXTENDS RemoteFence

CONSTANTS s1, s2, none, nohart

TwoHarts == {0, 1}
ThreeHarts == {0, 1, 2}
OneStage == {s1}
TwoStages == {s1, s2}
OnlyHart0 == {0}
OnlyHart1 == {1}
NoHarts == {}
Broadcast == [h \in Harts |-> {Harts}]
ToHart1 == [h \in Harts |-> {{1}}]

\* Hart 0 asks hart 1, everybody else asks hart 0.
Crossing == [h \in Harts |-> {{IF h = 0 THEN 1 ELSE 0}}]

-----------------------------------------------------------------------------
\* Every hart has booted and runs its supervisor.
RunningInit ==
    /\ ready = TRUE
    /\ checked = [h \in Harts |-> TRUE]
    /\ state = [h \in Harts |-> "STARTED"]
    /\ stage = [h \in Harts |-> NoStage]
    /\ transfer = [h \in Harts |-> NoStage]
    /\ doorbell = [h \in Harts |-> FALSE]
    /\ pc = [h \in Harts |-> "smode"]
    /\ caller = [h \in Harts |-> "none"]
    /\ call = [h \in Harts |-> NoCall(h)]
    /\ event = [h \in Harts |-> NoEvent]
    /\ running = [h \in Harts |-> s1]
    /\ NoIpiWork

RunningSpec == RunningInit /\ [][FenceNext]_fenceVars /\ FenceFairness

-----------------------------------------------------------------------------
\* Every start comes to an end: an accepted one enters its handoff, and one that
\* is only reserved is published or rolled back.  (start, publish, local events)
StartsSettle == StartCompletes /\ ReservationEnds
==============================================================================
