---------------------------- MODULE SystemSuspend ----------------------------
(****************************************************************************)
(* SBI system suspend (prototyper sbi/suspend.rs) on top of the hart        *)
(* lifecycle: the caller takes the map of the harts that have passed their  *)
(* privilege check, reads the status of each of them but itself, one after  *)
(* the other and without a lock, and if each was stopped when it was read,  *)
(* suspends itself non-retentively.                                         *)
(****************************************************************************)
EXTENDS HartLifecycle

VARIABLES
    request,    \* the resume stage of the system_suspend call in progress
    unread,     \* harts whose status that call has still to read
    asleep      \* the hart_suspend under way on the hart is a system suspend

suspendVars == <<request, unread, asleep>>
systemVars == <<vars, suspendVars>>

\* Type correctness of the state of system_suspend calls; only a call has
\* harts to read, and no call reads its own.
SuspendTypeOK ==
    /\ request \in [Harts -> OptStage]
    /\ unread \in [Harts -> SUBSET Harts]
    /\ asleep \in [Harts -> BOOLEAN]
    /\ \A h \in Harts : unread[h] # {} => request[h] # NoStage /\ h \notin unread[h]

SuspendInit ==
    /\ Init
    /\ request = [h \in Harts |-> NoStage]
    /\ unread = [h \in Harts |-> {}]
    /\ asleep = [h \in Harts |-> FALSE]

\* The enable map is walked in ascending hart order.
NextUnread(h) == CHOOSE t \in unread[h] : \A u \in unread[h] : t <= u

\* enabled_harts.  The flags are only ever set, so they are read in one step.
EnabledHarts == {t \in Harts : checked[t]}

\* SUSPEND_TO_RAM from a lower mode; any other call returns without effect.
BeginSystemSuspend(h, s) ==
    /\ pc[h] = "smode"
    /\ request[h] = NoStage
    /\ request' = [request EXCEPT ![h] = s]
    /\ unread' = [unread EXCEPT ![h] = EnabledHarts \ {h}]
    /\ UNCHANGED <<vars, asleep>>

\* Mutant: only a STARTED hart ends the call.
MReadStatus(h) ==
    /\ unread[h] # {}
    /\ IF Status(NextUnread(h)) # "STARTED"
       THEN /\ unread' = [unread EXCEPT ![h] = @ \ {NextUnread(h)}]
            /\ UNCHANGED request
       ELSE /\ unread' = [unread EXCEPT ![h] = {}]
            /\ request' = [request EXCEPT ![h] = NoStage]
    /\ UNCHANGED <<vars, asleep>>

\* Read one hart's status.  A hart that is not stopped ends the call: DENIED.
ReadStatus(h) ==
    /\ unread[h] # {}
    /\ IF Status(NextUnread(h)) = "STOPPED"
       THEN /\ unread' = [unread EXCEPT ![h] = @ \ {NextUnread(h)}]
            /\ UNCHANGED request
       ELSE /\ unread' = [unread EXCEPT ![h] = {}]
            /\ request' = [request EXCEPT ![h] = NoStage]
    /\ UNCHANGED <<vars, asleep>>

\* Every other hart was found stopped: hart_suspend(NON_RETENTIVE, ...).
SuspendSystem(h) ==
    /\ request[h] # NoStage
    /\ unread[h] = {}
    /\ HartSuspend(h, request[h])
    /\ request' = [request EXCEPT ![h] = NoStage]
    /\ asleep' = [asleep EXCEPT ![h] = TRUE]
    /\ UNCHANGED unread

\* A lifecycle step of a hart that is not inside system_suspend.  The system
\* suspend is over when the hart is back in its lower modes.
OtherStep(h) ==
    /\ request[h] = NoStage
    /\ \/ FirmwareStep(h) \/ DeliverCurrent(h) \/ Waiting(h)
       \/ TrapMachineSoft(h) \/ SbiCall(h)
    /\ asleep' = [asleep EXCEPT ![h] = @ /\ pc'[h] # "smode"]
    /\ UNCHANGED <<request, unread>>

\* Another hart's IPI or fence call.
OtherRing(h) == RingDoorbell(h) /\ UNCHANGED suspendVars

SuspendNext ==
    \E h \in Harts :
        \/ \E s \in Stages : BeginSystemSuspend(h, s)
        \/ ReadStatus(h)
        \/ SuspendSystem(h)
        \/ OtherStep(h)
        \/ OtherRing(h)

SuspendSpec == SuspendInit /\ [][SuspendNext]_systemVars

------------------------------------------------------------------------------
(* Properties. *)

\* At most one hart at a time suspends the system.  The calls scan without a
\* lock, but a hart that scans is itself not stopped.
OneSystemSuspend ==
    \A g, h \in Harts : asleep[g] /\ asleep[h] => g = h

\* While a hart suspends the system every other hart is stopped: what the
\* comment on the check in system_suspend says that the check establishes.
EveryOtherHartStopped ==
    \A h \in Harts : asleep[h] =>
        \A t \in Harts \ {h} : Status(t) = "STOPPED"
------------------------------------------------------------------------------
(* The inductive invariant behind OneSystemSuspend. *)

\* The hart is inside system_suspend, scanning or suspended.
InSystemSuspend(h) == request[h] # NoStage \/ asleep[h]

\* Where a hart executes while it scans and while it suspends the system.
SuspendContext ==
    \A h \in Harts :
        /\ request[h] # NoStage => pc[h] = "smode" /\ ~asleep[h]
        /\ request[h] = NoStage => unread[h] = {}
        /\ asleep[h] =>
               /\ pc[h] \in {"clear", "deliver"} \cup SuspendSteps
               /\ pc[h] \in {"clear", "deliver"} => caller[h] = "suspend"
        /\ pc[h] \notin {"reset", "init_board", "wait_ready", "check"} => checked[h]

\* Of two harts inside system_suspend, one has still to read the other, and
\* the other is not stopped.
ScansCross ==
    \A g, h \in Harts :
        InSystemSuspend(g) /\ InSystemSuspend(h) /\ g # h =>
            g \in unread[h] \/ h \in unread[g]

\* The inductive invariant: scanning harts see each other, whatever the
\* supervisors call and however the scans interleave.
SuspendInv == SuspendContext /\ ScansCross
==============================================================================
