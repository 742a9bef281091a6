----------------------------- MODULE HsmAbstract -----------------------------
(****************************************************************************)
(* What the firmware promises of a hart's life, as seen through the SBI     *)
(* Hart State Management extension: the five states hart_get_status         *)
(* reports, the handoff a hart owes its supervisor, and the stage its lower *)
(* modes execute.  A hart belongs to one handoff at a time and enters that  *)
(* handoff and no other.  How harts agree on this is HartLifecycle.tla's    *)
(* business.                                                                *)
(****************************************************************************)
CONSTANTS
    Harts,        \* the enabled harts
    FlakyHarts,   \* harts whose own wake IPI may fail
    Stages,       \* handoffs a start or a non-retentive suspend may name
    NoStage       \* no handoff

VARIABLES
    status,       \* what hart_get_status reports
    pending,      \* the handoff accepted for the hart and not yet entered
    running       \* the stage the hart's lower modes execute

hsmVars == <<status, pending, running>>

HsmStates == {"STARTED", "STOPPED", "START_PENDING", "SUSPENDED",
              "RESUME_PENDING"}

HsmTypeOK ==
    /\ status \in [Harts -> HsmStates]
    /\ pending \in [Harts -> Stages \cup {NoStage}]
    /\ running \in [Harts -> Stages \cup {NoStage}]

HsmInit ==
    /\ status = [h \in Harts |-> "STOPPED"]
    /\ pending = [h \in Harts |-> NoStage]
    /\ running = [h \in Harts |-> NoStage]

Move(h, from, to) ==
    /\ status[h] = from
    /\ status' = [status EXCEPT ![h] = to]

\* A start is accepted only by a stopped hart that owes no other handoff.
Request(h, s) ==
    /\ Move(h, "STOPPED", "START_PENDING")
    /\ pending[h] = NoStage
    /\ pending' = [pending EXCEPT ![h] = s]
    /\ UNCHANGED running

\* The hart could not be woken and the request is taken back.
Refuse(h) ==
    /\ Move(h, "START_PENDING", "STOPPED")
    /\ pending' = [pending EXCEPT ![h] = NoStage]
    /\ UNCHANGED running

\* The hart has taken up its handoff.
Accept(h) ==
    /\ Move(h, "START_PENDING", "STARTED")
    /\ pending[h] # NoStage
    /\ UNCHANGED <<pending, running>>

\* A started hart enters the handoff it owes, once.
Enter(h) ==
    /\ status[h] = "STARTED"
    /\ pending[h] # NoStage
    /\ running' = [running EXCEPT ![h] = pending[h]]
    /\ pending' = [pending EXCEPT ![h] = NoStage]
    /\ UNCHANGED status

\* A hart whose resume failed runs its supervisor as SUSPENDED.
StopsFrom(h) == {"STARTED"} \cup (IF h \in FlakyHarts THEN {"SUSPENDED"} ELSE {})

\* Only a hart that runs a stage and owes none can stop.
Stop(h) ==
    /\ \E from \in StopsFrom(h) : Move(h, from, "STOPPED")
    /\ pending[h] = NoStage
    /\ running[h] # NoStage
    /\ running' = [running EXCEPT ![h] = NoStage]
    /\ UNCHANGED pending

Suspend(h) ==
    /\ Move(h, "STARTED", "SUSPENDED")
    /\ pending[h] = NoStage
    /\ running[h] # NoStage
    /\ UNCHANGED <<pending, running>>

Resume(h) ==
    /\ Move(h, "SUSPENDED", "STARTED")
    /\ pending[h] = NoStage
    /\ UNCHANGED <<pending, running>>

\* A non-retentive resume owes the stage named by the suspend call.
BeginResume(h, s) ==
    /\ Move(h, "SUSPENDED", "RESUME_PENDING")
    /\ pending[h] = NoStage
    /\ pending' = [pending EXCEPT ![h] = s]
    /\ UNCHANGED running

FinishResume(h) ==
    /\ Move(h, "RESUME_PENDING", "STARTED")
    /\ pending[h] # NoStage
    /\ UNCHANGED <<pending, running>>

AbandonResume(h) ==
    /\ h \in FlakyHarts
    /\ Move(h, "RESUME_PENDING", "SUSPENDED")
    /\ pending' = [pending EXCEPT ![h] = NoStage]
    /\ UNCHANGED running

HsmNext ==
    \E h \in Harts :
        \/ \E s \in Stages : Request(h, s) \/ BeginResume(h, s)
        \/ Refuse(h) \/ Accept(h) \/ Enter(h) \/ Stop(h)
        \/ Suspend(h) \/ Resume(h) \/ FinishResume(h) \/ AbandonResume(h)

HsmSpec == HsmInit /\ [][HsmNext]_hsmVars
==============================================================================
