---------------------------- MODULE HartLifecycle ----------------------------
(****************************************************************************)
(* The life of a hart under the Prototyper firmware: platform publication   *)
(* and per-hart bring-up (prototyper main.rs, platform/state.rs), the       *)
(* Runtime's hart state cells (runtime hart/lifecycle.rs, hart/wakeup.rs),  *)
(* the boot finisher in which stopped harts park (runtime boot/mod.rs), the *)
(* machine software trap (runtime trap/dispatch.rs) and the SBI HSM calls   *)
(* (prototyper sbi/hsm.rs) that drive them.                                 *)
(*                                                                          *)
(* Every hart runs the firmware concurrently, so each access to a location  *)
(* another hart can see (a state cell, a staged handoff, an interrupt-      *)
(* pending bit) is a step of its own.  Machine interrupts are off in M-mode *)
(* and a hart's own CSRs are private, so nothing else needs a step.         *)
(*                                                                          *)
(* The module says nothing of what an IPI carries: the step named "deliver" *)
(* stands for IpiHandler::deliver_current, which leaves all of this         *)
(* module's state alone.  RemoteFence.tla gives that step its contents.     *)
(****************************************************************************)
EXTENDS Naturals, FiniteSets

CONSTANTS
    Harts,        \* the enabled harts, all below NUM_HART_MAX
    BootHart,     \* the hart that won the boot election in start.S
    ResetHarts,   \* harts that may be in reset until HartWake releases them
    FlakyHarts,   \* harts an IPI send may fail to reach (IpiError::Failed)
    Stages,       \* next-stage handoffs: address, opaque and mode
    NoStage       \* Option::None for a handoff

ASSUME HartsAssumption ==
    /\ Harts \subseteq Nat
    /\ IsFiniteSet(Harts)
    /\ BootHart \in Harts
    /\ ResetHarts \subseteq Harts \ {BootHart}
    /\ FlakyHarts \subseteq Harts

ASSUME StagesAssumption ==
    /\ Stages # {}
    /\ NoStage \notin Stages

VARIABLES
    ready,      \* READY: the boot hart has published the platform
    checked,    \* HART_PRIVILEGE_CHECKED
    state,      \* HartStateCell.state of every hart
    stage,      \* HartStateCell.stage: the handoff staged for a start
    transfer,   \* HartStateCell.transfer: the handoff of a resume
    doorbell,   \* the machine IPI is pending at the hart
    pc,         \* where the hart is executing
    caller,     \* the routine a shared step returns into
    call,       \* the SBI call in progress: its target and its stage
    event,      \* the HartEvent taken from the hart's own cell
    running     \* the stage the hart's lower privilege modes execute

vars == <<ready, checked, state, stage, transfer, doorbell, pc, caller,
          call, event, running>>

cells == <<state, stage, transfer>>
bringUp == <<ready, checked>>

------------------------------------------------------------------------------
(* Types. *)

HartStates == {"STARTED", "STOPPED", "START_PENDING", "SUSPENDED",
               "RESUME_PENDING", "STARTING"}

OptStage == Stages \cup {NoStage}

NoEvent == [kind |-> "none", stage |-> NoStage]
Events == [kind : {"none", "park", "start"}, stage : OptStage]

BootSteps == {"reset", "init_board", "wait_ready", "check", "stage_current",
              "services"}
StartSteps == {"wake", "write_stage", "store_pending"}
LocalSteps == {"clear", "event", "take", "deliver", "dispatch", "wfi"}
SuspendSteps == {"suspend_store", "suspend_wfi", "resume", "commit",
                 "transfer", "publish", "ecall_return"}
Steps == BootSteps \cup StartSteps \cup LocalSteps \cup SuspendSteps
         \cup {"smode", "stop_store", "panic"}

Callers == {"none", "finish_boot", "machine_soft", "stop", "suspend"}

\* Type correctness of the firmware's shared and per-hart state.
TypeOK ==
    /\ ready \in BOOLEAN
    /\ checked \in [Harts -> BOOLEAN]
    /\ state \in [Harts -> HartStates]
    /\ stage \in [Harts -> OptStage]
    /\ transfer \in [Harts -> OptStage]
    /\ doorbell \in [Harts -> BOOLEAN]
    /\ pc \in [Harts -> Steps]
    /\ caller \in [Harts -> Callers]
    /\ call \in [Harts -> [target : Harts, stage : OptStage]]
    /\ event \in [Harts -> Events]
    /\ running \in [Harts -> OptStage]

------------------------------------------------------------------------------
(* Initially every cell is STOPPED and empty.  The elected hart initializes *)
(* the board; the other harts spin on READY, or are in reset if the stage   *)
(* before left them there.                                                  *)

NoCall(h) == [target |-> h, stage |-> NoStage]

Init ==
    /\ ready = FALSE
    /\ checked = [h \in Harts |-> FALSE]
    /\ state = [h \in Harts |-> "STOPPED"]
    /\ stage = [h \in Harts |-> NoStage]
    /\ transfer = [h \in Harts |-> NoStage]
    /\ doorbell = [h \in Harts |-> FALSE]
    /\ pc \in [Harts -> {"init_board", "reset", "wait_ready"}]
    /\ \A h \in Harts : /\ pc[h] = "init_board" <=> h = BootHart
                        /\ pc[h] = "reset" => h \in ResetHarts
    /\ caller = [h \in Harts |-> "none"]
    /\ call = [h \in Harts |-> NoCall(h)]
    /\ event = [h \in Harts |-> NoEvent]
    /\ running = [h \in Harts |-> NoStage]

\* Hart h moves from one step of the firmware to the next.
Goto(h, from, to) == pc[h] = from /\ pc' = [pc EXCEPT ![h] = to]

------------------------------------------------------------------------------
(* Bring-up. *)

\* publish_platform_services ends by releasing the secondary harts.
InitBoard(h) ==
    /\ Goto(h, "init_board", "check")
    /\ ready' = TRUE
    /\ UNCHANGED <<checked, cells, doorbell, caller, call, event, running>>

\* secondary_hart: wait_until_ready.
WaitUntilReady(h) ==
    /\ ready
    /\ Goto(h, "wait_ready", "check")
    /\ UNCHANGED <<bringUp, cells, doorbell, caller, call, event, running>>

\* check_next_stage_privilege publishes the hart as a legal HSM target.  A
\* hart without the mode halts for good and is not in Harts.
CheckPrivilege(h) ==
    /\ Goto(h, "check", IF h = BootHart THEN "stage_current" ELSE "services")
    /\ checked' = [checked EXCEPT ![h] = TRUE]
    /\ UNCHANGED <<ready, cells, doorbell, caller, call, event, running>>

\* stage_current reserves the boot hart's own cell; Busy is a panic.
StageCurrent(h) ==
    /\ pc[h] = "stage_current"
    /\ IF state[h] = "STOPPED"
       THEN /\ state' = [state EXCEPT ![h] = "STARTING"]
            /\ \E s \in Stages :
                   call' = [call EXCEPT ![h] = [target |-> h, stage |-> s]]
            /\ pc' = [pc EXCEPT ![h] = "write_stage"]
       ELSE /\ pc' = [pc EXCEPT ![h] = "panic"]
            /\ UNCHANGED <<state, call>>
    /\ UNCHANGED <<bringUp, stage, transfer, doorbell, caller, event, running>>

\* enable_supervisor_services clears the IPI left by an earlier boot stage.
\* The hart is already a legal target, so this may erase a start's wakeup.
EnableServices(h) ==
    /\ Goto(h, "services", "clear")
    /\ caller' = [caller EXCEPT ![h] = "finish_boot"]
    /\ doorbell' = [doorbell EXCEPT ![h] = FALSE]
    /\ UNCHANGED <<bringUp, cells, call, event, running>>

------------------------------------------------------------------------------
(* HSM hart_start: reserve, wake, write the handoff, publish it. *)

\* SbiHsm::hart_id accepts an enabled hart that is checked, or any enabled
\* hart on a platform that can release harts from reset.
LegalTarget(t) == ResetHarts # {} \/ checked[t]

\* Mutant: start refuses a STARTED hart instead of reserving a STOPPED one.
MHartStart(h, t, s) ==
    /\ LegalTarget(t)
    /\ state[t] # "STARTED"
    /\ Goto(h, "smode", "wake")
    /\ state' = [state EXCEPT ![t] = "STARTING"]
    /\ call' = [call EXCEPT ![h] = [target |-> t, stage |-> s]]
    /\ UNCHANGED <<bringUp, stage, transfer, doorbell, caller, event, running>>

\* start: the exchange STOPPED -> STARTING.  When it fails the call returns
\* ALREADY_AVAILABLE and when the target is illegal INVALID_PARAM; both leave
\* all state as it is.
HartStart(h, t, s) ==
    /\ LegalTarget(t)
    /\ state[t] = "STOPPED"
    /\ Goto(h, "smode", "wake")
    /\ state' = [state EXCEPT ![t] = "STARTING"]
    /\ call' = [call EXCEPT ![h] = [target |-> t, stage |-> s]]
    /\ UNCHANGED <<bringUp, stage, transfer, doorbell, caller, event, running>>

\* The release devices: the K1's answers true for a hart that is in reset, the
\* V861's for one that has not passed its privilege check.
K1Releases(t) == pc[t] = "reset"
V861Releases(t) == ~checked[t]

\* wakeup::wake through the release device: a hart in reset begins to execute
\* the firmware, and powering on one that already does has no effect.
WakeByRelease(h) ==
    /\ ResetHarts # {}
    /\ K1Releases(call[h].target) \/ V861Releases(call[h].target)
    /\ pc[h] = "wake"
    /\ pc' = [pc EXCEPT ![call[h].target] = IF @ = "reset" THEN "wait_ready" ELSE @,
                        ![h] = "write_stage"]
    /\ UNCHANGED <<bringUp, cells, doorbell, caller, call, event, running>>

\* wakeup::wake by an IPI: there is no release device, or it answered false.
WakeByIpi(h) ==
    /\ ~K1Releases(call[h].target) \/ ~V861Releases(call[h].target)
    /\ Goto(h, "wake", "write_stage")
    /\ doorbell' = [doorbell EXCEPT ![call[h].target] = TRUE]
    /\ UNCHANGED <<bringUp, cells, caller, call, event, running>>

\* Mutant: a failed wake returns without rolling the reservation back.
MWakeFailed(h) ==
    /\ call[h].target \in FlakyHarts
    /\ Goto(h, "wake", "smode")
    /\ call' = [call EXCEPT ![h] = NoCall(h)]
    /\ UNCHANGED <<bringUp, cells, doorbell, caller, event, running>>

\* The wake failed: the reservation is rolled back and the call returns FAILED.
WakeFailed(h) ==
    /\ call[h].target \in FlakyHarts
    /\ Goto(h, "wake", "smode")
    /\ state' = [state EXCEPT ![call[h].target] = "STOPPED"]
    /\ call' = [call EXCEPT ![h] = NoCall(h)]
    /\ UNCHANGED <<bringUp, stage, transfer, doorbell, caller, event, running>>

\* The plain (non-atomic) write of the handoff, in start and stage_current.
WriteStage(h) ==
    /\ Goto(h, "write_stage", "store_pending")
    /\ stage' = [stage EXCEPT ![call[h].target] = call[h].stage]
    /\ UNCHANGED <<bringUp, state, transfer, doorbell, caller, call, event, running>>

\* The Release store of START_PENDING.  start then returns to its caller and
\* stage_current to boot_hart.
StorePending(h) ==
    /\ Goto(h, "store_pending",
            IF call[h].target = h THEN "services" ELSE "smode")
    /\ state' = [state EXCEPT ![call[h].target] = "START_PENDING"]
    /\ call' = [call EXCEPT ![h] = NoCall(h)]
    /\ UNCHANGED <<bringUp, stage, transfer, doorbell, caller, event, running>>

------------------------------------------------------------------------------
(* Acknowledge, observe, deliver: the order finish_boot and machine_soft    *)
(* share, and which stop_current and suspend_current use parts of.          *)

\* The trap machine_soft is taken from the lower modes while an IPI is
\* pending.  machine_external does the same work for an IMSIC.
TrapMachineSoft(h) ==
    /\ doorbell[h]
    /\ Goto(h, "smode", "clear")
    /\ caller' = [caller EXCEPT ![h] = "machine_soft"]
    /\ UNCHANGED <<bringUp, cells, doorbell, call, event, running>>

\* IpiDevice::clear_current.
ClearCurrent(h) ==
    /\ Goto(h, "clear", CASE caller[h] = "stop" -> "stop_store"
                          [] caller[h] = "suspend" -> "deliver"
                          [] OTHER -> "event")
    /\ doorbell' = [doorbell EXCEPT ![h] = FALSE]
    /\ UNCHANGED <<bringUp, cells, caller, call, event, running>>

\* Mutant: take_local_event reports STARTING as no event instead of spinning.
MTakeLocalEvent(h) ==
    /\ Goto(h, "event",
            IF state[h] = "START_PENDING" THEN "take" ELSE "deliver")
    /\ state' = [state EXCEPT ![h] = IF @ = "START_PENDING" THEN "STARTED" ELSE @]
    /\ event' = [event EXCEPT ![h] =
                    [NoEvent EXCEPT !.kind =
                        IF state[h] = "STOPPED" THEN "park" ELSE "none"]]
    /\ UNCHANGED <<bringUp, stage, transfer, doorbell, caller, call, running>>

\* take_local_event: it spins while a starter holds STARTING.  Only this
\* hart leaves START_PENDING, so its exchange to STARTED cannot fail.
TakeLocalEvent(h) ==
    /\ state[h] # "STARTING"
    /\ Goto(h, "event",
            IF state[h] = "START_PENDING" THEN "take" ELSE "deliver")
    /\ state' = [state EXCEPT ![h] = IF @ = "START_PENDING" THEN "STARTED" ELSE @]
    /\ event' = [event EXCEPT ![h] =
                    [NoEvent EXCEPT !.kind =
                        IF state[h] = "STOPPED" THEN "park" ELSE "none"]]
    /\ UNCHANGED <<bringUp, stage, transfer, doorbell, caller, call, running>>

\* The plain read-and-clear of the handoff; an empty one is a panic.
TakeStage(h) ==
    /\ Goto(h, "take", IF stage[h] = NoStage THEN "panic" ELSE "deliver")
    /\ event' = [event EXCEPT ![h] = [kind |-> "start", stage |-> stage[h]]]
    /\ stage' = [stage EXCEPT ![h] = NoStage]
    /\ UNCHANGED <<bringUp, state, transfer, doorbell, caller, call, running>>

AfterDeliver(h) == IF caller[h] = "suspend" THEN "suspend_store" ELSE "dispatch"

\* IpiHandler::deliver_current.
DeliverCurrent(h) ==
    /\ Goto(h, "deliver", AfterDeliver(h))
    /\ UNCHANGED <<bringUp, cells, doorbell, caller, call, event, running>>

\* Mutant: the doorbell is cleared before the wait, after the cell was read.
MDispatchEvent(h) ==
    /\ Goto(h, "dispatch",
            CASE event[h].kind = "start" -> "smode"
              [] event[h].kind = "park" -> "wfi"
              [] event[h].kind = "none" ->
                     IF caller[h] = "finish_boot" THEN "panic" ELSE "smode")
    /\ running' = [running EXCEPT ![h] =
                      IF event[h].kind = "start" THEN event[h].stage ELSE @]
    /\ event' = [event EXCEPT ![h] = NoEvent]
    /\ caller' = [caller EXCEPT ![h] =
                      IF event[h].kind = "park" THEN @ ELSE "none"]
    /\ doorbell' = [doorbell EXCEPT ![h] = @ /\ event[h].kind # "park"]
    /\ UNCHANGED <<bringUp, cells, call>>

\* Acting on the event: enter the staged lower mode (fence.i and mret), wait
\* for an interrupt, or go on.  machine_soft goes on to the interrupted
\* context; in finish_boot there is none and this is a panic.
DispatchEvent(h) ==
    /\ Goto(h, "dispatch",
            CASE event[h].kind = "start" -> "smode"
              [] event[h].kind = "park" -> "wfi"
              [] event[h].kind = "none" ->
                     IF caller[h] = "finish_boot" THEN "panic" ELSE "smode")
    /\ running' = [running EXCEPT ![h] =
                      IF event[h].kind = "start" THEN event[h].stage ELSE @]
    /\ event' = [event EXCEPT ![h] = NoEvent]
    /\ caller' = [caller EXCEPT ![h] =
                      IF event[h].kind = "park" THEN @ ELSE "none"]
    /\ UNCHANGED <<bringUp, cells, doorbell, call>>

\* wfi returns for a pending IPI and may return for any other reason.  The
\* finisher loops; machine_soft would return to the interrupted context.
WfiReturns(h) ==
    /\ Goto(h, "wfi", IF caller[h] = "finish_boot" THEN "clear" ELSE "smode")
    /\ caller' = [caller EXCEPT ![h] = IF @ = "finish_boot" THEN @ ELSE "none"]
    /\ UNCHANGED <<bringUp, cells, doorbell, call, event, running>>

------------------------------------------------------------------------------
(* HSM hart_stop. *)

HartStop(h) ==
    /\ Goto(h, "smode", "clear")
    /\ caller' = [caller EXCEPT ![h] = "stop"]
    /\ UNCHANGED <<bringUp, cells, doorbell, call, event, running>>

\* stop_current: the store of STOPPED, then the tail call of finish_boot,
\* which discards the supervisor's context.
StoreStopped(h) ==
    /\ Goto(h, "stop_store", "clear")
    /\ state' = [state EXCEPT ![h] = "STOPPED"]
    /\ caller' = [caller EXCEPT ![h] = "finish_boot"]
    /\ running' = [running EXCEPT ![h] = NoStage]
    /\ UNCHANGED <<bringUp, stage, transfer, doorbell, call, event>>

------------------------------------------------------------------------------
(* HSM hart_suspend.  A call without a stage is retentive. *)

HartSuspend(h, s) ==
    /\ Goto(h, "smode", "clear")
    /\ caller' = [caller EXCEPT ![h] = "suspend"]
    /\ call' = [call EXCEPT ![h] = [target |-> h, stage |-> s]]
    /\ UNCHANGED <<bringUp, cells, doorbell, event, running>>

\* suspend_current: the store of SUSPENDED before the wait.
StoreSuspended(h) ==
    /\ Goto(h, "suspend_store", "suspend_wfi")
    /\ state' = [state EXCEPT ![h] = "SUSPENDED"]
    /\ caller' = [caller EXCEPT ![h] = "none"]
    /\ UNCHANGED <<bringUp, stage, transfer, doorbell, call, event, running>>

\* Mutant: the wait goes on until somebody else has changed the state.
MSuspendWfiReturns(h) ==
    /\ Goto(h, "suspend_wfi",
            IF state[h] = "SUSPENDED" THEN "suspend_wfi" ELSE "resume")
    /\ UNCHANGED <<bringUp, cells, doorbell, caller, call, event, running>>

\* The wfi of suspend_current.
SuspendWfiReturns(h) ==
    /\ Goto(h, "suspend_wfi", "resume")
    /\ UNCHANGED <<bringUp, cells, doorbell, caller, call, event, running>>

\* Mutant: a retentive resume leaves the recorded state as it is.
MResumeRetentive(h) ==
    /\ call[h].stage = NoStage
    /\ Goto(h, "resume", "smode")
    /\ UNCHANGED <<bringUp, cells, doorbell, caller, call, event, running>>

\* resume_current_retentive: the exchange SUSPENDED -> STARTED.  If it fails
\* the cell stays as it is and the call returns FAILED.
ResumeRetentive(h) ==
    /\ call[h].stage = NoStage
    /\ Goto(h, "resume", "smode")
    /\ state' = [state EXCEPT ![h] = IF @ = "SUSPENDED" THEN "STARTED" ELSE @]
    /\ UNCHANGED <<bringUp, stage, transfer, doorbell, caller, call, event, running>>

\* begin_nonretentive_resume: the exchange SUSPENDED -> RESUME_PENDING that
\* creates the ticket.
BeginNonretentiveResume(h) ==
    /\ call[h].stage # NoStage
    /\ Goto(h, "resume", IF state[h] = "SUSPENDED" THEN "commit" ELSE "smode")
    /\ state' = [state EXCEPT ![h] =
                    IF @ = "SUSPENDED" THEN "RESUME_PENDING" ELSE @]
    /\ call' = [call EXCEPT ![h] =
                    IF state[h] = "SUSPENDED" THEN @ ELSE NoCall(h)]
    /\ UNCHANGED <<bringUp, stage, transfer, doorbell, caller, event, running>>

\* ResumeTicket::commit, in three steps: ring the hart's own doorbell,
CommitResume(h) ==
    /\ Goto(h, "commit", "transfer")
    /\ doorbell' = [doorbell EXCEPT ![h] = TRUE]
    /\ UNCHANGED <<bringUp, cells, caller, call, event, running>>

\* stage the transfer,
StageTransfer(h) ==
    /\ Goto(h, "transfer", "publish")
    /\ transfer' = [transfer EXCEPT ![h] = call[h].stage]
    /\ UNCHANGED <<bringUp, state, stage, doorbell, caller, call, event, running>>

\* and store STARTED.
PublishResume(h) ==
    /\ Goto(h, "publish", "ecall_return")
    /\ state' = [state EXCEPT ![h] = "STARTED"]
    /\ call' = [call EXCEPT ![h] = NoCall(h)]
    /\ UNCHANGED <<bringUp, stage, transfer, doorbell, caller, event, running>>

\* The IPI failed: dropping the ticket stores SUSPENDED, and hart_suspend
\* returns FAILED to the supervisor that called it.
DropTicket(h) ==
    /\ h \in FlakyHarts
    /\ Goto(h, "commit", "smode")
    /\ state' = [state EXCEPT ![h] = "SUSPENDED"]
    /\ call' = [call EXCEPT ![h] = NoCall(h)]
    /\ UNCHANGED <<bringUp, stage, transfer, doorbell, caller, event, running>>

\* Mutant: the control transfer is read and not taken.
MEcallReturn(h) ==
    /\ Goto(h, "ecall_return", "smode")
    /\ running' = [running EXCEPT ![h] =
                      IF transfer[h] = NoStage THEN @ ELSE transfer[h]]
    /\ UNCHANGED <<bringUp, cells, doorbell, caller, call, event>>

\* sbi_ecall: take_control_transfer, then the entry into the resume stage.
EcallReturn(h) ==
    /\ Goto(h, "ecall_return", "smode")
    /\ running' = [running EXCEPT ![h] =
                      IF transfer[h] = NoStage THEN @ ELSE transfer[h]]
    /\ transfer' = [transfer EXCEPT ![h] = NoStage]
    /\ UNCHANGED <<bringUp, state, stage, doorbell, caller, call, event>>

------------------------------------------------------------------------------
(* The specification. *)

\* Mutant: the sender of an IPI marks a suspended target as started.
MRingDoorbell(t) ==
    /\ checked[t]
    /\ doorbell' = [doorbell EXCEPT ![t] = TRUE]
    /\ state' = [state EXCEPT ![t] = IF @ = "SUSPENDED" THEN "STARTED" ELSE @]
    /\ UNCHANGED <<bringUp, stage, transfer, pc, caller, call, event, running>>

\* Some hart's IPI or fence call rings t.  The caller selected t while it was
\* Started or Suspended; by now t may be in any state.
RingDoorbell(t) ==
    /\ checked[t]
    /\ doorbell' = [doorbell EXCEPT ![t] = TRUE]
    /\ UNCHANGED <<bringUp, cells, pc, caller, call, event, running>>

BringUp(h) ==
    \/ InitBoard(h) \/ WaitUntilReady(h) \/ CheckPrivilege(h)
    \/ StageCurrent(h) \/ EnableServices(h)

Starting(h) ==
    \/ WakeByRelease(h) \/ WakeByIpi(h) \/ WakeFailed(h)
    \/ WriteStage(h) \/ StorePending(h)

LocalWork(h) ==
    \/ ClearCurrent(h) \/ TakeLocalEvent(h) \/ TakeStage(h)
    \/ DispatchEvent(h)

Stopping(h) == StoreStopped(h)

Suspending(h) ==
    \/ StoreSuspended(h) \/ ResumeRetentive(h)
    \/ BeginNonretentiveResume(h) \/ CommitResume(h) \/ DropTicket(h)
    \/ StageTransfer(h) \/ PublishResume(h) \/ EcallReturn(h)

\* The waits, which end when an interrupt is pending and may end without one.
Waiting(h) == WfiReturns(h) \/ SuspendWfiReturns(h)

\* The calls the supervisor on h may make.
SbiCall(h) ==
    \/ \E t \in Harts, s \in Stages : HartStart(h, t, s)
    \/ HartStop(h)
    \/ \E s \in OptStage : HartSuspend(h, s)

\* What the firmware does on hart h once it has begun, delivery apart.
FirmwareStep(h) ==
    \/ BringUp(h) \/ Starting(h) \/ LocalWork(h) \/ Stopping(h)
    \/ Suspending(h)

Next ==
    \E h \in Harts :
        \/ FirmwareStep(h)
        \/ DeliverCurrent(h)
        \/ Waiting(h)
        \/ TrapMachineSoft(h)
        \/ SbiCall(h)
        \/ RingDoorbell(h)

Spec == Init /\ [][Next]_vars

------------------------------------------------------------------------------
(* Properties. *)

\* No hart reaches one of the firmware's "BUG:" exits: a start state without
\* a staged handoff (take_local_event), a hart in the finisher that is neither
\* stopped nor started (finish_boot_rust), a boot hart that cannot stage its
\* own handoff (boot_hart).
NoPanic == \A h \in Harts : pc[h] # "panic"

StageWriters(t) == {h \in Harts : pc[h] = "write_stage" /\ call[h].target = t}

\* The staged handoff is an UnsafeCell that harts write and take without a
\* lock: two of them never do so at once, and no hart takes it while another
\* one still holds the reservation.
StageHasOneUser ==
    \A t \in Harts :
        /\ \A g, h \in StageWriters(t) : g = h
        /\ pc[t] = "take" => StageWriters(t) = {}

\* A hart that executes its lower modes is recorded as STARTED (SUSPENDED is
\* possible only if its own wake IPI failed, see DropTicket), and a hart in
\* the finisher's wait as stopped or on its way to a start: this is what HSM
\* reports, and what the IPI and fence calls select their targets by.
RecordedStateIsTrue ==
    \A h \in Harts :
        /\ pc[h] = "smode" =>
               /\ running[h] # NoStage
               /\ state[h] = "STARTED" \/ (h \in FlakyHarts /\ state[h] = "SUSPENDED")
        /\ pc[h] = "wfi" => state[h] \in {"STOPPED", "STARTING", "START_PENDING"}
        /\ pc[h] = "suspend_wfi" => state[h] = "SUSPENDED"

\* Another hart's call changes a cell only while it is STOPPED or reserved by
\* that call: every other transition is made by the hart the cell belongs to.
OnlyTheHartItselfMovesOn ==
    [][\A t \in Harts :
           state[t] \notin {"STOPPED", "STARTING"} /\ state'[t] # state[t]
               => pc'[t] # pc[t]]_vars

\* An accepted start is never lost: whatever the target was doing when its
\* doorbell was rung, it enters the staged handoff.
StartCompletes ==
    \A t \in Harts :
        state[t] = "START_PENDING" ~> pc[t] = "smode" /\ state[t] = "STARTED"

\* A reservation is published or rolled back, so no hart spins for ever in
\* take_local_event.
ReservationEnds ==
    \A t \in Harts : state[t] = "STARTING" ~> state[t] # "STARTING"

\* An IPI that is rung while a hart is suspended gets the hart out of suspend,
\* unless the hart's own wake IPI fails.
SuspendEndsWithIpi ==
    \A t \in Harts \ FlakyHarts :
        state[t] = "SUSPENDED" /\ doorbell[t] ~> state[t] # "SUSPENDED"

------------------------------------------------------------------------------
(* The inductive invariant behind the safety properties. *)

Starters(t) == {h \in Harts : pc[h] \in StartSteps /\ call[h].target = t}

\* The hart has no supervisor: it is stopped, reserved, or about to start.
Down(h) ==
    /\ state[h] \in {"STOPPED", "STARTING", "START_PENDING"}
    /\ running[h] = NoStage

\* The hart serves its own supervisor.
Up(h) ==
    /\ state[h] = "STARTED" \/ (h \in FlakyHarts /\ state[h] = "SUSPENDED")
    /\ running[h] # NoStage

\* STARTING is a lock on the cell: a starter holds it from its reservation to
\* its publication, alone, and has a handoff to publish.  The boot hart stages
\* its own handoff; every other starter serves its supervisor.
StarterInv ==
    \A h \in Harts :
        pc[h] \in StartSteps =>
            /\ state[call[h].target] = "STARTING"
            /\ call[h].stage # NoStage
            /\ IF call[h].target = h
               THEN h = BootHart /\ pc[h] # "wake" /\ running[h] = NoStage
               ELSE Up(h)
            /\ \A g \in Harts :
                   pc[g] \in StartSteps /\ call[g].target = call[h].target
                       => g = h

\* No cell is left reserved without a starter that works on it.
ReservationHeld ==
    \A t \in Harts : state[t] = "STARTING" => Starters(t) # {}

\* A handoff is in the cell from the starter's write until the hart takes it.
StageInv ==
    /\ \A t \in Harts :
           /\ state[t] = "START_PENDING" \/ pc[t] = "take" => stage[t] # NoStage
           /\ stage[t] # NoStage =>
                  state[t] \in {"STARTING", "START_PENDING"} \/ pc[t] = "take"
    /\ \A h \in Harts :
           /\ pc[h] \in {"wake", "write_stage"} => stage[call[h].target] = NoStage
           /\ pc[h] = "store_pending" => stage[call[h].target] = call[h].stage

\* Where a hart executes fixes what its cell and its private state hold.
ContextInv ==
    \A h \in Harts :
        /\ pc[h] \in BootSteps => Down(h)
        /\ pc[h] \in {"reset", "wait_ready"} => h # BootHart
        /\ pc[h] = "stage_current" => h = BootHart
        /\ pc[h] \in {"smode", "stop_store", "suspend_store"} => Up(h)
        /\ pc[h] \in {"clear", "event"} =>
               IF caller[h] = "finish_boot" THEN Down(h) ELSE Up(h)
        /\ pc[h] = "clear" => caller[h] # "none"
        /\ pc[h] = "event" => caller[h] \in {"finish_boot", "machine_soft"}
        /\ pc[h] = "take" =>
               /\ caller[h] = "finish_boot"
               /\ state[h] = "STARTED"
               /\ running[h] = NoStage
        /\ pc[h] \in {"deliver", "dispatch"} =>
               IF caller[h] = "finish_boot"
               THEN \/ event[h].kind = "park" /\ Down(h)
                    \/ /\ event[h].kind = "start"
                       /\ event[h].stage # NoStage
                       /\ state[h] = "STARTED"
                       /\ running[h] = NoStage
               ELSE event[h] = NoEvent /\ Up(h)
        /\ pc[h] \notin {"deliver", "dispatch"} => event[h] = NoEvent
        /\ pc[h] = "wfi" => caller[h] = "finish_boot" /\ Down(h)
        /\ pc[h] \in {"suspend_wfi", "resume"} =>
               state[h] = "SUSPENDED" /\ running[h] # NoStage
        /\ pc[h] \in {"commit", "transfer", "publish"} =>
               /\ state[h] = "RESUME_PENDING"
               /\ call[h].stage # NoStage
               /\ running[h] # NoStage
        /\ pc[h] = "ecall_return" => state[h] = "STARTED" /\ running[h] # NoStage
        /\ pc[h] = "publish" => transfer[h] = call[h].stage
        /\ transfer[h] # NoStage <=> pc[h] \in {"publish", "ecall_return"}

\* Until the boot hart has reserved its own cell no hart has a supervisor, so
\* no hart can make an HSM call.
BootInv ==
    pc[BootHart] \in {"init_board", "check", "stage_current"} =>
        \A h \in Harts : state[h] = "STOPPED"

LifecycleInv ==
    /\ NoPanic
    /\ StarterInv
    /\ ReservationHeld
    /\ StageInv
    /\ ContextInv
    /\ BootInv

------------------------------------------------------------------------------
(* The abstract specification this one implements. *)

\* HartState, as status() computes it from the private cell values.
Status(h) == IF state[h] = "STARTING" THEN "START_PENDING" ELSE state[h]

\* The handoff the firmware has accepted for t, wherever it is on its way: in
\* the call of the hart that starts t, in the cell, in the event t has taken,
\* in t's resume ticket, or in its control transfer.
Pending(t) ==
    IF Starters(t) # {} THEN call[CHOOSE h \in Starters(t) : TRUE].stage
    ELSE IF stage[t] # NoStage THEN stage[t]
    ELSE IF event[t].kind = "start" THEN event[t].stage
    ELSE IF pc[t] \in {"commit", "transfer"} THEN call[t].stage
    ELSE transfer[t]

Hsm == INSTANCE HsmAbstract WITH
           status <- [h \in Harts |-> Status(h)],
           pending <- [h \in Harts |-> Pending(h)]

\* The firmware implements the HSM promise: one handoff per hart at a time,
\* and the hart enters exactly the handoff that was accepted for it.
HsmRefinement == Hsm!HsmSpec
==============================================================================
