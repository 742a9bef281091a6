----------------------------- MODULE RemoteFence -----------------------------
(****************************************************************************)
(* Inter-processor interrupts and remote fences (prototyper sbi/ipi.rs,     *)
(* sbi/rfence.rs, sbi/rfence/queue.rs) on top of the hart lifecycle.        *)
(*                                                                          *)
(* An SBI call runs while its hart's pc is "smode", a delivery while it is  *)
(* "deliver"; work says how far either has come, and every lifecycle step   *)
(* of a hart waits until the hart has no such work.  So each step here is a *)
(* step of HartLifecycle, one ring of a doorbell, or none of its business.  *)
(*                                                                          *)
(* A source has one call at a time and sends the same operation to every    *)
(* target, so a queued fence is represented by its source.  The queue's     *)
(* lock is held for single operations only: each is one step, and a         *)
(* try_push that loses the lock is one that comes later.                    *)
(****************************************************************************)
EXTENDS HartLifecycle, Sequences, SequencesExt

CONSTANTS
    QueueCap,      \* QUEUE_CAP: capacity of a hart's fence queue
    NoHart,        \* no source hart
    HsmCallers,    \* harts whose supervisors make HSM calls
    IpiCallers,    \* harts whose supervisors send IPIs
    FenceCallers,  \* harts whose supervisors request remote fences
    Masks          \* the hart masks each supervisor names

ASSUME FenceAssumption ==
    /\ QueueCap \in Nat \ {0}
    /\ NoHart \notin Harts
    /\ HsmCallers \subseteq Harts
    /\ IpiCallers \subseteq Harts
    /\ FenceCallers \subseteq Harts
    /\ Masks \in [Harts -> SUBSET SUBSET Harts]

VARIABLES
    ipiType,    \* HartLocal.ipi_type: the pending IPI_TYPE_* bits
    queue,      \* RFenceCell.queue: sources of the fences to execute
    waitSync,   \* RFenceCell.wait_sync_count
    ssip,       \* the supervisor software interrupt is pending
    work,       \* progress of the IPI or fence call, or of the delivery
    todo,       \* harts of the call's mask or window still to be visited
    targets,    \* harts selected for the call
    taken,      \* source of the fence the hart has dequeued
    owed,       \* source the hart owes an acknowledgement
    stale       \* per source: harts of its mask that have not fenced since

sendVars == <<work, todo, targets>>
serveVars == <<taken, owed>>
ipiVars == <<ipiType, queue, waitSync, ssip, sendVars, serveVars, stale>>
fenceVars == <<vars, ipiVars>>

IpiTypes == {"SSOFT", "FENCE"}
IpiSteps == {"ipi_scan", "ipi_mark", "ipi_ring"}
FenceSteps == {"fence_scan", "fence_next", "fence_push", "fence_mark",
               "fence_ring", "fence_cancel", "fence_sync", "fence_failed"}
WorkSteps == {"idle", "drain"} \cup IpiSteps \cup FenceSteps
OptHart == Harts \cup {NoHart}

\* Type correctness of the interrupt and fence state.
FenceTypeOK ==
    /\ ipiType \in [Harts -> SUBSET IpiTypes]
    /\ queue \in [Harts -> Seq(Harts)]
    /\ waitSync \in [Harts -> Nat]
    /\ ssip \in [Harts -> BOOLEAN]
    /\ work \in [Harts -> WorkSteps]
    /\ todo \in [Harts -> SUBSET Harts]
    /\ targets \in [Harts -> SUBSET Harts]
    /\ taken \in [Harts -> OptHart]
    /\ owed \in [Harts -> OptHart]
    /\ stale \in [Harts -> SUBSET Harts]

\* No IPI and no fence is under way.
NoIpiWork ==
    /\ ipiType = [h \in Harts |-> {}]
    /\ queue = [h \in Harts |-> <<>>]
    /\ waitSync = [h \in Harts |-> 0]
    /\ ssip = [h \in Harts |-> FALSE]
    /\ work = [h \in Harts |-> "idle"]
    /\ todo = [h \in Harts |-> {}]
    /\ targets = [h \in Harts |-> {}]
    /\ taken = [h \in Harts |-> NoHart]
    /\ owed = [h \in Harts |-> NoHart]
    /\ stale = [h \in Harts |-> {}]

FenceInit == Init /\ NoIpiWork

\* A hart that has dequeued a fence does nothing else until it is answered.
NotServing(h) == taken[h] = NoHart /\ owed[h] = NoHart

\* Hart h goes from one step of its call or delivery to the next.
Proceed(h, from, to) ==
    /\ NotServing(h)
    /\ work[h] = from
    /\ work' = [work EXCEPT ![h] = to]

\* Masks are scanned and windows walked in ascending hart order.
First(S) == CHOOSE t \in S : \A u \in S : t <= u

------------------------------------------------------------------------------
(* Selecting the targets of a call. *)

\* The mask of harts the supervisor names.  The call is refused as a whole if
\* it names a hart the platform does not enable.
SendIpi(h, mask) ==
    /\ pc[h] = "smode"
    /\ h \in IpiCallers
    /\ Proceed(h, "idle", "ipi_scan")
    /\ todo' = [todo EXCEPT ![h] = mask]
    /\ UNCHANGED <<vars, ipiType, queue, waitSync, ssip, targets, serveVars, stale>>

\* A fence request.  From here on each hart of the mask is stale to h until it
\* executes the fence, or a fence.i on its way into its lower modes.
RemoteFenceCall(h, mask) ==
    /\ pc[h] = "smode"
    /\ h \in FenceCallers
    /\ Proceed(h, "idle", "fence_scan")
    /\ todo' = [todo EXCEPT ![h] = mask]
    /\ stale' = [stale EXCEPT ![h] = mask]
    /\ UNCHANGED <<vars, ipiType, queue, waitSync, ssip, targets, serveVars>>

\* can_receive_ipi of a hart that has passed its privilege check.
Available(t) == checked[t] /\ state[t] \in {"STARTED", "SUSPENDED"}

\* target_requests reads the cells one by one.  Harts that are not available
\* remain legal but get nothing.
ScanTarget(h) ==
    /\ work[h] \in {"ipi_scan", "fence_scan"}
    /\ todo[h] # {}
    /\ LET t == First(todo[h]) IN
           /\ todo' = [todo EXCEPT ![h] = @ \ {t}]
           /\ targets' = [targets EXCEPT ![h] =
                             IF Available(t) THEN @ \cup {t} ELSE @]
    /\ UNCHANGED <<vars, ipiType, queue, waitSync, ssip, work, serveVars, stale>>

ScanDone(h) ==
    /\ todo[h] = {}
    /\ \/ Proceed(h, "ipi_scan", "ipi_mark")
       \/ Proceed(h, "fence_scan", "fence_next")
    /\ todo' = [todo EXCEPT ![h] = targets[h]]
    /\ UNCHANGED <<vars, ipiType, queue, waitSync, ssip, targets, serveVars, stale>>

------------------------------------------------------------------------------
(* send_ipi: mark every target of the window, then signal the window. *)

MarkSoft(h) ==
    /\ work[h] = "ipi_mark"
    /\ todo[h] # {}
    /\ LET t == First(todo[h]) IN
           /\ ipiType' = [ipiType EXCEPT ![t] = @ \cup {"SSOFT"}]
           /\ todo' = [todo EXCEPT ![h] = @ \ {t}]
    /\ UNCHANGED <<vars, queue, waitSync, ssip, work, targets, serveVars, stale>>

MarkSoftDone(h) ==
    /\ todo[h] = {}
    /\ Proceed(h, "ipi_mark", "ipi_ring")
    /\ todo' = [todo EXCEPT ![h] = targets[h]]
    /\ UNCHANGED <<vars, ipiType, queue, waitSync, ssip, targets, serveVars, stale>>

RingSoft(h) ==
    /\ work[h] = "ipi_ring"
    /\ todo[h] # {}
    /\ RingDoorbell(First(todo[h]))
    /\ todo' = [todo EXCEPT ![h] = @ \ {First(todo[h])}]
    /\ UNCHANGED <<ipiType, queue, waitSync, ssip, work, targets, serveVars, stale>>

\* Mutant: the call returns before every target of the window is signaled.
MSendIpiReturns(h) ==
    /\ Proceed(h, "ipi_ring", "idle")
    /\ todo' = [todo EXCEPT ![h] = {}]
    /\ targets' = [targets EXCEPT ![h] = {}]
    /\ UNCHANGED <<vars, ipiType, queue, waitSync, ssip, serveVars, stale>>

\* The call returns: with SUCCESS after the last target, with FAILED at the
\* first target the device cannot signal.
SendIpiReturns(h) ==
    /\ Proceed(h, "ipi_ring", "idle")
    /\ todo[h] # {} => First(todo[h]) \in FlakyHarts
    /\ todo' = [todo EXCEPT ![h] = {}]
    /\ targets' = [targets EXCEPT ![h] = {}]
    /\ UNCHANGED <<vars, ipiType, queue, waitSync, ssip, serveVars, stale>>

------------------------------------------------------------------------------
(* send_ipi_by_fence: one target after the other, then wait for all. *)

\* The caller itself is a target: rfence_local_handler.
FenceSelf(h) ==
    /\ work[h] = "fence_next"
    /\ todo[h] # {}
    /\ First(todo[h]) = h
    /\ todo' = [todo EXCEPT ![h] = @ \ {h}]
    /\ stale' = [stale EXCEPT ![h] = @ \ {h}]
    /\ UNCHANGED <<vars, ipiType, queue, waitSync, ssip, work, targets, serveVars>>

\* local.add(), before the request is visible to its target.
AddSync(h) ==
    /\ Proceed(h, "fence_next", "fence_push")
    /\ todo[h] # {}
    /\ First(todo[h]) # h
    /\ waitSync' = [waitSync EXCEPT ![h] = @ + 1]
    /\ UNCHANGED <<vars, ipiType, queue, ssip, todo, targets, serveVars, stale>>

\* remote.set: try_push succeeds if the queue has room.
TryPush(h) ==
    /\ Proceed(h, "fence_push", "fence_mark")
    /\ Len(queue[First(todo[h])]) < QueueCap
    /\ queue' = [queue EXCEPT ![First(todo[h])] = Append(@, h)]
    /\ UNCHANGED <<vars, ipiType, waitSync, ssip, todo, targets, serveVars, stale>>

MarkFence(h) ==
    /\ Proceed(h, "fence_mark", "fence_ring")
    /\ ipiType' = [ipiType EXCEPT ![First(todo[h])] = @ \cup {"FENCE"}]
    /\ UNCHANGED <<vars, queue, waitSync, ssip, todo, targets, serveVars, stale>>

\* Mutant: a target that is not STARTED any more is not signaled.
MRingFence(h) ==
    /\ Proceed(h, "fence_ring", "fence_next")
    /\ IF state[First(todo[h])] = "STARTED"
       THEN RingDoorbell(First(todo[h])) ELSE UNCHANGED vars
    /\ todo' = [todo EXCEPT ![h] = @ \ {First(todo[h])}]
    /\ UNCHANGED <<ipiType, queue, waitSync, ssip, targets, serveVars, stale>>

\* The target is signaled; the loop goes on to the next one.
RingFence(h) ==
    /\ Proceed(h, "fence_ring", "fence_next")
    /\ RingDoorbell(First(todo[h]))
    /\ todo' = [todo EXCEPT ![h] = @ \ {First(todo[h])}]
    /\ UNCHANGED <<ipiType, queue, waitSync, ssip, targets, serveVars, stale>>

RingFenceFails(h) ==
    /\ Proceed(h, "fence_ring", "fence_cancel")
    /\ First(todo[h]) \in FlakyHarts
    /\ UNCHANGED <<vars, ipiType, queue, waitSync, ssip, todo, targets, serveVars, stale>>

\* Mutant: the count is taken back although the target has the request.
MCancelFence(h) ==
    /\ Proceed(h, "fence_cancel", "fence_failed")
    /\ queue' = [queue EXCEPT ![First(todo[h])] = RemoveFirst(@, h)]
    /\ waitSync' = [waitSync EXCEPT ![h] = @ - 1]
    /\ todo' = [todo EXCEPT ![h] = {}]
    /\ UNCHANGED <<vars, ipiType, ssip, targets, serveVars, stale>>

\* cancel removes this source's first request and takes its count back; if
\* the target has dequeued it, the target still owes the acknowledgement.  No
\* other hart reads the count, so both changes are one step.
CancelFence(h) ==
    LET t == First(todo[h]) IN
    /\ Proceed(h, "fence_cancel", "fence_failed")
    /\ IF Contains(queue[t], h)
       THEN /\ queue' = [queue EXCEPT ![t] = RemoveFirst(@, h)]
            /\ waitSync' = [waitSync EXCEPT ![h] = @ - 1]
       ELSE UNCHANGED <<queue, waitSync>>
    /\ todo' = [todo EXCEPT ![h] = {}]
    /\ UNCHANGED <<vars, ipiType, ssip, targets, serveVars, stale>>

FenceSent(h) ==
    /\ todo[h] = {}
    /\ Proceed(h, "fence_next", "fence_sync")
    /\ UNCHANGED <<vars, ipiType, queue, waitSync, ssip, todo, targets, serveVars, stale>>

\* is_sync: every submitted request is acknowledged or cancelled.
FenceReturns(h) ==
    /\ waitSync[h] = 0
    /\ \/ Proceed(h, "fence_sync", "idle") /\ UNCHANGED stale
       \/ Proceed(h, "fence_failed", "idle") /\ stale' = [stale EXCEPT ![h] = {}]
    /\ targets' = [targets EXCEPT ![h] = {}]
    /\ UNCHANGED <<vars, ipiType, queue, waitSync, ssip, todo, serveVars>>

------------------------------------------------------------------------------
(* Executing the fences other harts have queued. *)

\* LocalRFenceCell::get.
Dequeue(h) ==
    /\ NotServing(h)
    /\ queue[h] # <<>>
    /\ taken' = [taken EXCEPT ![h] = Head(queue[h])]
    /\ queue' = [queue EXCEPT ![h] = Tail(@)]
    /\ UNCHANGED <<vars, ipiType, waitSync, ssip, sendVars, owed, stale>>

\* Mutant: the waits of a sender spin without polling.
MRFencePoll(h) ==
    /\ work[h] \in {"fence_push", "fence_sync", "fence_failed"}
    /\ UNCHANGED fenceVars

\* rfence_poll, called where a sender would otherwise only spin: it looks into
\* the queue only if the hart's FENCE bit is set, and does not clear the bit.
RFencePoll(h) ==
    /\ work[h] \in {"fence_push", "fence_sync", "fence_failed"}
    /\ "FENCE" \in ipiType[h]
    /\ Dequeue(h)

\* rfence_handler: drain the queue.
DrainNext(h) == work[h] = "drain" /\ Dequeue(h)

\* rfence_local_handler.
ExecuteFence(h) ==
    /\ taken[h] # NoHart
    /\ stale' = [stale EXCEPT ![taken[h]] = @ \ {h}]
    /\ owed' = [owed EXCEPT ![h] = taken[h]]
    /\ taken' = [taken EXCEPT ![h] = NoHart]
    /\ UNCHANGED <<vars, ipiType, queue, waitSync, ssip, sendVars>>

\* sub: acknowledge to the source.
Acknowledge(h) ==
    /\ owed[h] # NoHart
    /\ waitSync' = [waitSync EXCEPT ![owed[h]] = @ - 1]
    /\ owed' = [owed EXCEPT ![h] = NoHart]
    /\ UNCHANGED <<vars, ipiType, queue, ssip, sendVars, taken, stale>>

\* Mutant: the doorbell is cleared once more after the swap.
MSwapIpiType(h) ==
    /\ pc[h] = "deliver"
    /\ work[h] = "idle"
    /\ ipiType' = [ipiType EXCEPT ![h] = {}]
    /\ ssip' = [ssip EXCEPT ![h] = @ \/ "SSOFT" \in ipiType[h]]
    /\ doorbell' = [doorbell EXCEPT ![h] = FALSE]
    /\ IF "FENCE" \in ipiType[h]
       THEN work' = [work EXCEPT ![h] = "drain"] /\ UNCHANGED pc
       ELSE Goto(h, "deliver", AfterDeliver(h)) /\ UNCHANGED work
    /\ UNCHANGED <<bringUp, cells, caller, call, event, running, queue,
                   waitSync, todo, targets, serveVars, stale>>

\* deliver_current: swap the pending bits out, then act on them.
SwapIpiType(h) ==
    /\ pc[h] = "deliver"
    /\ work[h] = "idle"
    /\ ipiType' = [ipiType EXCEPT ![h] = {}]
    /\ ssip' = [ssip EXCEPT ![h] = @ \/ "SSOFT" \in ipiType[h]]
    /\ IF "FENCE" \in ipiType[h]
       THEN work' = [work EXCEPT ![h] = "drain"] /\ UNCHANGED vars
       ELSE DeliverCurrent(h) /\ UNCHANGED work
    /\ UNCHANGED <<queue, waitSync, todo, targets, serveVars, stale>>

DrainDone(h) ==
    /\ queue[h] = <<>>
    /\ Proceed(h, "drain", "idle")
    /\ DeliverCurrent(h)
    /\ UNCHANGED <<ipiType, queue, waitSync, ssip, todo, targets, serveVars, stale>>

------------------------------------------------------------------------------
(* The specification. *)

\* Mutant: the start of a hart enters its stage without fence.i.
MEntersByFenceI(h) == pc[h] = "ecall_return"

\* A step of the lifecycle.  The handoffs into a lower mode (DispatchEvent,
\* EcallReturn) execute fence.i, after which the hart is stale to nobody.
EntersByFenceI(h) ==
    \/ pc[h] = "dispatch" /\ event[h].kind = "start"
    \/ pc[h] = "ecall_return"

LifecycleStep(h) ==
    /\ work[h] = "idle"
    /\ \/ FirmwareStep(h)
       \/ Waiting(h)
       \/ TrapMachineSoft(h)
       \/ h \in HsmCallers /\ SbiCall(h)
    /\ stale' = IF EntersByFenceI(h)
                THEN [s \in Harts |-> stale[s] \ {h}] ELSE stale
    /\ UNCHANGED <<ipiType, queue, waitSync, ssip, sendVars, serveVars>>

\* The supervisor handles and clears its software interrupt.
ClearSsip(h) ==
    /\ pc[h] = "smode"
    /\ work[h] = "idle"
    /\ ssip[h]
    /\ ssip' = [ssip EXCEPT ![h] = FALSE]
    /\ UNCHANGED <<vars, ipiType, queue, waitSync, sendVars, serveVars, stale>>

SupervisorCall(h) ==
    \E mask \in Masks[h] :
        SendIpi(h, mask) \/ RemoteFenceCall(h, mask)

SendStep(h) ==
    \/ ScanTarget(h) \/ ScanDone(h)
    \/ MarkSoft(h) \/ MarkSoftDone(h) \/ RingSoft(h) \/ SendIpiReturns(h)
    \/ FenceSelf(h) \/ AddSync(h) \/ MarkFence(h) \/ RingFence(h)
    \/ RingFenceFails(h) \/ CancelFence(h) \/ FenceSent(h)

ServeStep(h) ==
    \/ RFencePoll(h) \/ DrainNext(h) \/ ExecuteFence(h) \/ Acknowledge(h)
    \/ SwapIpiType(h)

FenceNext ==
    \E h \in Harts :
        \/ LifecycleStep(h)
        \/ SupervisorCall(h)
        \/ SendStep(h)
        \/ TryPush(h)
        \/ FenceReturns(h)
        \/ ServeStep(h)
        \/ DrainDone(h)
        \/ ClearSsip(h)

FenceSpec == FenceInit /\ [][FenceNext]_fenceVars

\* A hart inside the firmware keeps executing: while its loops have something
\* to do they do it, and nothing obliges another hart to leave them alone.  A
\* wait with a pending IPI ends, and a pending machine interrupt is taken
\* whenever the hart is in a lower mode often enough to be interrupted.
\* Nothing obliges a supervisor to call.
FenceFairness ==
    \A h \in Harts :
        /\ WF_fenceVars(\/ LifecycleStep(h) /\ FirmwareStep(h)
                       \/ SendStep(h) \/ TryPush(h) \/ FenceReturns(h)
                       \/ ServeStep(h) \/ DrainDone(h))
        /\ WF_fenceVars(doorbell[h] /\ LifecycleStep(h) /\ Waiting(h))
        /\ SF_fenceVars(LifecycleStep(h) /\ TrapMachineSoft(h))

FairFenceSpec == FenceSpec /\ FenceFairness

------------------------------------------------------------------------------
(* Properties. *)

\* The requests of h that are neither acknowledged nor cancelled, by target.
Outstanding(h) ==
    {t \in Harts : \/ Contains(queue[t], h) \/ taken[t] = h \/ owed[t] = h
                   \/ work[h] = "fence_push" /\ t = First(todo[h])}

\* wait_sync_count is exactly the number of outstanding requests: it neither
\* lets the caller leave early nor keeps it waiting, whatever is cancelled,
\* dequeued and acknowledged meanwhile.  A source is in a target's queue at
\* most once, so that cancel finds the right request.
SyncCountIsExact ==
    /\ \A h \in Harts : waitSync[h] = Cardinality(Outstanding(h))
    /\ \A t \in Harts : IsInjective(queue[t]) /\ ~Contains(queue[t], t)

\* A fence that returned SUCCESS is complete: no hart of its mask executes its
\* lower modes without having fenced since the call, although harts that were
\* stopped, starting or resuming during the scan were never asked to.  Harts
\* whose own wake IPI may fail are left out: one that drops its resume ticket
\* is not selected while it is RESUME_PENDING and goes back to its lower modes
\* without the fence.i of an entry.
FenceIsComplete ==
    \A h \in Harts : work[h] = "idle" =>
        \A t \in stale[h] \ FlakyHarts : pc[t] # "smode"

\* Pending work is announced: while a hart has an IPI bit set it will look at
\* it, because its doorbell is rung, or it has cleared the doorbell on its way
\* to the swap, or the sender has yet to ring.  A send_ipi that fails part way
\* leaves bits behind, so software IPIs count only where no send fails; a
\* fence is marked for one target at a time.
WorkIsAnnounced ==
    \A t \in Harts \ FlakyHarts :
        "FENCE" \in ipiType[t] \/ (FlakyHarts = {} /\ ipiType[t] # {}) =>
            \/ doorbell[t]
            \/ pc[t] \in {"clear", "event", "take", "deliver", "stop_store"}
            \/ \E h \in Harts :
                   \/ work[h] \in {"ipi_mark", "ipi_ring"} /\ t \in targets[h]
                   \/ work[h] = "fence_ring" /\ t = First(todo[h])

\* From some time on no supervisor calls for another remote fence.
FencesEnd ==
    <>[][\A h \in Harts : work'[h] = "fence_scan" => work[h] # "idle"]_work

\* Every fence call and every delivery ends once no new fence is called for:
\* requests that cross, queues that are full and sends that fail leave no hart
\* waiting for another.  While new fences keep coming a hart may drain its
\* queue for ever, and a caller may find the queue full each time it looks:
\* drain_pending and set() wait without a bound.  (remote_fence_process, set)
CallsReturn ==
    FencesEnd => \A h \in Harts : work[h] # "idle" ~> work[h] = "idle"

\* Where no send fails, a software interrupt sent to an available hart is
\* raised there, even if the hart stops or suspends before it arrives.
SoftIpiArrives ==
    \A t \in Harts \ FlakyHarts : "SSOFT" \in ipiType[t] ~> ssip[t]

\* The firmware with IPIs and fences still implements the hart lifecycle.
LifecycleRefinement == Spec
==============================================================================
