------------------------- MODULE HartLifecycleProofs -------------------------
(****************************************************************************)
(* Proofs about HartLifecycle and SystemSuspend for any number of harts and *)
(* stages.                                                                  *)
(****************************************************************************)
EXTENDS HartLifecycle, SystemSuspend, TLAPS

------------------------------------------------------------------------------
(* Type correctness. *)

\* The finite types, spelled out once so that no proof has to expand them.
LEMMA Enumerations ==
    /\ HartStates = {"STARTED", "STOPPED", "START_PENDING", "SUSPENDED",
                     "RESUME_PENDING", "STARTING"}
    /\ Steps = {"reset", "init_board", "wait_ready", "check", "stage_current",
                "services", "wake", "write_stage", "store_pending", "clear",
                "event", "take", "deliver", "dispatch", "wfi",
                "suspend_store", "suspend_wfi", "resume", "commit",
                "transfer", "publish", "ecall_return", "smode", "stop_store", "panic"}
    /\ Callers = {"none", "finish_boot", "machine_soft", "stop", "suspend"}
  BY DEF HartStates, Steps, BootSteps, StartSteps, LocalSteps, SuspendSteps,
         Callers

\* Events and calls are records over their fields' types.
LEMMA Records ==
    /\ NoStage \in OptStage
    /\ Stages \subseteq OptStage
    /\ NoEvent \in Events
    /\ \A k \in {"none", "park", "start"}, s \in OptStage :
           [kind |-> k, stage |-> s] \in Events
    /\ \A k \in {"none", "park", "start"} : [NoEvent EXCEPT !.kind = k] \in Events
    /\ \A e \in Events : e.kind \in {"none", "park", "start"} /\ e.stage \in OptStage
    /\ \A h \in Harts : NoCall(h) \in [target : Harts, stage : OptStage]
  BY DEF OptStage, NoEvent, Events, NoCall

LEMMA InitTypeOK == Init => TypeOK
<1> SUFFICES ASSUME Init PROVE TypeOK
  OBVIOUS
<1> USE Enumerations, Records DEF Init
<1>1. pc \in [Harts -> Steps]
  OBVIOUS
<1>2. call \in [Harts -> [target : Harts, stage : OptStage]]
  OBVIOUS
<1>3. /\ state \in [Harts -> HartStates]
      /\ caller \in [Harts -> Callers]
      /\ event \in [Harts -> Events]
  OBVIOUS
<1>4. /\ ready \in BOOLEAN
      /\ checked \in [Harts -> BOOLEAN]
      /\ doorbell \in [Harts -> BOOLEAN]
  OBVIOUS
<1>5. /\ stage \in [Harts -> OptStage]
      /\ transfer \in [Harts -> OptStage]
      /\ running \in [Harts -> OptStage]
  OBVIOUS
<1> QED
  BY <1>1, <1>2, <1>3, <1>4, <1>5 DEF TypeOK

LEMMA NextTypeOK == TypeOK /\ [Next]_vars => TypeOK'
<1> SUFFICES ASSUME TypeOK, [Next]_vars PROVE TypeOK'
  OBVIOUS
<1> USE Enumerations, Records DEF TypeOK, Goto, cells, bringUp
<1>1. ASSUME NEW h \in Harts, BringUp(h) PROVE TypeOK'
  <2>1. CASE InitBoard(h)
    BY <2>1 DEF InitBoard
  <2>2. CASE WaitUntilReady(h)
    BY <2>2 DEF WaitUntilReady
  <2>3. CASE CheckPrivilege(h)
    BY <2>3 DEF CheckPrivilege
  <2>4. CASE StageCurrent(h)
    <3>1. CASE state[h] = "STOPPED"
      <4> PICK s \in Stages : call' = [call EXCEPT ![h] = [target |-> h, stage |-> s]]
        BY <2>4, <3>1 DEF StageCurrent
      <4> QED
        BY <2>4, <3>1 DEF StageCurrent
    <3>2. CASE state[h] # "STOPPED"
      BY <2>4, <3>2 DEF StageCurrent
    <3> QED
      BY <3>1, <3>2
  <2>5. CASE EnableServices(h)
    BY <2>5 DEF EnableServices
  <2> QED
    BY <1>1, <2>1, <2>2, <2>3, <2>4, <2>5 DEF BringUp
<1>2. ASSUME NEW h \in Harts, Starting(h) PROVE TypeOK'
  <2>0. call[h].target \in Harts /\ call[h].stage \in OptStage
    OBVIOUS
  <2>1. CASE WakeByRelease(h)
    BY <2>0, <2>1 DEF WakeByRelease
  <2>2. CASE WakeByIpi(h)
    BY <2>0, <2>2 DEF WakeByIpi
  <2>3. CASE WakeFailed(h)
    BY <2>0, <2>3 DEF WakeFailed
  <2>4. CASE WriteStage(h)
    BY <2>0, <2>4 DEF WriteStage
  <2>5. CASE StorePending(h)
    BY <2>0, <2>5 DEF StorePending
  <2> QED
    BY <1>2, <2>1, <2>2, <2>3, <2>4, <2>5 DEF Starting
<1>3. ASSUME NEW h \in Harts, LocalWork(h) PROVE TypeOK'
  <2>1. CASE ClearCurrent(h)
    BY <2>1 DEF ClearCurrent
  <2>2. CASE TakeLocalEvent(h)
    BY <2>2 DEF TakeLocalEvent
  <2>3. CASE TakeStage(h)
    BY <2>3 DEF TakeStage
  <2>4. CASE DispatchEvent(h)
    BY <2>4 DEF DispatchEvent
  <2> QED
    BY <1>3, <2>1, <2>2, <2>3, <2>4 DEF LocalWork
<1>4. ASSUME NEW h \in Harts, Stopping(h) PROVE TypeOK'
  BY <1>4 DEF Stopping, StoreStopped
<1>5. ASSUME NEW h \in Harts, Suspending(h) PROVE TypeOK'
  <2>1. CASE StoreSuspended(h)
    BY <2>1 DEF StoreSuspended
  <2>2. CASE ResumeRetentive(h)
    BY <2>2 DEF ResumeRetentive
  <2>3. CASE BeginNonretentiveResume(h)
    BY <2>3 DEF BeginNonretentiveResume
  <2>4. CASE CommitResume(h)
    BY <2>4 DEF CommitResume
  <2>5. CASE DropTicket(h)
    BY <2>5 DEF DropTicket
  <2>6. CASE EcallReturn(h)
    BY <2>6 DEF EcallReturn
  <2>7. CASE StageTransfer(h)
    BY <2>7 DEF StageTransfer
  <2>8. CASE PublishResume(h)
    BY <2>8 DEF PublishResume
  <2> QED
    BY <1>5, <2>1, <2>2, <2>3, <2>4, <2>5, <2>6, <2>7, <2>8 DEF Suspending
<1>6. ASSUME NEW h \in Harts, DeliverCurrent(h) PROVE TypeOK'
  BY <1>6 DEF DeliverCurrent, AfterDeliver
<1>7. ASSUME NEW h \in Harts, Waiting(h) PROVE TypeOK'
  BY <1>7 DEF Waiting, WfiReturns, SuspendWfiReturns
<1>8. ASSUME NEW h \in Harts, TrapMachineSoft(h) PROVE TypeOK'
  BY <1>8 DEF TrapMachineSoft
<1>9. ASSUME NEW h \in Harts, SbiCall(h) PROVE TypeOK'
  <2>1. ASSUME NEW t \in Harts, NEW s \in Stages, HartStart(h, t, s)
        PROVE  TypeOK'
    BY <2>1 DEF HartStart
  <2>2. CASE HartStop(h)
    BY <2>2 DEF HartStop
  <2>3. ASSUME NEW s \in OptStage, HartSuspend(h, s) PROVE TypeOK'
    BY <2>3 DEF HartSuspend
  <2> QED
    BY <1>9, <2>1, <2>2, <2>3 DEF SbiCall
<1>10. ASSUME NEW h \in Harts, RingDoorbell(h) PROVE TypeOK'
  BY <1>10 DEF RingDoorbell
<1>11. CASE UNCHANGED vars
  BY <1>11, SMTT(20) DEF vars
<1> QED
  BY <1>1, <1>2, <1>3, <1>4, <1>5, <1>6, <1>7, <1>8, <1>9, <1>10, <1>11
  DEF Next, FirmwareStep

\* Type correctness: every state cell, program point and call record of the
\* firmware keeps a legal value in every execution.
THEOREM TypeCorrect == Spec => []TypeOK
  BY InitTypeOK, NextTypeOK, PTL DEF Spec

LEMMA NextLifecycleInv == TypeOK /\ LifecycleInv /\ [Next]_vars => LifecycleInv'
<1> SUFFICES ASSUME TypeOK, LifecycleInv, [Next]_vars PROVE LifecycleInv'
  OBVIOUS
<1> USE HartsAssumption, StagesAssumption, Enumerations, Records
    DEF TypeOK, Goto, cells, bringUp, LifecycleInv, NoPanic,
        StarterInv, ReservationHeld, StageInv, ContextInv, BootInv, Up, Down,
        Starters, StartSteps, BootSteps, NoEvent, NoCall
<1>1. ASSUME NEW h \in Harts, InitBoard(h) PROVE LifecycleInv'
  BY <1>1 DEF InitBoard
<1>2. ASSUME NEW h \in Harts, WaitUntilReady(h) PROVE LifecycleInv'
  BY <1>2 DEF WaitUntilReady
<1>3. ASSUME NEW h \in Harts, CheckPrivilege(h) PROVE LifecycleInv'
  BY <1>3 DEF CheckPrivilege
<1>4. ASSUME NEW h \in Harts, StageCurrent(h) PROVE LifecycleInv'
  <2>1. NoPanic'
    BY <1>4 DEF StageCurrent
  <2>2. StarterInv'
    BY <1>4 DEF StageCurrent
  <2>3. ReservationHeld'
    <3> SUFFICES ASSUME NEW t \in Harts, state'[t] = "STARTING"
                 PROVE  \E g \in Harts : (pc[g] \in StartSteps /\ call[g].target = t)'
      OBVIOUS
    <3> QED
      BY <1>4 DEF StageCurrent
  <2>4. StageInv'
    <3>1. state[h] = "STOPPED" /\ stage[h] = NoStage
      BY <1>4 DEF StageCurrent
    <3>2. \A g \in Harts : pc[g] \in StartSteps => call[g].target # h
      BY <3>1
    <3>3. PICK s \in Stages : call' = [call EXCEPT ![h] = [target |-> h, stage |-> s]]
      BY <1>4, <3>1 DEF StageCurrent
    <3> QED
      BY <1>4, <3>1, <3>2, <3>3 DEF StageCurrent
  <2>5. ContextInv'
    BY <1>4 DEF StageCurrent
  <2>6. BootInv'
    BY <1>4 DEF StageCurrent
  <2> QED
    BY <2>1, <2>2, <2>3, <2>4, <2>5, <2>6
<1>5. ASSUME NEW h \in Harts, EnableServices(h) PROVE LifecycleInv'
  BY <1>5 DEF EnableServices
<1>6. ASSUME NEW h \in Harts, WakeByRelease(h) PROVE LifecycleInv'
  <2>1. NoPanic'
    BY <1>6 DEF WakeByRelease
  <2>2. StarterInv'
    BY <1>6 DEF WakeByRelease
  <2>3. ReservationHeld'
    <3> SUFFICES ASSUME NEW t \in Harts, state'[t] = "STARTING"
                 PROVE  \E g \in Harts : (pc[g] \in StartSteps /\ call[g].target = t)'
      OBVIOUS
    <3> QED
      BY SMTT(30), <1>6 DEF WakeByRelease
  <2>4. StageInv'
    BY <1>6 DEF WakeByRelease
  <2>5. ContextInv'
    BY <1>6 DEF WakeByRelease
  <2>6. BootInv'
    BY <1>6 DEF WakeByRelease
  <2> QED
    BY <2>1, <2>2, <2>3, <2>4, <2>5, <2>6
<1>7. ASSUME NEW h \in Harts, WakeByIpi(h) PROVE LifecycleInv'
  BY <1>7 DEF WakeByIpi
<1>8. ASSUME NEW h \in Harts, WakeFailed(h) PROVE LifecycleInv'
  BY <1>8 DEF WakeFailed
<1>9. ASSUME NEW h \in Harts, WriteStage(h) PROVE LifecycleInv'
  BY <1>9 DEF WriteStage
<1>10. ASSUME NEW h \in Harts, StorePending(h) PROVE LifecycleInv'
  BY <1>10 DEF StorePending
<1>11. ASSUME NEW h \in Harts, ClearCurrent(h) PROVE LifecycleInv'
  <2>1. NoPanic'
    BY <1>11 DEF ClearCurrent
  <2>2. StarterInv'
    BY <1>11 DEF ClearCurrent
  <2>3. ReservationHeld'
    <3> SUFFICES ASSUME NEW t \in Harts, state'[t] = "STARTING"
                 PROVE  \E g \in Harts : (pc[g] \in StartSteps /\ call[g].target = t)'
      OBVIOUS
    <3>1. PICK g \in Harts : pc[g] \in StartSteps /\ call[g].target = t
      BY <1>11 DEF ClearCurrent
    <3>2. g # h /\ pc'[g] = pc[g] /\ call'[g] = call[g]
      BY <1>11, <3>1 DEF ClearCurrent
    <3> QED
      BY <3>1, <3>2
  <2>4. StageInv'
    BY <1>11 DEF ClearCurrent
  <2>5. ContextInv'
    BY <1>11 DEF ClearCurrent
  <2>6. BootInv'
    BY <1>11 DEF ClearCurrent
  <2> QED
    BY <2>1, <2>2, <2>3, <2>4, <2>5, <2>6
<1>12. ASSUME NEW h \in Harts, TakeLocalEvent(h) PROVE LifecycleInv'
  BY <1>12 DEF TakeLocalEvent
<1>13. ASSUME NEW h \in Harts, TakeStage(h) PROVE LifecycleInv'
  BY <1>13 DEF TakeStage
<1>14. ASSUME NEW h \in Harts, DispatchEvent(h) PROVE LifecycleInv'
  BY <1>14 DEF DispatchEvent
<1>15. ASSUME NEW h \in Harts, StoreStopped(h) PROVE LifecycleInv'
  <2>1. NoPanic'
    BY <1>15 DEF StoreStopped
  <2>2. StarterInv'
    BY <1>15 DEF StoreStopped
  <2>3. ReservationHeld'
    <3> SUFFICES ASSUME NEW t \in Harts, state'[t] = "STARTING"
                 PROVE  \E g \in Harts : (pc[g] \in StartSteps /\ call[g].target = t)'
      OBVIOUS
    <3> QED
      BY <1>15 DEF StoreStopped
  <2>4. StageInv'
    BY SMTT(30), <1>15 DEF StoreStopped
  <2>5. ContextInv'
    BY <1>15 DEF StoreStopped
  <2>6. BootInv'
    BY <1>15 DEF StoreStopped
  <2> QED
    BY <2>1, <2>2, <2>3, <2>4, <2>5, <2>6
<1>16. ASSUME NEW h \in Harts, StoreSuspended(h) PROVE LifecycleInv'
  <2>1. NoPanic'
    BY <1>16 DEF StoreSuspended
  <2>2. StarterInv'
    BY <1>16 DEF StoreSuspended
  <2>3. ReservationHeld'
    <3> SUFFICES ASSUME NEW t \in Harts, state'[t] = "STARTING"
                 PROVE  \E g \in Harts : (pc[g] \in StartSteps /\ call[g].target = t)'
      OBVIOUS
    <3>1. PICK g \in Harts : pc[g] \in StartSteps /\ call[g].target = t
      BY <1>16 DEF StoreSuspended
    <3>2. g # h /\ pc'[g] = pc[g] /\ call'[g] = call[g]
      BY <1>16, <3>1 DEF StoreSuspended
    <3> QED
      BY <3>1, <3>2
  <2>4. StageInv'
    BY <1>16 DEF StoreSuspended
  <2>5. ContextInv'
    BY <1>16 DEF StoreSuspended
  <2>6. BootInv'
    BY <1>16 DEF StoreSuspended
  <2> QED
    BY <2>1, <2>2, <2>3, <2>4, <2>5, <2>6
<1>17. ASSUME NEW h \in Harts, ResumeRetentive(h) PROVE LifecycleInv'
  BY <1>17 DEF ResumeRetentive
<1>18. ASSUME NEW h \in Harts, BeginNonretentiveResume(h) PROVE LifecycleInv'
  <2>1. NoPanic'
    BY <1>18 DEF BeginNonretentiveResume
  <2>2. StarterInv'
    BY <1>18 DEF BeginNonretentiveResume
  <2>3. ReservationHeld'
    <3> SUFFICES ASSUME NEW t \in Harts, state'[t] = "STARTING"
                 PROVE  \E g \in Harts : (pc[g] \in StartSteps /\ call[g].target = t)'
      OBVIOUS
    <3>1. PICK g \in Harts : pc[g] \in StartSteps /\ call[g].target = t
      BY <1>18 DEF BeginNonretentiveResume
    <3>2. g # h
      BY <1>18, <3>1 DEF BeginNonretentiveResume
    <3> QED
      BY <1>18, <3>1, <3>2 DEF BeginNonretentiveResume
  <2>4. StageInv'
    BY <1>18 DEF BeginNonretentiveResume
  <2>5. ContextInv'
    BY <1>18 DEF BeginNonretentiveResume
  <2>6. BootInv'
    BY <1>18 DEF BeginNonretentiveResume
  <2> QED
    BY <2>1, <2>2, <2>3, <2>4, <2>5, <2>6
<1>19. ASSUME NEW h \in Harts, CommitResume(h) \/ StageTransfer(h) \/ PublishResume(h)
       PROVE LifecycleInv'
  <2>1. NoPanic'
    BY <1>19 DEF CommitResume, StageTransfer, PublishResume
  <2>2. StarterInv'
    <3>1. CASE CommitResume(h)
      BY <3>1 DEF CommitResume
    <3>2. CASE StageTransfer(h)
      BY <3>2 DEF StageTransfer
    <3>3. CASE PublishResume(h)
      BY <3>3 DEF PublishResume
    <3> QED
      BY <1>19, <3>1, <3>2, <3>3
  <2>3. ReservationHeld'
    <3> SUFFICES ASSUME NEW t \in Harts, state'[t] = "STARTING"
                 PROVE  \E g \in Harts : (pc[g] \in StartSteps /\ call[g].target = t)'
      OBVIOUS
    <3>1. PICK g \in Harts : pc[g] \in StartSteps /\ call[g].target = t
      BY <1>19 DEF CommitResume, StageTransfer, PublishResume
    <3>2. g # h /\ pc'[g] = pc[g] /\ call'[g] = call[g]
      BY <1>19, <3>1 DEF CommitResume, StageTransfer, PublishResume
    <3> QED
      BY <3>1, <3>2
  <2>4. StageInv'
    <3>1. CASE CommitResume(h)
      BY <3>1 DEF CommitResume
    <3>2. CASE StageTransfer(h)
      BY <3>2 DEF StageTransfer
    <3>3. CASE PublishResume(h)
      BY <3>3 DEF PublishResume
    <3> QED
      BY <1>19, <3>1, <3>2, <3>3
  <2>5. ContextInv'
    <3>1. CASE CommitResume(h)
      BY <3>1 DEF CommitResume
    <3>2. CASE StageTransfer(h)
      BY <3>2 DEF StageTransfer
    <3>3. CASE PublishResume(h)
      BY <3>3 DEF PublishResume
    <3> QED
      BY <1>19, <3>1, <3>2, <3>3
  <2>6. BootInv'
    BY <1>19 DEF CommitResume, StageTransfer, PublishResume
  <2> QED
    BY <2>1, <2>2, <2>3, <2>4, <2>5, <2>6
<1>20. ASSUME NEW h \in Harts, DropTicket(h) PROVE LifecycleInv'
  <2>1. NoPanic'
    BY <1>20 DEF DropTicket
  <2>2. StarterInv'
    BY <1>20 DEF DropTicket
  <2>3. ReservationHeld'
    <3> SUFFICES ASSUME NEW t \in Harts, state'[t] = "STARTING"
                 PROVE  \E g \in Harts : (pc[g] \in StartSteps /\ call[g].target = t)'
      OBVIOUS
    <3>1. t # h /\ state[t] = "STARTING"
      BY <1>20 DEF DropTicket
    <3>2. PICK g \in Harts : pc[g] \in StartSteps /\ call[g].target = t
      BY <3>1
    <3>3. g # h
      BY <1>20, <3>2 DEF DropTicket
    <3> QED
      BY <1>20, <3>2, <3>3 DEF DropTicket
  <2>4. StageInv'
    BY <1>20 DEF DropTicket
  <2>5. ContextInv'
    BY <1>20 DEF DropTicket
  <2>6. BootInv'
    BY <1>20 DEF DropTicket
  <2> QED
    BY <2>1, <2>2, <2>3, <2>4, <2>5, <2>6
<1>21. ASSUME NEW h \in Harts, EcallReturn(h) PROVE LifecycleInv'
  BY SMTT(30), <1>21 DEF EcallReturn
<1>22. ASSUME NEW h \in Harts, DeliverCurrent(h) PROVE LifecycleInv'
  BY <1>22 DEF DeliverCurrent, AfterDeliver
<1>23. ASSUME NEW h \in Harts, WfiReturns(h) PROVE LifecycleInv'
  <2>1. NoPanic'
    BY <1>23 DEF WfiReturns
  <2>2. StarterInv'
    BY <1>23 DEF WfiReturns
  <2>3. ReservationHeld'
    <3> SUFFICES ASSUME NEW t \in Harts, state'[t] = "STARTING"
                 PROVE  \E g \in Harts : (pc[g] \in StartSteps /\ call[g].target = t)'
      OBVIOUS
    <3>1. PICK g \in Harts : pc[g] \in StartSteps /\ call[g].target = t
      BY <1>23 DEF WfiReturns
    <3>2. g # h
      BY <1>23, <3>1 DEF WfiReturns
    <3> QED
      BY <1>23, <3>1, <3>2 DEF WfiReturns
  <2>4. StageInv'
    BY <1>23 DEF WfiReturns
  <2>5. ContextInv'
    BY <1>23 DEF WfiReturns
  <2>6. BootInv'
    BY <1>23 DEF WfiReturns
  <2> QED
    BY <2>1, <2>2, <2>3, <2>4, <2>5, <2>6
<1>24. ASSUME NEW h \in Harts, SuspendWfiReturns(h) PROVE LifecycleInv'
  <2>1. NoPanic'
    BY <1>24 DEF SuspendWfiReturns
  <2>2. StarterInv'
    BY <1>24 DEF SuspendWfiReturns
  <2>3. ReservationHeld'
    <3> SUFFICES ASSUME NEW t \in Harts, state'[t] = "STARTING"
                 PROVE  \E g \in Harts : (pc[g] \in StartSteps /\ call[g].target = t)'
      OBVIOUS
    <3>1. PICK g \in Harts : pc[g] \in StartSteps /\ call[g].target = t
      BY <1>24 DEF SuspendWfiReturns
    <3>2. g # h
      BY <1>24, <3>1 DEF SuspendWfiReturns
    <3> QED
      BY <1>24, <3>1, <3>2 DEF SuspendWfiReturns
  <2>4. StageInv'
    BY <1>24 DEF SuspendWfiReturns
  <2>5. ContextInv'
    BY <1>24 DEF SuspendWfiReturns
  <2>6. BootInv'
    BY <1>24 DEF SuspendWfiReturns
  <2> QED
    BY <2>1, <2>2, <2>3, <2>4, <2>5, <2>6
<1>25. ASSUME NEW h \in Harts, TrapMachineSoft(h) PROVE LifecycleInv'
  <2>1. NoPanic'
    BY <1>25 DEF TrapMachineSoft
  <2>2. StarterInv'
    BY <1>25 DEF TrapMachineSoft
  <2>3. ReservationHeld'
    <3> SUFFICES ASSUME NEW t \in Harts, state'[t] = "STARTING"
                 PROVE  \E g \in Harts : (pc[g] \in StartSteps /\ call[g].target = t)'
      OBVIOUS
    <3> QED
      BY <1>25 DEF TrapMachineSoft
  <2>4. StageInv'
    BY <1>25 DEF TrapMachineSoft
  <2>5. ContextInv'
    BY <1>25 DEF TrapMachineSoft
  <2>6. BootInv'
    BY <1>25 DEF TrapMachineSoft
  <2> QED
    BY <2>1, <2>2, <2>3, <2>4, <2>5, <2>6
<1>26. ASSUME NEW h \in Harts, HartStop(h) PROVE LifecycleInv'
  <2>1. NoPanic'
    BY <1>26 DEF HartStop
  <2>2. StarterInv'
    BY <1>26 DEF HartStop
  <2>3. ReservationHeld'
    <3> SUFFICES ASSUME NEW t \in Harts, state'[t] = "STARTING"
                 PROVE  \E g \in Harts : (pc[g] \in StartSteps /\ call[g].target = t)'
      OBVIOUS
    <3>1. PICK g \in Harts : pc[g] \in StartSteps /\ call[g].target = t
      BY <1>26 DEF HartStop
    <3>2. g # h
      BY <1>26, <3>1 DEF HartStop
    <3> QED
      BY <1>26, <3>1, <3>2 DEF HartStop
  <2>4. StageInv'
    BY <1>26 DEF HartStop
  <2>5. ContextInv'
    BY <1>26 DEF HartStop
  <2>6. BootInv'
    BY <1>26 DEF HartStop
  <2> QED
    BY <2>1, <2>2, <2>3, <2>4, <2>5, <2>6
<1>27. ASSUME NEW h \in Harts, RingDoorbell(h) PROVE LifecycleInv'
  BY <1>27 DEF RingDoorbell
<1>28. ASSUME NEW h \in Harts, NEW t \in Harts, NEW s \in Stages, HartStart(h, t, s)
       PROVE LifecycleInv'
  <2>1. NoPanic'
    BY <1>28 DEF HartStart
  <2>2. StarterInv'
    BY <1>28 DEF HartStart
  <2>3. ReservationHeld'
    <3> SUFFICES ASSUME NEW g \in Harts, state'[g] = "STARTING"
                 PROVE  \E k \in Harts : (pc[k] \in StartSteps /\ call[k].target = g)'
      OBVIOUS
    <3>1. CASE g = t
      BY <1>28, <3>1 DEF HartStart
    <3>2. CASE g # t
      <4>1. PICK k \in Harts : pc[k] \in StartSteps /\ call[k].target = g
        BY <1>28, <3>2 DEF HartStart
      <4>2. k # h
        BY <1>28, <4>1 DEF HartStart
      <4> QED
        BY <1>28, <4>1, <4>2 DEF HartStart
    <3> QED
      BY <3>1, <3>2
  <2>4. StageInv'
    <3>1. \A g \in Harts : /\ state'[g] = "START_PENDING" \/ pc'[g] = "take" => stage'[g] # NoStage
                           /\ stage'[g] # NoStage => state'[g] \in {"STARTING", "START_PENDING"} \/ pc'[g] = "take"
      BY <1>28 DEF HartStart
    <3>2. ASSUME NEW g \in Harts
          PROVE  /\ pc'[g] \in {"wake", "write_stage"} => stage'[call'[g].target] = NoStage
                 /\ pc'[g] = "store_pending" => stage'[call'[g].target] = call'[g].stage
      <4>1. CASE g = h
        <5>1. state[t] = "STOPPED" /\ pc[t] # "take" /\ stage'[t] = stage[t]
          BY <1>28 DEF HartStart
        <5>2. pc'[g] = "wake" /\ call'[g].target = t
          BY <1>28, <4>1 DEF HartStart
        <5> QED
          BY <5>1, <5>2
      <4>2. CASE g # h
        BY <1>28, <4>2 DEF HartStart
      <4> QED
        BY <4>1, <4>2
    <3> QED
      BY <3>1, <3>2 DEF StageInv
  <2>5. ContextInv'
    BY <1>28 DEF HartStart
  <2>6. BootInv'
    BY <1>28 DEF HartStart
  <2> QED
    BY <2>1, <2>2, <2>3, <2>4, <2>5, <2>6
<1>29. ASSUME NEW h \in Harts, NEW s \in OptStage, HartSuspend(h, s) PROVE LifecycleInv'
  BY <1>29 DEF HartSuspend
<1>30. CASE UNCHANGED vars
  BY <1>30 DEF vars
<1> QED
  BY <1>1, <1>2, <1>3, <1>4, <1>5, <1>6, <1>7, <1>8, <1>9, <1>10, <1>11, <1>12, <1>13, <1>14, <1>15, <1>16, <1>17, <1>18, <1>19, <1>20, <1>21, <1>22, <1>23, <1>24, <1>25, <1>26, <1>27, <1>28, <1>29, <1>30
  DEF Next, FirmwareStep, BringUp, Starting, LocalWork, Stopping, Suspending,
      Waiting, SbiCall

\* Initially every cell is stopped and empty, and no hart has a supervisor.
LEMMA InitLifecycleInv == Init => LifecycleInv
<1> SUFFICES ASSUME Init PROVE LifecycleInv
  OBVIOUS
<1> USE HartsAssumption
    DEF Init, NoCall, NoEvent, StartSteps, BootSteps, Up, Down
<1>1. \A h \in Harts : pc[h] \in {"init_board", "reset", "wait_ready"}
  OBVIOUS
<1>2. NoPanic /\ StarterInv /\ ReservationHeld /\ BootInv
  BY <1>1 DEF NoPanic, StarterInv, ReservationHeld, BootInv
<1>3. StageInv
  BY <1>1 DEF StageInv
<1>4. ContextInv
  BY <1>1 DEF ContextInv
<1> QED
  BY <1>2, <1>3, <1>4 DEF LifecycleInv

\* The inductive invariant: STARTING works as a lock on a hart's cell, a
\* handoff is staged exactly while a start is pending, and where a hart
\* executes fixes what its cell may hold.
THEOREM LifecycleInvariant == Spec => []LifecycleInv
<1>1. Init => TypeOK /\ LifecycleInv
  BY InitTypeOK, InitLifecycleInv
<1>2. TypeOK /\ LifecycleInv /\ [Next]_vars => TypeOK' /\ LifecycleInv'
  BY NextTypeOK, NextLifecycleInv
<1> QED
  BY <1>1, <1>2, PTL DEF Spec

\* No hart panics in take_local_event, finish_boot_rust or boot_hart: the
\* three "BUG:" assertions of the start protocol cannot fail.
THEOREM NeverPanics == Spec => []NoPanic
<1>1. LifecycleInv => NoPanic
  BY DEF LifecycleInv
<1> QED
  BY <1>1, LifecycleInvariant, PTL

\* The SAFETY comments on HartStateCell hold: writes and takes of a staged
\* handoff never race.
THEOREM StageIsExclusive == Spec => []StageHasOneUser
<1>1. TypeOK /\ LifecycleInv => StageHasOneUser
  BY DEF TypeOK, LifecycleInv, StarterInv, ContextInv, StageHasOneUser,
         StageWriters, StartSteps
<1> QED
  BY <1>1, TypeCorrect, LifecycleInvariant, PTL

\* What the cells record about executing, parked and suspended harts is true.
THEOREM RecordedState == Spec => []RecordedStateIsTrue
<1>1. LifecycleInv => RecordedStateIsTrue
  BY DEF LifecycleInv, ContextInv, RecordedStateIsTrue, Up, Down
<1> QED
  BY <1>1, LifecycleInvariant, PTL

\* A step that moves the cell of hart t on from a state in which the cell is
\* neither free nor reserved is a step of t.
LEMMA StepMovesOwnCell ==
    ASSUME TypeOK, LifecycleInv, Next, NEW t \in Harts,
           state[t] \notin {"STOPPED", "STARTING"}, state'[t] # state[t]
    PROVE  pc'[t] # pc[t]
<1> USE DEF TypeOK, Goto
<1>1. ASSUME NEW h \in Harts, WakeFailed(h) \/ StorePending(h) PROVE FALSE
  <2>1. pc[h] \in StartSteps
    BY <1>1 DEF WakeFailed, StorePending, StartSteps
  <2>2. state[call[h].target] = "STARTING"
    BY <2>1 DEF LifecycleInv, StarterInv
  <2>3. call[h].target = t
    BY <1>1 DEF WakeFailed, StorePending
  <2> QED
    BY <2>2, <2>3
<1>2. ASSUME NEW h \in Harts, NEW g \in Harts, NEW s \in Stages, HartStart(h, g, s)
      PROVE FALSE
  BY <1>2 DEF HartStart
<1>3. ASSUME NEW h \in Harts, StageCurrent(h) PROVE FALSE
  BY <1>3 DEF StageCurrent
<1>4. ASSUME NEW h \in Harts,
             TakeLocalEvent(h) \/ StoreStopped(h) \/ StoreSuspended(h)
             \/ ResumeRetentive(h) \/ BeginNonretentiveResume(h)
             \/ PublishResume(h) \/ DropTicket(h)
      PROVE pc'[t] # pc[t]
  BY <1>4 DEF TakeLocalEvent, StoreStopped, StoreSuspended, ResumeRetentive,
              BeginNonretentiveResume, PublishResume, DropTicket
<1>5. ASSUME NEW h \in Harts,
             InitBoard(h) \/ WaitUntilReady(h) \/ CheckPrivilege(h)
             \/ EnableServices(h) \/ WakeByRelease(h) \/ WakeByIpi(h)
             \/ WriteStage(h) \/ ClearCurrent(h) \/ TakeStage(h)
             \/ DispatchEvent(h) \/ DeliverCurrent(h) \/ Waiting(h)
             \/ TrapMachineSoft(h) \/ EcallReturn(h) \/ HartStop(h)
             \/ CommitResume(h) \/ StageTransfer(h) \/ RingDoorbell(h)
      PROVE FALSE
  BY <1>5 DEF InitBoard, WaitUntilReady, CheckPrivilege, EnableServices,
              WakeByRelease, WakeByIpi, WriteStage, ClearCurrent, TakeStage,
              DispatchEvent, DeliverCurrent, Waiting, WfiReturns,
              SuspendWfiReturns, TrapMachineSoft, EcallReturn, HartStop,
              CommitResume, StageTransfer, RingDoorbell, cells
<1>6. ASSUME NEW h \in Harts, NEW s \in OptStage, HartSuspend(h, s) PROVE FALSE
  BY <1>6 DEF HartSuspend, cells
<1> QED
  BY <1>1, <1>2, <1>3, <1>4, <1>5, <1>6
  DEF Next, FirmwareStep, BringUp, Starting, LocalWork, Stopping, Suspending,
      SbiCall

\* A hart that is neither stopped nor reserved is moved on by nobody else: the
\* other harts' calls reach its cell only through the reservation.
THEOREM OthersOnlyStart == Spec => OnlyTheHartItselfMovesOn
<1> DEFINE OwnStep ==
        \A t \in Harts :
            state[t] \notin {"STOPPED", "STARTING"} /\ state'[t] # state[t]
                => pc'[t] # pc[t]
<1>1. TypeOK /\ LifecycleInv /\ Next => OwnStep
  BY StepMovesOwnCell
<1>2. TypeOK /\ LifecycleInv /\ [Next]_vars => [OwnStep]_vars
  BY <1>1
<1> QED
  BY <1>2, TypeCorrect, LifecycleInvariant, PTL
  DEF Spec, OnlyTheHartItselfMovesOn

------------------------------------------------------------------------------
(* The refinement of HsmAbstract. *)

\* The handoff of a hart nobody is starting: in its cell, in the event it has
\* taken, in its resume ticket or in its control transfer.
OwnPending(t) ==
    IF stage[t] # NoStage THEN stage[t]
    ELSE IF event[t].kind = "start" THEN event[t].stage
    ELSE IF pc[t] \in {"commit", "transfer"} THEN call[t].stage
    ELSE transfer[t]

\* Where the handoff of a hart is, without a choice among its starters.
PendingIsLocated ==
    \A t \in Harts :
        /\ \A h \in Harts :
               pc[h] \in StartSteps /\ call[h].target = t
                   => Pending(t) = call[h].stage
        /\ state[t] # "STARTING" => Pending(t) = OwnPending(t)
        /\ state[t] = "STARTING" =>
               \E h \in Harts : pc[h] \in StartSteps /\ call[h].target = t
        /\ state[t] = "STOPPED" => OwnPending(t) = NoStage
        /\ state[t] = "SUSPENDED" => OwnPending(t) = NoStage

\* STARTING is a lock, so the starter whose call holds the handoff is unique.
LEMMA PendingLocated == TypeOK /\ LifecycleInv => PendingIsLocated
<1> SUFFICES ASSUME TypeOK, LifecycleInv, NEW t \in Harts
             PROVE  PendingIsLocated!(t)
  BY DEF PendingIsLocated
<1> USE DEF TypeOK, LifecycleInv
<1>1. ASSUME NEW h \in Harts, pc[h] \in StartSteps, call[h].target = t
      PROVE  Pending(t) = call[h].stage
  <2>1. h \in Starters(t)
    BY <1>1 DEF Starters
  <2>2. \A g \in Starters(t) : g = h
    BY <1>1 DEF Starters, StarterInv
  <2>3. (CHOOSE g \in Starters(t) : TRUE) \in Starters(t)
    BY <2>1
  <2> QED
    BY <2>1, <2>2, <2>3 DEF Pending
<1>2. ASSUME state[t] # "STARTING" PROVE Pending(t) = OwnPending(t)
  <2>1. Starters(t) = {}
    BY <1>2 DEF Starters, StarterInv
  <2> QED
    BY <2>1 DEF Pending, OwnPending
<1>3. state[t] = "STARTING" =>
               \E h \in Harts : pc[h] \in StartSteps /\ call[h].target = t
  BY DEF ReservationHeld, Starters
<1>4. ASSUME state[t] \in {"STOPPED", "SUSPENDED"} PROVE OwnPending(t) = NoStage
  BY SMTT(30), <1>4, Enumerations DEF OwnPending, StageInv, ContextInv, Up, Down, NoEvent
<1> QED
  BY <1>1, <1>2, <1>3, <1>4

\* What the abstract variables of hart g are unchanged by.
KeepsHart(g) == Status(g)' = Status(g) /\ Pending(g)' = Pending(g)

\* A step that concerns one hart, written as the abstract module writes it.
LEMMA OneHartMoves ==
    ASSUME NEW t \in Harts, \A g \in Harts \ {t} : KeepsHart(g)
    PROVE  /\ [h \in Harts |-> Status(h)]'
                = [[h \in Harts |-> Status(h)] EXCEPT ![t] = Status(t)']
           /\ [h \in Harts |-> Pending(h)]'
                = [[h \in Harts |-> Pending(h)] EXCEPT ![t] = Pending(t)']
  BY DEF KeepsHart

\* A step that concerns no hart is a stuttering step of the abstract module.
LEMMA NoHartMoves ==
    ASSUME \A g \in Harts : KeepsHart(g), UNCHANGED running
    PROVE  UNCHANGED Hsm!hsmVars
  BY DEF KeepsHart, Hsm!hsmVars

\* The facts about one step that every case of the refinement uses.
StepContext ==
    /\ TypeOK /\ TypeOK'
    /\ LifecycleInv /\ LifecycleInv'
    /\ PendingIsLocated /\ PendingIsLocated'

\* A hart keeps its status and its handoff when its own cell, event and ticket
\* stay and whoever is starting it goes on doing so.
LEMMA FrameOfHart ==
    ASSUME PendingIsLocated, PendingIsLocated', NEW g \in Harts,
           state'[g] = state[g], stage'[g] = stage[g],
           event'[g] = event[g], transfer'[g] = transfer[g],
           pc'[g] \in {"commit", "transfer"} <=> pc[g] \in {"commit", "transfer"},
           pc[g] \in {"commit", "transfer"} => call'[g] = call[g],
           \A k \in Harts :
               pc[k] \in StartSteps /\ call[k].target = g
                   => pc'[k] \in StartSteps /\ call'[k] = call[k]
    PROVE  KeepsHart(g)
<1>1. Status(g)' = Status(g)
  BY DEF Status
<1>2. CASE state[g] = "STARTING"
  <2>1. PICK k \in Harts : pc[k] \in StartSteps /\ call[k].target = g
    BY <1>2 DEF PendingIsLocated
  <2> QED
    BY <1>1, <2>1 DEF PendingIsLocated, KeepsHart
<1>3. CASE state[g] # "STARTING"
  <2>1. OwnPending(g)' = OwnPending(g)
    BY DEF OwnPending
  <2> QED
    BY <1>1, <1>3, <2>1 DEF PendingIsLocated, KeepsHart
<1> QED
  BY <1>2, <1>3

\* The reservation of a stopped hart, by hart_start or by stage_current.
LEMMA RequestSteps ==
    ASSUME StepContext, NEW h \in Harts, NEW t \in Harts, NEW s \in Stages,
           state[t] = "STOPPED", pc'[h] \in StartSteps,
           pc' = [pc EXCEPT ![h] = pc'[h]],
           pc[h] \in {"smode", "stage_current"},
           state' = [state EXCEPT ![t] = "STARTING"],
           call' = [call EXCEPT ![h] = [target |-> t, stage |-> s]],
           UNCHANGED <<stage, transfer, event, running>>
    PROVE  Hsm!Request(t, s)
<1> USE DEF TypeOK, StartSteps
<1>1. Pending(t) = NoStage
  BY DEF StepContext, PendingIsLocated
<1>2. Pending(t)' = s
  <2>1. pc'[h] \in StartSteps /\ call'[h].target = t /\ call'[h].stage = s
    BY DEF StepContext
  <2> QED
    BY <2>1 DEF StepContext, PendingIsLocated
<1>3. Status(t) = "STOPPED" /\ Status(t)' = "START_PENDING"
  BY DEF Status, StepContext
<1>4. ASSUME NEW g \in Harts \ {t} PROVE KeepsHart(g)
  <2>1. /\ state'[g] = state[g] /\ stage'[g] = stage[g]
        /\ event'[g] = event[g] /\ transfer'[g] = transfer[g]
    BY DEF StepContext
  <2>2. /\ pc'[g] \in {"commit", "transfer"} <=> pc[g] \in {"commit", "transfer"}
        /\ pc[g] \in {"commit", "transfer"} => call'[g] = call[g]
    BY DEF StepContext
  <2>3. ASSUME NEW k \in Harts, pc[k] \in StartSteps
        PROVE  pc'[k] \in StartSteps /\ call'[k] = call[k]
    BY <2>3 DEF StepContext
  <2> HIDE DEF TypeOK
  <2> QED
    BY <2>1, <2>2, <2>3, FrameOfHart DEF StepContext
<1> QED
  BY <1>1, <1>2, <1>3, <1>4, OneHartMoves DEF Hsm!Request, Hsm!Move

\* The handoff travels from the starter's call into the cell and from there
\* into the hart's event; none of these steps is seen from outside.
LEMMA HandoffTravels ==
    ASSUME StepContext, NEW h \in Harts,
           WriteStage(h) \/ StorePending(h) \/ TakeStage(h)
    PROVE  UNCHANGED Hsm!hsmVars
<1> USE DEF TypeOK, StartSteps, Goto, StepContext
<1>1. CASE WriteStage(h)
  <2>0. PICK t \in Harts : t = call[h].target
    OBVIOUS
  <2>1. Pending(t) = call[h].stage
    BY <1>1, <2>0 DEF WriteStage, PendingIsLocated
  <2>2. pc'[h] \in StartSteps /\ call'[h] = call[h] /\ state' = state
    BY <1>1 DEF WriteStage
  <2>3. Pending(t)' = call[h].stage
    BY <2>0, <2>2 DEF PendingIsLocated
  <2>4. KeepsHart(t)
    BY <2>1, <2>2, <2>3 DEF KeepsHart, Status
  <2>5. ASSUME NEW g \in Harts \ {t} PROVE KeepsHart(g)
    BY <1>1, <2>0, FrameOfHart DEF WriteStage
  <2>6. \A g \in Harts : KeepsHart(g)
    BY <2>4, <2>5
  <2> QED
    BY <1>1, <2>6, NoHartMoves DEF WriteStage
<1>2. CASE StorePending(h)
  <2>0. PICK t \in Harts : t = call[h].target
    OBVIOUS
  <2>1. Pending(t) = call[h].stage /\ state[t] = "STARTING" /\ stage[t] = call[h].stage
        /\ stage[t] # NoStage
    BY <1>2, <2>0 DEF StorePending, PendingIsLocated, LifecycleInv, StarterInv, StageInv
  <2>2. state'[t] = "START_PENDING" /\ stage'[t] = stage[t]
    BY <1>2, <2>0 DEF StorePending
  <2>3. Pending(t)' = call[h].stage
    BY <2>0, <2>1, <2>2 DEF PendingIsLocated, OwnPending
  <2>4. KeepsHart(t)
    BY <2>1, <2>2, <2>3 DEF KeepsHart, Status
  <2>5. ASSUME NEW g \in Harts \ {t} PROVE KeepsHart(g)
    BY <1>2, <2>0, FrameOfHart DEF StorePending
  <2>6. \A g \in Harts : KeepsHart(g)
    BY <2>4, <2>5
  <2> QED
    BY <1>2, <2>6, NoHartMoves DEF StorePending
<1>3. CASE TakeStage(h)
  <2>1. state[h] = "STARTED" /\ stage[h] # NoStage /\ state' = state
    BY <1>3 DEF TakeStage, LifecycleInv, ContextInv, StageInv
  <2>2. OwnPending(h) = stage[h]
    BY <2>1 DEF OwnPending
  <2>3. OwnPending(h)' = stage[h]
    BY <1>3 DEF OwnPending, TakeStage
  <2>4. KeepsHart(h)
    BY <2>1, <2>2, <2>3 DEF KeepsHart, Status, PendingIsLocated
  <2>5. ASSUME NEW g \in Harts \ {h} PROVE KeepsHart(g)
    BY <1>3, FrameOfHart DEF TakeStage
  <2>6. \A g \in Harts : KeepsHart(g)
    BY <2>4, <2>5
  <2> QED
    BY <1>3, <2>6, NoHartMoves DEF TakeStage
<1> QED
  BY <1>1, <1>2, <1>3

\* A failed wake takes the request back.
LEMMA RefuseStep ==
    ASSUME StepContext, NEW h \in Harts, WakeFailed(h)
    PROVE  Hsm!Refuse(call[h].target)
<1> USE DEF TypeOK, StartSteps, Goto, StepContext
<1>0. PICK t \in Harts : t = call[h].target
  OBVIOUS
<1>1. state[t] = "STARTING" /\ state'[t] = "STOPPED"
  BY <1>0 DEF WakeFailed, LifecycleInv, StarterInv
<1>2. Status(t) = "START_PENDING" /\ Status(t)' = "STOPPED"
  BY <1>1 DEF Status
<1>3. Pending(t)' = NoStage
  BY <1>0, <1>1 DEF PendingIsLocated
<1>4. ASSUME NEW g \in Harts \ {t} PROVE KeepsHart(g)
  BY <1>0, FrameOfHart DEF WakeFailed
<1>5. UNCHANGED running
  BY DEF WakeFailed
<1>6. Hsm!Refuse(t)
  BY <1>0, <1>2, <1>3, <1>4, <1>5, OneHartMoves DEF Hsm!Refuse, Hsm!Move
<1> QED
  BY <1>0, <1>6

\* take_local_event accepts a pending start, or leaves the cell as it is.
LEMMA TakeEventStep ==
    ASSUME StepContext, NEW h \in Harts, TakeLocalEvent(h)
    PROVE  Hsm!Accept(h) \/ UNCHANGED Hsm!hsmVars
<1> USE DEF TypeOK, StartSteps, Goto, StepContext
<1>1. ASSUME NEW g \in Harts \ {h} PROVE KeepsHart(g)
  BY FrameOfHart DEF TakeLocalEvent
<1>2. state[h] # "STARTING" /\ state'[h] # "STARTING"
  BY DEF TakeLocalEvent
<1>3. event[h] = NoEvent
  BY DEF TakeLocalEvent, LifecycleInv, ContextInv
<1>4. OwnPending(h)' = OwnPending(h)
  BY <1>3 DEF TakeLocalEvent, OwnPending, NoEvent
<1>5. Pending(h)' = Pending(h) /\ Pending(h) = OwnPending(h)
  BY <1>2, <1>4 DEF PendingIsLocated
<1>6. CASE state[h] = "START_PENDING"
  <2>1. stage[h] # NoStage
    BY <1>6 DEF LifecycleInv, StageInv
  <2>2. Pending(h) # NoStage
    BY <1>5, <2>1 DEF OwnPending
  <2>3. Status(h) = "START_PENDING" /\ Status(h)' = "STARTED"
    BY <1>6 DEF Status, TakeLocalEvent
  <2>4. UNCHANGED running
    BY DEF TakeLocalEvent
  <2> HIDE DEF TypeOK, StepContext
  <2> QED
    BY <1>1, <1>5, <2>2, <2>3, <2>4, OneHartMoves DEF Hsm!Accept, Hsm!Move
<1>7. CASE state[h] # "START_PENDING"
  <2>1. Status(h)' = Status(h)
    BY <1>7 DEF Status, TakeLocalEvent
  <2>2. \A g \in Harts : KeepsHart(g)
    BY <1>1, <1>5, <2>1 DEF KeepsHart
  <2> QED
    BY <2>2, NoHartMoves DEF TakeLocalEvent
<1> QED
  BY <1>6, <1>7

\* The entry of a handoff: mret out of the finisher after a start, or out of
\* the call that a non-retentive resume returns from.
LEMMA EnterSteps ==
    ASSUME StepContext, NEW h \in Harts, DispatchEvent(h) \/ EcallReturn(h)
    PROVE  Hsm!Enter(h) \/ UNCHANGED Hsm!hsmVars
<1> USE DEF TypeOK, StartSteps, Goto, StepContext
<1>1. ASSUME NEW g \in Harts \ {h} PROVE KeepsHart(g)
  BY FrameOfHart DEF DispatchEvent, EcallReturn, cells
<1>2. Status(h)' = Status(h)
  BY DEF DispatchEvent, EcallReturn, Status, cells
<1>3. CASE DispatchEvent(h) /\ event[h].kind = "start"
  <2>1. state[h] = "STARTED" /\ event[h].stage # NoStage
    BY <1>3, SMTT(20) DEF DispatchEvent, LifecycleInv, ContextInv, NoEvent
  <2>2. stage[h] = NoStage /\ transfer[h] = NoStage
    BY <1>3, <2>1 DEF DispatchEvent, LifecycleInv, ContextInv, StageInv
  <2>3. Pending(h) = event[h].stage
    BY <1>3, <2>1, <2>2 DEF PendingIsLocated, OwnPending
  <2>4. Pending(h)' = NoStage
    BY <1>3, <2>1, <2>2 DEF PendingIsLocated, OwnPending, DispatchEvent, cells, NoEvent
  <2>5. running' = [running EXCEPT ![h] = event[h].stage]
    BY <1>3 DEF DispatchEvent
  <2>6. Status(h) = "STARTED"
    BY <2>1 DEF Status
  <2> QED
    BY ZenonT(40), <1>1, <1>2, <2>1, <2>3, <2>4, <2>5, <2>6, OneHartMoves DEF Hsm!Enter
<1>4. CASE DispatchEvent(h) /\ event[h].kind # "start"
  <2>1. running' = running
    BY <1>4 DEF DispatchEvent
  <2>2. KeepsHart(h)
    <3>1. CASE state[h] = "STARTING"
      <4>1. PICK k \in Harts : pc[k] \in StartSteps /\ call[k].target = h
        BY <3>1 DEF PendingIsLocated
      <4>2. k # h
        BY <1>4, <4>1 DEF DispatchEvent
      <4>3. pc'[k] = pc[k] /\ call' = call
        BY <1>4, <4>2 DEF DispatchEvent
      <4> QED
        BY <1>2, <4>1, <4>3 DEF PendingIsLocated, KeepsHart
    <3>2. CASE state[h] # "STARTING"
      <4>1. pc[h] \notin {"commit", "transfer"} /\ pc'[h] \notin {"commit", "transfer"} /\ event'[h].kind # "start"
        BY <1>4, Records DEF DispatchEvent, NoEvent
      <4>2. stage' = stage /\ transfer' = transfer /\ state' = state
        BY <1>4 DEF DispatchEvent, cells
      <4>3. OwnPending(h)' = OwnPending(h)
        BY <1>4, <4>1, <4>2 DEF OwnPending
      <4> QED
        BY <1>2, <3>2, <4>2, <4>3 DEF PendingIsLocated, KeepsHart
    <3> QED
      BY <3>1, <3>2
  <2>3. \A g \in Harts : KeepsHart(g)
    BY <1>1, <2>2
  <2> QED
    BY <2>1, <2>3, NoHartMoves
<1>5. CASE EcallReturn(h)
  <2>1. state[h] = "STARTED" /\ transfer[h] # NoStage /\ event[h] = NoEvent
    BY <1>5 DEF EcallReturn, LifecycleInv, ContextInv
  <2>2. stage[h] = NoStage
    BY <1>5, <2>1 DEF EcallReturn, LifecycleInv, StageInv
  <2>3. Pending(h) = transfer[h]
    <3>1. pc[h] \notin {"commit", "transfer"} /\ event[h].kind # "start"
      BY <1>5, <2>1 DEF NoEvent, EcallReturn
    <3> QED
      BY <2>1, <2>2, <3>1 DEF PendingIsLocated, OwnPending
  <2>4. Pending(h)' = NoStage
    BY <1>5, <2>1, <2>2 DEF PendingIsLocated, OwnPending, EcallReturn, NoEvent
  <2>5. running' = [running EXCEPT ![h] = transfer[h]]
    BY <1>5, <2>1 DEF EcallReturn
  <2>6. Status(h) = "STARTED"
    BY <2>1 DEF Status
  <2> QED
    BY ZenonT(40), <1>1, <1>2, <2>1, <2>3, <2>4, <2>5, <2>6, OneHartMoves DEF Hsm!Enter
<1> QED
  BY <1>3, <1>4, <1>5

\* Stopping and suspending: the hart runs its supervisor and owes no handoff.
LEMMA LeaveSteps ==
    ASSUME StepContext, NEW h \in Harts, StoreStopped(h) \/ StoreSuspended(h)
    PROVE  Hsm!Stop(h) \/ Hsm!Suspend(h) \/ UNCHANGED Hsm!hsmVars
<1> USE DEF TypeOK, StartSteps, Goto, StepContext
<1>1. ASSUME NEW g \in Harts \ {h} PROVE KeepsHart(g)
  BY FrameOfHart DEF StoreStopped, StoreSuspended
<1>2. Up(h) /\ event[h] = NoEvent /\ transfer[h] = NoStage /\ stage[h] = NoStage
  BY DEF StoreStopped, StoreSuspended, LifecycleInv, ContextInv, StageInv, Up
<1>3. Pending(h) = NoStage
  <2>1. pc[h] \notin {"commit", "transfer"} /\ event[h].kind # "start" /\ state[h] # "STARTING"
    BY <1>2 DEF StoreStopped, StoreSuspended, NoEvent, Up
  <2> QED
    BY <1>2, <2>1 DEF PendingIsLocated, OwnPending
<1>4. Pending(h)' = NoStage
  <2>1. state'[h] \in {"STOPPED", "SUSPENDED"}
    BY DEF StoreStopped, StoreSuspended
  <2> QED
    BY <2>1 DEF PendingIsLocated
<1>5. running[h] # NoStage /\ Status(h) \in Hsm!StopsFrom(h)
  BY <1>2 DEF Up, Status, Hsm!StopsFrom
<1>6. CASE StoreStopped(h)
  <2>1. Status(h)' = "STOPPED" /\ running' = [running EXCEPT ![h] = NoStage]
    BY <1>6 DEF StoreStopped, Status
  <2> HIDE DEF TypeOK, StepContext
  <2> QED
    BY <1>1, <1>3, <1>4, <1>5, <2>1, OneHartMoves DEF Hsm!Stop, Hsm!Move
<1>7. CASE StoreSuspended(h)
  <2>1. Status(h)' = "SUSPENDED" /\ UNCHANGED running
    BY <1>7 DEF StoreSuspended, Status
  <2>2. CASE Status(h) = "STARTED"
    <3> HIDE DEF TypeOK, StepContext
    <3> QED
      BY <1>1, <1>3, <1>4, <1>5, <2>1, <2>2, OneHartMoves DEF Hsm!Suspend, Hsm!Move
  <2>3. CASE Status(h) # "STARTED"
    <3>1. Status(h) = "SUSPENDED"
      BY <1>2, <2>3 DEF Up, Status
    <3>2. KeepsHart(h)
      BY <1>3, <1>4, <2>1, <3>1 DEF KeepsHart
    <3> QED
      BY <1>1, <2>1, <3>2, NoHartMoves
  <2> QED
    BY <2>2, <2>3
<1> QED
  BY <1>6, <1>7

\* The two ways out of suspend, and the resume ticket's publication and drop.
LEMMA ResumeSteps ==
    ASSUME StepContext, NEW h \in Harts,
           \/ ResumeRetentive(h) \/ BeginNonretentiveResume(h)
           \/ PublishResume(h) \/ DropTicket(h)
    PROVE  \/ \E s \in Stages : Hsm!BeginResume(h, s)
           \/ Hsm!Resume(h) \/ Hsm!FinishResume(h) \/ Hsm!AbandonResume(h)
<1> USE DEF TypeOK, StartSteps, Goto, StepContext
<1>1. ASSUME NEW g \in Harts \ {h} PROVE KeepsHart(g)
  BY FrameOfHart DEF ResumeRetentive, BeginNonretentiveResume, PublishResume, DropTicket
<1>2. UNCHANGED running
  BY DEF ResumeRetentive, BeginNonretentiveResume, PublishResume, DropTicket
<1>3. stage[h] = NoStage /\ event[h] = NoEvent
  BY DEF ResumeRetentive, BeginNonretentiveResume, PublishResume, DropTicket,
         LifecycleInv, ContextInv, StageInv
<1>4. event[h].kind # "start" /\ stage'[h] = NoStage /\ event'[h].kind # "start"
  BY <1>3 DEF ResumeRetentive, BeginNonretentiveResume, PublishResume, DropTicket, NoEvent
<1>5. CASE ResumeRetentive(h)
  <2>1. state[h] = "SUSPENDED" /\ state'[h] = "STARTED"
    BY <1>5 DEF ResumeRetentive, LifecycleInv, ContextInv
  <2>2. Pending(h) = NoStage
    BY <2>1 DEF PendingIsLocated
  <2>3. pc'[h] \notin {"commit", "transfer"} /\ transfer'[h] = NoStage
    BY <1>5 DEF ResumeRetentive, LifecycleInv, ContextInv
  <2>4. Pending(h)' = NoStage
    BY <1>4, <2>1, <2>3 DEF PendingIsLocated, OwnPending
  <2>5. Status(h) = "SUSPENDED" /\ Status(h)' = "STARTED"
    BY <2>1 DEF Status
  <2> HIDE DEF TypeOK, StepContext
  <2> QED
    BY <1>1, <1>2, <2>2, <2>4, <2>5, OneHartMoves DEF Hsm!Resume, Hsm!Move
<1>6. CASE BeginNonretentiveResume(h)
  <2>1. state[h] = "SUSPENDED" /\ state'[h] = "RESUME_PENDING"
    BY <1>6 DEF BeginNonretentiveResume, LifecycleInv, ContextInv
  <2>2. Pending(h) = NoStage
    BY <2>1 DEF PendingIsLocated
  <2>3. PICK s \in Stages : s = call[h].stage
    BY <1>6 DEF BeginNonretentiveResume, OptStage
  <2>4. pc'[h] = "commit" /\ call'[h].stage = s
    BY <1>6, <2>1, <2>3 DEF BeginNonretentiveResume
  <2>5. Pending(h)' = s
    BY <1>4, <2>1, <2>4 DEF PendingIsLocated, OwnPending
  <2>6. Status(h) = "SUSPENDED" /\ Status(h)' = "RESUME_PENDING"
    BY <2>1 DEF Status
  <2> HIDE DEF TypeOK, StepContext
  <2>7. Hsm!BeginResume(h, s)
    BY <1>1, <1>2, <2>2, <2>5, <2>6, OneHartMoves DEF Hsm!BeginResume, Hsm!Move
  <2> QED
    BY <2>7
<1>7. CASE PublishResume(h)
  <2>1. state[h] = "RESUME_PENDING" /\ state'[h] = "STARTED" /\ call[h].stage # NoStage
    BY <1>7 DEF PublishResume, LifecycleInv, ContextInv
  <2>2. /\ pc[h] = "publish" /\ pc'[h] = "ecall_return"
        /\ transfer[h] = call[h].stage /\ transfer' = transfer
    BY <1>7 DEF PublishResume, LifecycleInv, ContextInv
  <2>3. Pending(h) = call[h].stage
    BY <1>3, <1>4, <2>1, <2>2 DEF PendingIsLocated, OwnPending
  <2>4. Pending(h)' = call[h].stage
    BY <1>4, <2>1, <2>2 DEF PendingIsLocated, OwnPending
  <2>5. Status(h) = "RESUME_PENDING" /\ Status(h)' = "STARTED"
    BY <2>1 DEF Status
  <2>6. Pending(h) # NoStage /\ Pending(h)' = Pending(h)
    BY <2>1, <2>3, <2>4
  <2> HIDE DEF TypeOK, StepContext
  <2> QED
    BY <1>1, <1>2, <2>5, <2>6, OneHartMoves DEF Hsm!FinishResume, Hsm!Move
<1>8. CASE DropTicket(h)
  <2>1. state[h] = "RESUME_PENDING" /\ state'[h] = "SUSPENDED" /\ h \in FlakyHarts
    BY <1>8 DEF DropTicket, LifecycleInv, ContextInv
  <2>2. Pending(h)' = NoStage
    BY <2>1 DEF PendingIsLocated
  <2>3. Status(h) = "RESUME_PENDING" /\ Status(h)' = "SUSPENDED"
    BY <2>1 DEF Status
  <2> HIDE DEF TypeOK, StepContext
  <2> QED
    BY <1>1, <1>2, <2>1, <2>2, <2>3, OneHartMoves DEF Hsm!AbandonResume, Hsm!Move
<1> QED
  BY <1>5, <1>6, <1>7, <1>8

\* Ringing the hart's own doorbell and moving the handoff from the ticket to
\* the control transfer are not seen from outside.
LEMMA TicketSteps ==
    ASSUME StepContext, NEW h \in Harts, CommitResume(h) \/ StageTransfer(h)
    PROVE  UNCHANGED Hsm!hsmVars
<1> USE DEF TypeOK, StartSteps, Goto, StepContext, cells
<1>1. ASSUME NEW g \in Harts \ {h} PROVE KeepsHart(g)
  BY FrameOfHart DEF CommitResume, StageTransfer
<1>2. UNCHANGED running
  BY DEF CommitResume, StageTransfer
<1>3. /\ state[h] = "RESUME_PENDING" /\ state'[h] = state[h]
      /\ stage[h] = NoStage /\ stage'[h] = stage[h]
      /\ event[h] = NoEvent /\ event'[h] = event[h]
      /\ call' = call
  BY DEF CommitResume, StageTransfer, LifecycleInv, ContextInv, StageInv
<1>4. event[h].kind # "start" /\ pc[h] \in {"commit", "transfer"}
  BY <1>3 DEF NoEvent, CommitResume, StageTransfer
<1>5. Pending(h) = call[h].stage
  BY <1>3, <1>4 DEF PendingIsLocated, OwnPending
<1>6. Pending(h)' = call[h].stage
  <2>1. CASE CommitResume(h)
    <3>1. pc'[h] = "transfer"
      BY <2>1 DEF CommitResume
    <3>2. OwnPending(h)' = call[h].stage
      BY <1>3, <1>4, <3>1 DEF OwnPending
    <3> QED
      BY <1>3, <3>2 DEF PendingIsLocated
  <2>2. CASE StageTransfer(h)
    <3>1. pc'[h] = "publish" /\ transfer'[h] = call[h].stage
      BY <2>2 DEF StageTransfer
    <3>2. OwnPending(h)' = call[h].stage
      BY <1>3, <1>4, <3>1 DEF OwnPending
    <3> QED
      BY <1>3, <3>2 DEF PendingIsLocated
  <2> QED
    BY <2>1, <2>2
<1>7. KeepsHart(h)
  BY <1>3, <1>5, <1>6 DEF KeepsHart, Status
<1> HIDE DEF TypeOK, StepContext
<1> QED
  BY <1>1, <1>2, <1>7, NoHartMoves

\* Every other step leaves the cells, the handoffs and the starters alone.
LEMMA QuietSteps ==
    ASSUME StepContext, NEW h \in Harts,
           \/ InitBoard(h) \/ WaitUntilReady(h) \/ CheckPrivilege(h)
           \/ EnableServices(h) \/ WakeByRelease(h) \/ WakeByIpi(h)
           \/ ClearCurrent(h) \/ DeliverCurrent(h) \/ WfiReturns(h)
           \/ SuspendWfiReturns(h) \/ TrapMachineSoft(h) \/ HartStop(h)
           \/ RingDoorbell(h) \/ \E s \in OptStage : HartSuspend(h, s)
    PROVE  UNCHANGED Hsm!hsmVars
<1> DEFINE Quiet ==
        /\ UNCHANGED <<state, stage, event, transfer, running>>
        /\ \A g \in Harts :
               /\ pc'[g] \in {"commit", "transfer"} <=> pc[g] \in {"commit", "transfer"}
               /\ pc[g] \in {"commit", "transfer"} => call'[g] = call[g]
        /\ \A k \in Harts :
               pc[k] \in StartSteps => pc'[k] \in StartSteps /\ call'[k] = call[k]
<1> USE DEF TypeOK, StartSteps, Goto, StepContext, cells
<1>1. ASSUME InitBoard(h) \/ WaitUntilReady(h) \/ CheckPrivilege(h)
             \/ EnableServices(h)
      PROVE  Quiet
  BY <1>1 DEF InitBoard, WaitUntilReady, CheckPrivilege, EnableServices
<1>2. ASSUME WakeByRelease(h) \/ WakeByIpi(h) PROVE Quiet
  BY <1>2 DEF WakeByRelease, WakeByIpi, K1Releases, V861Releases
<1>3. ASSUME ClearCurrent(h) \/ DeliverCurrent(h) PROVE Quiet
  BY <1>3 DEF ClearCurrent, DeliverCurrent, AfterDeliver
<1>4. ASSUME WfiReturns(h) \/ SuspendWfiReturns(h) PROVE Quiet
  BY <1>4 DEF WfiReturns, SuspendWfiReturns
<1>5. ASSUME TrapMachineSoft(h) \/ HartStop(h) \/ RingDoorbell(h) PROVE Quiet
  BY <1>5 DEF TrapMachineSoft, HartStop, RingDoorbell
<1>6. ASSUME NEW s \in OptStage, HartSuspend(h, s) PROVE Quiet
  BY <1>6 DEF HartSuspend
<1>7. Quiet
  BY <1>1, <1>2, <1>3, <1>4, <1>5, <1>6
<1> HIDE DEF TypeOK
<1>8. \A g \in Harts : KeepsHart(g)
  BY <1>7, FrameOfHart
<1> QED
  BY <1>7, <1>8, NoHartMoves

\* Every step of the firmware is a step of the abstract specification or
\* leaves its variables alone.
LEMMA StepRefines == StepContext /\ [Next]_vars => [Hsm!HsmNext]_(Hsm!hsmVars)
<1> SUFFICES ASSUME StepContext, [Next]_vars
             PROVE  Hsm!HsmNext \/ UNCHANGED Hsm!hsmVars
  OBVIOUS
<1>1. ASSUME NEW h \in Harts, NEW t \in Harts, NEW s \in Stages, HartStart(h, t, s)
      PROVE  Hsm!HsmNext
  <2>1. pc' = [pc EXCEPT ![h] = pc'[h]] /\ pc'[h] \in StartSteps
    BY <1>1 DEF HartStart, Goto, StepContext, TypeOK, StartSteps
  <2>2. Hsm!Request(t, s)
    BY <1>1, <2>1, RequestSteps DEF HartStart, Goto
  <2> QED
    BY <2>2 DEF Hsm!HsmNext
<1>2. ASSUME NEW h \in Harts, StageCurrent(h) PROVE Hsm!HsmNext
  <2>1. state[h] = "STOPPED"
    BY <1>2 DEF StageCurrent, StepContext, TypeOK, LifecycleInv, NoPanic
  <2>2. PICK s \in Stages : call' = [call EXCEPT ![h] = [target |-> h, stage |-> s]]
    BY <1>2, <2>1 DEF StageCurrent
  <2>3. pc' = [pc EXCEPT ![h] = pc'[h]] /\ pc'[h] \in StartSteps
    BY <1>2, <2>1 DEF StageCurrent, StepContext, TypeOK, StartSteps
  <2>4. Hsm!Request(h, s)
    BY <1>2, <2>1, <2>2, <2>3, RequestSteps DEF StageCurrent
  <2> QED
    BY <2>4 DEF Hsm!HsmNext
<1>3. ASSUME NEW h \in Harts, WakeFailed(h) PROVE Hsm!HsmNext
  <2>1. call[h].target \in Harts
    BY DEF StepContext, TypeOK
  <2> QED
    BY <1>3, <2>1, RefuseStep DEF Hsm!HsmNext
<1>4. ASSUME NEW h \in Harts, TakeLocalEvent(h)
      PROVE  Hsm!HsmNext \/ UNCHANGED Hsm!hsmVars
  BY <1>4, TakeEventStep DEF Hsm!HsmNext
<1>5. ASSUME NEW h \in Harts, DispatchEvent(h) \/ EcallReturn(h)
      PROVE  Hsm!HsmNext \/ UNCHANGED Hsm!hsmVars
  BY <1>5, EnterSteps DEF Hsm!HsmNext
<1>6. ASSUME NEW h \in Harts, StoreStopped(h) \/ StoreSuspended(h)
      PROVE  Hsm!HsmNext \/ UNCHANGED Hsm!hsmVars
  BY <1>6, LeaveSteps DEF Hsm!HsmNext
<1>7. ASSUME NEW h \in Harts,
             ResumeRetentive(h) \/ BeginNonretentiveResume(h)
             \/ PublishResume(h) \/ DropTicket(h)
      PROVE  Hsm!HsmNext
  BY <1>7, ResumeSteps DEF Hsm!HsmNext
<1>8. ASSUME NEW h \in Harts, WriteStage(h) \/ StorePending(h) \/ TakeStage(h)
      PROVE  UNCHANGED Hsm!hsmVars
  BY <1>8, HandoffTravels
<1>9. ASSUME NEW h \in Harts, CommitResume(h) \/ StageTransfer(h)
      PROVE  UNCHANGED Hsm!hsmVars
  BY <1>9, TicketSteps
<1>10. CASE UNCHANGED vars
  BY <1>10 DEF vars, Hsm!hsmVars, Status, Pending, Starters
<1> QED
  BY <1>1, <1>2, <1>3, <1>4, <1>5, <1>6, <1>7, <1>8, <1>9, <1>10, QuietSteps
  DEF Next, FirmwareStep, BringUp, Starting, LocalWork, Stopping, Suspending,
      Waiting, SbiCall

\* Initially nobody owes or runs a handoff.
LEMMA InitRefines == Init => Hsm!HsmInit
<1> SUFFICES ASSUME Init PROVE Hsm!HsmInit
  OBVIOUS
<1>1. TypeOK /\ LifecycleInv /\ PendingIsLocated
  BY InitTypeOK, InitLifecycleInv, PendingLocated
<1>2. \A t \in Harts : Status(t) = "STOPPED" /\ Pending(t) = NoStage
  BY <1>1 DEF Init, Status, PendingIsLocated
<1> QED
  BY <1>2 DEF Hsm!HsmInit, Init

\* The hart lifecycle implements the HSM promise of HsmAbstract: through every
\* interleaving of starts, stops, suspends and failed IPIs a hart belongs to
\* one handoff at a time, enters exactly the handoff accepted for it, and
\* hart_get_status reports its moves and no others.
THEOREM HartsKeepThePromise == Spec => HsmRefinement
<1>1. TypeOK /\ LifecycleInv /\ TypeOK' /\ LifecycleInv' => StepContext
  <2>1. TypeOK' /\ LifecycleInv' => PendingIsLocated'
    BY PendingLocated, PTL
  <2> QED
    BY <2>1, PendingLocated DEF StepContext
<1>2. TypeOK /\ LifecycleInv /\ TypeOK' /\ LifecycleInv' /\ [Next]_vars
          => [Hsm!HsmNext]_(Hsm!hsmVars)
  BY <1>1, StepRefines
<1> QED
  BY <1>2, InitRefines, TypeCorrect, LifecycleInvariant, PTL
  DEF Spec, HsmRefinement, Hsm!HsmSpec

-----------------------------------------------------------------------------
(* System suspend.                                                         *)

\* system_suspend changes the lifecycle's state only by lifecycle steps.
LEMMA LifecycleSteps ==
    SuspendTypeOK /\ [SuspendNext]_systemVars => [Next]_vars
<1> SUFFICES ASSUME SuspendTypeOK, [SuspendNext]_systemVars PROVE [Next]_vars
  OBVIOUS
<1>1. ASSUME NEW h \in Harts, NEW s \in Stages, BeginSystemSuspend(h, s)
      PROVE UNCHANGED vars
  BY <1>1 DEF BeginSystemSuspend
<1>2. ASSUME NEW h \in Harts, ReadStatus(h) PROVE UNCHANGED vars
  BY <1>2 DEF ReadStatus
<1>3. CASE UNCHANGED systemVars
  BY <1>3 DEF systemVars
<1>4. ASSUME NEW h \in Harts, SuspendSystem(h) PROVE Next
  <2>1. request[h] \in OptStage
    BY DEF SuspendTypeOK
  <2> QED
    BY <1>4, <2>1 DEF SuspendSystem, Next, SbiCall
<1>5. ASSUME NEW h \in Harts, OtherStep(h) PROVE Next
  BY <1>5 DEF OtherStep, Next
<1>6. ASSUME NEW h \in Harts, OtherRing(h) PROVE Next
  BY <1>6 DEF OtherRing, Next
<1> QED
  BY <1>1, <1>2, <1>3, <1>4, <1>5, <1>6 DEF SuspendNext

\* The state of the calls stays well typed, and only a call has harts to read.
LEMMA NextSuspendTypeOK ==
    SuspendTypeOK /\ [SuspendNext]_systemVars => SuspendTypeOK'
<1> SUFFICES ASSUME SuspendTypeOK, [SuspendNext]_systemVars PROVE SuspendTypeOK'
  OBVIOUS
<1> USE StagesAssumption DEF SuspendTypeOK, OptStage
<1>1. ASSUME NEW h \in Harts, NEW s \in Stages, BeginSystemSuspend(h, s)
      PROVE SuspendTypeOK'
  BY <1>1 DEF BeginSystemSuspend, EnabledHarts
<1>2. ASSUME NEW h \in Harts, ReadStatus(h) PROVE SuspendTypeOK'
  BY <1>2 DEF ReadStatus
<1>3. CASE UNCHANGED systemVars
  BY <1>3 DEF systemVars, suspendVars
<1>4. ASSUME NEW h \in Harts, SuspendSystem(h) PROVE SuspendTypeOK'
  BY <1>4 DEF SuspendSystem
<1>5. ASSUME NEW h \in Harts, OtherStep(h) PROVE SuspendTypeOK'
  BY <1>5 DEF OtherStep
<1>6. ASSUME NEW h \in Harts, OtherRing(h) PROVE SuspendTypeOK'
  BY <1>6 DEF OtherRing, suspendVars
<1> QED
  BY <1>1, <1>2, <1>3, <1>4, <1>5, <1>6 DEF SuspendNext

\* The state of system_suspend calls is well typed in every reachable state.
THEOREM SuspendTypes == SuspendSpec => []SuspendTypeOK
<1>1. SuspendInit => SuspendTypeOK
  BY StagesAssumption DEF SuspendInit, SuspendTypeOK, OptStage
<1> QED
  BY <1>1, NextSuspendTypeOK, PTL DEF SuspendSpec

\* A hart inside system_suspend has passed its privilege check and is recorded
\* in a state that status() does not report as stopped.
LEMMA CallerIsUp ==
    ASSUME TypeOK, LifecycleInv, SuspendContext, NEW h \in Harts,
           InSystemSuspend(h)
    PROVE  checked[h] /\ Status(h) # "STOPPED"
<1>1. pc[h] \in {"smode", "clear", "deliver"} \cup SuspendSteps
  BY DEF InSystemSuspend, SuspendContext
<1>2. checked[h]
  BY <1>1 DEF SuspendContext, SuspendSteps
<1>3. pc[h] \in {"clear", "deliver"} => caller[h] = "suspend"
  BY DEF InSystemSuspend, SuspendContext
<1>4. state[h] \in {"STARTED", "SUSPENDED", "RESUME_PENDING"}
  BY <1>1, <1>3 DEF LifecycleInv, ContextInv, Up, SuspendSteps
<1> QED
  BY <1>2, <1>4 DEF Status

\* A hart that suspends the system stays on the path of hart_suspend until it
\* is back in its lower modes, and no other hart moves it.
LEMMA NextSuspendContext ==
    ASSUME TypeOK, SuspendTypeOK, SuspendContext, [SuspendNext]_systemVars
    PROVE  SuspendContext'
<1> USE StagesAssumption DEF SuspendTypeOK, SuspendContext, SuspendSteps, TypeOK
<1>1. ASSUME NEW h \in Harts, NEW s \in Stages, BeginSystemSuspend(h, s)
      PROVE SuspendContext'
  BY <1>1 DEF BeginSystemSuspend, vars
<1>2. ASSUME NEW h \in Harts, ReadStatus(h) PROVE SuspendContext'
  BY <1>2 DEF ReadStatus, vars
<1>3. CASE UNCHANGED systemVars
  BY <1>3 DEF systemVars, suspendVars, vars
<1>4. ASSUME NEW h \in Harts, SuspendSystem(h) PROVE SuspendContext'
  BY <1>4 DEF SuspendSystem, HartSuspend, Goto, bringUp
<1>5. ASSUME NEW h \in Harts, OtherStep(h) PROVE SuspendContext'
  <2> USE DEF Goto, bringUp
  <2>0. /\ request[h] = NoStage
        /\ asleep' = [asleep EXCEPT ![h] = @ /\ pc'[h] # "smode"]
        /\ UNCHANGED <<request, unread>>
    BY <1>5 DEF OtherStep
  <2>1. CASE BringUp(h)
    <3>1. CASE InitBoard(h) \/ WaitUntilReady(h) \/ CheckPrivilege(h)
      BY <2>0, <3>1 DEF InitBoard, WaitUntilReady, CheckPrivilege
    <3>2. CASE StageCurrent(h) \/ EnableServices(h)
      BY <2>0, <3>2 DEF StageCurrent, EnableServices
    <3> QED
      BY <2>1, <3>1, <3>2 DEF BringUp
  <2>2. CASE WakeByRelease(h)
    <3>1. call[h].target \in Harts /\ call[h].target # h
      BY <2>2 DEF WakeByRelease
    <3> QED
      BY ZenonT(40), <2>0, <2>2, <3>1 DEF WakeByRelease
  <2>3. CASE WakeByIpi(h) \/ WakeFailed(h) \/ WriteStage(h) \/ StorePending(h)
    BY <2>0, <2>3 DEF WakeByIpi, WakeFailed, WriteStage, StorePending
  <2>4. CASE LocalWork(h)
    BY <2>0, <2>4 DEF LocalWork, ClearCurrent, TakeLocalEvent, TakeStage,
                      DispatchEvent
  <2>5. CASE Stopping(h)
    BY <2>0, <2>5 DEF Stopping, StoreStopped
  <2>6. CASE Suspending(h)
    <3>1. CASE StoreSuspended(h)
      BY <2>0, <3>1 DEF StoreSuspended
    <3>2. CASE BeginNonretentiveResume(h)
      BY <2>0, <3>2 DEF BeginNonretentiveResume
    <3>3. CASE CommitResume(h) \/ StageTransfer(h) \/ PublishResume(h)
      BY <2>0, <3>3 DEF CommitResume, StageTransfer, PublishResume
    <3>4. CASE ResumeRetentive(h) \/ DropTicket(h) \/ EcallReturn(h)
      <4>1. pc[h] \in SuspendSteps /\ pc' = [pc EXCEPT ![h] = "smode"]
        BY <3>4 DEF ResumeRetentive, DropTicket, EcallReturn
      <4>2. UNCHANGED <<checked, caller>>
        BY <3>4 DEF ResumeRetentive, DropTicket, EcallReturn
      <4>3. ~asleep'[h] /\ \A g \in Harts \ {h} : asleep'[g] = asleep[g]
        BY <2>0, <4>1
      <4> QED
        BY <2>0, <4>1, <4>2, <4>3
    <3> QED
      BY <2>6, <3>1, <3>2, <3>3, <3>4 DEF Suspending
  <2>7. CASE DeliverCurrent(h)
    BY <2>0, <2>7 DEF DeliverCurrent, AfterDeliver
  <2>8. CASE Waiting(h)
    BY <2>0, <2>8 DEF Waiting, WfiReturns, SuspendWfiReturns
  <2>9. CASE TrapMachineSoft(h)
    BY <2>0, <2>9 DEF TrapMachineSoft
  <2>10. CASE SbiCall(h)
    BY <2>0, <2>10 DEF SbiCall, HartStart, HartStop, HartSuspend
  <2> QED
    BY <1>5, <2>1, <2>2, <2>3, <2>4, <2>5, <2>6, <2>7, <2>8, <2>9, <2>10
    DEF OtherStep, FirmwareStep, Starting
<1>6. ASSUME NEW h \in Harts, OtherRing(h) PROVE SuspendContext'
  BY <1>6 DEF OtherRing, suspendVars, RingDoorbell, bringUp
<1> QED
  BY <1>1, <1>2, <1>3, <1>4, <1>5, <1>6 DEF SuspendNext

\* A call starts with every other call still to be read, and never ticks off
\* a hart that is inside a call.
LEMMA NextScansCross ==
    ASSUME TypeOK, LifecycleInv, SuspendTypeOK, SuspendInv,
           [SuspendNext]_systemVars
    PROVE  ScansCross'
<1> USE StagesAssumption DEF SuspendTypeOK, SuspendInv, ScansCross, InSystemSuspend
<1>1. ASSUME NEW h \in Harts, NEW s \in Stages, BeginSystemSuspend(h, s)
      PROVE ScansCross'
  <2>1. \A g \in Harts : InSystemSuspend(g) => g \in EnabledHarts
    BY CallerIsUp DEF EnabledHarts
  <2> QED
    BY <1>1, <2>1 DEF BeginSystemSuspend
<1>2. ASSUME NEW h \in Harts, ReadStatus(h) PROVE ScansCross'
  <2>1. CASE Status(NextUnread(h)) = "STOPPED"
    <3>1. \A g \in Harts : InSystemSuspend(g) => g # NextUnread(h)
      BY <2>1, CallerIsUp
    <3> QED
      BY <1>2, <2>1, <3>1 DEF ReadStatus
  <2>2. CASE Status(NextUnread(h)) # "STOPPED"
    BY <1>2, <2>2 DEF ReadStatus, SuspendContext
  <2> QED
    BY <2>1, <2>2
<1>3. CASE UNCHANGED systemVars
  BY <1>3 DEF systemVars, suspendVars
<1>4. ASSUME NEW h \in Harts, SuspendSystem(h) PROVE ScansCross'
  BY <1>4 DEF SuspendSystem
<1>5. ASSUME NEW h \in Harts, OtherStep(h) PROVE ScansCross'
  BY <1>5 DEF OtherStep
<1>6. ASSUME NEW h \in Harts, OtherRing(h) PROVE ScansCross'
  BY <1>6 DEF OtherRing, suspendVars
<1> QED
  BY <1>1, <1>2, <1>3, <1>4, <1>5, <1>6 DEF SuspendNext

\* The invariant of the scans holds along every behaviour.
THEOREM SuspendInvariant == SuspendSpec => []SuspendInv
<1> DEFINE I == TypeOK /\ LifecycleInv /\ SuspendTypeOK /\ SuspendInv
<1>1. SuspendInit => I
  <2> SUFFICES ASSUME SuspendInit PROVE I
    OBVIOUS
  <2>1. TypeOK /\ LifecycleInv
    BY InitTypeOK, InitLifecycleInv DEF SuspendInit
  <2>2. SuspendTypeOK
    BY StagesAssumption DEF SuspendInit, SuspendTypeOK, OptStage
  <2>3. \A h \in Harts : pc[h] \in {"reset", "init_board", "wait_ready"}
    BY DEF SuspendInit, Init
  <2>4. SuspendInv
    BY <2>3 DEF SuspendInit, SuspendInv, SuspendContext, ScansCross, InSystemSuspend
  <2> QED
    BY <2>1, <2>2, <2>4
<1>2. I /\ [SuspendNext]_systemVars => I'
  <2> SUFFICES ASSUME I, [SuspendNext]_systemVars PROVE I'
    OBVIOUS
  <2>1. TypeOK' /\ LifecycleInv'
    BY LifecycleSteps, NextTypeOK, NextLifecycleInv
  <2>2. SuspendTypeOK'
    BY NextSuspendTypeOK
  <2>3. SuspendContext' /\ ScansCross'
    BY NextSuspendContext, NextScansCross DEF SuspendInv
  <2> QED
    BY <2>1, <2>2, <2>3 DEF SuspendInv
<1> QED
  BY <1>1, <1>2, PTL DEF SuspendSpec

\* At most one hart at a time is suspending the system: harts that suspend it
\* have nothing left to read, so neither can have passed over the other.
THEOREM OneSystemSuspendAtATime == SuspendSpec => []OneSystemSuspend
<1>1. SuspendInv => OneSystemSuspend
  BY DEF SuspendInv, SuspendContext, ScansCross, InSystemSuspend, OneSystemSuspend
<1> QED
  BY <1>1, SuspendInvariant, PTL
==============================================================================
