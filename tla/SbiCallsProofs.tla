--------------------------- MODULE SbiCallsProofs ----------------------------
(***************************************************************************)
(* Proofs about SBI calls (SbiCalls): whatever environments there are and  *)
(* however wide a word is, a function of sbi-rt reaches the method of its  *)
(* name with its arguments, its answer comes back, and a structure serves  *)
(* what it announces.                                                      *)
(*                                                                         *)
(* The tables of the library (SbiRt) and of the implementation (SbiTraits) *)
(* are compared entry by entry; the encoding is shown to be undone by the  *)
(* decoding for any two entries that agree; the invariant follows a call   *)
(* from level to level and its answer back.                                *)
(***************************************************************************)
EXTENDS SbiCalls, FiniteSetTheorems, SequenceTheorems, WellFoundedInduction, TLAPS

-----------------------------------------------------------------------------
(* The tables.                                                             *)

\* A function of the library and the method it calls have the same number and
\* types, and name the same registers; the masks of debug triggers do not.
Agrees(f, g, m) ==
    /\ f.fid = g.fid /\ f.u8 = g.u8 /\ f.u32 = g.u32 /\ f.u64 = g.u64
    /\ IF m \in TriggerMasks THEN f.u8 = {} /\ f.u32 = {} /\ f.u64 = {}
       ELSE /\ m \in Pointers \/ f.regs = g.regs
            /\ Len(f.regs) \in 0 .. Len(g.regs)
            /\ \A i \in 1 .. Len(f.regs) : f.regs[i] = g.regs[i]
            /\ \A p \in f.u32 : \E i \in 1 .. Len(f.regs) : f.regs[i] = p

\* A double word is the last parameter, and the parameters have registers.
Sound(f) ==
    /\ Len(f.regs) \in 0 .. 5
    /\ \A i, j \in 1 .. Len(f.regs) : f.regs[i] = f.regs[j] => i = j
    /\ \A i \in 1 .. Len(f.regs) : f.regs[i] \in f.u64 => i = Len(f.regs)
    /\ \A i \in 1 .. Len(f.regs) : f.regs[i] # "extension"
    /\ \A p \in f.u32 : \E i \in 1 .. Len(f.regs) : f.regs[i] = p
    /\ f.u8 \cap f.u32 = {} /\ f.u8 \cap f.u64 = {} /\ f.u32 \cap f.u64 = {}

Same(f, g) == f.fid = g.fid /\ f.regs = g.regs /\ f.u8 = g.u8 /\ f.u32 = g.u32 /\ f.u64 = g.u64

LEMMA SameAgrees ==
    ASSUME NEW f, NEW g, NEW m, Same(f, g), Sound(g), m \notin TriggerMasks
    PROVE  Agrees(f, g, m)
  BY DEF Same, Agrees, Sound


LEMMA InfoSound == \A m \in DOMAIN HandleInfo : Sound(HandleInfo[m])
<1>1. DOMAIN HandleInfo = {"mvendorid", "marchid", "mimpid"}  BY DEF HandleInfo
<1> USE DEF Sound, HandleInfo, Wrapped, Arm
<1>2. Sound(HandleInfo["mvendorid"])  OBVIOUS
<1>3. Sound(HandleInfo["marchid"])  OBVIOUS
<1>4. Sound(HandleInfo["mimpid"])  OBVIOUS
<1> HIDE DEF Sound, HandleInfo, Wrapped, Arm
<1> QED  BY <1>1, <1>2, <1>3, <1>4, Zenon

LEMMA InfoAgrees == \A m \in DOMAIN HandleInfo : m \in DOMAIN RtStandard.BASE /\ Agrees(RtStandard.BASE[m], HandleInfo[m], m)
<1> DEFINE rt == RtBase
<1>1. RtStandard.BASE = rt  BY DEF RtStandard
<1>2. DOMAIN HandleInfo = {"mvendorid", "marchid", "mimpid"}  BY DEF HandleInfo
<1>3. DOMAIN HandleInfo \subseteq DOMAIN rt  BY DEF HandleInfo, RtBase
<1> USE DEF Same, RtBase, Value, Function, HandleInfo, Wrapped, Arm
<1>4. Same(rt["mvendorid"], HandleInfo["mvendorid"])  OBVIOUS
<1>5. Same(rt["marchid"], HandleInfo["marchid"])  OBVIOUS
<1>6. Same(rt["mimpid"], HandleInfo["mimpid"])  OBVIOUS
<1> HIDE DEF Same, RtBase, Value, Function, HandleInfo, Wrapped, Arm, rt
<1>7. ASSUME NEW m \in DOMAIN HandleInfo  PROVE Agrees(rt[m], HandleInfo[m], m)
  <2>1. Sound(HandleInfo[m])  BY InfoSound
  <2>2. m \notin TriggerMasks /\ Same(rt[m], HandleInfo[m]) => Agrees(rt[m], HandleInfo[m], m)
    BY <2>1, SameAgrees, Zenon
  <2>3. m \notin TriggerMasks  BY <1>2 DEF TriggerMasks
  <2> QED  BY <1>2, <2>2, <2>3, <1>4, <1>5, <1>6, Zenon
<1> QED  BY <1>1, <1>3, <1>7, Zenon

LEMMA TimerSound == \A m \in DOMAIN HandleTimer : Sound(HandleTimer[m])
<1>1. DOMAIN HandleTimer = {"set_timer"}  BY DEF HandleTimer
<1> USE DEF Sound, HandleTimer, Arm
<1>2. Sound(HandleTimer["set_timer"])
  <2>1. HandleTimer["set_timer"].regs = <<"stime_value">>  OBVIOUS
  <2>2. HandleTimer["set_timer"].u8 = {} /\ HandleTimer["set_timer"].u32 = {} /\ HandleTimer["set_timer"].u64 = {"stime_value"}  OBVIOUS
  <2> HIDE DEF HandleTimer
  <2> QED  BY <2>1, <2>2
<1> HIDE DEF Sound, HandleTimer, Arm
<1> QED  BY <1>1, <1>2, Zenon

LEMMA TimerAgrees == \A m \in DOMAIN HandleTimer : m \in DOMAIN RtStandard.TIME /\ Agrees(RtStandard.TIME[m], HandleTimer[m], m)
<1> DEFINE rt == RtTime
<1>1. RtStandard.TIME = rt  BY DEF RtStandard
<1>2. DOMAIN HandleTimer = {"set_timer"}  BY DEF HandleTimer
<1>3. DOMAIN HandleTimer \subseteq DOMAIN rt  BY DEF HandleTimer, RtTime
<1> USE DEF Same, RtTime, Long, Function, HandleTimer, Arm
<1>4. Same(rt["set_timer"], HandleTimer["set_timer"])  OBVIOUS
<1> HIDE DEF Same, RtTime, Long, Function, HandleTimer, Arm, rt
<1>5. ASSUME NEW m \in DOMAIN HandleTimer  PROVE Agrees(rt[m], HandleTimer[m], m)
  <2>1. Sound(HandleTimer[m])  BY TimerSound
  <2>2. m \notin TriggerMasks /\ Same(rt[m], HandleTimer[m]) => Agrees(rt[m], HandleTimer[m], m)
    BY <2>1, SameAgrees, Zenon
  <2>3. m \notin TriggerMasks  BY <1>2 DEF TriggerMasks
  <2> QED  BY <1>2, <2>2, <2>3, <1>4, Zenon
<1> QED  BY <1>1, <1>3, <1>5, Zenon

LEMMA IpiSound == \A m \in DOMAIN HandleIpi : Sound(HandleIpi[m])
<1>1. DOMAIN HandleIpi = {"send_ipi"}  BY DEF HandleIpi
<1> USE DEF Sound, HandleIpi, Method, Arm
<1>2. Sound(HandleIpi["send_ipi"])  OBVIOUS
<1> HIDE DEF Sound, HandleIpi, Method, Arm
<1> QED  BY <1>1, <1>2, Zenon

LEMMA IpiAgrees == \A m \in DOMAIN HandleIpi : m \in DOMAIN RtStandard.SPI /\ Agrees(RtStandard.SPI[m], HandleIpi[m], m)
<1> DEFINE rt == RtSpi
<1>1. RtStandard.SPI = rt  BY DEF RtStandard
<1>2. DOMAIN HandleIpi = {"send_ipi"}  BY DEF HandleIpi
<1>3. DOMAIN HandleIpi \subseteq DOMAIN rt  BY DEF HandleIpi, RtSpi
<1> USE DEF Same, RtSpi, Call, Function, HandleIpi, Method, Arm
<1>4. Same(rt["send_ipi"], HandleIpi["send_ipi"])  OBVIOUS
<1> HIDE DEF Same, RtSpi, Call, Function, HandleIpi, Method, Arm, rt
<1>5. ASSUME NEW m \in DOMAIN HandleIpi  PROVE Agrees(rt[m], HandleIpi[m], m)
  <2>1. Sound(HandleIpi[m])  BY IpiSound
  <2>2. m \notin TriggerMasks /\ Same(rt[m], HandleIpi[m]) => Agrees(rt[m], HandleIpi[m], m)
    BY <2>1, SameAgrees, Zenon
  <2>3. m \notin TriggerMasks  BY <1>2 DEF TriggerMasks
  <2> QED  BY <1>2, <2>2, <2>3, <1>4, Zenon
<1> QED  BY <1>1, <1>3, <1>5, Zenon

LEMMA FenceSound == \A m \in DOMAIN HandleFence : Sound(HandleFence[m])
<1>1. DOMAIN HandleFence = {"remote_fence_i", "remote_sfence_vma", "remote_sfence_vma_asid",
      "remote_hfence_gvma_vmid", "remote_hfence_gvma", "remote_hfence_vvma_asid",
      "remote_hfence_vvma"}  BY DEF HandleFence
<1> USE DEF Sound, HandleFence, Method, FenceRange, FenceAsid, FenceVmid, Arm
<1>2. Sound(HandleFence["remote_fence_i"])  OBVIOUS
<1>3. Sound(HandleFence["remote_sfence_vma"])  OBVIOUS
<1>4. Sound(HandleFence["remote_sfence_vma_asid"])  OBVIOUS
<1>5. Sound(HandleFence["remote_hfence_gvma_vmid"])  OBVIOUS
<1>6. Sound(HandleFence["remote_hfence_gvma"])  OBVIOUS
<1>7. Sound(HandleFence["remote_hfence_vvma_asid"])  OBVIOUS
<1>8. Sound(HandleFence["remote_hfence_vvma"])  OBVIOUS
<1> HIDE DEF Sound, HandleFence, Method, FenceRange, FenceAsid, FenceVmid, Arm
<1> QED  BY <1>1, <1>2, <1>3, <1>4, <1>5, <1>6, <1>7, <1>8, Zenon

LEMMA FenceAgrees == \A m \in DOMAIN HandleFence : m \in DOMAIN RtStandard.RFNC /\ Agrees(RtStandard.RFNC[m], HandleFence[m], m)
<1> DEFINE rt == Both(RtFence, RtHfence)
<1>1. RtStandard.RFNC = rt  BY DEF RtStandard
<1>2. DOMAIN HandleFence = {"remote_fence_i", "remote_sfence_vma", "remote_sfence_vma_asid",
      "remote_hfence_gvma_vmid", "remote_hfence_gvma", "remote_hfence_vvma_asid",
      "remote_hfence_vvma"}  BY DEF HandleFence
<1>3. DOMAIN HandleFence \subseteq DOMAIN rt  BY DEF HandleFence, RtFence, RtHfence, Both
<1> USE DEF Same, RtFence, RtHfence, Both, Call, AddressRange, RangeAsid, RangeVmid, Function,
            HandleFence, Method, FenceRange, FenceAsid, FenceVmid, Arm
<1>4. Same(rt["remote_fence_i"], HandleFence["remote_fence_i"])  OBVIOUS
<1>5. Same(rt["remote_sfence_vma"], HandleFence["remote_sfence_vma"])  OBVIOUS
<1>6. Same(rt["remote_sfence_vma_asid"], HandleFence["remote_sfence_vma_asid"])  OBVIOUS
<1>7. Same(rt["remote_hfence_gvma_vmid"], HandleFence["remote_hfence_gvma_vmid"])  OBVIOUS
<1>8. Same(rt["remote_hfence_gvma"], HandleFence["remote_hfence_gvma"])  OBVIOUS
<1>9. Same(rt["remote_hfence_vvma_asid"], HandleFence["remote_hfence_vvma_asid"])  OBVIOUS
<1>10. Same(rt["remote_hfence_vvma"], HandleFence["remote_hfence_vvma"])  OBVIOUS
<1> HIDE DEF Same, RtFence, RtHfence, Both, Call, AddressRange, RangeAsid, RangeVmid, Function,
             HandleFence, Method, FenceRange, FenceAsid, FenceVmid, Arm, rt
<1>11. ASSUME NEW m \in DOMAIN HandleFence  PROVE Agrees(rt[m], HandleFence[m], m)
  <2>1. Sound(HandleFence[m])  BY FenceSound
  <2>2. m \notin TriggerMasks /\ Same(rt[m], HandleFence[m]) => Agrees(rt[m], HandleFence[m], m)
    BY <2>1, SameAgrees, Zenon
  <2>3. m \notin TriggerMasks  BY <1>2 DEF TriggerMasks
  <2> QED  BY <1>2, <2>2, <2>3, <1>4, <1>5, <1>6, <1>7, <1>8, <1>9, <1>10, Zenon
<1> QED  BY <1>1, <1>3, <1>11, Zenon

LEMMA HsmSound == \A m \in DOMAIN HandleHsm : Sound(HandleHsm[m])
<1>1. DOMAIN HandleHsm = {"hart_start", "hart_stop", "hart_get_status", "hart_suspend"}  BY DEF HandleHsm
<1> USE DEF Sound, HandleHsm, Method, Tried, Arm
<1>2. Sound(HandleHsm["hart_start"])  OBVIOUS
<1>3. Sound(HandleHsm["hart_stop"])  OBVIOUS
<1>4. Sound(HandleHsm["hart_get_status"])  OBVIOUS
<1>5. Sound(HandleHsm["hart_suspend"])  OBVIOUS
<1> HIDE DEF Sound, HandleHsm, Method, Tried, Arm
<1> QED  BY <1>1, <1>2, <1>3, <1>4, <1>5, Zenon

LEMMA HsmAgrees == \A m \in DOMAIN HandleHsm : m \in DOMAIN RtStandard.HSM /\ Agrees(RtStandard.HSM[m], HandleHsm[m], m)
<1> DEFINE rt == Both(RtHsm, RtHartSuspend)
<1>1. RtStandard.HSM = rt  BY DEF RtStandard
<1>2. DOMAIN HandleHsm = {"hart_start", "hart_stop", "hart_get_status", "hart_suspend"}  BY DEF HandleHsm
<1>3. DOMAIN HandleHsm \subseteq DOMAIN rt  BY DEF HandleHsm, RtHsm, RtHartSuspend, Both
<1> USE DEF Same, RtHsm, RtHartSuspend, Both, Call, Narrow, Function, HandleHsm, Method, Tried, Arm
<1>4. Same(rt["hart_start"], HandleHsm["hart_start"])  OBVIOUS
<1>5. Same(rt["hart_stop"], HandleHsm["hart_stop"])  OBVIOUS
<1>6. Same(rt["hart_get_status"], HandleHsm["hart_get_status"])  OBVIOUS
<1>7. Same(rt["hart_suspend"], HandleHsm["hart_suspend"])  OBVIOUS
<1> HIDE DEF Same, RtHsm, RtHartSuspend, Both, Call, Narrow, Function, HandleHsm, Method, Tried,
             Arm, rt
<1>8. ASSUME NEW m \in DOMAIN HandleHsm  PROVE Agrees(rt[m], HandleHsm[m], m)
  <2>1. Sound(HandleHsm[m])  BY HsmSound
  <2>2. m \notin TriggerMasks /\ Same(rt[m], HandleHsm[m]) => Agrees(rt[m], HandleHsm[m], m)
    BY <2>1, SameAgrees, Zenon
  <2>3. m \notin TriggerMasks  BY <1>2 DEF TriggerMasks
  <2> QED  BY <1>2, <2>2, <2>3, <1>4, <1>5, <1>6, <1>7, Zenon
<1> QED  BY <1>1, <1>3, <1>8, Zenon

LEMMA ResetSound == \A m \in DOMAIN HandleReset : Sound(HandleReset[m])
<1>1. DOMAIN HandleReset = {"system_reset"}  BY DEF HandleReset
<1> USE DEF Sound, HandleReset, Tried, Arm
<1>2. Sound(HandleReset["system_reset"])  OBVIOUS
<1> HIDE DEF Sound, HandleReset, Tried, Arm
<1> QED  BY <1>1, <1>2, Zenon

LEMMA ResetAgrees == \A m \in DOMAIN HandleReset : m \in DOMAIN RtStandard.SRST /\ Agrees(RtStandard.SRST[m], HandleReset[m], m)
<1> DEFINE rt == RtReset
<1>1. RtStandard.SRST = rt  BY DEF RtStandard
<1>2. DOMAIN HandleReset = {"system_reset"}  BY DEF HandleReset
<1>3. DOMAIN HandleReset \subseteq DOMAIN rt  BY DEF HandleReset, RtReset
<1> USE DEF Same, RtReset, Narrow, Function, HandleReset, Tried, Arm
<1>4. Same(rt["system_reset"], HandleReset["system_reset"])  OBVIOUS
<1> HIDE DEF Same, RtReset, Narrow, Function, HandleReset, Tried, Arm, rt
<1>5. ASSUME NEW m \in DOMAIN HandleReset  PROVE Agrees(rt[m], HandleReset[m], m)
  <2>1. Sound(HandleReset[m])  BY ResetSound
  <2>2. m \notin TriggerMasks /\ Same(rt[m], HandleReset[m]) => Agrees(rt[m], HandleReset[m], m)
    BY <2>1, SameAgrees, Zenon
  <2>3. m \notin TriggerMasks  BY <1>2 DEF TriggerMasks
  <2> QED  BY <1>2, <2>2, <2>3, <1>4, Zenon
<1> QED  BY <1>1, <1>3, <1>5, Zenon

LEMMA PmuSound == \A m \in DOMAIN HandlePmu : Sound(HandlePmu[m])
<1>1. DOMAIN HandlePmu = {"num_counters", "counter_get_info", "counter_config_matching",
      "counter_start", "counter_stop", "counter_fw_read", "counter_fw_read_hi",
      "snapshot_set_shmem"}  BY DEF HandlePmu
<1> USE DEF Sound, HandlePmu, Method, Double, Wrapped, Arm
<1>2. Sound(HandlePmu["num_counters"])  OBVIOUS
<1>3. Sound(HandlePmu["counter_get_info"])  OBVIOUS
<1>4. Sound(HandlePmu["counter_config_matching"])
  <2>1. HandlePmu["counter_config_matching"].regs = <<"counter_idx_base", "counter_idx_mask", "config_flags", "event_idx", "event_data">>  OBVIOUS
  <2>2. HandlePmu["counter_config_matching"].u8 = {} /\ HandlePmu["counter_config_matching"].u32 = {} /\ HandlePmu["counter_config_matching"].u64 = {"event_data"}  OBVIOUS
  <2> HIDE DEF HandlePmu
  <2> QED  BY <2>1, <2>2
<1>5. Sound(HandlePmu["counter_start"])
  <2>1. HandlePmu["counter_start"].regs = <<"counter_idx_base", "counter_idx_mask", "start_flags", "initial_value">>  OBVIOUS
  <2>2. HandlePmu["counter_start"].u8 = {} /\ HandlePmu["counter_start"].u32 = {} /\ HandlePmu["counter_start"].u64 = {"initial_value"}  OBVIOUS
  <2> HIDE DEF HandlePmu
  <2> QED  BY <2>1, <2>2
<1>6. Sound(HandlePmu["counter_stop"])  OBVIOUS
<1>7. Sound(HandlePmu["counter_fw_read"])  OBVIOUS
<1>8. Sound(HandlePmu["counter_fw_read_hi"])  OBVIOUS
<1>9. Sound(HandlePmu["snapshot_set_shmem"])  OBVIOUS
<1> HIDE DEF Sound, HandlePmu, Method, Double, Wrapped, Arm
<1> QED  BY <1>1, <1>2, <1>3, <1>4, <1>5, <1>6, <1>7, <1>8, <1>9, Zenon

LEMMA PmuAgrees == \A m \in DOMAIN HandlePmu : m \in DOMAIN RtStandard.PMU /\ Agrees(RtStandard.PMU[m], HandlePmu[m], m)
<1> DEFINE rt == Both(RtPmu, Both(RtPmuCounters, RtPmuSnapshot))
<1>1. RtStandard.PMU = rt  BY DEF RtStandard
<1>2. DOMAIN HandlePmu = {"num_counters", "counter_get_info", "counter_config_matching",
      "counter_start", "counter_stop", "counter_fw_read", "counter_fw_read_hi",
      "snapshot_set_shmem"}  BY DEF HandlePmu
<1>3. DOMAIN HandlePmu \subseteq DOMAIN rt  BY DEF HandlePmu, RtPmu, RtPmuCounters, RtPmuSnapshot, Both
<1> USE DEF Same, RtPmu, RtPmuCounters, RtPmuSnapshot, Both, Call, Long, Value, Function, HandlePmu,
            Method, Double, Wrapped, Arm
<1>4. Same(rt["num_counters"], HandlePmu["num_counters"])  OBVIOUS
<1>5. Same(rt["counter_get_info"], HandlePmu["counter_get_info"])  OBVIOUS
<1>6. Same(rt["counter_config_matching"], HandlePmu["counter_config_matching"])  OBVIOUS
<1>7. Same(rt["counter_start"], HandlePmu["counter_start"])  OBVIOUS
<1>8. Same(rt["counter_stop"], HandlePmu["counter_stop"])  OBVIOUS
<1>9. Same(rt["counter_fw_read"], HandlePmu["counter_fw_read"])  OBVIOUS
<1>10. Same(rt["counter_fw_read_hi"], HandlePmu["counter_fw_read_hi"])  OBVIOUS
<1>11. Same(rt["snapshot_set_shmem"], HandlePmu["snapshot_set_shmem"])  OBVIOUS
<1> HIDE DEF Same, RtPmu, RtPmuCounters, RtPmuSnapshot, Both, Call, Long, Value, Function,
             HandlePmu, Method, Double, Wrapped, Arm, rt
<1>12. ASSUME NEW m \in DOMAIN HandlePmu  PROVE Agrees(rt[m], HandlePmu[m], m)
  <2>1. Sound(HandlePmu[m])  BY PmuSound
  <2>2. m \notin TriggerMasks /\ Same(rt[m], HandlePmu[m]) => Agrees(rt[m], HandlePmu[m], m)
    BY <2>1, SameAgrees, Zenon
  <2>3. m \notin TriggerMasks  BY <1>2 DEF TriggerMasks
  <2> QED  BY <1>2, <2>2, <2>3, <1>4, <1>5, <1>6, <1>7, <1>8, <1>9, <1>10, <1>11, Zenon
<1> QED  BY <1>1, <1>3, <1>12, Zenon

LEMMA ConsoleSound == \A m \in DOMAIN HandleConsole : Sound(HandleConsole[m])
<1>1. DOMAIN HandleConsole = {"write", "read", "write_byte"}  BY DEF HandleConsole
<1> USE DEF Sound, HandleConsole, Method, Arm
<1>2. Sound(HandleConsole["write"])  OBVIOUS
<1>3. Sound(HandleConsole["read"])  OBVIOUS
<1>4. Sound(HandleConsole["write_byte"])  OBVIOUS
<1> HIDE DEF Sound, HandleConsole, Method, Arm
<1> QED  BY <1>1, <1>2, <1>3, <1>4, Zenon

LEMMA ConsoleAgrees == \A m \in DOMAIN HandleConsole : m \in DOMAIN RtStandard.DBCN /\ Agrees(RtStandard.DBCN[m], HandleConsole[m], m)
<1> DEFINE rt == RtConsole
<1>1. RtStandard.DBCN = rt  BY DEF RtStandard
<1>2. DOMAIN HandleConsole = {"write", "read", "write_byte"}  BY DEF HandleConsole
<1>3. DOMAIN HandleConsole \subseteq DOMAIN rt  BY DEF HandleConsole, RtConsole
<1> USE DEF Same, RtConsole, Call, Function, HandleConsole, Method, Arm
<1>4. Same(rt["write"], HandleConsole["write"])  OBVIOUS
<1>5. Same(rt["read"], HandleConsole["read"])  OBVIOUS
<1>6. Same(rt["write_byte"], HandleConsole["write_byte"])  OBVIOUS
<1> HIDE DEF Same, RtConsole, Call, Function, HandleConsole, Method, Arm, rt
<1>7. ASSUME NEW m \in DOMAIN HandleConsole  PROVE Agrees(rt[m], HandleConsole[m], m)
  <2>1. Sound(HandleConsole[m])  BY ConsoleSound
  <2>2. m \notin TriggerMasks /\ Same(rt[m], HandleConsole[m]) => Agrees(rt[m], HandleConsole[m], m)
    BY <2>1, SameAgrees, Zenon
  <2>3. m \notin TriggerMasks  BY <1>2 DEF TriggerMasks
  <2> QED  BY <1>2, <2>2, <2>3, <1>4, <1>5, <1>6, Zenon
<1> QED  BY <1>1, <1>3, <1>7, Zenon

LEMMA SuspSound == \A m \in DOMAIN HandleSusp : Sound(HandleSusp[m])
<1>1. DOMAIN HandleSusp = {"system_suspend"}  BY DEF HandleSusp
<1> USE DEF Sound, HandleSusp, Tried, Arm
<1>2. Sound(HandleSusp["system_suspend"])  OBVIOUS
<1> HIDE DEF Sound, HandleSusp, Tried, Arm
<1> QED  BY <1>1, <1>2, Zenon

LEMMA SuspAgrees == \A m \in DOMAIN HandleSusp : m \in DOMAIN RtStandard.SUSP /\ Agrees(RtStandard.SUSP[m], HandleSusp[m], m)
<1> DEFINE rt == RtSusp
<1>1. RtStandard.SUSP = rt  BY DEF RtStandard
<1>2. DOMAIN HandleSusp = {"system_suspend"}  BY DEF HandleSusp
<1>3. DOMAIN HandleSusp \subseteq DOMAIN rt  BY DEF HandleSusp, RtSusp
<1> USE DEF Same, RtSusp, Narrow, Function, HandleSusp, Tried, Arm
<1>4. Same(rt["system_suspend"], HandleSusp["system_suspend"])  OBVIOUS
<1> HIDE DEF Same, RtSusp, Narrow, Function, HandleSusp, Tried, Arm, rt
<1>5. ASSUME NEW m \in DOMAIN HandleSusp  PROVE Agrees(rt[m], HandleSusp[m], m)
  <2>1. Sound(HandleSusp[m])  BY SuspSound
  <2>2. m \notin TriggerMasks /\ Same(rt[m], HandleSusp[m]) => Agrees(rt[m], HandleSusp[m], m)
    BY <2>1, SameAgrees, Zenon
  <2>3. m \notin TriggerMasks  BY <1>2 DEF TriggerMasks
  <2> QED  BY <1>2, <2>2, <2>3, <1>4, Zenon
<1> QED  BY <1>1, <1>3, <1>5, Zenon

LEMMA CppcSound == \A m \in DOMAIN HandleCppc : Sound(HandleCppc[m])
<1>1. DOMAIN HandleCppc = {"probe", "read", "read_hi", "write"}  BY DEF HandleCppc
<1> USE DEF Sound, HandleCppc, Tried, Arm
<1>2. Sound(HandleCppc["probe"])  OBVIOUS
<1>3. Sound(HandleCppc["read"])  OBVIOUS
<1>4. Sound(HandleCppc["read_hi"])  OBVIOUS
<1>5. Sound(HandleCppc["write"])
  <2>1. HandleCppc["write"].regs = <<"reg_id", "val">>  OBVIOUS
  <2>2. HandleCppc["write"].u8 = {} /\ HandleCppc["write"].u32 = {"reg_id"} /\ HandleCppc["write"].u64 = {"val"}  OBVIOUS
  <2> HIDE DEF HandleCppc
  <2> QED  BY <2>1, <2>2
<1> HIDE DEF Sound, HandleCppc, Tried, Arm
<1> QED  BY <1>1, <1>2, <1>3, <1>4, <1>5, Zenon

LEMMA CppcAgrees == \A m \in DOMAIN HandleCppc : m \in DOMAIN RtStandard.CPPC /\ Agrees(RtStandard.CPPC[m], HandleCppc[m], m)
<1> DEFINE rt == RtCppc
<1>1. RtStandard.CPPC = rt  BY DEF RtStandard
<1>2. DOMAIN HandleCppc = {"probe", "read", "read_hi", "write"}  BY DEF HandleCppc
<1>3. DOMAIN HandleCppc \subseteq DOMAIN rt  BY DEF HandleCppc, RtCppc
<1> USE DEF Same, RtCppc, Narrow, Function, HandleCppc, Tried, Arm
<1>4. Same(rt["probe"], HandleCppc["probe"])  OBVIOUS
<1>5. Same(rt["read"], HandleCppc["read"])  OBVIOUS
<1>6. Same(rt["read_hi"], HandleCppc["read_hi"])  OBVIOUS
<1>7. Same(rt["write"], HandleCppc["write"])  OBVIOUS
<1> HIDE DEF Same, RtCppc, Narrow, Function, HandleCppc, Tried, Arm, rt
<1>8. ASSUME NEW m \in DOMAIN HandleCppc  PROVE Agrees(rt[m], HandleCppc[m], m)
  <2>1. Sound(HandleCppc[m])  BY CppcSound
  <2>2. m \notin TriggerMasks /\ Same(rt[m], HandleCppc[m]) => Agrees(rt[m], HandleCppc[m], m)
    BY <2>1, SameAgrees, Zenon
  <2>3. m \notin TriggerMasks  BY <1>2 DEF TriggerMasks
  <2> QED  BY <1>2, <2>2, <2>3, <1>4, <1>5, <1>6, <1>7, Zenon
<1> QED  BY <1>1, <1>3, <1>8, Zenon

LEMMA NaclSound == \A m \in DOMAIN HandleNacl : Sound(HandleNacl[m])
<1>1. DOMAIN HandleNacl = {"probe_feature", "set_shmem", "sync_csr", "sync_hfence", "sync_sret"}  BY DEF HandleNacl
<1> USE DEF Sound, HandleNacl, Method, Tried, Arm
<1>2. Sound(HandleNacl["probe_feature"])  OBVIOUS
<1>3. Sound(HandleNacl["set_shmem"])  OBVIOUS
<1>4. Sound(HandleNacl["sync_csr"])  OBVIOUS
<1>5. Sound(HandleNacl["sync_hfence"])  OBVIOUS
<1>6. Sound(HandleNacl["sync_sret"])  OBVIOUS
<1> HIDE DEF Sound, HandleNacl, Method, Tried, Arm
<1> QED  BY <1>1, <1>2, <1>3, <1>4, <1>5, <1>6, Zenon

LEMMA NaclAgrees == \A m \in DOMAIN HandleNacl : m \in DOMAIN RtStandard.NACL /\ Agrees(RtStandard.NACL[m], HandleNacl[m], m)
<1> DEFINE rt == RtNacl
<1>1. RtStandard.NACL = rt  BY DEF RtStandard
<1>2. DOMAIN HandleNacl = {"probe_feature", "set_shmem", "sync_csr", "sync_hfence", "sync_sret"}  BY DEF HandleNacl
<1>3. DOMAIN HandleNacl \subseteq DOMAIN rt  BY DEF HandleNacl, RtNacl
<1> USE DEF Same, RtNacl, Call, Narrow, Function, HandleNacl, Method, Tried, Arm
<1>4. Same(rt["probe_feature"], HandleNacl["probe_feature"])  OBVIOUS
<1>5. Same(rt["set_shmem"], HandleNacl["set_shmem"])  OBVIOUS
<1>6. Same(rt["sync_csr"], HandleNacl["sync_csr"])  OBVIOUS
<1>7. Same(rt["sync_hfence"], HandleNacl["sync_hfence"])  OBVIOUS
<1>8. Same(rt["sync_sret"], HandleNacl["sync_sret"])  OBVIOUS
<1> HIDE DEF Same, RtNacl, Call, Narrow, Function, HandleNacl, Method, Tried, Arm, rt
<1>9. ASSUME NEW m \in DOMAIN HandleNacl  PROVE Agrees(rt[m], HandleNacl[m], m)
  <2>1. Sound(HandleNacl[m])  BY NaclSound
  <2>2. m \notin TriggerMasks /\ Same(rt[m], HandleNacl[m]) => Agrees(rt[m], HandleNacl[m], m)
    BY <2>1, SameAgrees, Zenon
  <2>3. m \notin TriggerMasks  BY <1>2 DEF TriggerMasks
  <2> QED  BY <1>2, <2>2, <2>3, <1>4, <1>5, <1>6, <1>7, <1>8, Zenon
<1> QED  BY <1>1, <1>3, <1>9, Zenon

LEMMA StaSound == \A m \in DOMAIN HandleSta : Sound(HandleSta[m])
<1>1. DOMAIN HandleSta = {"set_shmem"}  BY DEF HandleSta
<1> USE DEF Sound, HandleSta, Method, Arm
<1>2. Sound(HandleSta["set_shmem"])  OBVIOUS
<1> HIDE DEF Sound, HandleSta, Method, Arm
<1> QED  BY <1>1, <1>2, Zenon

LEMMA StaAgrees == \A m \in DOMAIN HandleSta : m \in DOMAIN RtStandard.STA /\ Agrees(RtStandard.STA[m], HandleSta[m], m)
<1> DEFINE rt == RtSta
<1>1. RtStandard.STA = rt  BY DEF RtStandard
<1>2. DOMAIN HandleSta = {"set_shmem"}  BY DEF HandleSta
<1>3. DOMAIN HandleSta \subseteq DOMAIN rt  BY DEF HandleSta, RtSta
<1> USE DEF Same, RtSta, Call, Function, HandleSta, Method, Arm
<1>4. Same(rt["set_shmem"], HandleSta["set_shmem"])  OBVIOUS
<1> HIDE DEF Same, RtSta, Call, Function, HandleSta, Method, Arm, rt
<1>5. ASSUME NEW m \in DOMAIN HandleSta  PROVE Agrees(rt[m], HandleSta[m], m)
  <2>1. Sound(HandleSta[m])  BY StaSound
  <2>2. m \notin TriggerMasks /\ Same(rt[m], HandleSta[m]) => Agrees(rt[m], HandleSta[m], m)
    BY <2>1, SameAgrees, Zenon
  <2>3. m \notin TriggerMasks  BY <1>2 DEF TriggerMasks
  <2> QED  BY <1>2, <2>2, <2>3, <1>4, Zenon
<1> QED  BY <1>1, <1>3, <1>5, Zenon

LEMMA SseSound == \A m \in DOMAIN HandleSse : Sound(HandleSse[m])
<1>1. DOMAIN HandleSse = {"read_attrs", "write_attrs", "register", "unregister", "enable",
      "disable", "complete", "inject", "hart_unmask", "hart_mask"}  BY DEF HandleSse
<1> USE DEF Sound, HandleSse, Method, Tried, Arm
<1>2. Sound(HandleSse["read_attrs"])  OBVIOUS
<1>3. Sound(HandleSse["write_attrs"])  OBVIOUS
<1>4. Sound(HandleSse["register"])  OBVIOUS
<1>5. Sound(HandleSse["unregister"])  OBVIOUS
<1>6. Sound(HandleSse["enable"])  OBVIOUS
<1>7. Sound(HandleSse["disable"])  OBVIOUS
<1>8. Sound(HandleSse["complete"])  OBVIOUS
<1>9. Sound(HandleSse["inject"])  OBVIOUS
<1>10. Sound(HandleSse["hart_unmask"])  OBVIOUS
<1>11. Sound(HandleSse["hart_mask"])  OBVIOUS
<1> HIDE DEF Sound, HandleSse, Method, Tried, Arm
<1> QED  BY <1>1, <1>2, <1>3, <1>4, <1>5, <1>6, <1>7, <1>8, <1>9, <1>10, <1>11, Zenon

LEMMA SseAgrees == \A m \in DOMAIN HandleSse : m \in DOMAIN RtStandard.SSE /\ Agrees(RtStandard.SSE[m], HandleSse[m], m)
<1> DEFINE rt == Both(RtSseAttrs, RtSse)
<1>1. RtStandard.SSE = rt  BY DEF RtStandard
<1>2. DOMAIN HandleSse = {"read_attrs", "write_attrs", "register", "unregister", "enable",
      "disable", "complete", "inject", "hart_unmask", "hart_mask"}  BY DEF HandleSse
<1>3. DOMAIN HandleSse \subseteq DOMAIN rt  BY DEF HandleSse, RtSseAttrs, RtSse, Both
<1> USE DEF Same, RtSseAttrs, RtSse, Both, Narrow, Call, Function, HandleSse, Method, Tried, Arm
<1>4. Same(rt["read_attrs"], HandleSse["read_attrs"])  OBVIOUS
<1>5. Same(rt["write_attrs"], HandleSse["write_attrs"])  OBVIOUS
<1>6. Same(rt["register"], HandleSse["register"])  OBVIOUS
<1>7. Same(rt["unregister"], HandleSse["unregister"])  OBVIOUS
<1>8. Same(rt["enable"], HandleSse["enable"])  OBVIOUS
<1>9. Same(rt["disable"], HandleSse["disable"])  OBVIOUS
<1>10. Same(rt["complete"], HandleSse["complete"])  OBVIOUS
<1>11. Same(rt["inject"], HandleSse["inject"])  OBVIOUS
<1>12. Same(rt["hart_unmask"], HandleSse["hart_unmask"])  OBVIOUS
<1>13. Same(rt["hart_mask"], HandleSse["hart_mask"])  OBVIOUS
<1> HIDE DEF Same, RtSseAttrs, RtSse, Both, Narrow, Call, Function, HandleSse, Method, Tried, Arm,
             rt
<1>14. ASSUME NEW m \in DOMAIN HandleSse  PROVE Agrees(rt[m], HandleSse[m], m)
  <2>1. Sound(HandleSse[m])  BY SseSound
  <2>2. m \notin TriggerMasks /\ Same(rt[m], HandleSse[m]) => Agrees(rt[m], HandleSse[m], m)
    BY <2>1, SameAgrees, Zenon
  <2>3. m \notin TriggerMasks  BY <1>2 DEF TriggerMasks
  <2> QED  BY <1>2, <2>2, <2>3, <1>4, <1>5, <1>6, <1>7, <1>8, <1>9, <1>10, <1>11, <1>12, <1>13,
              Zenon
<1> QED  BY <1>1, <1>3, <1>14, Zenon

LEMMA FwftSound == \A m \in DOMAIN HandleFwft : Sound(HandleFwft[m])
<1>1. DOMAIN HandleFwft = {"set", "get"}  BY DEF HandleFwft
<1> USE DEF Sound, HandleFwft, Tried, Arm
<1>2. Sound(HandleFwft["set"])  OBVIOUS
<1>3. Sound(HandleFwft["get"])  OBVIOUS
<1> HIDE DEF Sound, HandleFwft, Tried, Arm
<1> QED  BY <1>1, <1>2, <1>3, Zenon

LEMMA FwftAgrees == \A m \in DOMAIN HandleFwft : m \in DOMAIN RtStandard.FWFT /\ Agrees(RtStandard.FWFT[m], HandleFwft[m], m)
<1> DEFINE rt == RtFwft
<1>1. RtStandard.FWFT = rt  BY DEF RtStandard
<1>2. DOMAIN HandleFwft = {"set", "get"}  BY DEF HandleFwft
<1>3. DOMAIN HandleFwft \subseteq DOMAIN rt  BY DEF HandleFwft, RtFwft
<1> USE DEF Same, RtFwft, Narrow, Function, HandleFwft, Tried, Arm
<1>4. Same(rt["set"], HandleFwft["set"])  OBVIOUS
<1>5. Same(rt["get"], HandleFwft["get"])  OBVIOUS
<1> HIDE DEF Same, RtFwft, Narrow, Function, HandleFwft, Tried, Arm, rt
<1>6. ASSUME NEW m \in DOMAIN HandleFwft  PROVE Agrees(rt[m], HandleFwft[m], m)
  <2>1. Sound(HandleFwft[m])  BY FwftSound
  <2>2. m \notin TriggerMasks /\ Same(rt[m], HandleFwft[m]) => Agrees(rt[m], HandleFwft[m], m)
    BY <2>1, SameAgrees, Zenon
  <2>3. m \notin TriggerMasks  BY <1>2 DEF TriggerMasks
  <2> QED  BY <1>2, <2>2, <2>3, <1>4, <1>5, Zenon
<1> QED  BY <1>1, <1>3, <1>6, Zenon

LEMMA DbtrSound == \A m \in DOMAIN HandleDbtr : Sound(HandleDbtr[m])
<1>1. DOMAIN HandleDbtr = {"num_triggers", "set_shmem", "read_triggers", "install_triggers",
      "update_triggers", "uninstall_triggers", "enable_triggers", "disable_triggers"}  BY DEF HandleDbtr
<1> USE DEF Sound, HandleDbtr, Method, Wrapped, Arm
<1>2. Sound(HandleDbtr["num_triggers"])  OBVIOUS
<1>3. Sound(HandleDbtr["set_shmem"])  OBVIOUS
<1>4. Sound(HandleDbtr["read_triggers"])  OBVIOUS
<1>5. Sound(HandleDbtr["install_triggers"])  OBVIOUS
<1>6. Sound(HandleDbtr["update_triggers"])  OBVIOUS
<1>7. Sound(HandleDbtr["uninstall_triggers"])  OBVIOUS
<1>8. Sound(HandleDbtr["enable_triggers"])  OBVIOUS
<1>9. Sound(HandleDbtr["disable_triggers"])  OBVIOUS
<1> HIDE DEF Sound, HandleDbtr, Method, Wrapped, Arm
<1> QED  BY <1>1, <1>2, <1>3, <1>4, <1>5, <1>6, <1>7, <1>8, <1>9, Zenon

LEMMA DbtrAgrees == \A m \in DOMAIN HandleDbtr : m \in DOMAIN RtStandard.DBTR /\ Agrees(RtStandard.DBTR[m], HandleDbtr[m], m)
<1> DEFINE rt == Both(RtDbtr, RtDbtrMasks)
<1>1. RtStandard.DBTR = rt  BY DEF RtStandard
<1>2. DOMAIN HandleDbtr = {"num_triggers", "set_shmem", "read_triggers", "install_triggers",
      "update_triggers", "uninstall_triggers", "enable_triggers", "disable_triggers"}  BY DEF HandleDbtr
<1>3. DOMAIN HandleDbtr \subseteq DOMAIN rt  BY DEF HandleDbtr, RtDbtr, RtDbtrMasks, Both
<1> USE DEF Same, RtDbtr, RtDbtrMasks, Both, Call, Value, Function, HandleDbtr, Method, Wrapped, Arm
<1>4. Same(rt["num_triggers"], HandleDbtr["num_triggers"])  OBVIOUS
<1>5. Same(rt["set_shmem"], HandleDbtr["set_shmem"])  OBVIOUS
<1>6. Same(rt["read_triggers"], HandleDbtr["read_triggers"])  OBVIOUS
<1>7. Same(rt["install_triggers"], HandleDbtr["install_triggers"])  OBVIOUS
<1>8. Same(rt["update_triggers"], HandleDbtr["update_triggers"])  OBVIOUS
<1>9. Agrees(rt["uninstall_triggers"], HandleDbtr["uninstall_triggers"], "uninstall_triggers")  BY DEF Agrees, TriggerMasks, Pointers
<1>10. Agrees(rt["enable_triggers"], HandleDbtr["enable_triggers"], "enable_triggers")  BY DEF Agrees, TriggerMasks, Pointers
<1>11. Agrees(rt["disable_triggers"], HandleDbtr["disable_triggers"], "disable_triggers")  BY DEF Agrees, TriggerMasks, Pointers
<1> HIDE DEF Same, RtDbtr, RtDbtrMasks, Both, Call, Value, Function, HandleDbtr, Method, Wrapped,
             Arm, rt
<1>12. ASSUME NEW m \in DOMAIN HandleDbtr  PROVE Agrees(rt[m], HandleDbtr[m], m)
  <2>1. Sound(HandleDbtr[m])  BY DbtrSound
  <2>2. m \notin TriggerMasks /\ Same(rt[m], HandleDbtr[m]) => Agrees(rt[m], HandleDbtr[m], m)
    BY <2>1, SameAgrees, Zenon
  <2>3. m \in {"num_triggers", "set_shmem", "read_triggers", "install_triggers", "update_triggers"} => m \notin TriggerMasks  BY DEF TriggerMasks
  <2> QED  BY <1>2, <2>2, <2>3, <1>4, <1>5, <1>6, <1>7, <1>8, <1>9, <1>10, <1>11, Zenon
<1> QED  BY <1>1, <1>3, <1>12, Zenon

LEMMA MpxySound == \A m \in DOMAIN HandleMpxy : Sound(HandleMpxy[m])
<1>1. DOMAIN HandleMpxy = {"get_shmem_size", "set_shmem", "get_channel_ids", "read_attributes",
      "write_attributes", "send_message_with_response", "send_message_without_response",
      "get_notification_events"}  BY DEF HandleMpxy
<1> USE DEF Sound, HandleMpxy, Method, Tried, Wrapped, Arm
<1>2. Sound(HandleMpxy["get_shmem_size"])  OBVIOUS
<1>3. Sound(HandleMpxy["set_shmem"])  OBVIOUS
<1>4. Sound(HandleMpxy["get_channel_ids"])  OBVIOUS
<1>5. Sound(HandleMpxy["read_attributes"])  OBVIOUS
<1>6. Sound(HandleMpxy["write_attributes"])  OBVIOUS
<1>7. Sound(HandleMpxy["send_message_with_response"])  OBVIOUS
<1>8. Sound(HandleMpxy["send_message_without_response"])  OBVIOUS
<1>9. Sound(HandleMpxy["get_notification_events"])  OBVIOUS
<1> HIDE DEF Sound, HandleMpxy, Method, Tried, Wrapped, Arm
<1> QED  BY <1>1, <1>2, <1>3, <1>4, <1>5, <1>6, <1>7, <1>8, <1>9, Zenon

LEMMA MpxyAgrees == \A m \in DOMAIN HandleMpxy : m \in DOMAIN RtStandard.MPXY /\ Agrees(RtStandard.MPXY[m], HandleMpxy[m], m)
<1> DEFINE rt == Both(RtMpxy, Both(RtMpxyAttributes, RtMpxyMessages))
<1>1. RtStandard.MPXY = rt  BY DEF RtStandard
<1>2. DOMAIN HandleMpxy = {"get_shmem_size", "set_shmem", "get_channel_ids", "read_attributes",
      "write_attributes", "send_message_with_response", "send_message_without_response",
      "get_notification_events"}  BY DEF HandleMpxy
<1>3. DOMAIN HandleMpxy \subseteq DOMAIN rt  BY DEF HandleMpxy, RtMpxy, RtMpxyAttributes, RtMpxyMessages, Both
<1> USE DEF Same, RtMpxy, RtMpxyAttributes, RtMpxyMessages, Both, Call, Narrow, Value, Attributes,
            Message, Function, HandleMpxy, Method, Tried, Wrapped, Arm
<1>4. Same(rt["get_shmem_size"], HandleMpxy["get_shmem_size"])  OBVIOUS
<1>5. Same(rt["set_shmem"], HandleMpxy["set_shmem"])  OBVIOUS
<1>6. Same(rt["get_channel_ids"], HandleMpxy["get_channel_ids"])  OBVIOUS
<1>7. Agrees(rt["read_attributes"], HandleMpxy["read_attributes"], "read_attributes")
  <2>1. rt["read_attributes"].regs = <<"channel_id", "base_attribute_id", "attribute_count">>  OBVIOUS
  <2>2. HandleMpxy["read_attributes"].regs =
            <<"channel_id", "base_attribute_id", "attribute_count", "output_lo", "output_hi">>  OBVIOUS
  <2>3. rt["read_attributes"].fid = HandleMpxy["read_attributes"].fid /\ rt["read_attributes"].u8 = HandleMpxy["read_attributes"].u8  OBVIOUS
  <2>4. rt["read_attributes"].u32 = HandleMpxy["read_attributes"].u32 /\ rt["read_attributes"].u64 = HandleMpxy["read_attributes"].u64  OBVIOUS
  <2>5. rt["read_attributes"].u32 = {"channel_id", "base_attribute_id", "attribute_count"}  OBVIOUS
  <2> HIDE DEF HandleMpxy, rt
  <2> QED  BY <2>1, <2>2, <2>3, <2>4, <2>5 DEF Agrees, TriggerMasks, Pointers
<1>8. Agrees(rt["write_attributes"], HandleMpxy["write_attributes"], "write_attributes")
  <2>1. rt["write_attributes"].regs = <<"channel_id", "base_attribute_id", "attribute_count">>  OBVIOUS
  <2>2. HandleMpxy["write_attributes"].regs =
            <<"channel_id", "base_attribute_id", "attribute_count", "input_lo", "input_hi">>  OBVIOUS
  <2>3. rt["write_attributes"].fid = HandleMpxy["write_attributes"].fid /\ rt["write_attributes"].u8 = HandleMpxy["write_attributes"].u8  OBVIOUS
  <2>4. rt["write_attributes"].u32 = HandleMpxy["write_attributes"].u32 /\ rt["write_attributes"].u64 = HandleMpxy["write_attributes"].u64  OBVIOUS
  <2>5. rt["write_attributes"].u32 = {"channel_id", "base_attribute_id", "attribute_count"}  OBVIOUS
  <2> HIDE DEF HandleMpxy, rt
  <2> QED  BY <2>1, <2>2, <2>3, <2>4, <2>5 DEF Agrees, TriggerMasks, Pointers
<1>9. Same(rt["send_message_with_response"], HandleMpxy["send_message_with_response"])  OBVIOUS
<1>10. Same(rt["send_message_without_response"], HandleMpxy["send_message_without_response"])  OBVIOUS
<1>11. Same(rt["get_notification_events"], HandleMpxy["get_notification_events"])  OBVIOUS
<1> HIDE DEF Same, RtMpxy, RtMpxyAttributes, RtMpxyMessages, Both, Call, Narrow, Value, Attributes,
             Message, Function, HandleMpxy, Method, Tried, Wrapped, Arm, rt
<1>12. ASSUME NEW m \in DOMAIN HandleMpxy  PROVE Agrees(rt[m], HandleMpxy[m], m)
  <2>1. Sound(HandleMpxy[m])  BY MpxySound
  <2>2. m \notin TriggerMasks /\ Same(rt[m], HandleMpxy[m]) => Agrees(rt[m], HandleMpxy[m], m)
    BY <2>1, SameAgrees, Zenon
  <2>3. m \in {"get_shmem_size", "set_shmem", "get_channel_ids", "send_message_with_response", "send_message_without_response", "get_notification_events"} => m \notin TriggerMasks  BY DEF TriggerMasks
  <2> QED  BY <1>2, <2>2, <2>3, <1>4, <1>5, <1>6, <1>7, <1>8, <1>9, <1>10, <1>11, Zenon
<1> QED  BY <1>1, <1>3, <1>12, Zenon

LEMMA InfoNames ==
    /\ \A m, n \in DOMAIN HandleInfo : HandleInfo[m].fid = HandleInfo[n].fid => m = n
    /\ \A m \in DOMAIN HandleInfo : m # "handle" /\ (HandleInfo[m].u8 # {} => m = "write_byte")
    /\ \A m \in DOMAIN HandleInfo : HandleInfo[m].fid \in 4 .. 6
    /\ \A fn \in DOMAIN RtStandard.BASE : fn # "raw" /\ (fn \in DOMAIN HandleInfo \/ RtStandard.BASE[fn].fid \in 0 .. 3)
<1>1. \A m, n \in DOMAIN HandleInfo : HandleInfo[m].fid = HandleInfo[n].fid => m = n  BY DEF HandleInfo, Wrapped, Arm
<1>2. \A m \in DOMAIN HandleInfo : m # "handle" /\ (HandleInfo[m].u8 # {} => m = "write_byte")  BY DEF HandleInfo, Wrapped, Arm
<1>3. \A m \in DOMAIN HandleInfo : HandleInfo[m].fid \in 4 .. 6  BY DEF HandleInfo, Wrapped, Arm
<1>4. \A fn \in DOMAIN RtBase : fn # "raw" /\ (fn \in DOMAIN HandleInfo \/ RtBase[fn].fid \in 0 .. 3)  BY DEF HandleInfo, RtBase, Value, Function
<1>5. RtStandard.BASE = RtBase  BY DEF RtStandard
<1> QED  BY <1>1, <1>2, <1>3, <1>4, <1>5

LEMMA TimerNames ==
    /\ \A m, n \in DOMAIN HandleTimer : HandleTimer[m].fid = HandleTimer[n].fid => m = n
    /\ \A m \in DOMAIN HandleTimer : m # "handle" /\ (HandleTimer[m].u8 # {} => m = "write_byte")
    /\ \A fn \in DOMAIN RtStandard.TIME : fn # "raw" /\ fn \in DOMAIN HandleTimer
<1>1. \A m, n \in DOMAIN HandleTimer : HandleTimer[m].fid = HandleTimer[n].fid => m = n
  BY DEF HandleTimer, Arm
<1>2. \A m \in DOMAIN HandleTimer : m # "handle" /\ (HandleTimer[m].u8 # {} => m = "write_byte")
  BY DEF HandleTimer, Arm
<1>3. \A fn \in DOMAIN RtTime : fn # "raw" /\ fn \in DOMAIN HandleTimer
  BY DEF HandleTimer, RtTime
<1>4. RtStandard.TIME = RtTime  BY DEF RtStandard
<1> QED  BY <1>1, <1>2, <1>3, <1>4

LEMMA IpiNames ==
    /\ \A m, n \in DOMAIN HandleIpi : HandleIpi[m].fid = HandleIpi[n].fid => m = n
    /\ \A m \in DOMAIN HandleIpi : m # "handle" /\ (HandleIpi[m].u8 # {} => m = "write_byte")
    /\ \A fn \in DOMAIN RtStandard.SPI : fn # "raw" /\ fn \in DOMAIN HandleIpi
<1>1. \A m, n \in DOMAIN HandleIpi : HandleIpi[m].fid = HandleIpi[n].fid => m = n
  BY DEF HandleIpi, Method, Arm
<1>2. \A m \in DOMAIN HandleIpi : m # "handle" /\ (HandleIpi[m].u8 # {} => m = "write_byte")
  BY DEF HandleIpi, Method, Arm
<1>3. \A fn \in DOMAIN RtSpi : fn # "raw" /\ fn \in DOMAIN HandleIpi
  BY DEF HandleIpi, RtSpi
<1>4. RtStandard.SPI = RtSpi  BY DEF RtStandard
<1> QED  BY <1>1, <1>2, <1>3, <1>4

LEMMA FenceNames ==
    /\ \A m, n \in DOMAIN HandleFence : HandleFence[m].fid = HandleFence[n].fid => m = n
    /\ \A m \in DOMAIN HandleFence : m # "handle" /\ (HandleFence[m].u8 # {} => m = "write_byte")
    /\ \A fn \in DOMAIN RtStandard.RFNC : fn # "raw" /\ fn \in DOMAIN HandleFence
<1>1. \A m, n \in DOMAIN HandleFence : HandleFence[m].fid = HandleFence[n].fid => m = n
  BY DEF HandleFence, Method, FenceRange, FenceAsid, FenceVmid, Arm
<1>2. \A m \in DOMAIN HandleFence : m # "handle" /\ (HandleFence[m].u8 # {} => m = "write_byte")
  BY DEF HandleFence, Method, FenceRange, FenceAsid, FenceVmid, Arm
<1>3. \A fn \in DOMAIN Both(RtFence, RtHfence) : fn # "raw" /\ fn \in DOMAIN HandleFence
  BY DEF HandleFence, RtFence, RtHfence, Both
<1>4. RtStandard.RFNC = Both(RtFence, RtHfence)  BY DEF RtStandard
<1> QED  BY <1>1, <1>2, <1>3, <1>4

LEMMA HsmNames ==
    /\ \A m, n \in DOMAIN HandleHsm : HandleHsm[m].fid = HandleHsm[n].fid => m = n
    /\ \A m \in DOMAIN HandleHsm : m # "handle" /\ (HandleHsm[m].u8 # {} => m = "write_byte")
    /\ \A fn \in DOMAIN RtStandard.HSM : fn # "raw" /\ fn \in DOMAIN HandleHsm
<1>1. \A m, n \in DOMAIN HandleHsm : HandleHsm[m].fid = HandleHsm[n].fid => m = n
  BY DEF HandleHsm, Method, Tried, Arm
<1>2. \A m \in DOMAIN HandleHsm : m # "handle" /\ (HandleHsm[m].u8 # {} => m = "write_byte")
  BY DEF HandleHsm, Method, Tried, Arm
<1>3. \A fn \in DOMAIN Both(RtHsm, RtHartSuspend) : fn # "raw" /\ fn \in DOMAIN HandleHsm
  BY DEF HandleHsm, RtHsm, RtHartSuspend, Both
<1>4. RtStandard.HSM = Both(RtHsm, RtHartSuspend)  BY DEF RtStandard
<1> QED  BY <1>1, <1>2, <1>3, <1>4

LEMMA ResetNames ==
    /\ \A m, n \in DOMAIN HandleReset : HandleReset[m].fid = HandleReset[n].fid => m = n
    /\ \A m \in DOMAIN HandleReset : m # "handle" /\ (HandleReset[m].u8 # {} => m = "write_byte")
    /\ \A fn \in DOMAIN RtStandard.SRST : fn # "raw" /\ fn \in DOMAIN HandleReset
<1>1. \A m, n \in DOMAIN HandleReset : HandleReset[m].fid = HandleReset[n].fid => m = n
  BY DEF HandleReset, Tried, Arm
<1>2. \A m \in DOMAIN HandleReset : m # "handle" /\ (HandleReset[m].u8 # {} => m = "write_byte")
  BY DEF HandleReset, Tried, Arm
<1>3. \A fn \in DOMAIN RtReset : fn # "raw" /\ fn \in DOMAIN HandleReset
  BY DEF HandleReset, RtReset
<1>4. RtStandard.SRST = RtReset  BY DEF RtStandard
<1> QED  BY <1>1, <1>2, <1>3, <1>4

LEMMA PmuNames ==
    /\ \A m, n \in DOMAIN HandlePmu : HandlePmu[m].fid = HandlePmu[n].fid => m = n
    /\ \A m \in DOMAIN HandlePmu : m # "handle" /\ (HandlePmu[m].u8 # {} => m = "write_byte")
    /\ \A fn \in DOMAIN RtStandard.PMU : fn # "raw" /\ fn \in DOMAIN HandlePmu
<1>1. \A m, n \in DOMAIN HandlePmu : HandlePmu[m].fid = HandlePmu[n].fid => m = n
  BY DEF HandlePmu, Method, Double, Wrapped, Arm
<1>2. \A m \in DOMAIN HandlePmu : m # "handle" /\ (HandlePmu[m].u8 # {} => m = "write_byte")
  BY DEF HandlePmu, Method, Double, Wrapped, Arm
<1>3. \A fn \in DOMAIN Both(RtPmu, Both(RtPmuCounters, RtPmuSnapshot)) : fn # "raw" /\ fn \in DOMAIN HandlePmu
  BY DEF HandlePmu, RtPmu, RtPmuCounters, RtPmuSnapshot, Both
<1>4. RtStandard.PMU = Both(RtPmu, Both(RtPmuCounters, RtPmuSnapshot))  BY DEF RtStandard
<1> QED  BY <1>1, <1>2, <1>3, <1>4

LEMMA ConsoleNames ==
    /\ \A m, n \in DOMAIN HandleConsole : HandleConsole[m].fid = HandleConsole[n].fid => m = n
    /\ \A m \in DOMAIN HandleConsole : m # "handle" /\ (HandleConsole[m].u8 # {} => m = "write_byte")
    /\ \A fn \in DOMAIN RtStandard.DBCN : fn # "raw" /\ fn \in DOMAIN HandleConsole
<1>1. \A m, n \in DOMAIN HandleConsole : HandleConsole[m].fid = HandleConsole[n].fid => m = n
  BY DEF HandleConsole, Method, Arm
<1>2. \A m \in DOMAIN HandleConsole : m # "handle" /\ (HandleConsole[m].u8 # {} => m = "write_byte")
  BY DEF HandleConsole, Method, Arm
<1>3. \A fn \in DOMAIN RtConsole : fn # "raw" /\ fn \in DOMAIN HandleConsole
  BY DEF HandleConsole, RtConsole
<1>4. RtStandard.DBCN = RtConsole  BY DEF RtStandard
<1> QED  BY <1>1, <1>2, <1>3, <1>4

LEMMA SuspNames ==
    /\ \A m, n \in DOMAIN HandleSusp : HandleSusp[m].fid = HandleSusp[n].fid => m = n
    /\ \A m \in DOMAIN HandleSusp : m # "handle" /\ (HandleSusp[m].u8 # {} => m = "write_byte")
    /\ \A fn \in DOMAIN RtStandard.SUSP : fn # "raw" /\ fn \in DOMAIN HandleSusp
<1>1. \A m, n \in DOMAIN HandleSusp : HandleSusp[m].fid = HandleSusp[n].fid => m = n
  BY DEF HandleSusp, Tried, Arm
<1>2. \A m \in DOMAIN HandleSusp : m # "handle" /\ (HandleSusp[m].u8 # {} => m = "write_byte")
  BY DEF HandleSusp, Tried, Arm
<1>3. \A fn \in DOMAIN RtSusp : fn # "raw" /\ fn \in DOMAIN HandleSusp
  BY DEF HandleSusp, RtSusp
<1>4. RtStandard.SUSP = RtSusp  BY DEF RtStandard
<1> QED  BY <1>1, <1>2, <1>3, <1>4

LEMMA CppcNames ==
    /\ \A m, n \in DOMAIN HandleCppc : HandleCppc[m].fid = HandleCppc[n].fid => m = n
    /\ \A m \in DOMAIN HandleCppc : m # "handle" /\ (HandleCppc[m].u8 # {} => m = "write_byte")
    /\ \A fn \in DOMAIN RtStandard.CPPC : fn # "raw" /\ fn \in DOMAIN HandleCppc
<1>1. \A m, n \in DOMAIN HandleCppc : HandleCppc[m].fid = HandleCppc[n].fid => m = n
  BY DEF HandleCppc, Tried, Arm
<1>2. \A m \in DOMAIN HandleCppc : m # "handle" /\ (HandleCppc[m].u8 # {} => m = "write_byte")
  BY DEF HandleCppc, Tried, Arm
<1>3. \A fn \in DOMAIN RtCppc : fn # "raw" /\ fn \in DOMAIN HandleCppc
  BY DEF HandleCppc, RtCppc
<1>4. RtStandard.CPPC = RtCppc  BY DEF RtStandard
<1> QED  BY <1>1, <1>2, <1>3, <1>4

LEMMA NaclNames ==
    /\ \A m, n \in DOMAIN HandleNacl : HandleNacl[m].fid = HandleNacl[n].fid => m = n
    /\ \A m \in DOMAIN HandleNacl : m # "handle" /\ (HandleNacl[m].u8 # {} => m = "write_byte")
    /\ \A fn \in DOMAIN RtStandard.NACL : fn # "raw" /\ fn \in DOMAIN HandleNacl
<1>1. \A m, n \in DOMAIN HandleNacl : HandleNacl[m].fid = HandleNacl[n].fid => m = n
  BY DEF HandleNacl, Method, Tried, Arm
<1>2. \A m \in DOMAIN HandleNacl : m # "handle" /\ (HandleNacl[m].u8 # {} => m = "write_byte")
  BY DEF HandleNacl, Method, Tried, Arm
<1>3. \A fn \in DOMAIN RtNacl : fn # "raw" /\ fn \in DOMAIN HandleNacl
  BY DEF HandleNacl, RtNacl
<1>4. RtStandard.NACL = RtNacl  BY DEF RtStandard
<1> QED  BY <1>1, <1>2, <1>3, <1>4

LEMMA StaNames ==
    /\ \A m, n \in DOMAIN HandleSta : HandleSta[m].fid = HandleSta[n].fid => m = n
    /\ \A m \in DOMAIN HandleSta : m # "handle" /\ (HandleSta[m].u8 # {} => m = "write_byte")
    /\ \A fn \in DOMAIN RtStandard.STA : fn # "raw" /\ fn \in DOMAIN HandleSta
<1>1. \A m, n \in DOMAIN HandleSta : HandleSta[m].fid = HandleSta[n].fid => m = n
  BY DEF HandleSta, Method, Arm
<1>2. \A m \in DOMAIN HandleSta : m # "handle" /\ (HandleSta[m].u8 # {} => m = "write_byte")
  BY DEF HandleSta, Method, Arm
<1>3. \A fn \in DOMAIN RtSta : fn # "raw" /\ fn \in DOMAIN HandleSta
  BY DEF HandleSta, RtSta
<1>4. RtStandard.STA = RtSta  BY DEF RtStandard
<1> QED  BY <1>1, <1>2, <1>3, <1>4

LEMMA SseNames ==
    /\ \A m, n \in DOMAIN HandleSse : HandleSse[m].fid = HandleSse[n].fid => m = n
    /\ \A m \in DOMAIN HandleSse : m # "handle" /\ (HandleSse[m].u8 # {} => m = "write_byte")
    /\ \A fn \in DOMAIN RtStandard.SSE : fn # "raw" /\ fn \in DOMAIN HandleSse
<1>1. \A m, n \in DOMAIN HandleSse : HandleSse[m].fid = HandleSse[n].fid => m = n
  BY DEF HandleSse, Method, Tried, Arm
<1>2. \A m \in DOMAIN HandleSse : m # "handle" /\ (HandleSse[m].u8 # {} => m = "write_byte")
  BY DEF HandleSse, Method, Tried, Arm
<1>3. \A fn \in DOMAIN Both(RtSseAttrs, RtSse) : fn # "raw" /\ fn \in DOMAIN HandleSse
  BY DEF HandleSse, RtSseAttrs, RtSse, Both
<1>4. RtStandard.SSE = Both(RtSseAttrs, RtSse)  BY DEF RtStandard
<1> QED  BY <1>1, <1>2, <1>3, <1>4

LEMMA FwftNames ==
    /\ \A m, n \in DOMAIN HandleFwft : HandleFwft[m].fid = HandleFwft[n].fid => m = n
    /\ \A m \in DOMAIN HandleFwft : m # "handle" /\ (HandleFwft[m].u8 # {} => m = "write_byte")
    /\ \A fn \in DOMAIN RtStandard.FWFT : fn # "raw" /\ fn \in DOMAIN HandleFwft
<1>1. \A m, n \in DOMAIN HandleFwft : HandleFwft[m].fid = HandleFwft[n].fid => m = n
  BY DEF HandleFwft, Tried, Arm
<1>2. \A m \in DOMAIN HandleFwft : m # "handle" /\ (HandleFwft[m].u8 # {} => m = "write_byte")
  BY DEF HandleFwft, Tried, Arm
<1>3. \A fn \in DOMAIN RtFwft : fn # "raw" /\ fn \in DOMAIN HandleFwft
  BY DEF HandleFwft, RtFwft
<1>4. RtStandard.FWFT = RtFwft  BY DEF RtStandard
<1> QED  BY <1>1, <1>2, <1>3, <1>4

LEMMA DbtrNames ==
    /\ \A m, n \in DOMAIN HandleDbtr : HandleDbtr[m].fid = HandleDbtr[n].fid => m = n
    /\ \A m \in DOMAIN HandleDbtr : m # "handle" /\ (HandleDbtr[m].u8 # {} => m = "write_byte")
    /\ \A fn \in DOMAIN RtStandard.DBTR : fn # "raw" /\ fn \in DOMAIN HandleDbtr
<1>1. \A m, n \in DOMAIN HandleDbtr : HandleDbtr[m].fid = HandleDbtr[n].fid => m = n
  BY DEF HandleDbtr, Method, Wrapped, Arm
<1>2. \A m \in DOMAIN HandleDbtr : m # "handle" /\ (HandleDbtr[m].u8 # {} => m = "write_byte")
  BY DEF HandleDbtr, Method, Wrapped, Arm
<1>3. \A fn \in DOMAIN Both(RtDbtr, RtDbtrMasks) : fn # "raw" /\ fn \in DOMAIN HandleDbtr
  BY DEF HandleDbtr, RtDbtr, RtDbtrMasks, Both
<1>4. RtStandard.DBTR = Both(RtDbtr, RtDbtrMasks)  BY DEF RtStandard
<1> QED  BY <1>1, <1>2, <1>3, <1>4

LEMMA MpxyNames ==
    /\ \A m, n \in DOMAIN HandleMpxy : HandleMpxy[m].fid = HandleMpxy[n].fid => m = n
    /\ \A m \in DOMAIN HandleMpxy : m # "handle" /\ (HandleMpxy[m].u8 # {} => m = "write_byte")
    /\ \A fn \in DOMAIN RtStandard.MPXY : fn # "raw" /\ fn \in DOMAIN HandleMpxy
<1>1. \A m, n \in DOMAIN HandleMpxy : HandleMpxy[m].fid = HandleMpxy[n].fid => m = n
  BY DEF HandleMpxy, Method, Tried, Wrapped, Arm
<1>2. \A m \in DOMAIN HandleMpxy : m # "handle" /\ (HandleMpxy[m].u8 # {} => m = "write_byte")
  BY DEF HandleMpxy, Method, Tried, Wrapped, Arm
<1>3. \A fn \in DOMAIN Both(RtMpxy, Both(RtMpxyAttributes, RtMpxyMessages)) : fn # "raw" /\ fn \in DOMAIN HandleMpxy
  BY DEF HandleMpxy, RtMpxy, RtMpxyAttributes, RtMpxyMessages, Both
<1>4. RtStandard.MPXY = Both(RtMpxy, Both(RtMpxyAttributes, RtMpxyMessages))  BY DEF RtStandard
<1> QED  BY <1>1, <1>2, <1>3, <1>4

LEMMA StandardIs == DOMAIN Handle = {"BASE", "TIME", "SPI", "RFNC", "HSM", "SRST", "PMU", "DBCN",
                                    "SUSP", "CPPC", "NACL", "STA", "SSE", "FWFT", "DBTR", "MPXY"}
  BY DEF Handle

LEMMA RtIs == \A eid \in Standard : Rt[eid] = RtStandard[eid]
<1>1. DOMAIN RtLegacy = {"LEGACY_SET_TIMER", "LEGACY_CONSOLE_PUTCHAR", "LEGACY_CONSOLE_GETCHAR", "LEGACY_CLEAR_IPI",
                         "LEGACY_SEND_IPI", "LEGACY_REMOTE_FENCE_I", "LEGACY_REMOTE_SFENCE_VMA",
                         "LEGACY_REMOTE_SFENCE_VMA_ASID", "LEGACY_SHUTDOWN"}  BY DEF RtLegacy
<1>2. Standard \cap DOMAIN RtLegacy = {}  BY <1>1, StandardIs DEF Standard
<1>3. DOMAIN RtStandard = Standard  BY StandardIs DEF RtStandard, Standard
<1> HIDE DEF Standard
<1> QED  BY <1>2, <1>3, Zenon DEF Rt, Both

LEMMA RawIsNone == \A eid \in DOMAIN Rt : "raw" \notin DOMAIN Rt[eid]
<1>1. DOMAIN RtStandard = Standard  BY StandardIs DEF RtStandard, Standard
<1>2. ASSUME NEW eid \in DOMAIN RtLegacy  PROVE "raw" \notin DOMAIN RtLegacy[eid]  BY DEF RtLegacy
<1>3. ASSUME NEW eid \in Standard  PROVE "raw" \notin DOMAIN RtStandard[eid]
  BY StandardIs, InfoNames, TimerNames, IpiNames, FenceNames, HsmNames, ResetNames, PmuNames,
     ConsoleNames, SuspNames, CppcNames, NaclNames, StaNames, SseNames, FwftNames, DbtrNames,
     MpxyNames, Zenon DEF Standard
<1> QED  BY <1>1, <1>2, <1>3 DEF Rt, Both

LEMMA TablesSound == \A eid \in Standard : \A m \in DOMAIN Handle[eid] : Sound(Handle[eid][m])
<1> SUFFICES ASSUME NEW eid \in Standard  PROVE \A m \in DOMAIN Handle[eid] : Sound(Handle[eid][m])  OBVIOUS
<1>1. CASE eid = "BASE"
  <2>1. Handle[eid] = HandleInfo /\ Rt[eid] = RtStandard.BASE  BY <1>1, RtIs DEF Handle, Standard
  <2> QED  BY <2>1, InfoSound, Zenon
<1>2. CASE eid = "TIME"
  <2>1. Handle[eid] = HandleTimer /\ Rt[eid] = RtStandard.TIME  BY <1>2, RtIs DEF Handle, Standard
  <2> QED  BY <2>1, TimerSound, Zenon
<1>3. CASE eid = "SPI"
  <2>1. Handle[eid] = HandleIpi /\ Rt[eid] = RtStandard.SPI  BY <1>3, RtIs DEF Handle, Standard
  <2> QED  BY <2>1, IpiSound, Zenon
<1>4. CASE eid = "RFNC"
  <2>1. Handle[eid] = HandleFence /\ Rt[eid] = RtStandard.RFNC  BY <1>4, RtIs DEF Handle, Standard
  <2> QED  BY <2>1, FenceSound, Zenon
<1>5. CASE eid = "HSM"
  <2>1. Handle[eid] = HandleHsm /\ Rt[eid] = RtStandard.HSM  BY <1>5, RtIs DEF Handle, Standard
  <2> QED  BY <2>1, HsmSound, Zenon
<1>6. CASE eid = "SRST"
  <2>1. Handle[eid] = HandleReset /\ Rt[eid] = RtStandard.SRST  BY <1>6, RtIs DEF Handle, Standard
  <2> QED  BY <2>1, ResetSound, Zenon
<1>7. CASE eid = "PMU"
  <2>1. Handle[eid] = HandlePmu /\ Rt[eid] = RtStandard.PMU  BY <1>7, RtIs DEF Handle, Standard
  <2> QED  BY <2>1, PmuSound, Zenon
<1>8. CASE eid = "DBCN"
  <2>1. Handle[eid] = HandleConsole /\ Rt[eid] = RtStandard.DBCN  BY <1>8, RtIs DEF Handle, Standard
  <2> QED  BY <2>1, ConsoleSound, Zenon
<1>9. CASE eid = "SUSP"
  <2>1. Handle[eid] = HandleSusp /\ Rt[eid] = RtStandard.SUSP  BY <1>9, RtIs DEF Handle, Standard
  <2> QED  BY <2>1, SuspSound, Zenon
<1>10. CASE eid = "CPPC"
  <2>1. Handle[eid] = HandleCppc /\ Rt[eid] = RtStandard.CPPC  BY <1>10, RtIs DEF Handle, Standard
  <2> QED  BY <2>1, CppcSound, Zenon
<1>11. CASE eid = "NACL"
  <2>1. Handle[eid] = HandleNacl /\ Rt[eid] = RtStandard.NACL  BY <1>11, RtIs DEF Handle, Standard
  <2> QED  BY <2>1, NaclSound, Zenon
<1>12. CASE eid = "STA"
  <2>1. Handle[eid] = HandleSta /\ Rt[eid] = RtStandard.STA  BY <1>12, RtIs DEF Handle, Standard
  <2> QED  BY <2>1, StaSound, Zenon
<1>13. CASE eid = "SSE"
  <2>1. Handle[eid] = HandleSse /\ Rt[eid] = RtStandard.SSE  BY <1>13, RtIs DEF Handle, Standard
  <2> QED  BY <2>1, SseSound, Zenon
<1>14. CASE eid = "FWFT"
  <2>1. Handle[eid] = HandleFwft /\ Rt[eid] = RtStandard.FWFT  BY <1>14, RtIs DEF Handle, Standard
  <2> QED  BY <2>1, FwftSound, Zenon
<1>15. CASE eid = "DBTR"
  <2>1. Handle[eid] = HandleDbtr /\ Rt[eid] = RtStandard.DBTR  BY <1>15, RtIs DEF Handle, Standard
  <2> QED  BY <2>1, DbtrSound, Zenon
<1>16. CASE eid = "MPXY"
  <2>1. Handle[eid] = HandleMpxy /\ Rt[eid] = RtStandard.MPXY  BY <1>16, RtIs DEF Handle, Standard
  <2> QED  BY <2>1, MpxySound, Zenon
<1> QED  BY StandardIs, <1>1, <1>2, <1>3, <1>4, <1>5, <1>6, <1>7, <1>8, <1>9, <1>10, <1>11, <1>12,
            <1>13, <1>14, <1>15, <1>16, Zenon DEF Standard

LEMMA TablesAgrees == \A eid \in Standard : \A m \in DOMAIN Handle[eid] : m \in DOMAIN Rt[eid] /\ Agrees(Rt[eid][m], Handle[eid][m], m)
<1> SUFFICES ASSUME NEW eid \in Standard  PROVE \A m \in DOMAIN Handle[eid] : m \in DOMAIN Rt[eid] /\ Agrees(Rt[eid][m], Handle[eid][m], m)  OBVIOUS
<1>1. CASE eid = "BASE"
  <2>1. Handle[eid] = HandleInfo /\ Rt[eid] = RtStandard.BASE  BY <1>1, RtIs DEF Handle, Standard
  <2> QED  BY <2>1, InfoAgrees, Zenon
<1>2. CASE eid = "TIME"
  <2>1. Handle[eid] = HandleTimer /\ Rt[eid] = RtStandard.TIME  BY <1>2, RtIs DEF Handle, Standard
  <2> QED  BY <2>1, TimerAgrees, Zenon
<1>3. CASE eid = "SPI"
  <2>1. Handle[eid] = HandleIpi /\ Rt[eid] = RtStandard.SPI  BY <1>3, RtIs DEF Handle, Standard
  <2> QED  BY <2>1, IpiAgrees, Zenon
<1>4. CASE eid = "RFNC"
  <2>1. Handle[eid] = HandleFence /\ Rt[eid] = RtStandard.RFNC  BY <1>4, RtIs DEF Handle, Standard
  <2> QED  BY <2>1, FenceAgrees, Zenon
<1>5. CASE eid = "HSM"
  <2>1. Handle[eid] = HandleHsm /\ Rt[eid] = RtStandard.HSM  BY <1>5, RtIs DEF Handle, Standard
  <2> QED  BY <2>1, HsmAgrees, Zenon
<1>6. CASE eid = "SRST"
  <2>1. Handle[eid] = HandleReset /\ Rt[eid] = RtStandard.SRST  BY <1>6, RtIs DEF Handle, Standard
  <2> QED  BY <2>1, ResetAgrees, Zenon
<1>7. CASE eid = "PMU"
  <2>1. Handle[eid] = HandlePmu /\ Rt[eid] = RtStandard.PMU  BY <1>7, RtIs DEF Handle, Standard
  <2> QED  BY <2>1, PmuAgrees, Zenon
<1>8. CASE eid = "DBCN"
  <2>1. Handle[eid] = HandleConsole /\ Rt[eid] = RtStandard.DBCN  BY <1>8, RtIs DEF Handle, Standard
  <2> QED  BY <2>1, ConsoleAgrees, Zenon
<1>9. CASE eid = "SUSP"
  <2>1. Handle[eid] = HandleSusp /\ Rt[eid] = RtStandard.SUSP  BY <1>9, RtIs DEF Handle, Standard
  <2> QED  BY <2>1, SuspAgrees, Zenon
<1>10. CASE eid = "CPPC"
  <2>1. Handle[eid] = HandleCppc /\ Rt[eid] = RtStandard.CPPC  BY <1>10, RtIs DEF Handle, Standard
  <2> QED  BY <2>1, CppcAgrees, Zenon
<1>11. CASE eid = "NACL"
  <2>1. Handle[eid] = HandleNacl /\ Rt[eid] = RtStandard.NACL  BY <1>11, RtIs DEF Handle, Standard
  <2> QED  BY <2>1, NaclAgrees, Zenon
<1>12. CASE eid = "STA"
  <2>1. Handle[eid] = HandleSta /\ Rt[eid] = RtStandard.STA  BY <1>12, RtIs DEF Handle, Standard
  <2> QED  BY <2>1, StaAgrees, Zenon
<1>13. CASE eid = "SSE"
  <2>1. Handle[eid] = HandleSse /\ Rt[eid] = RtStandard.SSE  BY <1>13, RtIs DEF Handle, Standard
  <2> QED  BY <2>1, SseAgrees, Zenon
<1>14. CASE eid = "FWFT"
  <2>1. Handle[eid] = HandleFwft /\ Rt[eid] = RtStandard.FWFT  BY <1>14, RtIs DEF Handle, Standard
  <2> QED  BY <2>1, FwftAgrees, Zenon
<1>15. CASE eid = "DBTR"
  <2>1. Handle[eid] = HandleDbtr /\ Rt[eid] = RtStandard.DBTR  BY <1>15, RtIs DEF Handle, Standard
  <2> QED  BY <2>1, DbtrAgrees, Zenon
<1>16. CASE eid = "MPXY"
  <2>1. Handle[eid] = HandleMpxy /\ Rt[eid] = RtStandard.MPXY  BY <1>16, RtIs DEF Handle, Standard
  <2> QED  BY <2>1, MpxyAgrees, Zenon
<1> QED  BY StandardIs, <1>1, <1>2, <1>3, <1>4, <1>5, <1>6, <1>7, <1>8, <1>9, <1>10, <1>11, <1>12,
            <1>13, <1>14, <1>15, <1>16, Zenon DEF Standard

LEMMA TablesNames ==
    ASSUME NEW eid \in Standard
    PROVE  /\ \A m, n \in DOMAIN Handle[eid] : Handle[eid][m].fid = Handle[eid][n].fid => m = n
           /\ \A m \in DOMAIN Handle[eid] : m # "handle" /\ (Handle[eid][m].u8 # {} => m = "write_byte")
           /\ eid # "BASE" => DOMAIN Rt[eid] \subseteq DOMAIN Handle[eid]
           /\ eid = "BASE" => \A m \in DOMAIN Handle[eid] : Handle[eid][m].fid \in 4 .. 6
           /\ eid = "BASE" => \A fn \in DOMAIN Rt[eid] : fn \in DOMAIN Handle[eid] \/ Rt[eid][fn].fid \in 0 .. 3
<1>1. CASE eid = "BASE"
  <2>1. Handle[eid] = HandleInfo /\ Rt[eid] = RtStandard.BASE  BY <1>1, RtIs DEF Handle, Standard
  <2>2. eid = "BASE"  BY <1>1
  <2> QED  BY <2>1, <2>2, InfoNames, Zenon
<1>2. CASE eid = "TIME"
  <2>1. Handle[eid] = HandleTimer /\ Rt[eid] = RtStandard.TIME  BY <1>2, RtIs DEF Handle, Standard
  <2>2. eid # "BASE"  BY <1>2
  <2> QED  BY <2>1, <2>2, TimerNames, Zenon
<1>3. CASE eid = "SPI"
  <2>1. Handle[eid] = HandleIpi /\ Rt[eid] = RtStandard.SPI  BY <1>3, RtIs DEF Handle, Standard
  <2>2. eid # "BASE"  BY <1>3
  <2> QED  BY <2>1, <2>2, IpiNames, Zenon
<1>4. CASE eid = "RFNC"
  <2>1. Handle[eid] = HandleFence /\ Rt[eid] = RtStandard.RFNC  BY <1>4, RtIs DEF Handle, Standard
  <2>2. eid # "BASE"  BY <1>4
  <2> QED  BY <2>1, <2>2, FenceNames, Zenon
<1>5. CASE eid = "HSM"
  <2>1. Handle[eid] = HandleHsm /\ Rt[eid] = RtStandard.HSM  BY <1>5, RtIs DEF Handle, Standard
  <2>2. eid # "BASE"  BY <1>5
  <2> QED  BY <2>1, <2>2, HsmNames, Zenon
<1>6. CASE eid = "SRST"
  <2>1. Handle[eid] = HandleReset /\ Rt[eid] = RtStandard.SRST  BY <1>6, RtIs DEF Handle, Standard
  <2>2. eid # "BASE"  BY <1>6
  <2> QED  BY <2>1, <2>2, ResetNames, Zenon
<1>7. CASE eid = "PMU"
  <2>1. Handle[eid] = HandlePmu /\ Rt[eid] = RtStandard.PMU  BY <1>7, RtIs DEF Handle, Standard
  <2>2. eid # "BASE"  BY <1>7
  <2> QED  BY <2>1, <2>2, PmuNames, Zenon
<1>8. CASE eid = "DBCN"
  <2>1. Handle[eid] = HandleConsole /\ Rt[eid] = RtStandard.DBCN  BY <1>8, RtIs DEF Handle, Standard
  <2>2. eid # "BASE"  BY <1>8
  <2> QED  BY <2>1, <2>2, ConsoleNames, Zenon
<1>9. CASE eid = "SUSP"
  <2>1. Handle[eid] = HandleSusp /\ Rt[eid] = RtStandard.SUSP  BY <1>9, RtIs DEF Handle, Standard
  <2>2. eid # "BASE"  BY <1>9
  <2> QED  BY <2>1, <2>2, SuspNames, Zenon
<1>10. CASE eid = "CPPC"
  <2>1. Handle[eid] = HandleCppc /\ Rt[eid] = RtStandard.CPPC  BY <1>10, RtIs DEF Handle, Standard
  <2>2. eid # "BASE"  BY <1>10
  <2> QED  BY <2>1, <2>2, CppcNames, Zenon
<1>11. CASE eid = "NACL"
  <2>1. Handle[eid] = HandleNacl /\ Rt[eid] = RtStandard.NACL  BY <1>11, RtIs DEF Handle, Standard
  <2>2. eid # "BASE"  BY <1>11
  <2> QED  BY <2>1, <2>2, NaclNames, Zenon
<1>12. CASE eid = "STA"
  <2>1. Handle[eid] = HandleSta /\ Rt[eid] = RtStandard.STA  BY <1>12, RtIs DEF Handle, Standard
  <2>2. eid # "BASE"  BY <1>12
  <2> QED  BY <2>1, <2>2, StaNames, Zenon
<1>13. CASE eid = "SSE"
  <2>1. Handle[eid] = HandleSse /\ Rt[eid] = RtStandard.SSE  BY <1>13, RtIs DEF Handle, Standard
  <2>2. eid # "BASE"  BY <1>13
  <2> QED  BY <2>1, <2>2, SseNames, Zenon
<1>14. CASE eid = "FWFT"
  <2>1. Handle[eid] = HandleFwft /\ Rt[eid] = RtStandard.FWFT  BY <1>14, RtIs DEF Handle, Standard
  <2>2. eid # "BASE"  BY <1>14
  <2> QED  BY <2>1, <2>2, FwftNames, Zenon
<1>15. CASE eid = "DBTR"
  <2>1. Handle[eid] = HandleDbtr /\ Rt[eid] = RtStandard.DBTR  BY <1>15, RtIs DEF Handle, Standard
  <2>2. eid # "BASE"  BY <1>15
  <2> QED  BY <2>1, <2>2, DbtrNames, Zenon
<1>16. CASE eid = "MPXY"
  <2>1. Handle[eid] = HandleMpxy /\ Rt[eid] = RtStandard.MPXY  BY <1>16, RtIs DEF Handle, Standard
  <2>2. eid # "BASE"  BY <1>16
  <2> QED  BY <2>1, <2>2, MpxyNames, Zenon
<1> QED  BY StandardIs, <1>1, <1>2, <1>3, <1>4, <1>5, <1>6, <1>7, <1>8, <1>9, <1>10, <1>11, <1>12,
            <1>13, <1>14, <1>15, <1>16, Zenon DEF Standard

LEMMA TablesForwards ==
    ASSUME NEW eid \in DOMAIN Forwards
    PROVE  eid \in Standard /\ Forwards[eid] = DOMAIN Handle[eid]
<1>1. DOMAIN Forwards = {"BASE", "TIME", "SPI", "RFNC", "HSM", "SRST", "PMU", "DBCN", "SUSP",
                        "CPPC", "NACL", "STA", "SSE"}  BY DEF Forwards
<1>2. CASE eid = "BASE"
  <2>1. Handle[eid] = HandleInfo /\ Forwards[eid] = ForwardInfo  BY <1>2 DEF Handle, Forwards
  <2>2. DOMAIN HandleInfo = ForwardInfo  BY DEF HandleInfo, ForwardInfo
  <2> QED  BY <1>2, <2>1, <2>2, StandardIs DEF Standard
<1>3. CASE eid = "TIME"
  <2>1. Handle[eid] = HandleTimer /\ Forwards[eid] = ForwardTimer  BY <1>3 DEF Handle, Forwards
  <2>2. DOMAIN HandleTimer = ForwardTimer  BY DEF HandleTimer, ForwardTimer
  <2> QED  BY <1>3, <2>1, <2>2, StandardIs DEF Standard
<1>4. CASE eid = "SPI"
  <2>1. Handle[eid] = HandleIpi /\ Forwards[eid] = ForwardIpi  BY <1>4 DEF Handle, Forwards
  <2>2. DOMAIN HandleIpi = ForwardIpi  BY DEF HandleIpi, ForwardIpi
  <2> QED  BY <1>4, <2>1, <2>2, StandardIs DEF Standard
<1>5. CASE eid = "RFNC"
  <2>1. Handle[eid] = HandleFence /\ Forwards[eid] = ForwardFence  BY <1>5 DEF Handle, Forwards
  <2>2. DOMAIN HandleFence = ForwardFence  BY DEF HandleFence, ForwardFence
  <2> QED  BY <1>5, <2>1, <2>2, StandardIs DEF Standard
<1>6. CASE eid = "HSM"
  <2>1. Handle[eid] = HandleHsm /\ Forwards[eid] = ForwardHsm  BY <1>6 DEF Handle, Forwards
  <2>2. DOMAIN HandleHsm = ForwardHsm  BY DEF HandleHsm, ForwardHsm
  <2> QED  BY <1>6, <2>1, <2>2, StandardIs DEF Standard
<1>7. CASE eid = "SRST"
  <2>1. Handle[eid] = HandleReset /\ Forwards[eid] = ForwardReset  BY <1>7 DEF Handle, Forwards
  <2>2. DOMAIN HandleReset = ForwardReset  BY DEF HandleReset, ForwardReset
  <2> QED  BY <1>7, <2>1, <2>2, StandardIs DEF Standard
<1>8. CASE eid = "PMU"
  <2>1. Handle[eid] = HandlePmu /\ Forwards[eid] = ForwardPmu  BY <1>8 DEF Handle, Forwards
  <2>2. DOMAIN HandlePmu = ForwardPmu  BY DEF HandlePmu, ForwardPmu
  <2> QED  BY <1>8, <2>1, <2>2, StandardIs DEF Standard
<1>9. CASE eid = "DBCN"
  <2>1. Handle[eid] = HandleConsole /\ Forwards[eid] = ForwardConsole  BY <1>9 DEF Handle, Forwards
  <2>2. DOMAIN HandleConsole = ForwardConsole  BY DEF HandleConsole, ForwardConsole
  <2> QED  BY <1>9, <2>1, <2>2, StandardIs DEF Standard
<1>10. CASE eid = "SUSP"
  <2>1. Handle[eid] = HandleSusp /\ Forwards[eid] = ForwardSusp  BY <1>10 DEF Handle, Forwards
  <2>2. DOMAIN HandleSusp = ForwardSusp  BY DEF HandleSusp, ForwardSusp
  <2> QED  BY <1>10, <2>1, <2>2, StandardIs DEF Standard
<1>11. CASE eid = "CPPC"
  <2>1. Handle[eid] = HandleCppc /\ Forwards[eid] = ForwardCppc  BY <1>11 DEF Handle, Forwards
  <2>2. DOMAIN HandleCppc = ForwardCppc  BY DEF HandleCppc, ForwardCppc
  <2> QED  BY <1>11, <2>1, <2>2, StandardIs DEF Standard
<1>12. CASE eid = "NACL"
  <2>1. Handle[eid] = HandleNacl /\ Forwards[eid] = ForwardNacl  BY <1>12 DEF Handle, Forwards
  <2>2. DOMAIN HandleNacl = ForwardNacl  BY DEF HandleNacl, ForwardNacl
  <2> QED  BY <1>12, <2>1, <2>2, StandardIs DEF Standard
<1>13. CASE eid = "STA"
  <2>1. Handle[eid] = HandleSta /\ Forwards[eid] = ForwardSta  BY <1>13 DEF Handle, Forwards
  <2>2. DOMAIN HandleSta = ForwardSta  BY DEF HandleSta, ForwardSta
  <2> QED  BY <1>13, <2>1, <2>2, StandardIs DEF Standard
<1>14. CASE eid = "SSE"
  <2>1. Handle[eid] = HandleSse /\ Forwards[eid] = ForwardSse  BY <1>14 DEF Handle, Forwards
  <2>2. DOMAIN HandleSse = ForwardSse  BY DEF HandleSse, ForwardSse
  <2> QED  BY <1>14, <2>1, <2>2, StandardIs DEF Standard
<1> QED  BY <1>1, <1>2, <1>3, <1>4, <1>5, <1>6, <1>7, <1>8, <1>9, <1>10, <1>11, <1>12, <1>13, <1>14,
            Zenon

-----------------------------------------------------------------------------
(* Encoding and decoding.                                                  *)

\* The registers of a laid out function.
Laid(f) ==
    /\ Len(f.regs) \in 0 .. 5
    /\ \A i, j \in 1 .. Len(f.regs) : f.regs[i] = f.regs[j] => i = j
    /\ \A i \in 1 .. Len(f.regs) : f.regs[i] \in f.u64 => i = Len(f.regs)
    /\ f.u8 \cap f.u64 = {} /\ f.u8 \cap f.u32 = {} /\ f.u32 \cap f.u64 = {}

LEMMA BothLaid ==
    ASSUME NEW f, NEW g, NEW m, Agrees(f, g, m), Sound(g), m \notin TriggerMasks
    PROVE  Laid(f) /\ Laid(g) /\ (\A i \in 1 .. Len(f.regs) : f.regs[i] # "extension")
<1>1. Laid(g)
  BY DEF Laid, Sound
<1>2. Len(g.regs) \in 0 .. 5 /\ Len(f.regs) \in 0 .. Len(g.regs) /\ Len(f.regs) \in 0 .. 5
  <2>1. Len(g.regs) \in 0 .. 5
    BY Zenon DEF Sound
  <2>2. Len(f.regs) \in 0 .. Len(g.regs)
    BY Zenon DEF Agrees
  <2> DEFINE k == Len(f.regs)  n == Len(g.regs)
  <2> HIDE DEF k, n
  <2>3. n \in 0 .. 5 /\ k \in 0 .. n => k \in 0 .. 5
    OBVIOUS
  <2> QED
    BY <2>1, <2>2, <2>3, Zenon DEF k, n
<1>3. \A i \in 1 .. Len(f.regs) : i \in 1 .. Len(g.regs) /\ f.regs[i] = g.regs[i]
  BY <1>2 DEF Agrees
<1>4. f.u8 = g.u8 /\ f.u32 = g.u32 /\ f.u64 = g.u64
  BY DEF Agrees
<1>5. \A i, j \in 1 .. Len(f.regs) : f.regs[i] = f.regs[j] => i = j
  BY <1>1, <1>3, Zenon DEF Laid
<1>6. \A i \in 1 .. Len(f.regs) : f.regs[i] \in f.u64 => i = Len(f.regs)
  <2> TAKE i \in 1 .. Len(f.regs)
  <2> HAVE f.regs[i] \in f.u64
  <2>1. i = Len(g.regs)
    BY <1>1, <1>3, <1>4, Zenon DEF Laid
  <2> QED
    BY <2>1, <1>2
<1>7. \A i \in 1 .. Len(f.regs) : f.regs[i] # "extension"
  BY <1>3, Zenon DEF Sound
<1>8. Laid(f)
  BY <1>1, <1>2, <1>4, <1>5, <1>6, Zenon DEF Laid
<1> QED
  BY <1>1, <1>7, <1>8

LEMMA PlaceIs ==
    ASSUME NEW f, Laid(f), NEW i \in 1 .. Len(f.regs), NEW part
    PROVE  Place(f, <<i, part>>) = i + IF part = "high" THEN 1 ELSE 0
<1>1. {j \in 1 .. i - 1 : InTwo(f, j)} = {}
  BY DEF Laid, InTwo
<1>2. Place(f, <<i, part>>) = i + Cardinality({j \in 1 .. i - 1 : InTwo(f, j)}) + IF part = "high" THEN 1 ELSE 0
  BY DEF Place
<1>3. Cardinality({}) = 0
  BY FS_EmptySet
<1>4. i \in Nat
  BY DEF Laid
<1>5. Place(f, <<i, part>>) = i + 0 + IF part = "high" THEN 1 ELSE 0
  BY <1>1, <1>2, <1>3, Zenon
<1> QED
  BY <1>4, <1>5

LEMMA SlotIs ==
    ASSUME NEW f, Laid(f), NEW slot \in Slots(f)
    PROVE  /\ slot = <<slot[1], slot[2]>>
           /\ slot[1] \in 1 .. Len(f.regs) /\ slot[2] \in {"word", "low", "high"}
           /\ slot[2] = "high" => slot[1] = Len(f.regs)
           /\ Place(f, slot) = slot[1] + IF slot[2] = "high" THEN 1 ELSE 0
           /\ Place(f, slot) \in 1 .. 6
<1>1. slot = <<slot[1], slot[2]>> /\ slot[1] \in 1 .. Len(f.regs) /\ slot[2] \in {"word", "low", "high"}
  BY DEF Slots
<1>2. slot[2] = "high" => slot[1] = Len(f.regs)
  BY <1>1 DEF Slots, InTwo, Laid
<1>3. Place(f, slot) = slot[1] + IF slot[2] = "high" THEN 1 ELSE 0
  BY <1>1, PlaceIs
<1> QED
  BY <1>1, <1>2, <1>3 DEF Laid

\* No two parts share a register.
LEMMA SlotsApart ==
    ASSUME NEW f, Laid(f), NEW s \in Slots(f), NEW t \in Slots(f), Place(f, s) = Place(f, t)
    PROVE  s = t
<1>1. /\ s = <<s[1], s[2]>> /\ s[1] \in 1 .. Len(f.regs) /\ s[2] \in {"word", "low", "high"}
      /\ s[2] = "high" => s[1] = Len(f.regs)
      /\ Place(f, s) = s[1] + IF s[2] = "high" THEN 1 ELSE 0
  BY SlotIs
<1>2. /\ t = <<t[1], t[2]>> /\ t[1] \in 1 .. Len(f.regs) /\ t[2] \in {"word", "low", "high"}
      /\ t[2] = "high" => t[1] = Len(f.regs)
      /\ Place(f, t) = t[1] + IF t[2] = "high" THEN 1 ELSE 0
  BY SlotIs
<1>3. Len(f.regs) \in 0 .. 5
  BY DEF Laid
<1> DEFINE i == s[1]  j == t[1]  n == Len(f.regs)  p == s[2]  q == t[2]
<1>a. /\ i \in 1 .. n /\ j \in 1 .. n /\ n \in 0 .. 5
      /\ p = "high" => i = n
      /\ q = "high" => j = n
      /\ i + (IF p = "high" THEN 1 ELSE 0) = j + (IF q = "high" THEN 1 ELSE 0)
  BY <1>1, <1>2, <1>3, Zenon
<1> HIDE DEF i, j, n, p, q
<1>b. i = j /\ (p = "high" <=> q = "high")
  BY <1>a
<1>4. s[1] = t[1] /\ (s[2] = "high" <=> t[2] = "high")
  BY <1>b DEF i, j, p, q
<1>5. s[2] = "word" <=> t[2] = "word"
  BY <1>4 DEF Slots
<1>6. s[2] = t[2]
  BY <1>1, <1>2, <1>4, <1>5
<1> QED
  BY <1>1, <1>2, <1>4, <1>6, Zenon

\* A part is in its register.
LEMMA Encoded ==
    ASSUME NEW f, Laid(f), NEW args, NEW unset, NEW slot \in Slots(f)
    PROVE  Encode(f, args, unset)[Place(f, slot)] = Part(args[f.regs[slot[1]]], slot[2])
<1> DEFINE r == Place(f, slot)
<1>1. r \in 1 .. 6
  BY SlotIs
<1>2. \A s \in Slots(f) : Place(f, s) = r => s = slot
  BY SlotsApart
<1>3. (CHOOSE s \in Slots(f) : Place(f, s) = r) = slot
  BY <1>2
<1> HIDE DEF r
<1>4. \E s \in Slots(f) : Place(f, s) = r
  BY DEF r
<1>5. Encode(f, args, unset)[r] = LET s == CHOOSE s \in Slots(f) : Place(f, s) = r IN Part(args[f.regs[s[1]]], s[2])
  BY <1>1, <1>4 DEF Encode
<1> QED
  BY <1>3, <1>5 DEF r

\* Two halves of a number are the number.
LEMMA Halves ==
    ASSUME NEW v \in Nat
    PROVE  Concat(Part(v, "high"), Part(v, "low")) = v
<1> DEFINE n == Half
<1>1. n \in Nat /\ n > 0
  BY WordAssumption
<1> HIDE DEF n
<1>2. (v \div n) * n + (v % n) = v
  BY <1>1, Z3
<1> QED
  BY <1>2 DEF Concat, Part, n

LEMMA HalvesBack ==
    ASSUME NEW h \in Nat, NEW l \in Nat, l < Half
    PROVE  Part(Concat(h, l), "high") = h /\ Part(Concat(h, l), "low") = l
<1> DEFINE n == Half
<1>1. n \in Nat /\ n > 0 /\ l < n
  BY WordAssumption
<1> HIDE DEF n
<1>2. (h * n + l) \div n = h /\ (h * n + l) % n = l
  BY <1>1, Z3
<1> QED
  BY <1>2 DEF Concat, Part, n

LEMMA Remainder ==
    ASSUME NEW v \in Nat, NEW n \in Nat \ {0}, v < n
    PROVE  v % n = v
  BY Z3

\* A sample is a value of its type.
LEMMA SampleTypes ==
    ASSUME NEW f, NEW a \in ArgumentsOf(f), NEW p \in Params(f), p # "extension", f.u8 \cap f.u32 = {}, xlen \in {32, 64}
    PROVE  a[p] \in Nat /\ (p \in f.u8 => a[p] < Byte) /\ (p \in f.u32 => a[p] < Half)
<1>1. a[p] \in Samples(f, p)
  BY DEF ArgumentsOf
<1>2. Sampled.u8 \subseteq Nat /\ Sampled.u32 \subseteq Nat /\ Sampled.u64 \subseteq Nat
      /\ Sampled.rv32 \subseteq Nat /\ Sampled.rv64 \subseteq Nat
  BY WordAssumption
<1>3. CASE p \in f.u8
  <2>1. Samples(f, p) = {v \in Sampled.u8 : v < Byte} /\ p \notin f.u32
    BY <1>3 DEF Samples
  <2> QED
    BY <1>1, <1>2, <2>1
<1>4. CASE p \notin f.u8 /\ p \in f.u32
  <2>1. Samples(f, p) = {v \in Sampled.u32 : v < Half}
    BY <1>4 DEF Samples
  <2> QED
    BY <1>1, <1>2, <1>4, <2>1
<1>5. CASE p \notin f.u8 /\ p \notin f.u32
  BY <1>1, <1>2, <1>5 DEF Samples
<1> QED
  BY <1>3, <1>4, <1>5

\* The register of a parameter, where the method looks for it.
LEMMA Located ==
    ASSUME NEW f, Laid(f), NEW i \in 1 .. Len(f.regs)
    PROVE  (CHOOSE j \in 1 .. Len(f.regs) : f.regs[j] = f.regs[i]) = i
  BY DEF Laid

LEMMA Decoded ==
    ASSUME NEW f, Laid(f), NEW i \in 1 .. Len(f.regs), NEW regs
    PROVE  /\ DOMAIN Decode(f, regs) = Params(f)
           /\ f.regs[i] \in Params(f)
           /\ Decode(f, regs)[f.regs[i]] =
                IF f.regs[i] \in f.u8 THEN regs[Place(f, <<i, "word">>)] % Byte
                ELSE IF InTwo(f, i) THEN Concat(regs[Place(f, <<i, "high">>)], regs[Place(f, <<i, "low">>)])
                ELSE regs[Place(f, <<i, "word">>)]
<1> DEFINE p == f.regs[i]
<1>1. p \in Params(f)
  BY DEF Params
<1>2. (CHOOSE j \in 1 .. Len(f.regs) : f.regs[j] = p) = i
  BY Located
<1> HIDE DEF p
<1>3. Decode(f, regs)[p] =
        LET j == CHOOSE j \in 1 .. Len(f.regs) : f.regs[j] = p
            Reg(part) == regs[Place(f, <<j, part>>)]
        IN  IF p \in f.u8 THEN Reg("word") % Byte
            ELSE IF InTwo(f, j) THEN Concat(Reg("high"), Reg("low"))
            ELSE Reg("word")
  BY <1>1, Zenon DEF Decode
<1>4. DOMAIN Decode(f, regs) = Params(f)
  BY DEF Decode
<1> QED
  BY <1>1, <1>2, <1>3, <1>4, Zenon DEF p

\* What the method reads is what the function wrote.
LEMMA RoundTrip ==
    ASSUME NEW f, NEW g, NEW m, Agrees(f, g, m), Sound(g), m \notin TriggerMasks, xlen \in {32, 64},
           NEW a \in ArgumentsOf(f), NEW u, NEW p \in Params(f)
    PROVE  p \in Params(g) /\ Decode(g, Encode(f, a, u))[p] = a[p]
<1>1. Laid(f) /\ Laid(g) /\ (\A i \in 1 .. Len(f.regs) : f.regs[i] # "extension")
  BY BothLaid
<1>2. PICK i \in 1 .. Len(f.regs) : f.regs[i] = p
  BY DEF Params
<1>3. i \in 1 .. Len(g.regs) /\ g.regs[i] = p
  BY <1>2 DEF Agrees, Sound
<1>4. f.u8 = g.u8 /\ f.u32 = g.u32 /\ f.u64 = g.u64
  BY DEF Agrees
<1>5. InTwo(f, i) = InTwo(g, i)
  BY <1>2, <1>3, <1>4 DEF InTwo
<1>6. a[p] \in Nat /\ (p \in f.u8 => a[p] < Byte)
  BY <1>1, <1>2, SampleTypes DEF Laid
<1>7. \A part : Place(f, <<i, part>>) = Place(g, <<i, part>>)
  BY <1>1, <1>3, PlaceIs
<1> DEFINE regs == Encode(f, a, u)
<1>8. ASSUME NEW part \in {"word", "low", "high"}, InTwo(f, i) <=> part # "word"
      PROVE  regs[Place(g, <<i, part>>)] = Part(a[p], part)
  <2>1. <<i, part>> \in Slots(f)
    BY <1>8 DEF Slots
  <2>2. regs[Place(f, <<i, part>>)] = Part(a[f.regs[<<i, part>>[1]]], <<i, part>>[2])
    BY <1>1, <2>1, Encoded
  <2> QED
    BY <1>2, <1>7, <2>2
<1> HIDE DEF regs
<1>9. p \in Params(g) /\ Decode(g, regs)[p] =
        IF p \in g.u8 THEN regs[Place(g, <<i, "word">>)] % Byte
        ELSE IF InTwo(g, i) THEN Concat(regs[Place(g, <<i, "high">>)], regs[Place(g, <<i, "low">>)])
        ELSE regs[Place(g, <<i, "word">>)]
  BY <1>1, <1>3, Decoded
<1>10. CASE InTwo(f, i)
  <2>1. regs[Place(g, <<i, "high">>)] = Part(a[p], "high") /\ regs[Place(g, <<i, "low">>)] = Part(a[p], "low")
    BY <1>8, <1>10
  <2>2. p \notin g.u8
    BY <1>1, <1>2, <1>4, <1>10 DEF InTwo, Laid
  <2>3. Decode(g, regs)[p] = Concat(Part(a[p], "high"), Part(a[p], "low"))
    BY <1>5, <1>9, <1>10, <2>1, <2>2, Zenon
  <2> QED
    BY <1>6, <1>9, <2>3, Halves DEF regs
<1>11. CASE ~InTwo(f, i)
  <2>1. regs[Place(g, <<i, "word">>)] = Part(a[p], "word")
    BY <1>8, <1>11
  <2>2. Part(a[p], "word") = a[p]
    BY DEF Part
  <2>3. Decode(g, regs)[p] = IF p \in g.u8 THEN a[p] % Byte ELSE a[p]
    BY <1>5, <1>9, <1>11, <2>1, <2>2, Zenon
  <2>4. p \in g.u8 => a[p] % Byte = a[p]
    BY <1>4, <1>6, Remainder, WordAssumption
  <2> QED
    BY <1>9, <2>3, <2>4 DEF regs
<1> QED
  BY <1>10, <1>11

\* The registers depend on the arguments of the function alone.
LEMMA EncodeSame ==
    ASSUME NEW f, NEW a, NEW b, NEW u, \A p \in Params(f) : a[p] = b[p]
    PROVE  Encode(f, a, u) = Encode(f, b, u)
<1>1. ASSUME NEW slot \in Slots(f)
      PROVE  a[f.regs[slot[1]]] = b[f.regs[slot[1]]]
  BY DEF Slots, Params
<1>2. ASSUME NEW r \in 1 .. 6
      PROVE  Encode(f, a, u)[r] = Encode(f, b, u)[r]
  <2>1. CASE \E slot \in Slots(f) : Place(f, slot) = r
    <3> DEFINE t == CHOOSE slot \in Slots(f) : Place(f, slot) = r
    <3>1. t \in Slots(f)
      BY <2>1
    <3>2. a[f.regs[t[1]]] = b[f.regs[t[1]]]
      BY <1>1, <3>1
    <3>3. Encode(f, a, u)[r] = Part(a[f.regs[t[1]]], t[2]) /\ Encode(f, b, u)[r] = Part(b[f.regs[t[1]]], t[2])
      BY <2>1, Zenon DEF Encode
    <3> QED
      BY <3>2, <3>3
  <2>2. CASE ~(\E slot \in Slots(f) : Place(f, slot) = r)
    BY <2>2, Zenon DEF Encode
  <2> QED
    BY <2>1, <2>2
<1>3. Encode(f, a, u) = [r \in 1 .. 6 |-> Encode(f, a, u)[r]] /\ Encode(f, b, u) = [r \in 1 .. 6 |-> Encode(f, b, u)[r]]
  BY DEF Encode
<1> QED
  BY <1>2, <1>3, Zenon

\* What the method reads of raw registers holds all that they said.
LEMMA RawExact ==
    ASSUME NEW g, Sound(g), g.u8 = {}, NEW regs, NEW slot \in Slots(g),
           \A r \in 1 .. 6 : regs[r] \in Nat /\ (xlen = 32 => regs[r] < Half)
    PROVE  /\ g.regs[slot[1]] \in Params(g)
           /\ Part(Decode(g, regs)[g.regs[slot[1]]], slot[2]) = regs[Place(g, slot)]
<1>1. Laid(g)
  BY DEF Laid, Sound
<1> DEFINE i == slot[1]  d == Decode(g, regs)[g.regs[i]]
<1>2. slot = <<i, slot[2]>> /\ i \in 1 .. Len(g.regs) /\ slot[2] \in {"word", "low", "high"} /\ Place(g, slot) \in 1 .. 6
  BY <1>1, SlotIs, Zenon
<1>3. InTwo(g, i) <=> slot[2] # "word"
  BY DEF Slots
<1> HIDE DEF i
<1>4. /\ g.regs[i] \in Params(g)
      /\ d = IF g.regs[i] \in g.u8 THEN regs[Place(g, <<i, "word">>)] % Byte
             ELSE IF InTwo(g, i) THEN Concat(regs[Place(g, <<i, "high">>)], regs[Place(g, <<i, "low">>)])
             ELSE regs[Place(g, <<i, "word">>)]
  BY <1>1, <1>2, Decoded
<1>5. g.regs[i] \notin g.u8
  OBVIOUS
<1> HIDE DEF d
<1>6. CASE ~InTwo(g, i)
  <2>1. d = regs[Place(g, slot)] /\ slot[2] = "word"
    BY <1>2, <1>3, <1>4, <1>5, <1>6, Zenon
  <2>2. Part(d, slot[2]) = d
    BY <2>1 DEF Part
  <2> QED
    BY <1>4, <2>1, <2>2 DEF d, i
<1>7. CASE InTwo(g, i)
  <2> DEFINE h == regs[Place(g, <<i, "high">>)]  l == regs[Place(g, <<i, "low">>)]
  <2>1. <<i, "high">> \in Slots(g) /\ <<i, "low">> \in Slots(g)
    BY <1>2, <1>7 DEF Slots
  <2>2. Place(g, <<i, "high">>) \in 1 .. 6 /\ Place(g, <<i, "low">>) \in 1 .. 6
    BY <1>1, <2>1, SlotIs
  <2>3. xlen = 32
    BY <1>7 DEF InTwo
  <2>4. h \in Nat /\ l \in Nat /\ l < Half
    BY <2>2, <2>3
  <2>5. d = Concat(h, l)
    BY <1>4, <1>5, <1>7, Zenon
  <2> HIDE DEF h, l
  <2>6. Part(d, "high") = h /\ Part(d, "low") = l
    BY <2>4, <2>5, HalvesBack
  <2>7. CASE slot[2] = "high"
    BY <1>2, <1>4, <2>6, <2>7, Zenon DEF h, d, i
  <2>8. CASE slot[2] = "low"
    BY <1>2, <1>4, <2>6, <2>8, Zenon DEF l, d, i
  <2> QED
    BY <1>2, <1>3, <1>7, <2>7, <2>8
<1> QED
  BY <1>6, <1>7

-----------------------------------------------------------------------------
(* The fields of a structure.                                              *)

\* A set of numbers that is not empty has a least one.
LEMMA LeastOf ==
    ASSUME NEW S, S \subseteq Nat, S # {}
    PROVE  \E c \in S : \A d \in S : c <= d
<1> DEFINE R == OpToRel(<, Nat)
<1>1. \E c \in S : \A d \in S : ~ (<<d, c>> \in R)
  <2>1. IsWellFoundedOn(R, Nat)
    BY NatLessThanWellFounded
  <2> HIDE DEF R
  <2> QED BY <2>1, WFMin
<1>2. \A c, d \in Nat : d < c => <<d, c>> \in R
  BY DEF OpToRel
<1> HIDE DEF R
<1>3. \E c \in S : \A d \in S : ~ (d < c)
  BY <1>1, <1>2
<1> QED BY <1>3

\* The field that a structure which compiles takes: the first that is there.
LEMMA FieldFirst ==
    ASSUME NEW struct, IsStruct(struct), Compiles(struct), NEW eid
    PROVE  /\ Len(Fields(struct, eid)) \in Nat
           /\ FieldOf(struct, eid) \in 0 .. Len(Fields(struct, eid))
           /\ \A i \in 1 .. FieldOf(struct, eid) - 1 : Fields(struct, eid)[i] = "none"
           /\ struct.mode = "dynamic" =>
                /\ FieldOf(struct, eid) # 0 => Fields(struct, eid)[FieldOf(struct, eid)] # "none"
                /\ FieldOf(struct, eid) = 0 => \A i \in 1 .. Len(Fields(struct, eid)) : Fields(struct, eid)[i] = "none"
           /\ FieldOf(struct, eid) # 0 => eid \in DOMAIN struct.fields
<1> DEFINE F == Fields(struct, eid)
<1>1. F \in Seq(FieldKinds)
  <2>1. CASE eid \in DOMAIN struct.fields
    <3>1. struct.fields[eid] \in Seq(IF eid \in DOMAIN Forwards THEN FieldKinds ELSE FieldKinds \ {"forward"})
      BY <2>1, Zenon DEF IsStruct
    <3>2. ASSUME NEW s \in Seq(FieldKinds \ {"forward"})  PROVE s \in Seq(FieldKinds)
      <4> HIDE DEF FieldKinds
      <4> QED  BY SeqDef
    <3>3. struct.fields[eid] \in Seq(FieldKinds)
      BY <3>1, <3>2
    <3> QED
      BY <2>1, <3>3 DEF Fields
  <2>2. CASE eid \notin DOMAIN struct.fields
    BY <2>2 DEF Fields
  <2> QED
    BY <2>1, <2>2
<1>2. Len(F) \in Nat
  BY <1>1
<1>3. F # <<>> => eid \in DOMAIN struct.fields /\ Len(F) # 0
  BY <1>1 DEF Fields
<1>4. CASE struct.mode = "static"
  <2>1. FieldOf(struct, eid) = IF F = <<>> THEN 0 ELSE 1
    BY <1>4 DEF FieldOf, StaticField
  <2>2. struct.mode # "dynamic"
    BY <1>4
  <2> HIDE DEF F
  <2>3. FieldOf(struct, eid) \in 0 .. Len(F) /\ 1 .. FieldOf(struct, eid) - 1 = {}
        /\ (FieldOf(struct, eid) # 0 => eid \in DOMAIN struct.fields)
    BY <1>2, <1>3, <2>1
  <2> QED
    BY <1>2, <2>2, <2>3 DEF F
<1>5. CASE struct.mode = "dynamic"
  <2> DEFINE there == {i \in 1 .. Len(F) : ProbeField(F[i]) # 0}
  <2>1. FieldOf(struct, eid) = IF there = {} THEN 0 ELSE CHOOSE i \in there : \A j \in there : i <= j
    BY <1>5 DEF FieldOf, DynamicField
  <2>2. \A i \in 1 .. Len(F) : i \in there <=> F[i] # "none"
    BY DEF ProbeField
  <2> HIDE DEF F
  <2>a. there \subseteq 1 .. Len(F)
    OBVIOUS
  <2> HIDE DEF there
  <2>3. CASE there = {}
    <3>1. FieldOf(struct, eid) = 0
      BY <2>1, <2>3
    <3> QED
      BY <1>2, <2>2, <2>3, <3>1 DEF F
  <2>4. CASE there # {}
    <3>1. there \subseteq Nat
      BY <2>a
    <3>2. \E i \in there : \A j \in there : i <= j
      BY <2>4, <3>1, LeastOf
    <3> DEFINE k == FieldOf(struct, eid)
    <3>3. k \in there /\ \A j \in there : k <= j
      BY <2>1, <2>4, <3>2
    <3> HIDE DEF k
    <3>4. k \in 1 .. Len(F) /\ F[k] # "none"
      BY <2>2, <2>a, <3>3
    <3>5. \A i \in 1 .. k - 1 : F[i] = "none"
      BY <1>2, <2>2, <3>3, <3>4
    <3>6. eid \in DOMAIN struct.fields
      BY <1>3, <3>4 DEF F, Fields
    <3> QED
      BY <1>2, <3>4, <3>5, <3>6 DEF k, F
  <2> QED
    BY <2>3, <2>4
<1> QED
  BY <1>4, <1>5 DEF IsStruct

-----------------------------------------------------------------------------
(* The inductive invariant.                                                *)

EnvInv ==
    /\ xlen \in {32, 64} /\ env \in Environments
    /\ \A l \in 1 .. Len(env) : Compiles(env[l])

\* The call that is under way.
CallerInv == stage # "idle" =>
    /\ ecall.eid = caller.eid
    /\ level \in 1 .. Len(env)
    /\ Typed => /\ caller.fn \in DOMAIN Rt[caller.eid]
                /\ caller.args \in ArgumentsOf(Rt[caller.eid][caller.fn])
                /\ ecall.fid = Rt[caller.eid][caller.fn].fid
    /\ caller.fn = "raw" => \A r \in 1 .. 6 : caller.args[r] \in Nat /\ (xlen = 32 => caller.args[r] < Half)
    /\ stage = "done" => level = 1

\* The registers hold the call, at whichever level it is.
RegsInv == stage = "ecall" =>
    /\ Typed /\ caller.fn \notin TriggerMasks =>
        \E unset \in Unset : ecall.regs = Encode(Rt[caller.eid][caller.fn], caller.args, unset)
    /\ caller.fn = "raw" /\ level = 1 => ecall.regs = caller.args

\* A method and its arguments are those of a function of the library.
Intact(m, args) == Typed =>
    /\ m = caller.fn
    /\ m \notin TriggerMasks =>
        /\ \A p \in DOMAIN caller.args : args[p] = caller.args[p]
        /\ DOMAIN args = DOMAIN caller.args \/ m \in Pointers

\* A method's arguments are the registers of a raw call.
Whole(m, args) == caller.fn = "raw" /\ m \notin {"handle", "write_byte"} =>
    LET entry == Handle[caller.eid][m] IN
    \A slot \in Slots(entry) : Part(args[entry.regs[slot[1]]], slot[2]) = caller.args[Place(entry, slot)]

\* The field and the method that the call is delivered to at a level.
Delivered(l, field, m, args) ==
    /\ m = "handle" => caller.eid \notin Standard \cup LegacyEids
    /\ m # "handle" => /\ caller.eid \in Standard /\ m \in DOMAIN Handle[caller.eid]
                       /\ field = FieldOf(env[l], caller.eid)
                       /\ caller.eid # "BASE" => field # 0
    /\ Intact(m, args)
    /\ l = 1 => Whole(m, args)

CalleeInv == stage = "method" => Delivered(level, callee.field, callee.method, callee.args)

\* What ran is what the call was delivered to, and its answer is on its way.
ServedInv ==
    /\ stage \in {"idle", "ecall", "method"} => served = {}
    /\ \A s \in served :
        /\ s.eid = caller.eid /\ s.method = callee.method /\ s.level \in 1 .. Len(env)
        /\ Delivered(s.level, s.field, s.method, s.args)
        /\ answer = Returned(s.ret)

\* Every level above the lowest forwards the extension, which the lowest has.
Reaching ==
    /\ Typed /\ caller.eid \in DOMAIN Forwards \ {"BASE"}
    /\ \A l \in 1 .. Len(env) - 1 : Forwarded(l)
    /\ FieldOf(env[Len(env)], caller.eid) # 0
    /\ Fields(env[Len(env)], caller.eid)[FieldOf(env[Len(env)], caller.eid)] = "full"
ReachInv == stage \in {"answer", "done"} /\ Reaching => \E s \in served : s.level = Len(env)

\* The only environment has answered as its probe announces.
Announcing == Typed /\ caller.eid # "BASE" /\ Len(env) = 1
Announced ==
    IF ProbeExtension(env[1], caller.eid) = 0 THEN answer = NotSupported /\ served = {}
    ELSE IF Hollow(env[1], caller.eid) THEN answer = NoneAnswer(caller.eid, caller.fn) /\ served = {}
    ELSE served # {} \/ caller.fn \in DOMAIN Traits[caller.eid].provided
ProbeInv == stage \in {"answer", "done"} /\ Announcing => Announced

StageInv == stage \in {"idle", "ecall", "method", "answer", "done"}

SbiInv ==
    /\ StageInv /\ EnvInv /\ CallerInv /\ RegsInv /\ CalleeInv /\ ServedInv /\ ReachInv /\ ProbeInv

\* The word size being the same, so are the encodings.
LEMMA WordFrame ==
    ASSUME xlen' = xlen
    PROVE  /\ \A f : Slots(f)' = Slots(f) /\ ArgumentsOf(f)' = ArgumentsOf(f)
           /\ \A f, s : Place(f, s)' = Place(f, s)
           /\ \A f, a, u : Encode(f, a, u)' = Encode(f, a, u)
           /\ Unset' = Unset
<1>1. \A f : Slots(f)' = Slots(f)
  BY DEF Slots, InTwo
<1>2. \A f, s : Place(f, s)' = Place(f, s)
  BY DEF Place, InTwo
<1>3. \A f, p : Samples(f, p)' = Samples(f, p)
  BY DEF Samples
<1>4. \A f : ArgumentsOf(f)' = ArgumentsOf(f)
  BY <1>3, Zenon DEF ArgumentsOf
<1>5. \A f, a, u : Encode(f, a, u)' = Encode(f, a, u)
  BY <1>1, <1>2, Zenon DEF Encode
<1>6. Unset' = Unset
  BY DEF Unset
<1> QED
  BY <1>1, <1>2, <1>4, <1>5, <1>6, Zenon

\* The call being the same too, so is all that is said of it.
LEMMA CallFrame ==
    ASSUME UNCHANGED <<xlen, env, caller>>
    PROVE  /\ Typed' = Typed
           /\ \A l, field, m, a : Delivered(l, field, m, a)' <=> Delivered(l, field, m, a)
           /\ Reaching' <=> Reaching
           /\ Announcing' <=> Announcing
           /\ EnvInv' <=> EnvInv
<1>1. Typed' = Typed
  BY DEF Typed
<1>2. \A m, a : Intact(m, a)' <=> Intact(m, a)
  BY <1>1, Zenon DEF Intact
<1>3. \A m, a : Whole(m, a)' <=> Whole(m, a)
  BY WordFrame, Zenon DEF Whole
<1>4. ASSUME NEW l, NEW field, NEW m, NEW a
      PROVE  Delivered(l, field, m, a)' <=> Delivered(l, field, m, a)
  <2>1. (Intact(m, a)' <=> Intact(m, a)) /\ (Whole(m, a)' <=> Whole(m, a))
    BY <1>2, <1>3
  <2> QED
    BY <2>1 DEF Delivered
<1>5. \A l : Forwarded(l)' <=> Forwarded(l)
  BY Zenon DEF Forwarded
<1>6. Reaching' <=> Reaching
  BY <1>1, <1>5, Zenon DEF Reaching
<1>7. Announcing' <=> Announcing
  BY <1>1, Zenon DEF Announcing
<1>8. EnvInv' <=> EnvInv
  BY Zenon DEF EnvInv
<1> QED
  BY <1>1, <1>4, <1>6, <1>7, <1>8, Zenon

\* The structures of the environment.
LEMMA Structs ==
    ASSUME EnvInv
    PROVE  /\ Len(env) \in Nat \ {0}
           /\ \A l \in 1 .. Len(env) : IsStruct(env[l]) /\ Compiles(env[l])
           /\ ~Forwarding(env[Len(env)])
  BY EnvironmentsAssumption DEF EnvInv

\* The function number picks the method of the function's name.
LEMMA MatchedIs ==
    ASSUME ecall.eid \in Standard, HasFunction
    PROVE  Matched \in DOMAIN Handle[ecall.eid] /\ Handle[ecall.eid][Matched].fid = ecall.fid /\ Matched # "handle"
<1>1. Matched \in DOMAIN Handle[ecall.eid] /\ Handle[ecall.eid][Matched].fid = ecall.fid
  BY Zenon DEF HasFunction, Matched
<1> QED
  BY <1>1, TablesNames, Zenon

LEMMA TypedMatched ==
    ASSUME CallerInv, stage = "ecall", Typed, HasFunction
    PROVE  Matched = caller.fn
<1>1. /\ ecall.eid = caller.eid /\ caller.eid \in Standard /\ caller.fn \in DOMAIN Rt[caller.eid]
      /\ ecall.fid = Rt[caller.eid][caller.fn].fid
  BY DEF CallerInv, Typed
<1>2. Matched \in DOMAIN Handle[caller.eid] /\ Handle[caller.eid][Matched].fid = ecall.fid
  BY <1>1, MatchedIs
<1>3. caller.fn \in DOMAIN Handle[caller.eid]
  <2>1. CASE caller.eid = "BASE"
    <3>1. ecall.fid \in 4 .. 6
      BY <1>1, <1>2, <2>1, TablesNames, Zenon
    <3>2. caller.fn \in DOMAIN Handle[caller.eid] \/ ecall.fid \in 0 .. 3
      BY <1>1, <2>1, TablesNames, Zenon
    <3> QED
      BY <3>1, <3>2
  <2>2. CASE caller.eid # "BASE"
    BY <1>1, <2>2, TablesNames, Zenon
  <2> QED
    BY <2>1, <2>2
<1>4. Agrees(Rt[caller.eid][caller.fn], Handle[caller.eid][caller.fn], caller.fn)
  BY <1>1, <1>3, TablesAgrees
<1>5. Handle[caller.eid][caller.fn].fid = ecall.fid
  BY <1>1, <1>4 DEF Agrees
<1>6. \A m, n \in DOMAIN Handle[caller.eid] : Handle[caller.eid][m].fid = Handle[caller.eid][n].fid => m = n
  BY <1>1, TablesNames
<1> QED
  BY <1>2, <1>3, <1>5, <1>6

LEMMA TypedHas ==
    ASSUME CallerInv, stage = "ecall", Typed, caller.eid # "BASE"
    PROVE  HasFunction
<1>1. /\ ecall.eid = caller.eid /\ caller.eid \in Standard /\ caller.fn \in DOMAIN Rt[caller.eid]
      /\ ecall.fid = Rt[caller.eid][caller.fn].fid
  BY DEF CallerInv, Typed
<1>2. caller.fn \in DOMAIN Handle[caller.eid]
  BY <1>1, TablesNames, Zenon
<1>3. Agrees(Rt[caller.eid][caller.fn], Handle[caller.eid][caller.fn], caller.fn)
  BY <1>1, <1>2, TablesAgrees
<1> QED
  BY <1>1, <1>2, <1>3 DEF Agrees, HasFunction

\* The arguments that a method is given.
Given(entry, args) == [p \in DOMAIN args |-> IF p \in entry.u32 THEN args[p] % Half ELSE args[p]]

\* A function's arguments fit and reach the method.
LEMMA TypedGiven ==
    ASSUME EnvInv, CallerInv, RegsInv, stage = "ecall", Typed, ecall.eid \in Standard, HasFunction,
           NEW entry, entry = Handle[ecall.eid][Matched], NEW args, args = Decode(entry, ecall.regs)
    PROVE  (\A p \in entry.u32 : FitsRegister(args[p])) /\ Intact(Matched, Given(entry, args))
<1> DEFINE f == Rt[caller.eid][caller.fn]
<1>1. Matched = caller.fn /\ ecall.eid = caller.eid
  BY TypedMatched DEF CallerInv
<1>2. Agrees(f, entry, caller.fn) /\ Sound(entry)
  BY <1>1, MatchedIs, TablesAgrees, TablesSound
<1>3. caller.args \in ArgumentsOf(f)
  BY DEF CallerInv
<1>4. DOMAIN caller.args = Params(f)
  BY <1>3 DEF ArgumentsOf
<1>5. xlen \in {32, 64}
  BY DEF EnvInv
<1> HIDE DEF f
<1>6. CASE caller.fn \in TriggerMasks
  <2>1. entry.u32 = {}
    BY <1>2, <1>6 DEF Agrees
  <2> QED
    BY <1>1, <1>6, <2>1 DEF Intact
<1>7. CASE caller.fn \notin TriggerMasks
  <2>1. PICK unset \in Unset : ecall.regs = Encode(f, caller.args, unset)
    BY <1>7 DEF RegsInv, f
  <2>2. \A p \in Params(f) : p \in Params(entry) /\ args[p] = caller.args[p]
    BY <1>2, <1>3, <1>5, <1>7, <2>1, RoundTrip
  <2>3. DOMAIN args = Params(entry)
    BY DEF Decode
  <2>4. ASSUME NEW p \in Params(f)
        PROVE  caller.args[p] \in Nat /\ (p \in f.u32 => caller.args[p] < Half)
    <3>1. Laid(f) /\ (\A i \in 1 .. Len(f.regs) : f.regs[i] # "extension")
      BY <1>2, <1>7, BothLaid
    <3>2. p # "extension" /\ f.u8 \cap f.u32 = {}
      BY <3>1 DEF Params, Laid
    <3> QED
      BY <1>3, <1>5, <3>2, SampleTypes
  <2>5. entry.u32 = f.u32 /\ \A p \in entry.u32 : p \in Params(f)
    BY <1>2, <1>7 DEF Agrees, Params
  <2>6. \A p \in entry.u32 : FitsRegister(args[p])
    BY <2>2, <2>4, <2>5 DEF FitsRegister
  <2>7. ASSUME NEW p \in Params(f)
        PROVE  Given(entry, args)[p] = caller.args[p]
    <3>1. Given(entry, args)[p] = IF p \in entry.u32 THEN args[p] % Half ELSE args[p]
      BY <2>2, <2>3 DEF Given
    <3>2. p \in entry.u32 => caller.args[p] % Half = caller.args[p]
      BY <2>4, <2>5, Remainder, WordAssumption
    <3> QED
      BY <2>2, <3>1, <3>2
  <2>8. DOMAIN Given(entry, args) = DOMAIN caller.args \/ caller.fn \in Pointers
    <3>1. caller.fn \in Pointers \/ f.regs = entry.regs
      BY <1>2, <1>7 DEF Agrees
    <3>2. f.regs = entry.regs => Params(f) = Params(entry)
      BY DEF Params
    <3> QED
      BY <1>4, <2>3, <3>1, <3>2 DEF Given
  <2> QED
    BY <1>1, <1>4, <1>7, <2>6, <2>7, <2>8 DEF Intact
<1> QED
  BY <1>6, <1>7

\* A raw call's registers reach the method whole, or are refused.
LEMMA RawGiven ==
    ASSUME CallerInv, RegsInv, stage = "ecall", level = 1, ecall.eid \in Standard, HasFunction,
           NEW entry, entry = Handle[ecall.eid][Matched], NEW args, args = Decode(entry, ecall.regs),
           \A p \in entry.u32 : FitsRegister(args[p])
    PROVE  Whole(Matched, Given(entry, args))
<1> SUFFICES ASSUME caller.fn = "raw", Matched # "write_byte", NEW slot \in Slots(entry)
             PROVE  Part(Given(entry, args)[entry.regs[slot[1]]], slot[2]) = caller.args[Place(entry, slot)]
  <2>1. ecall.eid = caller.eid
    BY DEF CallerInv
  <2> QED
    BY <2>1, Zenon DEF Whole
<1>1. ecall.regs = caller.args
  BY DEF RegsInv
<1>2. Sound(entry) /\ entry.u8 = {}
  BY MatchedIs, TablesSound, TablesNames
<1>3. \A r \in 1 .. 6 : caller.args[r] \in Nat /\ (xlen = 32 => caller.args[r] < Half)
  BY DEF CallerInv
<1> DEFINE p == entry.regs[slot[1]]
<1>4. p \in Params(entry) /\ Part(args[p], slot[2]) = caller.args[Place(entry, slot)]
  BY <1>1, <1>2, <1>3, RawExact
<1>5. DOMAIN args = Params(entry)
  BY DEF Decode
<1>6. Given(entry, args)[p] = IF p \in entry.u32 THEN args[p] % Half ELSE args[p]
  BY <1>4, <1>5 DEF Given
<1>7. CASE p \notin entry.u32
  BY <1>4, <1>6, <1>7
<1>8. CASE p \in entry.u32
  <2>1. Laid(entry)
    BY <1>2 DEF Laid, Sound
  <2>2. slot[1] \in 1 .. Len(entry.regs) /\ slot[2] \in {"word", "low", "high"} /\ Place(entry, slot) \in 1 .. 6
    BY <2>1, SlotIs
  <2>3. p \notin entry.u64
    BY <1>8, <1>2 DEF Sound
  <2>4. slot[2] = "word"
    BY <2>2, <2>3 DEF Slots, InTwo
  <2>5. args[p] = caller.args[Place(entry, slot)]
    BY <1>4, <2>4 DEF Part
  <2>6. args[p] \in Nat /\ args[p] < Half
    BY <1>3, <1>8, <2>2, <2>5 DEF FitsRegister
  <2>7. args[p] % Half = args[p]
    BY <2>6, Remainder, WordAssumption
  <2> QED
    BY <1>4, <1>6, <1>8, <2>7
<1> QED
  BY <1>7, <1>8

\* Where the lowest level is reached, every level has a field for the call.
LEMMA ReachingField ==
    ASSUME EnvInv, Reaching, NEW l \in 1 .. Len(env)
    PROVE  /\ FieldOf(env[l], caller.eid) # 0
           /\ Fields(env[l], caller.eid)[FieldOf(env[l], caller.eid)] = IF l = Len(env) THEN "full" ELSE "forward"
<1>1. CASE l = Len(env)
  BY <1>1, Zenon DEF Reaching
<1>2. CASE l # Len(env)
  <2>1. l \in 1 .. Len(env) - 1
    BY <1>2, Structs
  <2>2. Forwarded(l)
    BY <2>1, Zenon DEF Reaching
  <2> QED
    BY <1>2, <2>2, Zenon DEF Forwarded
<1> QED
  BY <1>1, <1>2

\* The prober and the dispatcher agree, and the field that takes a call is None
\* where the announcement is hollow.
LEMMA AnnouncingProbe ==
    ASSUME EnvInv, Announcing
    PROVE  /\ FieldOf(env[1], caller.eid) = 0 <=> ProbeExtension(env[1], caller.eid) = 0
           /\ FieldOf(env[1], caller.eid) # 0 =>
                (Fields(env[1], caller.eid)[FieldOf(env[1], caller.eid)] \in {"none", "refnone"}
                    <=> Hollow(env[1], caller.eid))
<1> DEFINE F == Fields(env[1], caller.eid)  k == FieldOf(env[1], caller.eid)
<1>1. IsStruct(env[1]) /\ Compiles(env[1]) /\ caller.eid \in Standard /\ caller.eid # "BASE"
  BY Structs DEF Announcing, Typed
<1>2. /\ Len(F) \in Nat /\ k \in 0 .. Len(F)
      /\ \A i \in 1 .. k - 1 : F[i] = "none"
      /\ env[1].mode = "dynamic" =>
            /\ k # 0 => F[k] # "none"
            /\ k = 0 => \A i \in 1 .. Len(F) : F[i] = "none"
  BY <1>1, FieldFirst
<1>3. Hollow(env[1], caller.eid) <=>
        \E i \in 1 .. Len(F) :
            /\ \A j \in 1 .. i - 1 : F[j] = "none"
            /\ F[i] = "refnone" \/ (env[1].mode = "static" /\ F[i] = "none")
  BY DEF Hollow
<1>4. CASE env[1].mode = "static"
  <2>1. k = (IF F = <<>> THEN 0 ELSE 1)
    BY <1>4 DEF FieldOf, StaticField
  <2>2. ProbeVendor(env[1], caller.eid) = 0
    <3>1. \A i \in 1 .. Len(env[1].vendor) : env[1].vendor[i] # caller.eid
      BY <1>1, Zenon DEF Compiles, ValidVendor
    <3> QED
      BY <3>1 DEF ProbeVendor
  <2>3. ProbeExtension(env[1], caller.eid) = (IF F # <<>> THEN 1 ELSE 0)
    BY <1>1, <1>4, <2>2, Zenon DEF ProbeExtension, ProbeStatic
  <2> HIDE DEF F, k
  <2>4. k = 0 <=> ProbeExtension(env[1], caller.eid) = 0
    BY <2>1, <2>3
  <2>5. ASSUME k # 0  PROVE F[k] \in {"none", "refnone"} <=> Hollow(env[1], caller.eid)
    <3>1. k = 1 /\ 1 \in 1 .. Len(F)
      BY <1>2, <2>1, <2>5
    <3>2. ASSUME F[1] \in {"none", "refnone"}  PROVE Hollow(env[1], caller.eid)
      <4>1. \A j \in 1 .. 1 - 1 : F[j] = "none"
        OBVIOUS
      <4> QED
        BY <1>3, <1>4, <3>1, <3>2, <4>1
    <3>3. ASSUME Hollow(env[1], caller.eid)  PROVE F[1] \in {"none", "refnone"}
      <4>1. PICK i \in 1 .. Len(F) : (\A j \in 1 .. i - 1 : F[j] = "none") /\ F[i] \in {"none", "refnone"}
        BY <1>3, <3>3
      <4>2. i = 1 \/ 1 \in 1 .. i - 1
        BY <1>2
      <4> QED
        BY <4>1, <4>2
    <3> QED
      BY <3>1, <3>2, <3>3
  <2> QED
    BY <2>4, <2>5 DEF F, k
<1>5. CASE env[1].mode = "dynamic"
  <2>1. ProbeExtension(env[1], caller.eid) =
          IF \E i \in 1 .. Len(F) : ProbeField(F[i]) # 0 THEN 1 ELSE 0
    BY <1>1, <1>5, Zenon DEF ProbeExtension, ProbeDynamic
  <2>2. \A x : ProbeField(x) # 0 <=> x # "none"
    BY DEF ProbeField
  <2> HIDE DEF F, k
  <2>3. k = 0 <=> ProbeExtension(env[1], caller.eid) = 0
    BY <1>2, <1>5, <2>1, <2>2
  <2>4. ASSUME k # 0  PROVE F[k] \in {"none", "refnone"} <=> Hollow(env[1], caller.eid)
    <3>1. k \in 1 .. Len(F) /\ F[k] # "none" /\ \A i \in 1 .. k - 1 : F[i] = "none"
      BY <1>2, <1>5, <2>4
    <3>2. Hollow(env[1], caller.eid) <=> \E i \in 1 .. Len(F) : (\A j \in 1 .. i - 1 : F[j] = "none") /\ F[i] = "refnone"
      BY <1>3, <1>5
    <3>3. ASSUME NEW i \in 1 .. Len(F), \A j \in 1 .. i - 1 : F[j] = "none", F[i] = "refnone"
          PROVE  i = k
      <4>1. k \notin 1 .. i - 1 /\ i \notin 1 .. k - 1
        BY <3>1, <3>3
      <4> QED
        BY <1>2, <3>1, <4>1
    <3>4. Hollow(env[1], caller.eid) => F[k] = "refnone"
      BY <3>2, <3>3, Zenon
    <3>5. F[k] = "refnone" => Hollow(env[1], caller.eid)
      BY <3>1, <3>2, Zenon
    <3> QED
      BY <3>1, <3>4, <3>5
  <2> QED
    BY <2>3, <2>4 DEF F, k
<1> QED
  BY <1>1, <1>4, <1>5 DEF IsStruct

\* What the field of a delivered call is.
LEMMA KindIs ==
    ASSUME CallerInv, CalleeInv, stage = "method"
    PROVE  /\ callee.method = "handle" => FieldKind = "full" /\ ~Typed
           /\ callee.method # "handle" /\ caller.eid # "BASE" =>
                FieldKind = Fields(env[level], caller.eid)[FieldOf(env[level], caller.eid)]
<1>1. ecall.eid = caller.eid /\ Delivered(level, callee.field, callee.method, callee.args)
  BY DEF CallerInv, CalleeInv
<1> QED
  BY <1>1, Zenon DEF Delivered, FieldKind, Typed

\* The call is still the call of its caller.
LEMMA CallerKept ==
    ASSUME SbiInv, stage # "idle", UNCHANGED <<xlen, env, caller, ecall>>,
           level' \in 1 .. Len(env), stage' = "done" => level' = 1
    PROVE  CallerInv'
<1>1. /\ ecall.eid = caller.eid
      /\ Typed => /\ caller.fn \in DOMAIN Rt[caller.eid] /\ caller.args \in ArgumentsOf(Rt[caller.eid][caller.fn])
                  /\ ecall.fid = Rt[caller.eid][caller.fn].fid
      /\ caller.fn = "raw" => \A r \in 1 .. 6 : caller.args[r] \in Nat /\ (xlen = 32 => caller.args[r] < Half)
  BY Zenon DEF SbiInv, CallerInv
<1>2. Typed' = Typed /\ ArgumentsOf(Rt[caller.eid][caller.fn])' = ArgumentsOf(Rt[caller.eid][caller.fn])
  BY CallFrame, WordFrame
<1> QED
  BY <1>1, <1>2, Zenon DEF CallerInv

\* A call that no implementation ran is answered.
LEMMA Answered ==
    ASSUME SbiInv, stage \in {"ecall", "method"}, NEW ret, Answer(ret),
           UNCHANGED <<xlen, env, caller, level, ecall, served>>,
           ~Reaching,
           Announcing => IF ProbeExtension(env[1], caller.eid) = 0 THEN ret = NotSupported
                         ELSE IF Hollow(env[1], caller.eid) THEN ret = NoneAnswer(caller.eid, caller.fn)
                         ELSE caller.fn \in DOMAIN Traits[caller.eid].provided
    PROVE  SbiInv'
<1>1. stage' = "answer" /\ answer' = ret /\ callee' = callee /\ served = {} /\ served' = {} /\ stage # "idle"
  BY DEF SbiInv, ServedInv, Answer
<1>2. StageInv' /\ EnvInv'
  BY <1>1, CallFrame DEF SbiInv, StageInv
<1>3. CallerInv'
  <2>1. level' \in 1 .. Len(env) /\ stage' # "done"
    BY <1>1 DEF SbiInv, CallerInv
  <2> QED
    BY <1>1, <2>1, CallerKept
<1>4. RegsInv' /\ CalleeInv' /\ ServedInv'
  BY <1>1 DEF RegsInv, CalleeInv, ServedInv
<1>5. ReachInv'
  BY CallFrame DEF ReachInv
<1>6. ProbeInv'
  <2>1. Announcing' <=> Announcing
    BY CallFrame
  <2> QED
    BY <1>1, <2>1, Zenon DEF ProbeInv, Announced
<1> QED
  BY <1>2, <1>3, <1>4, <1>5, <1>6 DEF SbiInv

\* The call is at a method.
LEMMA Arrived ==
    ASSUME SbiInv, stage = "ecall", stage' = "method", UNCHANGED <<xlen, env, caller, level, ecall, served, answer>>,
           Delivered(level, callee.field, callee.method, callee.args)'
    PROVE  SbiInv'
<1>1. served = {} /\ served' = {} /\ stage # "idle"
  BY DEF SbiInv, ServedInv
<1>2. StageInv' /\ EnvInv'
  BY CallFrame DEF SbiInv, StageInv
<1>3. CallerInv'
  <2>1. level' \in 1 .. Len(env) /\ stage' # "done"
    BY <1>1 DEF SbiInv, CallerInv
  <2> QED
    BY <1>1, <2>1, CallerKept
<1>4. RegsInv' /\ CalleeInv' /\ ServedInv' /\ ReachInv' /\ ProbeInv'
  BY <1>1 DEF RegsInv, CalleeInv, ServedInv, ReachInv, ProbeInv
<1> QED
  BY <1>2, <1>3, <1>4 DEF SbiInv

-----------------------------------------------------------------------------
(* The steps.                                                              *)

LEMMA SbiInitInv == SbiInit => SbiInv
<1> SUFFICES ASSUME SbiInit  PROVE SbiInv
  OBVIOUS
<1>1. StageInv /\ EnvInv /\ stage = "idle" /\ served = {}
  BY DEF SbiInit, StageInv, EnvInv
<1>2. CallerInv /\ RegsInv /\ CalleeInv /\ ServedInv /\ ReachInv /\ ProbeInv
  BY <1>1 DEF CallerInv, RegsInv, CalleeInv, ServedInv, ReachInv, ProbeInv
<1> QED
  BY <1>1, <1>2 DEF SbiInv

\* A call is made.
LEMMA Called ==
    ASSUME SbiInv, stage = "idle", stage' = "ecall", level' = 1, UNCHANGED <<xlen, env, callee, answer, served>>,
           CallerInv', RegsInv'
    PROVE  SbiInv'
<1>1. served' = {} /\ StageInv'
  BY DEF SbiInv, ServedInv, StageInv
<1>2. EnvInv'
  BY DEF SbiInv, EnvInv
<1>3. CalleeInv' /\ ServedInv' /\ ReachInv' /\ ProbeInv'
  BY <1>1 DEF CalleeInv, ServedInv, ReachInv, ProbeInv
<1> QED
  BY <1>1, <1>2, <1>3 DEF SbiInv

LEMMA CallFunctionStep == SbiInv /\ CallFunction => SbiInv'
<1> SUFFICES ASSUME SbiInv, CallFunction  PROVE SbiInv'
  OBVIOUS
<1>1. stage = "idle" /\ stage' = "ecall" /\ level' = 1 /\ UNCHANGED <<xlen, env, callee, answer, served>>
  BY DEF CallFunction
<1>2. PICK eid \in DOMAIN Rt : \E fn \in DOMAIN Rt[eid] : \E args \in ArgumentsOf(Rt[eid][fn]) : \E unset \in Unset :
        /\ caller' = [eid |-> eid, fn |-> fn, args |-> args]
        /\ ecall' = [eid |-> eid, fid |-> Rt[eid][fn].fid, regs |-> Encode(Rt[eid][fn], args, unset)]
  BY DEF CallFunction
<1>a. PICK fn \in DOMAIN Rt[eid] : \E args \in ArgumentsOf(Rt[eid][fn]) : \E unset \in Unset :
        /\ caller' = [eid |-> eid, fn |-> fn, args |-> args]
        /\ ecall' = [eid |-> eid, fid |-> Rt[eid][fn].fid, regs |-> Encode(Rt[eid][fn], args, unset)]
  BY <1>2
<1>3. PICK args \in ArgumentsOf(Rt[eid][fn]), unset \in Unset :
        /\ caller' = [eid |-> eid, fn |-> fn, args |-> args]
        /\ ecall' = [eid |-> eid, fid |-> Rt[eid][fn].fid, regs |-> Encode(Rt[eid][fn], args, unset)]
  BY <1>a
<1>4. caller'.eid = eid /\ caller'.fn = fn /\ caller'.args = args
  BY <1>3
<1>5. ecall'.eid = eid /\ ecall'.fid = Rt[eid][fn].fid /\ ecall'.regs = Encode(Rt[eid][fn], args, unset)
  BY <1>3
<1>6. 1 \in 1 .. Len(env)
  BY Structs DEF SbiInv
<1>7. fn # "raw"
  BY RawIsNone
<1>8. ArgumentsOf(Rt[caller.eid][caller.fn])' = ArgumentsOf(Rt[eid][fn])
  BY <1>1, <1>4, WordFrame, Zenon
<1>9. Encode(Rt[caller.eid][caller.fn], caller.args, unset)' = Encode(Rt[eid][fn], args, unset) /\ unset \in Unset'
  BY <1>1, <1>4, WordFrame, Zenon
<1>10. CallerInv'
  BY <1>1, <1>4, <1>5, <1>6, <1>7, <1>8 DEF CallerInv
<1>11. RegsInv'
  BY <1>1, <1>4, <1>5, <1>7, <1>9 DEF RegsInv
<1> QED
  BY <1>1, <1>10, <1>11, Called

LEMMA CallRawStep == SbiInv /\ CallRaw => SbiInv'
<1> SUFFICES ASSUME SbiInv, CallRaw  PROVE SbiInv'
  OBVIOUS
<1>1. stage = "idle" /\ stage' = "ecall" /\ level' = 1 /\ UNCHANGED <<xlen, env, callee, answer, served>>
  BY DEF CallRaw
<1>2. PICK eid \in Standard \cup {"VENDOR", "UNKNOWN"}, fid \in RawFids, wide \in SUBSET (1 .. 3) :
        /\ xlen = 32 => wide = {}
        /\ ecall' = [eid |-> eid, fid |-> fid, regs |-> [i \in 1 .. 6 |-> IF i \in wide THEN Half + i ELSE i % 3]]
        /\ caller' = [eid |-> eid, fn |-> "raw", args |-> ecall'.regs]
  BY DEF CallRaw
<1> DEFINE regs == [i \in 1 .. 6 |-> IF i \in wide THEN Half + i ELSE i % 3]
<1>3. ecall'.eid = eid /\ ecall'.regs = regs
  BY <1>2
<1>4. caller'.eid = eid /\ caller'.fn = "raw" /\ caller'.args = regs
  BY <1>2, <1>3
<1>5. \A r \in 1 .. 6 : regs[r] \in Nat /\ (xlen = 32 => regs[r] < Half)
  <2> TAKE r \in 1 .. 6
  <2>1. regs[r] = IF r \in wide THEN Half + r ELSE r % 3
    OBVIOUS
  <2>2. Half \in Nat /\ Half > 2
    BY WordAssumption
  <2>3. r % 3 \in 0 .. 2
    OBVIOUS
  <2> HIDE DEF regs
  <2>4. CASE r \in wide
    BY <1>2, <2>1, <2>2, <2>4
  <2>5. CASE r \notin wide
    BY <2>1, <2>2, <2>3, <2>5
  <2> QED
    BY <2>4, <2>5
<1> HIDE DEF regs
<1>6. 1 \in 1 .. Len(env)
  BY Structs DEF SbiInv
<1>7. ~Typed'
  BY <1>4 DEF Typed
<1>8. CallerInv'
  BY <1>1, <1>3, <1>4, <1>5, <1>6, <1>7 DEF CallerInv
<1>9. RegsInv'
  BY <1>3, <1>4, <1>7 DEF RegsInv
<1> QED
  BY <1>1, <1>8, <1>9, Called

LEMMA AnswerBaseStep == SbiInv /\ AnswerBase => SbiInv'
<1> SUFFICES ASSUME SbiInv, AnswerBase  PROVE SbiInv'
  OBVIOUS
<1>1. stage = "ecall" /\ ecall.eid = "BASE" /\ UNCHANGED <<xlen, env, caller, level, ecall, served>>
  BY DEF AnswerBase
<1>2. caller.eid = "BASE"
  BY <1>1 DEF SbiInv, CallerInv
<1>3. ~Reaching /\ ~Announcing
  BY <1>2 DEF Reaching, Announcing
<1>4. \E ret : Answer(ret)
  BY DEF AnswerBase
<1> QED
  BY <1>1, <1>3, <1>4, Answered

LEMMA CallVendorStep == SbiInv /\ CallVendor => SbiInv'
<1> SUFFICES ASSUME SbiInv, CallVendor  PROVE SbiInv'
  OBVIOUS
<1>1. stage = "ecall" /\ ToVendor(env[level], ecall.eid) /\ UNCHANGED <<xlen, env, caller, level, ecall, served>>
  BY DEF CallVendor
<1>2. ecall.eid = caller.eid /\ level \in 1 .. Len(env)
  BY <1>1 DEF SbiInv, CallerInv
<1>3. /\ FieldOf(env[level], caller.eid) = 0
      /\ env[level].mode = "static" \/ caller.eid \notin Standard
  BY <1>1, <1>2, Zenon DEF ToVendor
<1>4. ~Reaching
  BY <1>2, <1>3, ReachingField DEF SbiInv
<1>5. Announcing => ProbeExtension(env[1], caller.eid) = 0
  <2>1. Announcing => level = 1
    BY <1>2 DEF Announcing
  <2> QED
    BY <1>3, <2>1, AnnouncingProbe DEF SbiInv
<1>6. CASE ProbeVendor(env[level], ecall.eid) = 0
  <2>1. Answer(NotSupported)
    BY <1>6, Zenon DEF CallVendor
  <2> QED
    BY <1>1, <1>4, <1>5, <2>1, Answered
<1>7. CASE ProbeVendor(env[level], ecall.eid) # 0
  <2>1. /\ stage' = "method" /\ UNCHANGED answer
        /\ callee' = [field |-> 0, method |-> "handle", args |-> ecall.regs]
    BY <1>7, Zenon DEF CallVendor
  <2>2. caller.eid \notin Standard \cup LegacyEids
    <3>1. \E i \in 1 .. Len(env[level].vendor) : env[level].vendor[i] = caller.eid
      BY <1>2, <1>7 DEF ProbeVendor
    <3>2. Compiles(env[level])
      BY <1>2 DEF SbiInv, EnvInv
    <3> QED
      BY <3>1, <3>2, Zenon DEF Compiles, ValidVendor
  <2>3. Delivered(level, 0, "handle", ecall.regs)
    BY <2>2 DEF Delivered, Intact, Whole, Typed
  <2>4. callee'.field = 0 /\ callee'.method = "handle" /\ callee'.args = ecall.regs
    BY <2>1
  <2>5. Delivered(level, callee.field, callee.method, callee.args)'
    BY <1>1, <2>3, <2>4, CallFrame, Zenon
  <2> QED
    BY <1>1, <2>1, <2>5, Arrived
<1> QED
  BY <1>6, <1>7

LEMMA NotHandledStep == SbiInv /\ NotHandled => SbiInv'
<1> SUFFICES ASSUME SbiInv, NotHandled  PROVE SbiInv'
  OBVIOUS
<1>1. stage = "ecall" /\ Answer(NotSupported) /\ UNCHANGED <<xlen, env, caller, level, ecall, served>>
      /\ (~HasField \/ ~HasFunction)
  BY DEF NotHandled
<1>2. ecall.eid = caller.eid /\ level \in 1 .. Len(env)
  BY <1>1 DEF SbiInv, CallerInv
<1>3. Typed /\ caller.eid # "BASE" => FieldOf(env[level], caller.eid) = 0
  BY <1>1, <1>2, TypedHas, Zenon DEF HasField, SbiInv
<1>4. ~Reaching
  <2>1. Reaching => Typed /\ caller.eid # "BASE"
    BY DEF Reaching
  <2> QED
    BY <1>2, <1>3, <2>1, ReachingField DEF SbiInv
<1>5. Announcing => ProbeExtension(env[1], caller.eid) = 0
  <2>1. Announcing => Typed /\ caller.eid # "BASE" /\ level = 1
    BY <1>2 DEF Announcing
  <2> QED
    BY <1>3, <2>1, AnnouncingProbe DEF SbiInv
<1> QED
  BY <1>1, <1>4, <1>5, Answered

LEMMA CallMethodStep == SbiInv /\ CallMethod => SbiInv'
<1> SUFFICES ASSUME SbiInv, CallMethod  PROVE SbiInv'
  OBVIOUS
<1> DEFINE entry == Handle[ecall.eid][Matched]
           args == Decode(entry, ecall.regs)
<1>1. stage = "ecall" /\ ecall.eid \in Standard /\ HasField /\ HasFunction /\ UNCHANGED <<xlen, env, caller, level, ecall, served>>
  BY DEF CallMethod
<1>2. ecall.eid = caller.eid /\ level \in 1 .. Len(env)
  BY <1>1 DEF SbiInv, CallerInv
<1>3. Matched \in DOMAIN Handle[ecall.eid] /\ Matched # "handle"
  BY <1>1, MatchedIs
<1>4. IF \E p \in entry.u32 : ~FitsRegister(args[p]) THEN Answer(InvalidParam)
      ELSE /\ stage' = "method" /\ UNCHANGED answer
           /\ callee' = [field |-> FieldOf(env[level], ecall.eid), method |-> Matched, args |-> Given(entry, args)]
  BY DEF CallMethod, Given
<1>5. Typed => /\ \A p \in entry.u32 : FitsRegister(args[p])
               /\ Intact(Matched, Given(entry, args))
  BY <1>1, TypedGiven DEF SbiInv
<1>6. level = 1 /\ (\A p \in entry.u32 : FitsRegister(args[p])) => Whole(Matched, Given(entry, args))
  BY <1>1, RawGiven DEF SbiInv
<1> HIDE DEF entry, args
<1>7. CASE \E p \in entry.u32 : ~FitsRegister(args[p])
  <2>1. ~Typed /\ Answer(InvalidParam)
    BY <1>4, <1>5, <1>7
  <2>2. ~Reaching /\ ~Announcing
    BY <2>1 DEF Reaching, Announcing
  <2> QED
    BY <1>1, <2>1, <2>2, Answered
<1>8. CASE \A p \in entry.u32 : FitsRegister(args[p])
  <2>1. /\ stage' = "method" /\ UNCHANGED answer
        /\ callee' = [field |-> FieldOf(env[level], ecall.eid), method |-> Matched, args |-> Given(entry, args)]
    BY <1>4, <1>8
  <2>2. callee'.field = FieldOf(env[level], caller.eid) /\ callee'.method = Matched /\ callee'.args = Given(entry, args)
    BY <1>2, <2>1
  <2>3. Intact(Matched, Given(entry, args))
    BY <1>5 DEF Intact
  <2>4. Delivered(level, FieldOf(env[level], caller.eid), Matched, Given(entry, args))
    BY <1>1, <1>2, <1>3, <1>6, <1>8, <2>3, Zenon DEF Delivered, HasField
  <2>5. Delivered(level, callee.field, callee.method, callee.args)'
    BY <1>1, <2>2, <2>4, CallFrame, Zenon
  <2> QED
    BY <1>1, <2>1, <2>5, Arrived
<1> QED
  BY <1>7, <1>8

LEMMA RunMethodStep == SbiInv /\ RunMethod => SbiInv'
<1> SUFFICES ASSUME SbiInv, RunMethod  PROVE SbiInv'
  OBVIOUS
<1>1. stage = "method" /\ stage' = "answer" /\ callee' = callee /\ UNCHANGED <<xlen, env, caller, level, ecall>>
      /\ FieldKind \in {"full", "basic"}
  BY DEF RunMethod, Answer
<1>2. PICK ret \in {Success(0), Success(1), InvalidParam} :
        /\ answer' = Returned(ret)
        /\ served' = served \cup {[level |-> level, eid |-> ecall.eid, field |-> callee.field,
                                   method |-> callee.method, args |-> callee.args, ret |-> ret]}
  BY DEF RunMethod, Answer
<1>t. PICK t : t = [level |-> level, eid |-> ecall.eid, field |-> callee.field,
                    method |-> callee.method, args |-> callee.args, ret |-> ret]
  OBVIOUS
<1>3. served' = {t}
  BY <1>1, <1>2, <1>t DEF SbiInv, ServedInv
<1>4. /\ ecall.eid = caller.eid /\ level \in 1 .. Len(env)
      /\ Delivered(level, callee.field, callee.method, callee.args)
  BY <1>1 DEF SbiInv, CallerInv, CalleeInv
<1>5. /\ t.level = level /\ t.eid = caller.eid /\ t.field = callee.field /\ t.method = callee.method
      /\ t.args = callee.args /\ t.ret = ret
  BY <1>4, <1>t
<1>6. StageInv' /\ EnvInv'
  BY <1>1, CallFrame DEF SbiInv, StageInv
<1>7. CallerInv'
  BY <1>1, <1>4, CallerKept
<1>8. RegsInv' /\ CalleeInv'
  BY <1>1 DEF RegsInv, CalleeInv
<1>9. ServedInv'
  <2>1. Delivered(t.level, t.field, t.method, t.args)'
    BY <1>1, <1>4, <1>5, CallFrame, Zenon
  <2>2. Returned(t.ret)' = Returned(ret)
    BY <1>1, <1>5, Zenon DEF Returned
  <2>3. \A s \in served' : s = t
    BY <1>3
  <2> QED
    BY <1>1, <1>2, <1>4, <1>5, <2>1, <2>2, <2>3 DEF ServedInv
<1>10. Typed => callee.method # "handle"
  BY <1>1, KindIs DEF SbiInv
<1>11. ReachInv'
  <2> SUFFICES ASSUME Reaching  PROVE level = Len(env)
    <3>1. Reaching' <=> Reaching
      BY <1>1, CallFrame
    <3> QED
      BY <1>1, <1>3, <1>5, <3>1 DEF ReachInv
  <2>1. Typed /\ caller.eid # "BASE"
    BY DEF Reaching
  <2>2. FieldKind = Fields(env[level], caller.eid)[FieldOf(env[level], caller.eid)]
    BY <1>1, <1>10, <2>1, KindIs DEF SbiInv
  <2>3. FieldKind = IF level = Len(env) THEN "full" ELSE "forward"
    BY <1>4, <2>2, ReachingField DEF SbiInv
  <2> QED
    BY <1>1, <2>3
<1>12. ProbeInv'
  <2> SUFFICES ASSUME Announcing
               PROVE  ProbeExtension(env[1], caller.eid) # 0 /\ ~Hollow(env[1], caller.eid)
    <3>1. Announcing' <=> Announcing
      BY <1>1, CallFrame
    <3> QED
      BY <1>1, <1>3, <3>1 DEF ProbeInv, Announced
  <2>1. Typed /\ caller.eid # "BASE" /\ level = 1
    BY <1>4 DEF Announcing
  <2>2. FieldOf(env[1], caller.eid) # 0
    BY <1>4, <1>10, <2>1, Zenon DEF Delivered
  <2>3. Fields(env[1], caller.eid)[FieldOf(env[1], caller.eid)] \notin {"none", "refnone"}
    <3>1. FieldKind = Fields(env[1], caller.eid)[FieldOf(env[1], caller.eid)]
      BY <1>1, <1>10, <2>1, KindIs DEF SbiInv
    <3> QED
      BY <1>1, <3>1
  <2> QED
    BY <2>2, <2>3, AnnouncingProbe DEF SbiInv
<1> QED
  BY <1>6, <1>7, <1>8, <1>9, <1>11, <1>12 DEF SbiInv

LEMMA DefaultStep == SbiInv /\ Default => SbiInv'
<1> SUFFICES ASSUME SbiInv, Default  PROVE SbiInv'
  OBVIOUS
<1>1. /\ stage = "method" /\ UNCHANGED <<xlen, env, caller, level, ecall, served>>
  BY DEF Default
<1>a. PICK ret :
      /\ Answer(ret)
      /\ \/ FieldKind \in {"none", "refnone"} /\ ret = NoneAnswer(ecall.eid, callee.method)
         \/ /\ FieldKind = "basic" \/ (FieldKind = "forward" /\ callee.method \notin Forwards[ecall.eid])
            /\ callee.method \in DOMAIN Traits[ecall.eid].provided
  BY DEF Default
<1>2. /\ ecall.eid = caller.eid /\ level \in 1 .. Len(env)
      /\ Delivered(level, callee.field, callee.method, callee.args)
  BY <1>1 DEF SbiInv, CallerInv, CalleeInv
<1>3. callee.method # "handle"
  BY <1>1, <1>a, KindIs DEF SbiInv
<1>4. caller.eid # "BASE" => FieldKind = Fields(env[level], caller.eid)[FieldOf(env[level], caller.eid)]
  BY <1>1, <1>3, KindIs DEF SbiInv
<1>5. ~Reaching
  <2> SUFFICES ASSUME Reaching  PROVE FALSE
    OBVIOUS
  <2>1. caller.eid \in DOMAIN Forwards /\ caller.eid # "BASE"
    BY DEF Reaching
  <2>2. FieldKind \in {"full", "forward"}
    BY <1>2, <1>4, <2>1, ReachingField DEF SbiInv
  <2>3. callee.method \in Forwards[ecall.eid]
    BY <1>2, <1>3, <2>1, TablesForwards DEF Delivered
  <2> QED
    BY <1>1, <1>a, <2>2, <2>3
<1>6. ASSUME Announcing
      PROVE  /\ ProbeExtension(env[1], caller.eid) # 0
             /\ IF Hollow(env[1], caller.eid) THEN ret = NoneAnswer(caller.eid, caller.fn)
                ELSE caller.fn \in DOMAIN Traits[caller.eid].provided
  <2>1. Typed /\ caller.eid # "BASE" /\ level = 1
    BY <1>2, <1>6 DEF Announcing
  <2>2. FieldOf(env[1], caller.eid) # 0
    BY <1>2, <1>3, <2>1, Zenon DEF Delivered
  <2>3. FieldKind = Fields(env[1], caller.eid)[FieldOf(env[1], caller.eid)]
    BY <1>4, <2>1
  <2>4. ProbeExtension(env[1], caller.eid) # 0 /\ (FieldKind \in {"none", "refnone"} <=> Hollow(env[1], caller.eid))
    BY <1>6, <2>2, <2>3, AnnouncingProbe DEF SbiInv
  <2>5. callee.method = caller.fn
    BY <1>2, <2>1 DEF Delivered, Intact
  <2> QED
    BY <1>2, <1>a, <2>4, <2>5
<1> QED
  BY <1>1, <1>a, <1>5, <1>6, Answered

LEMMA ForwardStep == SbiInv /\ Forward => SbiInv'
<1> SUFFICES ASSUME SbiInv, Forward  PROVE SbiInv'
  OBVIOUS
<1>1. /\ stage = "method" /\ FieldKind = "forward" /\ stage' = "ecall" /\ level' = level + 1
      /\ UNCHANGED <<xlen, env, caller, callee, answer, served>>
  BY DEF Forward
<1> DEFINE f == Rt[ecall.eid][callee.method]
<1>2. PICK unset \in Unset : ecall' = [eid |-> ecall.eid, fid |-> f.fid, regs |-> Encode(f, callee.args, unset)]
  BY DEF Forward
<1>3. ecall'.eid = ecall.eid /\ ecall'.fid = f.fid /\ ecall'.regs = Encode(f, callee.args, unset)
  BY <1>2
<1>4. /\ ecall.eid = caller.eid /\ level \in 1 .. Len(env)
      /\ Delivered(level, callee.field, callee.method, callee.args) /\ served = {}
  BY <1>1 DEF SbiInv, CallerInv, CalleeInv, ServedInv
<1>5. callee.method # "handle"
  BY <1>1, KindIs DEF SbiInv
<1>6. level # Len(env)
  <2> SUFFICES ASSUME level = Len(env)  PROVE FALSE
    OBVIOUS
  <2>1. ~Forwarding(env[level]) /\ IsStruct(env[level]) /\ Compiles(env[level])
    BY <1>4, Structs DEF SbiInv
  <2>2. CASE caller.eid = "BASE"
    BY <1>1, <1>4, <1>5, <2>1, <2>2 DEF FieldKind, Forwarding
  <2>3. CASE caller.eid # "BASE"
    <3> DEFINE k == FieldOf(env[level], caller.eid)
    <3>1. k # 0
      BY <1>4, <1>5, <2>3, Zenon DEF Delivered
    <3>2. Fields(env[level], caller.eid)[k] = "forward"
      BY <1>1, <1>5, <2>3, KindIs DEF SbiInv
    <3>3. /\ caller.eid \in DOMAIN env[level].fields
          /\ Len(Fields(env[level], caller.eid)) \in Nat /\ k \in 0 .. Len(Fields(env[level], caller.eid))
      BY <2>1, <3>1, FieldFirst
    <3>4. Fields(env[level], caller.eid) = env[level].fields[caller.eid]
      BY <3>3 DEF Fields
    <3> HIDE DEF k
    <3>5. k \in 1 .. Len(env[level].fields[caller.eid])
      BY <3>1, <3>3, <3>4
    <3> QED
      BY <2>1, <3>2, <3>3, <3>4, <3>5, Zenon DEF Forwarding
  <2> QED
    BY <2>2, <2>3
<1>7. level' \in 1 .. Len(env) /\ level' # 1
  BY <1>1, <1>4, <1>6, Structs DEF SbiInv
<1>8. Typed => /\ callee.method = caller.fn
               /\ caller.fn \in DOMAIN Rt[caller.eid] /\ caller.args \in ArgumentsOf(Rt[caller.eid][caller.fn])
               /\ f = Rt[caller.eid][caller.fn]
  BY <1>1, <1>4 DEF SbiInv, CallerInv, Delivered, Intact
<1>9. Typed' = Typed /\ ArgumentsOf(Rt[caller.eid][caller.fn])' = ArgumentsOf(Rt[caller.eid][caller.fn])
  BY <1>1, CallFrame, WordFrame
<1> HIDE DEF f
<1>10. StageInv' /\ EnvInv'
  BY <1>1, CallFrame DEF SbiInv, StageInv
<1>11. CallerInv'
  <2>1. caller.fn = "raw" => \A r \in 1 .. 6 : caller.args[r] \in Nat /\ (xlen = 32 => caller.args[r] < Half)
    BY <1>1, Zenon DEF SbiInv, CallerInv
  <2>2. stage' # "done"
    BY <1>1
  <2> QED
    BY <1>1, <1>3, <1>4, <1>7, <1>8, <1>9, <2>1, <2>2, Zenon DEF CallerInv
<1>12. RegsInv'
  <2>1. ASSUME Typed, caller.fn \notin TriggerMasks
        PROVE  ecall'.regs = Encode(Rt[caller.eid][caller.fn], caller.args, unset)
    <3>1. DOMAIN caller.args = Params(f)
      BY <1>8, <2>1 DEF ArgumentsOf
    <3>2. \A p \in Params(f) : callee.args[p] = caller.args[p]
      BY <1>4, <2>1, <3>1 DEF Delivered, Intact
    <3> QED
      BY <1>3, <1>8, <2>1, <3>2, EncodeSame
  <2>2. /\ Encode(Rt[caller.eid][caller.fn], caller.args, unset)' = Encode(Rt[caller.eid][caller.fn], caller.args, unset)
        /\ Unset' = Unset
    BY <1>1, WordFrame
  <2> QED
    BY <1>1, <1>7, <1>9, <2>1, <2>2, Zenon DEF RegsInv
<1>13. CalleeInv' /\ ServedInv' /\ ReachInv' /\ ProbeInv'
  BY <1>1, <1>4 DEF CalleeInv, ServedInv, ReachInv, ProbeInv
<1> QED
  BY <1>10, <1>11, <1>12, <1>13 DEF SbiInv

\* A Forward that passes an answer on changes nothing that the method's type kept.
LEMMA ReturnedTwice ==
    ASSUME NEW ret
    PROVE  Returned(Returned(ret)) = Returned(ret)
<1> DEFINE kind == IF callee.method = "handle" THEN "ret" ELSE Handle[ecall.eid][callee.method].returns
<1>1. \A r : Returned(r) = IF kind = "ret" THEN r ELSE Success(IF kind = "value" THEN r.value ELSE 0)
  BY Zenon DEF Returned
<1> HIDE DEF kind
<1>2. \A v : Success(v).value = v
  BY DEF Success
<1> QED
  BY <1>1, <1>2, Zenon

LEMMA ReturnStep == SbiInv /\ Return => SbiInv'
<1> SUFFICES ASSUME SbiInv, Return  PROVE SbiInv'
  OBVIOUS
<1>1. stage = "answer" /\ UNCHANGED <<xlen, env, caller, ecall, callee, served>>
  BY DEF Return
<1>2. \/ level = 1 /\ stage' = "done" /\ UNCHANGED <<level, answer>>
      \/ level # 1 /\ level' = level - 1 /\ answer' = Returned(answer) /\ stage' = stage
  BY DEF Return
<1>3. level \in 1 .. Len(env) /\ Len(env) \in Nat
  BY <1>1, Structs DEF SbiInv, CallerInv
<1>4. stage' \in {"answer", "done"} /\ level' \in 1 .. Len(env) /\ (stage' = "done" => level' = 1)
  BY <1>1, <1>2, <1>3
<1>5. StageInv' /\ EnvInv'
  BY <1>1, <1>4, CallFrame DEF SbiInv, StageInv
<1>6. CallerInv'
  BY <1>1, <1>4, CallerKept
<1>7. RegsInv' /\ CalleeInv'
  BY <1>4 DEF RegsInv, CalleeInv
<1>8. ServedInv'
  <2>1. ASSUME NEW s \in served
        PROVE  /\ s.eid = caller.eid /\ s.method = callee.method /\ s.level \in 1 .. Len(env)
               /\ Delivered(s.level, s.field, s.method, s.args)
               /\ answer' = Returned(s.ret)
    <3>1. /\ s.eid = caller.eid /\ s.method = callee.method /\ s.level \in 1 .. Len(env)
          /\ Delivered(s.level, s.field, s.method, s.args)
          /\ answer = Returned(s.ret)
      BY Zenon DEF SbiInv, ServedInv
    <3>2. answer' = Returned(s.ret)
      BY <1>2, <3>1, ReturnedTwice
    <3> QED
      BY <3>1, <3>2
  <2>2. \A r : Returned(r)' = Returned(r)
    BY <1>1, Zenon DEF Returned
  <2>3. \A l, field, m, a : Delivered(l, field, m, a)' <=> Delivered(l, field, m, a)
    BY <1>1, CallFrame
  <2>4. stage' \notin {"idle", "ecall", "method"}
    BY <1>4
  <2> QED
    BY <1>1, <2>1, <2>2, <2>3, <2>4, Zenon DEF ServedInv
<1>9. ReachInv'
  <2>1. Reaching' <=> Reaching
    BY <1>1, CallFrame
  <2> QED
    BY <1>1, <2>1 DEF SbiInv, ReachInv
<1>10. ProbeInv'
  <2> SUFFICES ASSUME Announcing  PROVE Announced'
    <3>1. Announcing' <=> Announcing
      BY <1>1, CallFrame
    <3> QED
      BY <3>1 DEF ProbeInv
  <2>1. level = 1
    BY <1>3 DEF Announcing
  <2>2. Announced /\ answer' = answer
    BY <1>1, <1>2, <2>1 DEF SbiInv, ProbeInv
  <2> QED
    BY <1>1, <2>2, Zenon DEF Announced
<1> QED
  BY <1>5, <1>6, <1>7, <1>8, <1>9, <1>10 DEF SbiInv

LEMMA ResumeStep == SbiInv /\ Resume => SbiInv'
<1> SUFFICES ASSUME SbiInv, Resume  PROVE SbiInv'
  OBVIOUS
<1>1. stage' = "idle" /\ served' = {} /\ UNCHANGED <<xlen, env>>
  BY DEF Resume
<1>2. StageInv' /\ EnvInv'
  BY <1>1 DEF SbiInv, StageInv, EnvInv
<1>3. CallerInv' /\ RegsInv' /\ CalleeInv' /\ ServedInv' /\ ReachInv' /\ ProbeInv'
  BY <1>1 DEF CallerInv, RegsInv, CalleeInv, ServedInv, ReachInv, ProbeInv
<1> QED
  BY <1>2, <1>3 DEF SbiInv

LEMMA SbiStutter == SbiInv /\ UNCHANGED sbiVars => SbiInv'
<1> SUFFICES ASSUME SbiInv, UNCHANGED sbiVars  PROVE SbiInv'
  OBVIOUS
<1>1. UNCHANGED <<xlen, env, caller, level, ecall, callee, answer, served, stage>>
  BY DEF sbiVars
<1>2. /\ Typed' = Typed /\ (Reaching' <=> Reaching) /\ (Announcing' <=> Announcing) /\ (EnvInv' <=> EnvInv)
      /\ \A l, field, m, a : Delivered(l, field, m, a)' <=> Delivered(l, field, m, a)
  BY <1>1, CallFrame
<1>3. Unset' = Unset /\ (\A f : ArgumentsOf(f)' = ArgumentsOf(f)) /\ \A f, a, u : Encode(f, a, u)' = Encode(f, a, u)
  BY <1>1, WordFrame
<1>4. \A r : Returned(r)' = Returned(r)
  BY <1>1, Zenon DEF Returned
<1>5. StageInv' /\ EnvInv'
  BY <1>1, <1>2 DEF SbiInv, StageInv
<1>6. CallerInv'
  BY <1>1, <1>2, <1>3, Zenon DEF SbiInv, CallerInv
<1>7. RegsInv'
  BY <1>1, <1>2, <1>3, Zenon DEF SbiInv, RegsInv
<1>8. CalleeInv' /\ ServedInv'
  BY <1>1, <1>2, <1>4, Zenon DEF SbiInv, CalleeInv, ServedInv
<1>9. ReachInv' /\ ProbeInv'
  BY <1>1, <1>2, Zenon DEF SbiInv, ReachInv, ProbeInv, Announced
<1> QED
  BY <1>5, <1>6, <1>7, <1>8, <1>9 DEF SbiInv

\* The invariant is inductive.
LEMMA SbiInductive == SbiInv /\ [SbiNext]_sbiVars => SbiInv'
  BY CallFunctionStep, CallRawStep, AnswerBaseStep, CallVendorStep, NotHandledStep, CallMethodStep, RunMethodStep,
     DefaultStep, ForwardStep, ReturnStep, ResumeStep, SbiStutter DEF SbiNext

\* What the invariant says of a call under way and of one that is done.
LEMMA SbiInvFaithful == SbiInv => CallsAreFaithful
<1> SUFFICES ASSUME SbiInv  PROVE CallsAreFaithful
  OBVIOUS
<1>1. ASSUME NEW s \in served
      PROVE  /\ s.eid = caller.eid /\ s.method = callee.method
             /\ Delivered(s.level, s.field, s.method, s.args)
             /\ answer = Returned(s.ret)
  BY Zenon DEF SbiInv, ServedInv
<1>2. CallsArriveIntact
  BY <1>1, Zenon DEF CallsArriveIntact, Delivered, Intact
<1>3. NothingIsCut
  BY <1>1, Zenon DEF NothingIsCut, Delivered, Whole
<1>4. AnswersArriveIntact
  <2> SUFFICES ASSUME stage = "done", NEW s \in served
               PROVE  LET returns == IF s.method = "handle" THEN "ret" ELSE Handle[s.eid][s.method].returns IN
                      IF returns = "ret" THEN answer = s.ret
                      ELSE answer = Success(IF returns = "value" THEN s.ret.value ELSE 0)
    BY Zenon DEF AnswersArriveIntact
  <2>1. ecall.eid = caller.eid
    BY DEF SbiInv, CallerInv
  <2>2. answer = Returned(s.ret) /\ s.eid = ecall.eid /\ s.method = callee.method
    BY <1>1, <2>1
  <2> QED
    BY <2>2, Zenon DEF Returned
<1>5. ForwardsReach
  BY DEF SbiInv, ReachInv, Reaching, ForwardsReach
<1> QED
  BY <1>2, <1>3, <1>4, <1>5 DEF CallsAreFaithful

LEMMA SbiInvAnnounced == SbiInv => ServedAsAnnounced
<1> SUFFICES ASSUME SbiInv  PROVE ServedAsAnnounced
  OBVIOUS
<1>1. ASSUME NEW s \in served
      PROVE  s.eid = caller.eid /\ s.level \in 1 .. Len(env) /\ Delivered(s.level, s.field, s.method, s.args)
  BY Zenon DEF SbiInv, ServedInv
<1>2. StandardStaysStandard
  BY <1>1, Zenon DEF StandardStaysStandard, Delivered
<1>3. FirstSomeServes
  <2> SUFFICES ASSUME NEW s \in served, s.method # "handle"
               PROVE  \A i \in 1 .. s.field - 1 : Fields(env[s.level], s.eid)[i] = "none"
    BY Zenon DEF FirstSomeServes
  <2>1. s.field = FieldOf(env[s.level], s.eid) /\ s.level \in 1 .. Len(env)
    BY <1>1, Zenon DEF Delivered
  <2>2. IsStruct(env[s.level]) /\ Compiles(env[s.level])
    BY <2>1, Structs DEF SbiInv
  <2> QED
    BY <2>1, <2>2, FieldFirst
<1>4. ProbeIsTruthful
  BY Zenon DEF SbiInv, ProbeInv, Announcing, Announced, ProbeIsTruthful
<1> QED
  BY <1>2, <1>3, <1>4 DEF ServedAsAnnounced

\* A call of any function of sbi-rt, with any arguments of its types, on both
\* word sizes, reaches the method of its name with those arguments, and the
\* answer comes back, whatever environments it is forwarded through.
\* (sbi-rt, handle_ecall, the _rustsbi_* functions and Forward)
THEOREM CallsFaithful == SbiSpec => []CallsAreFaithful
<1>1. SbiInit => SbiInv
  BY SbiInitInv
<1>2. SbiInv /\ [SbiNext]_sbiVars => SbiInv'
  BY SbiInductive
<1>3. SbiInv => CallsAreFaithful
  BY SbiInvFaithful
<1> QED
  BY <1>1, <1>2, <1>3, PTL DEF SbiSpec

\* Whatever fields a structure that compiles has, static or dynamic, it refuses
\* every call of an extension that its probe does not announce; what it announces
\* its first available field serves, and runs nothing exactly where that field is
\* a static None or a reference to None; and its vendor extensions see no
\* standard call.  (the derive macro and extension::validate)
THEOREM ServesAnnounced == SbiSpec => []ServedAsAnnounced
<1>1. SbiInit => SbiInv
  BY SbiInitInv
<1>2. SbiInv /\ [SbiNext]_sbiVars => SbiInv'
  BY SbiInductive
<1>3. SbiInv => ServedAsAnnounced
  BY SbiInvAnnounced
<1> QED
  BY <1>1, <1>2, <1>3, PTL DEF SbiSpec
==============================================================================
