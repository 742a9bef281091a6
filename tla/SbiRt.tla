-------------------------------- MODULE SbiRt --------------------------------
(***************************************************************************)
(* The supervisor's side of an SBI call: the functions of the sbi-rt       *)
(* library and the registers each of them loads before its ecall.  A       *)
(* function is its number, the sequence of values it places in a0, a1, ... *)
(* by the names the library gives them, and the types of those that are    *)
(* not plain words.  A hart mask, a counter mask, a shared pointer and a   *)
(* physical slice are the words into_inner and their accessors return.     *)
(***************************************************************************)
EXTENDS Naturals, Sequences

\* sbi_call_0 to sbi_call_6: a function and its arguments.
Function(fid, regs, u8, u32, u64, returns) ==
    [fid |-> fid, regs |-> regs, u8 |-> u8, u32 |-> u32, u64 |-> u64, returns |-> returns]
Call(fid, regs) == Function(fid, regs, {}, {}, {}, "ret")
Narrow(fid, regs, u32) == Function(fid, regs, {}, u32, {}, "ret")
Long(fid, regs, u64) == Function(fid, regs, {}, {}, u64, "ret")
Value(fid, regs) == Function(fid, regs, {}, {}, {}, "value")

RtBase == [
    get_spec_version |-> Value(0, <<>>),
    get_sbi_impl_id |-> Value(1, <<>>),
    get_sbi_impl_version |-> Value(2, <<>>),
    probe_extension |-> Value(3, <<"extension">>),
    mvendorid |-> Value(4, <<>>),
    marchid |-> Value(5, <<>>),
    mimpid |-> Value(6, <<>>)]

RtTime == [set_timer |-> Long(0, <<"stime_value">>, {"stime_value"})]

RtSpi == [send_ipi |-> Call(0, <<"hart_mask", "hart_mask_base">>)]

\* The arguments of the address-range fences.
AddressRange == <<"hart_mask", "hart_mask_base", "start_addr", "size">>
RangeAsid == <<"hart_mask", "hart_mask_base", "start_addr", "size", "asid">>
RangeVmid == <<"hart_mask", "hart_mask_base", "start_addr", "size", "vmid">>

RtFence == [
    remote_fence_i |-> Call(0, <<"hart_mask", "hart_mask_base">>),
    remote_sfence_vma |-> Call(1, AddressRange),
    remote_sfence_vma_asid |-> Call(2, RangeAsid)]

RtHfence == [
    remote_hfence_gvma_vmid |-> Call(3, RangeVmid),
    remote_hfence_gvma |-> Call(4, AddressRange),
    remote_hfence_vvma_asid |-> Call(5, RangeAsid),
    remote_hfence_vvma |-> Call(6, AddressRange)]

RtHsm == [
    hart_start |-> Call(0, <<"hartid", "start_addr", "opaque">>),
    hart_stop |-> Call(1, <<>>),
    hart_get_status |-> Call(2, <<"hartid">>)]

RtHartSuspend == [hart_suspend |-> Narrow(3, <<"suspend_type", "resume_addr", "opaque">>, {"suspend_type"})]

RtReset == [system_reset |-> Narrow(0, <<"reset_type", "reset_reason">>, {"reset_type", "reset_reason"})]

RtPmu == [
    num_counters |-> Value(0, <<>>),
    counter_get_info |-> Call(1, <<"counter_idx">>),
    counter_config_matching |->
        Long(2, <<"counter_idx_base", "counter_idx_mask", "config_flags", "event_idx", "event_data">>, {"event_data"})]

RtPmuCounters == [
    counter_start |->
        Long(3, <<"counter_idx_base", "counter_idx_mask", "start_flags", "initial_value">>, {"initial_value"}),
    counter_stop |-> Call(4, <<"counter_idx_base", "counter_idx_mask", "stop_flags">>),
    counter_fw_read |-> Call(5, <<"counter_idx">>),
    counter_fw_read_hi |-> Call(6, <<"counter_idx">>)]

RtPmuSnapshot == [snapshot_set_shmem |-> Call(7, <<"shmem_lo", "shmem_hi", "flags">>)]

RtConsole == [
    write |-> Call(0, <<"num_bytes", "phys_addr_lo", "phys_addr_hi">>),
    read |-> Call(1, <<"num_bytes", "phys_addr_lo", "phys_addr_hi">>),
    write_byte |-> Function(2, <<"byte">>, {"byte"}, {}, {}, "ret")]

RtSusp == [system_suspend |-> Narrow(0, <<"sleep_type", "resume_addr", "opaque">>, {"sleep_type"})]

RtCppc == [
    probe |-> Narrow(0, <<"reg_id">>, {"reg_id"}),
    read |-> Narrow(1, <<"reg_id">>, {"reg_id"}),
    read_hi |-> Narrow(2, <<"reg_id">>, {"reg_id"}),
    write |-> Function(3, <<"reg_id", "val">>, {}, {"reg_id"}, {"val"}, "ret")]

RtNacl == [
    probe_feature |-> Narrow(0, <<"feature_id">>, {"feature_id"}),
    set_shmem |-> Call(1, <<"shmem_lo", "shmem_hi", "flags">>),
    sync_csr |-> Call(2, <<"csr_num">>),
    sync_hfence |-> Call(3, <<"entry_index">>),
    sync_sret |-> Call(4, <<>>)]

RtSta == [set_shmem |-> Call(0, <<"shmem_lo", "shmem_hi", "flags">>)]

RtSseAttrs == [
    read_attrs |->
        Narrow(0, <<"event_id", "base_attr_id", "attr_count", "output_lo", "output_hi">>,
               {"event_id", "base_attr_id", "attr_count"}),
    write_attrs |->
        Narrow(1, <<"event_id", "base_attr_id", "attr_count", "input_lo", "input_hi">>,
               {"event_id", "base_attr_id", "attr_count"})]

RtSse == [
    register |-> Narrow(2, <<"event_id", "handler_entry_pc", "handler_entry_arg">>, {"event_id"}),
    unregister |-> Narrow(3, <<"event_id">>, {"event_id"}),
    enable |-> Narrow(4, <<"event_id">>, {"event_id"}),
    disable |-> Narrow(5, <<"event_id">>, {"event_id"}),
    complete |-> Call(6, <<>>),
    inject |-> Narrow(7, <<"event_id", "hart_id">>, {"event_id"}),
    hart_unmask |-> Call(8, <<>>),
    hart_mask |-> Call(9, <<>>)]

RtFwft == [
    set |-> Narrow(0, <<"feature_id", "value", "flags">>, {"feature_id"}),
    get |-> Narrow(1, <<"feature_id">>, {"feature_id"})]

RtDbtr == [
    num_triggers |-> Value(0, <<"trig_tdata1">>),
    set_shmem |-> Call(1, <<"shmem_lo", "shmem_hi", "flags">>),
    read_triggers |-> Call(2, <<"trig_idx_base", "trig_count">>),
    install_triggers |-> Call(3, <<"trig_count">>),
    update_triggers |-> Call(4, <<"trig_count">>)]

RtDbtrMasks == [
    uninstall_triggers |-> Call(5, <<"trig_idx_base", "trig_idx_mask">>),
    enable_triggers |-> Call(6, <<"trig_idx_base", "trig_idx_mask">>),
    disable_triggers |-> Call(7, <<"trig_idx_base", "trig_idx_mask">>)]

RtMpxy == [
    get_shmem_size |-> Value(0, <<>>),
    set_shmem |-> Call(1, <<"shmem_lo", "shmem_hi", "flags">>),
    get_channel_ids |-> Narrow(2, <<"start_index">>, {"start_index"})]

Attributes == <<"channel_id", "base_attribute_id", "attribute_count">>
Message == <<"channel_id", "message_id", "message_data_len">>

RtMpxyAttributes == [
    read_attributes |-> Narrow(3, Attributes, {"channel_id", "base_attribute_id", "attribute_count"}),
    write_attributes |-> Narrow(4, Attributes, {"channel_id", "base_attribute_id", "attribute_count"})]

RtMpxyMessages == [
    send_message_with_response |-> Narrow(5, Message, {"channel_id", "message_id"}),
    send_message_without_response |-> Narrow(6, Message, {"channel_id", "message_id"}),
    get_notification_events |-> Narrow(7, <<"channel_id">>, {"channel_id"})]

\* The legacy functions are extensions of their own and set no function number.
Legacy(regs) == Function(0, regs, {}, {}, {}, "error")
RtLegacy == [
    LEGACY_SET_TIMER |-> [set_timer |-> Function(0, <<"stime_value">>, {}, {}, {"stime_value"}, "error")],
    LEGACY_CONSOLE_PUTCHAR |-> [console_putchar |-> Legacy(<<"c">>)],
    LEGACY_CONSOLE_GETCHAR |-> [console_getchar |-> Legacy(<<>>)],
    LEGACY_CLEAR_IPI |-> [clear_ipi |-> Legacy(<<>>)],
    LEGACY_SEND_IPI |-> [send_ipi |-> Legacy(<<"hart_mask">>)],
    LEGACY_REMOTE_FENCE_I |-> [remote_fence_i |-> Legacy(<<"hart_mask">>)],
    LEGACY_REMOTE_SFENCE_VMA |-> [remote_fence_vma |-> Legacy(<<"hart_mask", "start", "size">>)],
    LEGACY_REMOTE_SFENCE_VMA_ASID |-> [remote_fence_vma_asid |-> Legacy(<<"hart_mask", "start", "size", "asid">>)],
    LEGACY_SHUTDOWN |-> [shutdown |-> Legacy(<<>>)]]

\* Two tables with different functions, as one.
Both(f, g) == [x \in DOMAIN f \cup DOMAIN g |-> IF x \in DOMAIN f THEN f[x] ELSE g[x]]

\* Every function of the library, by its extension.
RtStandard == [
    BASE |-> RtBase, TIME |-> RtTime, SPI |-> RtSpi, RFNC |-> Both(RtFence, RtHfence),
    HSM |-> Both(RtHsm, RtHartSuspend), SRST |-> RtReset, PMU |-> Both(RtPmu, Both(RtPmuCounters, RtPmuSnapshot)),
    DBCN |-> RtConsole, SUSP |-> RtSusp, CPPC |-> RtCppc, NACL |-> RtNacl, STA |-> RtSta,
    SSE |-> Both(RtSseAttrs, RtSse), FWFT |-> RtFwft, DBTR |-> Both(RtDbtr, RtDbtrMasks),
    MPXY |-> Both(RtMpxy, Both(RtMpxyAttributes, RtMpxyMessages))]
Rt == Both(RtLegacy, RtStandard)
==============================================================================
