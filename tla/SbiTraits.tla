------------------------------ MODULE SbiTraits ------------------------------
(***************************************************************************)
(* The implementation's side of an SBI call in the rustsbi library: for    *)
(* each extension, which method a function number calls and which          *)
(* registers it reads (the _rustsbi_* functions), what a method does that  *)
(* an implementation leaves out or whose field is None (the traits), and   *)
(* which sbi-rt function the Forward structure passes it on to.            *)
(***************************************************************************)
EXTENDS Naturals, Sequences

NotSupported == [error |-> "NOT_SUPPORTED", value |-> 0]
InvalidParam == [error |-> "INVALID_PARAM", value |-> 0]
Success(value) == [error |-> "SUCCESS", value |-> value]

(* ---------------------------- _rustsbi_* -------------------------------- *)

\* The function number that calls a method and the registers its parameters come
\* from, in order; of them u32 goes through u32::try_from, u64 is a double word,
\* and u8 is masked.
Arm(fid, regs, u8, u32, u64, returns) ==
    [fid |-> fid, regs |-> regs, u8 |-> u8, u32 |-> u32, u64 |-> u64, returns |-> returns]
Method(fid, regs) == Arm(fid, regs, {}, {}, {}, "ret")
Tried(fid, regs, u32) == Arm(fid, regs, {}, u32, {}, "ret")
Double(fid, regs, u64) == Arm(fid, regs, {}, {}, u64, "ret")
\* A method that returns a bare value, which SbiRet::success wraps.
Wrapped(fid, regs) == Arm(fid, regs, {}, {}, {}, "value")

HandleTimer == [set_timer |-> Arm(0, <<"stime_value">>, {}, {}, {"stime_value"}, "unit")]

HandleIpi == [send_ipi |-> Method(0, <<"hart_mask", "hart_mask_base">>)]

FenceRange == <<"hart_mask", "hart_mask_base", "start_addr", "size">>
FenceAsid == <<"hart_mask", "hart_mask_base", "start_addr", "size", "asid">>
FenceVmid == <<"hart_mask", "hart_mask_base", "start_addr", "size", "vmid">>
HandleFence == [
    remote_fence_i |-> Method(0, <<"hart_mask", "hart_mask_base">>),
    remote_sfence_vma |-> Method(1, FenceRange),
    remote_sfence_vma_asid |-> Method(2, FenceAsid),
    remote_hfence_gvma_vmid |-> Method(3, FenceVmid),
    remote_hfence_gvma |-> Method(4, FenceRange),
    remote_hfence_vvma_asid |-> Method(5, FenceAsid),
    remote_hfence_vvma |-> Method(6, FenceRange)]

HandleHsm == [
    hart_start |-> Method(0, <<"hartid", "start_addr", "opaque">>),
    hart_stop |-> Method(1, <<>>),
    hart_get_status |-> Method(2, <<"hartid">>),
    hart_suspend |-> Tried(3, <<"suspend_type", "resume_addr", "opaque">>, {"suspend_type"})]

HandleReset == [system_reset |-> Tried(0, <<"reset_type", "reset_reason">>, {"reset_type", "reset_reason"})]

HandlePmu == [
    num_counters |-> Wrapped(0, <<>>),
    counter_get_info |-> Method(1, <<"counter_idx">>),
    counter_config_matching |->
        Double(2, <<"counter_idx_base", "counter_idx_mask", "config_flags", "event_idx", "event_data">>,
              {"event_data"}),
    counter_start |->
        Double(3, <<"counter_idx_base", "counter_idx_mask", "start_flags", "initial_value">>,
              {"initial_value"}),
    counter_stop |-> Method(4, <<"counter_idx_base", "counter_idx_mask", "stop_flags">>),
    counter_fw_read |-> Method(5, <<"counter_idx">>),
    counter_fw_read_hi |-> Method(6, <<"counter_idx">>),
    snapshot_set_shmem |-> Method(7, <<"shmem_lo", "shmem_hi", "flags">>)]

HandleConsole == [
    write |-> Method(0, <<"num_bytes", "phys_addr_lo", "phys_addr_hi">>),
    read |-> Method(1, <<"num_bytes", "phys_addr_lo", "phys_addr_hi">>),
    write_byte |-> Arm(2, <<"byte">>, {"byte"}, {}, {}, "ret")]

HandleSusp == [system_suspend |-> Tried(0, <<"sleep_type", "resume_addr", "opaque">>, {"sleep_type"})]

HandleCppc == [
    probe |-> Tried(0, <<"reg_id">>, {"reg_id"}),
    read |-> Tried(1, <<"reg_id">>, {"reg_id"}),
    read_hi |-> Tried(2, <<"reg_id">>, {"reg_id"}),
    write |-> Arm(3, <<"reg_id", "val">>, {}, {"reg_id"}, {"val"}, "ret")]

HandleNacl == [
    probe_feature |-> Tried(0, <<"feature_id">>, {"feature_id"}),
    set_shmem |-> Method(1, <<"shmem_lo", "shmem_hi", "flags">>),
    sync_csr |-> Method(2, <<"csr_num">>),
    sync_hfence |-> Method(3, <<"entry_index">>),
    sync_sret |-> Method(4, <<>>)]

HandleSta == [set_shmem |-> Method(0, <<"shmem_lo", "shmem_hi", "flags">>)]

HandleFwft == [
    set |-> Tried(0, <<"feature_id", "value", "flags">>, {"feature_id"}),
    get |-> Tried(1, <<"feature_id">>, {"feature_id"})]

HandleDbtr == [
    num_triggers |-> Wrapped(0, <<"trig_tdata1">>),
    set_shmem |-> Method(1, <<"shmem_lo", "shmem_hi", "flags">>),
    read_triggers |-> Method(2, <<"trig_idx_base", "trig_count">>),
    install_triggers |-> Method(3, <<"trig_count">>),
    update_triggers |-> Method(4, <<"trig_count">>),
    uninstall_triggers |-> Method(5, <<"trig_idx_mask", "trig_idx_base">>),
    enable_triggers |-> Method(6, <<"trig_idx_mask", "trig_idx_base">>),
    disable_triggers |-> Method(7, <<"trig_idx_mask", "trig_idx_base">>)]

HandleMpxy == [
    get_shmem_size |-> Wrapped(0, <<>>),
    set_shmem |-> Method(1, <<"shmem_lo", "shmem_hi", "flags">>),
    get_channel_ids |-> Tried(2, <<"start_index">>, {"start_index"}),
    read_attributes |->
        Tried(3, <<"channel_id", "base_attribute_id", "attribute_count", "output_lo", "output_hi">>,
              {"channel_id", "base_attribute_id", "attribute_count"}),
    write_attributes |->
        Tried(4, <<"channel_id", "base_attribute_id", "attribute_count", "input_lo", "input_hi">>,
              {"channel_id", "base_attribute_id", "attribute_count"}),
    send_message_with_response |->
        Tried(5, <<"channel_id", "message_id", "message_data_len">>,
              {"channel_id", "message_id"}),
    send_message_without_response |->
        Tried(6, <<"channel_id", "message_id", "message_data_len">>,
              {"channel_id", "message_id"}),
    get_notification_events |-> Tried(7, <<"channel_id">>, {"channel_id"})]

HandleSse == [
    read_attrs |->
        Tried(0, <<"event_id", "base_attr_id", "attr_count", "output_lo", "output_hi">>,
              {"event_id", "base_attr_id", "attr_count"}),
    write_attrs |->
        Tried(1, <<"event_id", "base_attr_id", "attr_count", "input_lo", "input_hi">>,
              {"event_id", "base_attr_id", "attr_count"}),
    register |-> Tried(2, <<"event_id", "handler_entry_pc", "handler_entry_arg">>, {"event_id"}),
    unregister |-> Tried(3, <<"event_id">>, {"event_id"}),
    enable |-> Tried(4, <<"event_id">>, {"event_id"}),
    disable |-> Tried(5, <<"event_id">>, {"event_id"}),
    complete |-> Method(6, <<>>),
    inject |-> Tried(7, <<"event_id", "hart_id">>, {"event_id"}),
    hart_unmask |-> Method(8, <<>>),
    hart_mask |-> Method(9, <<>>)]

\* The functions of the base extension that ask the machine environment; the
\* others are answered by _rustsbi_base_env_info itself.
HandleInfo == [
    mvendorid |-> Wrapped(4, <<>>),
    marchid |-> Wrapped(5, <<>>),
    mimpid |-> Wrapped(6, <<>>)]

Handle == [
    BASE |-> HandleInfo, TIME |-> HandleTimer, SPI |-> HandleIpi, RFNC |-> HandleFence, HSM |-> HandleHsm,
    SRST |-> HandleReset, PMU |-> HandlePmu, DBCN |-> HandleConsole, SUSP |-> HandleSusp, CPPC |-> HandleCppc,
    NACL |-> HandleNacl, STA |-> HandleSta, SSE |-> HandleSse, FWFT |-> HandleFwft, DBTR |-> HandleDbtr,
    MPXY |-> HandleMpxy]

(* ------------------------------ the traits ------------------------------ *)

\* required: the methods an implementation has to have.  provided: those with a
\* default, and its answer on RV32 and on RV64.  none: the methods whose answer
\* through an Option that is None is not NOT_SUPPORTED.  A reference passes
\* every call on.
Trait(required, provided, none) == [required |-> required, provided |-> provided, none |-> none]
Nothing == [m \in {} |-> NotSupported]
Unsupported(methods) == [m \in methods |-> [rv32 |-> NotSupported, rv64 |-> NotSupported]]

TraitTimer == Trait({"set_timer"}, Nothing, [set_timer |-> Success(0)])
TraitIpi == Trait({"send_ipi"}, Nothing, Nothing)
ProvidedFence ==
    Unsupported({"remote_hfence_gvma_vmid", "remote_hfence_gvma", "remote_hfence_vvma_asid", "remote_hfence_vvma"})
NoneFence == Nothing
TraitFence ==
    Trait({"remote_fence_i", "remote_sfence_vma", "remote_sfence_vma_asid"}, ProvidedFence, NoneFence)
ProvidedHsm == Unsupported({"hart_suspend"})
NoneHsm == Nothing
TraitHsm == Trait({"hart_start", "hart_stop", "hart_get_status"}, ProvidedHsm, NoneHsm)
TraitReset == Trait({"system_reset"}, Nothing, Nothing)
ProvidedPmu ==
    [Unsupported({"snapshot_set_shmem", "counter_fw_read_hi"}) EXCEPT !["counter_fw_read_hi"].rv64 = Success(0)]
NonePmu == [num_counters |-> Success(0)]
TraitPmu ==
    Trait({"num_counters", "counter_get_info", "counter_config_matching", "counter_start", "counter_stop", "counter_fw_read"},
          ProvidedPmu, NonePmu)
TraitConsole == Trait({"write", "read", "write_byte"}, Nothing, Nothing)
TraitSusp == Trait({"system_suspend"}, Nothing, Nothing)
TraitCppc == Trait({"probe", "read", "read_hi", "write"}, Nothing, Nothing)
NoneNacl == Nothing
TraitNacl == Trait({"probe_feature", "set_shmem", "sync_csr", "sync_hfence", "sync_sret"}, Nothing, NoneNacl)
TraitSta == Trait({"set_shmem"}, Nothing, Nothing)
NoneSse == Nothing
TraitSse ==
    Trait({"read_attrs", "write_attrs", "register", "unregister", "enable", "disable", "complete", "inject",
           "hart_unmask", "hart_mask"}, Nothing, NoneSse)
TraitFwft == Trait({"set", "get"}, Nothing, Nothing)
TraitDbtr ==
    Trait({"num_triggers", "set_shmem", "read_triggers", "install_triggers", "update_triggers",
           "uninstall_triggers", "enable_triggers", "disable_triggers"}, Nothing, [num_triggers |-> Success(0)])
NoneMpxy == [get_shmem_size |-> Success(0)]
TraitMpxy ==
    Trait({"get_shmem_size", "set_shmem", "get_channel_ids", "read_attributes", "write_attributes",
           "send_message_with_response", "send_message_without_response", "get_notification_events"},
          Nothing, NoneMpxy)
TraitInfo == Trait({"mvendorid", "marchid", "mimpid"}, Nothing, Nothing)

Traits == [
    BASE |-> TraitInfo, TIME |-> TraitTimer, SPI |-> TraitIpi, RFNC |-> TraitFence, HSM |-> TraitHsm,
    SRST |-> TraitReset, PMU |-> TraitPmu, DBCN |-> TraitConsole, SUSP |-> TraitSusp, CPPC |-> TraitCppc,
    NACL |-> TraitNacl, STA |-> TraitSta, SSE |-> TraitSse, FWFT |-> TraitFwft, DBTR |-> TraitDbtr,
    MPXY |-> TraitMpxy]

(* ------------------------------- Forward -------------------------------- *)

\* The methods that Forward overrides with the sbi-rt function of that name.
ForwardConsole == {"write", "read", "write_byte"}
ForwardCppc == {"probe", "read", "read_hi", "write"}
\* Mutant: the hypervisor fences, which have a default, are left out.
MForwardFence == {"remote_fence_i", "remote_sfence_vma", "remote_sfence_vma_asid"}
ForwardFence ==
    {"remote_fence_i", "remote_sfence_vma", "remote_sfence_vma_asid", "remote_hfence_gvma_vmid",
     "remote_hfence_gvma", "remote_hfence_vvma_asid", "remote_hfence_vvma"}
ForwardHsm == {"hart_start", "hart_stop", "hart_get_status", "hart_suspend"}
ForwardIpi == {"send_ipi"}
ForwardNacl == {"probe_feature", "set_shmem", "sync_csr", "sync_hfence", "sync_sret"}
ForwardPmu ==
    {"num_counters", "counter_get_info", "counter_config_matching", "counter_start", "counter_stop",
     "counter_fw_read", "counter_fw_read_hi", "snapshot_set_shmem"}
ForwardReset == {"system_reset"}
ForwardSta == {"set_shmem"}
ForwardSse ==
    {"read_attrs", "write_attrs", "register", "unregister", "enable", "disable", "complete", "inject",
     "hart_unmask", "hart_mask"}
ForwardSusp == {"system_suspend"}
ForwardTimer == {"set_timer"}
ForwardInfo == {"mvendorid", "marchid", "mimpid"}

\* FWFT, DBTR and MPXY have no Forward.
Forwards == [
    BASE |-> ForwardInfo, TIME |-> ForwardTimer, SPI |-> ForwardIpi, RFNC |-> ForwardFence, HSM |-> ForwardHsm,
    SRST |-> ForwardReset, PMU |-> ForwardPmu, DBCN |-> ForwardConsole, SUSP |-> ForwardSusp, CPPC |-> ForwardCppc,
    NACL |-> ForwardNacl, STA |-> ForwardSta, SSE |-> ForwardSse]
==============================================================================
