----------------------------- MODULE TrapHandling -----------------------------
(****************************************************************************)
(* The machine traps of one hart (firmware/runtime/src/trap): the entry and *)
(* its stack sentinel, classification, emulation of misaligned accesses and *)
(* of time reads, completion of refused accesses, redirection to the        *)
(* supervisor, and the guarded accesses that let M-mode touch memory or a   *)
(* CSR that may fault.                                                      *)
(*                                                                          *)
(* A hart's traps share no state with other harts'.  Every instruction that *)
(* changes mtvec, mscratch or mstatus around a guarded access is a step of  *)
(* its own, because the next fault depends on them.                         *)
(*                                                                          *)
(* A memory byte is a digit below Base and a register holds XBytes digits,  *)
(* so that widths, little-endian order and sign extension keep their shape. *)
(****************************************************************************)
EXTENDS Integers

CONSTANTS
    Base,        \* values of a byte: 256 in the code
    DataAddrs,   \* the data addresses of the model
    Memories,    \* contents the data memory may have
    RegFiles,    \* register contents of the lower context
    Platforms,   \* which of the time and stimecmp CSRs, time counters and access dispatcher exist
    FaultSets,   \* sets of addresses that may fault together
    XonlySets,   \* sets of addresses on pages that can be executed and not read
    OwnMxr(_),   \* the values of sstatus.MXR that code in a lower mode may run with
    Strays       \* exceptions the firmware's own code may raise by mistake

XBytes == 8
Word == Base ^ XBytes
Digit(v, i) == (v \div Base ^ i) % Base

\* x0, a caller-saved register, a callee-saved one, a0 and a1.
Regs == {0, 5, 8, 10, 11}
CallerSaved == {0, 5, 10, 11}

\* Instruction addresses: the trapped one, the guarded one, any other one of
\* the firmware, the supervisor's vector, a staged entry.
Pc == 16
GuardPc == 100
StrayPc == 200
Stvec == 300
StageEntry == 400

\* mcause, with the interrupt bit at 32.
Irq == 32
INSTRUCTION_ACCESS == 1
ILLEGAL_INSTRUCTION == 2
LOAD_MISALIGNED == 4
LOAD_FAULT == 5
STORE_MISALIGNED == 6
STORE_FAULT == 7
ECALL_FROM_S == 9
INSTRUCTION_PAGE == 12
LOAD_PAGE == 13
STORE_PAGE == 15
MSOFT == Irq + 3
MTIMER == Irq + 7
MEXT == Irq + 11

\* ValueKind
Kinds == [width : {1, 2, 4}, signed : BOOLEAN] \cup [width : {8}, signed : {TRUE}]
ByteKind == [width |-> 1, signed |-> FALSE]

\* What the trapped instruction decodes to.
Loads == [op : {"load"}, kind : Kinds, reg : {0, 8}, len : {4}]
Stores == [op : {"store"}, kind : {k \in Kinds : k.signed <=> k.width = 8}, reg : {0, 8}, len : {4}]
CsrReads == [op : {"time", "othercsr"}, kind : {ByteKind}, reg : {0, 5, 8}, len : {4}]
Others == [op : {"other"}, kind : {ByteKind}, reg : {0}, len : {2, 4}]

\* A byte has an even number of values, and the data of the accesses below
\* exists.  What the powers are is stated because the provers do not know it.
ASSUME TrapAssumption ==
    /\ Base \in Nat /\ Base > 1 /\ Base % 2 = 0
    /\ Base ^ 0 = 1
    /\ \A n \in 0 .. XBytes - 1 : Base ^ (n + 1) = Base * Base ^ n
    /\ 1 .. XBytes \subseteq DataAddrs /\ DataAddrs \subseteq Int
    /\ Memories \subseteq [DataAddrs -> 0 .. Base - 1]
    /\ RegFiles \subseteq [Regs -> Int]
    /\ Platforms \subseteq [timeCsr : BOOLEAN, directTime : BOOLEAN, deviceTime : BOOLEAN,
                             dispatcher : BOOLEAN, stimecmp : BOOLEAN]
    /\ \A b \in FaultSets \cup XonlySets : b \subseteq Int
    /\ \A o \in {"U", "S"} : OwnMxr(o) \subseteq BOOLEAN
    /\ Strays \subseteq 0 .. Irq - 1

VARIABLES
    at,     \* where the hart executes
    plat,   \* what the platform has: time and stimecmp CSRs, time counters, an access dispatcher
    csr,    \* mepc, mcause, mtval, mstatus, mtvec, mscratch
    low,    \* the lower context: live registers x, memory, sepc, scause, stval
    fw,     \* phase, sstc, the frame, TrapFacts, the guarded access, its record, emulation locals
    trap    \* ghost: the trap and its environment, and the context it interrupted

trapVars == <<at, plat, csr, low, fw, trap>>

LowerStatus == [mpp |-> "S", mprv |-> FALSE, mxr |-> FALSE, sie |-> FALSE, spie |-> FALSE, spp |-> "S"]
Zeros == [r \in Regs |-> 0]
NoRecord == [expected |-> 0, mask |-> {}, trapped |-> FALSE, mcause |-> 0, mtval |-> 0]
NoTrap == [cause |-> 0, tval |-> 0, insn |-> [op |-> "other", kind |-> ByteKind, reg |-> 0, len |-> 4],
           origin |-> "S", bad |-> {}, xonly |-> {}, page |-> FALSE]
NoFault == [cause |-> 0, tval |-> 0]
NoAnswer == [by |-> "none", first |-> 0, second |-> 0]

\* The firmware's state with nothing on its stack.
FreshStack(phase, sstc) ==
    [phase |-> phase, sstc |-> sstc, frame |-> Zeros,
     facts |-> [mepc |-> 0, mcause |-> 0, mtval |-> 0, mstatus |-> LowerStatus],
     guard |-> [what |-> "read", addr |-> 0, data |-> 0, a3 |-> LowerStatus, prev |-> "failstop", ret |-> "init"],
     record |-> NoRecord, insn |-> NoTrap.insn, i |-> 0, data |-> 0, error |-> NoFault]

TrapInit ==
    /\ at = "init"
    /\ plat \in Platforms
    /\ csr = [mepc |-> 0, mcause |-> 0, mtval |-> 0, mstatus |-> [LowerStatus EXCEPT !.mpp = "M"],
              mtvec |-> "failstop", mscratch |-> "zero"]
    /\ \E m \in Memories :
        low = [x |-> Zeros, mem |-> m, sepc |-> 0, scause |-> 0, stval |-> 0]
    /\ fw = FreshStack("uninitialized", FALSE)
    /\ trap = [of |-> NoTrap, status |-> LowerStatus, low |-> low, answer |-> NoAnswer, stray |-> FALSE]

(* --------------------------- guarded accesses --------------------------- *)

\* A guarded access begins: a new record, and mtvec at the recovery vector.
StartGuard(f, what, addr, data, mask, ret) ==
    /\ fw' = [f EXCEPT !.guard = [what |-> what, addr |-> addr, data |-> data, a3 |-> csr.mstatus,
                                  prev |-> csr.mtvec, ret |-> ret],
                       !.record = [NoRecord EXCEPT !.mask = mask]]
    /\ csr' = [csr EXCEPT !.mtvec = "recovery"]
    /\ at' = "publish"

\* Mutant: the record does not name the guarded instruction.
MPublishRecord ==
    /\ at = "publish"
    /\ at' = "window"
    /\ csr' = [csr EXCEPT !.mscratch = "record"]
    /\ UNCHANGED <<plat, low, fw, trap>>

\* csrw mscratch, a3, and the guarded instruction's address into the record.
PublishRecord ==
    /\ at = "publish"
    /\ at' = "window"
    /\ csr' = [csr EXCEPT !.mscratch = "record"]
    /\ fw' = [fw EXCEPT !.record.expected = GuardPc]
    /\ UNCHANGED <<plat, low, trap>>

\* csrrs a3, mstatus, MPRV|MXR
OpenWindow ==
    /\ at = "window"
    /\ at' = "access"
    /\ fw' = [fw EXCEPT !.guard.a3 = csr.mstatus]
    /\ csr' = [csr EXCEPT !.mstatus = [@ EXCEPT !.mprv = TRUE, !.mxr = TRUE]]
    /\ UNCHANGED <<plat, low, trap>>

\* The CSRs that are read under guard, by the field of plat that has them.
GuardedCsrs == {"stimecmp", "timeCsr"}

\* The exception that the guarded instruction raises under this MXR; 0 if it
\* completes.  An execute-only page is read with MXR set and not otherwise.
FaultUnder(mxr) ==
    LET g == fw.guard IN
    IF g.what \in GuardedCsrs THEN IF plat[g.what] THEN 0 ELSE ILLEGAL_INSTRUCTION
    ELSE IF g.addr \notin trap.of.bad
         THEN IF g.what # "write" /\ ~mxr /\ g.addr \in trap.of.xonly THEN LOAD_PAGE ELSE 0
    ELSE IF g.what = "write" THEN IF trap.of.page THEN STORE_PAGE ELSE STORE_FAULT
    ELSE IF trap.of.page THEN LOAD_PAGE ELSE LOAD_FAULT

GuardFault == FaultUnder(csr.mstatus.mxr)

\* The time every source reports: any value will do.
TimeValue == Word - 3

GuardedAccess ==
    LET g == fw.guard IN
    /\ at = "access"
    /\ at' = "close"
    /\ GuardFault = 0
    /\ fw' = [fw EXCEPT !.guard.data = CASE g.what = "read" -> low.mem[g.addr]
                                         [] g.what \in GuardedCsrs -> TimeValue
                                         [] OTHER -> @]
    /\ low' = IF g.what = "write" THEN [low EXCEPT !.mem[g.addr] = g.data] ELSE low
    /\ UNCHANGED <<plat, csr, trap>>

\* An exception in M-mode overwrites the trap CSRs and goes to mtvec.  The
\* normal vector stops the hart when it finds the zero sentinel.
MachineFault(cause, tval, pc) ==
    /\ csr' = [csr EXCEPT !.mepc = pc, !.mcause = cause, !.mtval = tval, !.mstatus.mpp = "M"]
    /\ at' = CASE csr.mtvec = "recovery" -> "recover"
               [] csr.mtvec = "normal" /\ csr.mscratch # "zero" -> "entry"
               [] OTHER -> "stopped"

GuardedFault ==
    /\ at = "access"
    /\ GuardFault # 0
    /\ MachineFault(GuardFault, fw.guard.addr, GuardPc)
    /\ UNCHANGED <<plat, low, fw, trap>>

\* Mutant: any M-mode fault inside the window is taken for the expected one.
MRecoverable == csr.mscratch = "record" /\ csr.mstatus.mpp = "M"

\* What recovery_entry demands of a fault.
Recoverable ==
    /\ csr.mscratch = "record"
    /\ csr.mstatus.mpp = "M"
    /\ csr.mepc = fw.record.expected
    /\ csr.mcause < Irq
    /\ csr.mcause \in fw.record.mask

\* recovery_entry records the facts and skips; its mret leaves U in MPP.
RecoverFault ==
    /\ at = "recover"
    /\ at' = "close"
    /\ Recoverable
    /\ fw' = [fw EXCEPT !.record.trapped = TRUE, !.record.mcause = csr.mcause, !.record.mtval = csr.mtval]
    /\ csr' = [csr EXCEPT !.mepc = @ + 4, !.mstatus.mpp = "U"]
    /\ UNCHANGED <<plat, low, trap>>

RecoveryStops ==
    /\ at = "recover"
    /\ at' = "stopped"
    /\ ~Recoverable
    /\ UNCHANGED <<plat, csr, low, fw, trap>>

\* Mutant: mstatus is put back only when the access completed.
MCloseWindow ==
    /\ at = "close"
    /\ at' = "retire"
    /\ csr' = IF fw.record.trapped THEN csr ELSE [csr EXCEPT !.mstatus = fw.guard.a3]
    /\ UNCHANGED <<plat, low, fw, trap>>

\* csrw mstatus, a3
CloseWindow ==
    /\ at = "close"
    /\ at' = "retire"
    /\ csr' = [csr EXCEPT !.mstatus = fw.guard.a3]
    /\ UNCHANGED <<plat, low, fw, trap>>

\* csrw mscratch, zero
RetireRecord ==
    /\ at = "retire"
    /\ at' = "vector"
    /\ csr' = [csr EXCEPT !.mscratch = "zero"]
    /\ UNCHANGED <<plat, low, fw, trap>>

\* Mutant: the vector is not put back after a recovered fault.
MRestoreVector ==
    /\ at = "vector"
    /\ at' = fw.guard.ret
    /\ csr' = IF fw.record.trapped THEN csr ELSE [csr EXCEPT !.mtvec = fw.guard.prev]
    /\ UNCHANGED <<plat, low, fw, trap>>

\* csrw mtvec, t4
RestoreVector ==
    /\ at = "vector"
    /\ at' = fw.guard.ret
    /\ csr' = [csr EXCEPT !.mtvec = fw.guard.prev]
    /\ UNCHANGED <<plat, low, fw, trap>>

(* --------------------------- initialization ----------------------------- *)

\* trap::init: the slot is reserved, the policy stored, stimecmp probed.
Reserve ==
    /\ at = "init"
    /\ StartGuard([fw EXCEPT !.phase = "initializing"], "stimecmp", 0, 0, {ILLEGAL_INSTRUCTION}, "delegate")
    /\ UNCHANGED <<plat, low, trap>>

\* The probe's answer, the delegation, and Ready.
Delegate ==
    /\ at = "delegate"
    /\ at' = "commit"
    /\ fw' = [fw EXCEPT !.sstc = ~fw.record.trapped, !.phase = "ready"]
    /\ UNCHANGED <<plat, csr, low, trap>>

\* The normal vector is installed last.
CommitVector ==
    /\ at = "commit"
    /\ at' = "arm"
    /\ csr' = [csr EXCEPT !.mtvec = "normal"]
    /\ UNCHANGED <<plat, low, fw, trap>>

\* finish_boot: the stack top into mscratch, Armed, and into the next stage.
Arm ==
    /\ at = "arm"
    /\ at' = "lower"
    /\ csr' = [csr EXCEPT !.mscratch = "top", !.mstatus = LowerStatus]
    /\ fw' = [fw EXCEPT !.phase = "armed"]
    /\ UNCHANGED <<plat, low, trap>>

(* ------------------------------ the entry ------------------------------- *)

\* Instructions and interrupts that trap, and what memory answers.  The mtval
\* of an illegal instruction is its encoding (1) or zero.
Trappings ==
    LET Of(causes, tvals, insns, bads, xonlys, pages) ==
            [cause : causes, tval : tvals, insn : insns, origin : {"U", "S"}, bad : bads, xonly : xonlys, page : pages]
        Fetched(sets) == {b \in sets : b \cap DataAddrs = {}}
    IN       Of({LOAD_MISALIGNED}, {1}, Loads, FaultSets, {{}}, BOOLEAN)
        \cup Of({LOAD_MISALIGNED}, {1}, Loads, {{}}, XonlySets, {TRUE})
        \cup Of({STORE_MISALIGNED}, {1}, Stores, FaultSets, {{}}, BOOLEAN)
        \cup Of({ILLEGAL_INSTRUCTION}, {0, 1}, CsrReads \cup Others, Fetched(FaultSets), {{}}, BOOLEAN)
        \cup Of({ILLEGAL_INSTRUCTION}, {0, 1}, CsrReads \cup Others, {{}}, Fetched(XonlySets), {TRUE})
        \cup Of({LOAD_FAULT}, {1}, Loads, {{}}, {{}}, {FALSE})
        \cup Of({STORE_FAULT}, {1}, Stores, {{}}, {{}}, {FALSE})
        \cup Of({LOAD_MISALIGNED, STORE_MISALIGNED, LOAD_FAULT, STORE_FAULT, LOAD_PAGE,
                 MSOFT, MTIMER, MEXT}, {1}, Others, {{}}, {{}}, {FALSE})
        \cup {t \in Of({ECALL_FROM_S}, {0}, Others, {{}}, {{}}, {FALSE}) : t.origin = "S"}

\* The lower context has run on with its own registers, and traps.  What the
\* last trap left on the stack is dead.
TakeTrap ==
    /\ at = "lower"
    /\ at' = "entry"
    /\ \E t \in Trappings, regs \in RegFiles, m \in Memories, mxr \in {TRUE, FALSE} :
        LET st == [mpp |-> t.origin, mprv |-> FALSE, mxr |-> mxr, sie |-> t.origin = "S", spie |-> TRUE, spp |-> "S"] IN
        /\ mxr \in OwnMxr(t.origin)
        /\ low' = [x |-> regs, mem |-> m, sepc |-> 0, scause |-> 0, stval |-> 0]
        /\ csr' = [csr EXCEPT !.mepc = Pc, !.mcause = t.cause, !.mtval = t.tval, !.mstatus = st]
        /\ trap' = [of |-> t, status |-> st, low |-> low', answer |-> NoAnswer, stray |-> FALSE]
    /\ fw' = FreshStack(fw.phase, fw.sstc)
    /\ UNCHANGED plat

\* The encoding in mtval is a pure read of time.
MtvalReadsTime == trap.of.tval = 1 /\ trap.of.insn.op = "time"

\* Mutant: the fast path takes any destination.
MFastTime ==
    /\ csr.mcause = ILLEGAL_INSTRUCTION
    /\ MtvalReadsTime
    /\ plat.directTime

\* try_fast_emulate_time: its destination must have been saved already.
FastTime ==
    /\ csr.mcause = ILLEGAL_INSTRUCTION
    /\ MtvalReadsTime
    /\ trap.of.insn.reg \in CallerSaved
    /\ plat.directTime

\* TrapFrame::write_x
WriteX(f, r, v) == IF r = 0 THEN f ELSE [f EXCEPT ![r] = v]

\* trap_entry: the frame below the stack top, the caller-saved registers, the
\* zero sentinel, and the fast path before the callee-saved are stored.
EnterFast ==
    /\ at = "entry"
    /\ at' = "fastReturn"
    /\ FastTime
    /\ fw' = [fw EXCEPT !.frame = WriteX([r \in Regs |-> IF r \in CallerSaved THEN low.x[r] ELSE -1],
                                         trap.of.insn.reg, TimeValue)]
    /\ csr' = [csr EXCEPT !.mscratch = "zero", !.mepc = @ + 4]
    /\ UNCHANGED <<plat, low, trap>>

EnterFull ==
    /\ at = "entry"
    /\ at' = "dispatch"
    /\ ~FastTime
    /\ fw' = [fw EXCEPT !.frame = low.x]
    /\ csr' = [csr EXCEPT !.mscratch = "zero"]
    /\ UNCHANGED <<plat, low, trap>>

\* The stack top into mscratch, the saved registers, mret.
ReturnToLower ==
    /\ at \in {"fastReturn", "return"}
    /\ at' = "lower"
    /\ csr' = [csr EXCEPT !.mscratch = "top"]
    /\ low' = [low EXCEPT !.x = [r \in Regs |-> IF at = "fastReturn" /\ r \notin CallerSaved
                                                THEN low.x[r] ELSE fw.frame[r]]]
    /\ UNCHANGED <<plat, fw, trap>>

(* ----------------------------- dispatch --------------------------------- *)

\* redirect_trap: SPIE, SIE and SPP as a delegated trap would set them.
RedirectStatus(st) == [st EXCEPT !.spie = st.sie, !.sie = FALSE, !.mpp = "S", !.spp = st.mpp]

\* redirect_or_fatal for the trap t; one from M-mode never gets here.
Redirect(t, cause, tval) ==
    /\ t.mstatus.mpp # "M"
    /\ at' = "return"
    /\ low' = [low EXCEPT !.sepc = t.mepc, !.scause = cause, !.stval = tval]
    /\ csr' = [csr EXCEPT !.mepc = Stvec, !.mstatus = RedirectStatus(t.mstatus), !.mcause = t.mcause,
                          !.mtval = t.mtval]

\* access_fault asks the dispatcher only for the supervisor's accesses.
Dispatched == csr.mstatus.mpp = "S" /\ plat.dispatcher

\* The exceptions that are redirected at once.
DispatchRedirect ==
    /\ at = "dispatch"
    /\ csr.mcause < Irq
    /\ \/ csr.mcause \notin {ECALL_FROM_S, ILLEGAL_INSTRUCTION, LOAD_MISALIGNED, STORE_MISALIGNED,
                             LOAD_FAULT, STORE_FAULT}
       \/ csr.mcause \in {LOAD_FAULT, STORE_FAULT} /\ ~Dispatched
    /\ Redirect(csr, csr.mcause, csr.mtval)
    /\ UNCHANGED <<plat, fw, trap>>

\* sbi_ecall: the policy's answer in a0 and a1, and past the ecall.
SbiEcall ==
    /\ at = "dispatch"
    /\ at' = "return"
    /\ csr.mcause = ECALL_FROM_S
    /\ \E error, value \in {1, 2} :
        /\ fw' = [fw EXCEPT !.frame = WriteX(WriteX(@, 10, error), 11, value)]
        /\ trap' = [trap EXCEPT !.answer = [by |-> "ecall", first |-> error, second |-> value]]
    /\ csr' = [csr EXCEPT !.mepc = @ + 4]
    /\ UNCHANGED <<plat, low>>

\* enter_next_stage, and the transfer that a non-retentive resume staged.
EnterNextStage ==
    /\ at = "dispatch"
    /\ at' = "return"
    /\ csr.mcause \in {ECALL_FROM_S, MSOFT, MEXT}
    /\ \E hart, opaque \in {1, 2} :
        /\ fw' = [fw EXCEPT !.frame = [r \in Regs |-> CASE r = 10 -> hart [] r = 11 -> opaque [] OTHER -> 0]]
        /\ trap' = [trap EXCEPT !.answer = [by |-> "stage", first |-> hart, second |-> opaque]]
    /\ csr' = [csr EXCEPT !.mepc = StageEntry, !.mstatus.mpp = "S", !.mstatus.sie = FALSE]
    /\ UNCHANGED <<plat, low>>

\* An interrupt that leaves the lower context where it was.
DispatchInterrupt ==
    /\ at = "dispatch"
    /\ at' = "return"
    /\ csr.mcause \in {MSOFT, MTIMER, MEXT}
    /\ UNCHANGED <<plat, csr, low, fw, trap>>

\* emulate_csr_read with a direct counter needs no facts.
DirectCounter ==
    /\ at = "dispatch"
    /\ at' = "return"
    /\ csr.mcause = ILLEGAL_INSTRUCTION
    /\ csr.mstatus.mpp # "M"
    /\ MtvalReadsTime /\ plat.directTime
    /\ fw' = [fw EXCEPT !.frame = WriteX(@, trap.of.insn.reg, TimeValue)]
    /\ csr' = [csr EXCEPT !.mepc = Pc + 4]
    /\ UNCHANGED <<plat, low, trap>>

\* mtval holds the encoding of a 32-bit instruction.
MtvalDecodes == csr.mcause = ILLEGAL_INSTRUCTION /\ trap.of.tval = 1 /\ trap.of.insn.len = 4

\* with_trap_facts captures the trap; then the instruction is fetched, unless
\* mtval holds it.
BeginEmulation ==
    LET captured == [mepc |-> csr.mepc, mcause |-> csr.mcause, mtval |-> csr.mtval, mstatus |-> csr.mstatus] IN
    /\ at = "dispatch"
    /\ csr.mstatus.mpp # "M"
    /\ \/ csr.mcause \in {LOAD_MISALIGNED, STORE_MISALIGNED}
       \/ csr.mcause \in {LOAD_FAULT, STORE_FAULT} /\ Dispatched
       \/ csr.mcause = ILLEGAL_INSTRUCTION /\ ~(MtvalReadsTime /\ plat.directTime)
    /\ \/ /\ MtvalDecodes
          /\ at' = "decode"
          /\ fw' = [fw EXCEPT !.facts = captured, !.insn = trap.of.insn]
          /\ UNCHANGED csr
       \/ /\ ~MtvalDecodes
          /\ StartGuard([fw EXCEPT !.facts = captured], "parcel", csr.mepc, 0, {LOAD_FAULT, LOAD_PAGE}, "fetchLow")
    /\ UNCHANGED <<plat, low, trap>>

(* ----------------------------- emulation -------------------------------- *)

\* map_fetch_fault
MapFetchFault(cause) ==
    CASE cause = LOAD_FAULT -> INSTRUCTION_ACCESS
      [] cause = LOAD_PAGE -> INSTRUCTION_PAGE
      [] OTHER -> cause

Fail(error) ==
    /\ at' = "failed"
    /\ fw' = [fw EXCEPT !.error = error]
    /\ UNCHANGED csr

Decode ==
    /\ at' = "decode"
    /\ fw' = [fw EXCEPT !.insn = trap.of.insn]
    /\ UNCHANGED csr

\* recovery::fetch: a second halfword unless the first is a whole instruction.
FetchLow ==
    /\ at = "fetchLow"
    /\ \/ fw.record.trapped /\ Fail([cause |-> MapFetchFault(fw.record.mcause), tval |-> fw.record.mtval])
       \/ ~fw.record.trapped /\ trap.of.insn.len = 2 /\ Decode
       \/ /\ ~fw.record.trapped /\ trap.of.insn.len = 4
          /\ StartGuard(fw, "parcel", fw.facts.mepc + 2, 0, {LOAD_FAULT, LOAD_PAGE}, "fetchHigh")
    /\ UNCHANGED <<plat, low, trap>>

FetchHigh ==
    /\ at = "fetchHigh"
    /\ \/ fw.record.trapped /\ Fail([cause |-> MapFetchFault(fw.record.mcause), tval |-> fw.record.mtval])
       \/ ~fw.record.trapped /\ Decode
    /\ UNCHANGED <<plat, low, trap>>

\* The operation the cause calls for.
Wanted == CASE fw.facts.mcause \in {LOAD_MISALIGNED, LOAD_FAULT} -> "load"
            [] fw.facts.mcause \in {STORE_MISALIGNED, STORE_FAULT} -> "store"
            [] OTHER -> "time"

DecodeFails ==
    /\ at = "decode"
    /\ fw.insn.op # Wanted
    /\ Fail(NoFault)
    /\ UNCHANGED <<plat, low, trap>>

\* ValueKind::extend
Extend(kind, raw) ==
    LET top == Base ^ kind.width IN
    IF kind.signed /\ 2 * raw >= top THEN raw + Word - top ELSE raw

\* A load reads its bytes from the highest, a store writes from the lowest.
ByteGuard(f) ==
    IF Wanted = "load"
    THEN StartGuard(f, "read", f.facts.mtval + (f.insn.kind.width - 1 - f.i), 0, {LOAD_FAULT, LOAD_PAGE}, "bytes")
    ELSE StartGuard(f, "write", f.facts.mtval + f.i, Digit(f.frame[f.insn.reg], f.i),
                    {STORE_FAULT, STORE_PAGE}, "bytes")

\* emulate_load, emulate_store
DecodeMisaligned ==
    /\ at = "decode"
    /\ fw.facts.mcause \in {LOAD_MISALIGNED, STORE_MISALIGNED}
    /\ fw.insn.op = Wanted
    /\ ByteGuard(fw)
    /\ UNCHANGED <<plat, low, trap>>

Complete(f) ==
    /\ at' = "finish"
    /\ fw' = f
    /\ UNCHANGED csr

\* The value a load leaves in its register.
Loaded(raw) == [fw EXCEPT !.frame = WriteX(@, fw.insn.reg, Extend(fw.insn.kind, raw))]

\* read_value, write_value: the next byte, unless this one faulted.
NextByte ==
    LET data == fw.data * Base + fw.guard.data
        last == fw.i + 1 = fw.insn.kind.width
    IN
    /\ at = "bytes"
    /\ \/ fw.record.trapped /\ Fail([cause |-> fw.record.mcause, tval |-> fw.record.mtval])
       \/ /\ ~fw.record.trapped /\ ~last
          /\ ByteGuard([fw EXCEPT !.i = @ + 1, !.data = IF Wanted = "load" THEN data ELSE 0])
       \/ /\ ~fw.record.trapped /\ last
          /\ Complete(IF Wanted = "load" THEN Loaded(data) ELSE fw)
    /\ UNCHANGED <<plat, low, trap>>

\* dispatch_load_fault, dispatch_store_fault: the platform's dispatcher
\* declines or makes the access.
AskDispatcher ==
    /\ at = "decode"
    /\ fw.facts.mcause \in {LOAD_FAULT, STORE_FAULT}
    /\ fw.insn.op = Wanted
    /\ \/ Fail(NoFault) /\ UNCHANGED trap
       \/ \E raw \in {0, Base ^ fw.insn.kind.width - 1} :
            /\ Complete(IF Wanted = "load" THEN Loaded(raw) ELSE fw)
            /\ trap' = [trap EXCEPT !.answer = [by |-> "dispatcher", first |-> raw, second |-> 0]]
    /\ UNCHANGED <<plat, low>>

TimeRead == [fw EXCEPT !.frame = WriteX(@, fw.insn.reg, TimeValue)]

\* counter_word: the direct counter, else the CSR under guard ...
ReadCounter ==
    /\ at = "decode"
    /\ fw.facts.mcause = ILLEGAL_INSTRUCTION
    /\ fw.insn.op = "time"
    /\ \/ plat.directTime /\ Complete(TimeRead)
       \/ ~plat.directTime /\ StartGuard(fw, "timeCsr", 0, 0, {ILLEGAL_INSTRUCTION}, "counter")
    /\ UNCHANGED <<plat, low, trap>>

\* ... else the device's time, if it has one.
CounterAnswer ==
    /\ at = "counter"
    /\ \/ (~fw.record.trapped \/ plat.deviceTime) /\ Complete(TimeRead)
       \/ fw.record.trapped /\ ~plat.deviceTime /\ Fail(NoFault)
    /\ UNCHANGED <<plat, low, trap>>

\* restore_and_advance
FinishEmulation ==
    /\ at = "finish"
    /\ at' = "return"
    /\ csr' = [csr EXCEPT !.mcause = fw.facts.mcause, !.mtval = fw.facts.mtval,
                          !.mstatus = fw.facts.mstatus, !.mepc = fw.facts.mepc + fw.insn.len]
    /\ UNCHANGED <<plat, low, fw, trap>>

\* The exception that a failed emulation reports.
Reported(f) == IF f.error = NoFault THEN [cause |-> f.facts.mcause, tval |-> f.facts.mtval] ELSE f.error

\* restore_all, and the redirect with the secondary fault if there is one.
FailEmulation ==
    /\ at = "failed"
    /\ Redirect(fw.facts, Reported(fw).cause, Reported(fw).tval)
    /\ UNCHANGED <<plat, fw, trap>>

(* -------------------------- stray exceptions ---------------------------- *)

\* Firmware code other than the guarded instruction raises an exception.  The
\* naked entry and return sequences touch only the hart's own stack.
StrayFault ==
    /\ at \notin {"init", "commit", "arm", "lower", "entry", "fastReturn", "return", "recover", "stopped"}
    /\ \E cause \in Strays :
        /\ at = "access" => cause \notin fw.record.mask
        /\ MachineFault(cause, 0, IF at = "access" THEN GuardPc ELSE StrayPc)
    /\ trap' = [trap EXCEPT !.stray = TRUE]
    /\ UNCHANGED <<plat, low, fw>>

\* fail_stop waits for ever.
FailStop == at = "stopped" /\ UNCHANGED trapVars

TrapNext ==
    \/ PublishRecord \/ OpenWindow \/ GuardedAccess \/ GuardedFault \/ RecoverFault \/ RecoveryStops
    \/ CloseWindow \/ RetireRecord \/ RestoreVector
    \/ Reserve \/ Delegate \/ CommitVector \/ Arm
    \/ TakeTrap \/ EnterFast \/ EnterFull \/ ReturnToLower
    \/ DispatchRedirect \/ SbiEcall \/ EnterNextStage \/ DispatchInterrupt \/ DirectCounter \/ BeginEmulation
    \/ FetchLow \/ FetchHigh \/ DecodeFails \/ DecodeMisaligned \/ NextByte \/ AskDispatcher
    \/ ReadCounter \/ CounterAnswer \/ FinishEmulation \/ FailEmulation
    \/ StrayFault \/ FailStop

TrapSpec == TrapInit /\ [][TrapNext]_trapVars

(* ------------------------------ properties ------------------------------ *)

\* What the lower context is left with must be what it would have seen if the
\* hardware had executed the instruction, or had delegated its trap.

AccessBytes(t) == {t.tval + i : i \in 0 .. t.insn.kind.width - 1}

\* The lower context is untouched but for what the outcome names.
SameStatus == csr.mstatus = trap.status
NoRedirect == /\ low.sepc = trap.low.sepc
              /\ low.scause = trap.low.scause
              /\ low.stval = trap.low.stval

\* The register of the instruction holds the bytes, extended as the kind says;
\* the others are as before.
RegisterHolds(t, x, bytes) ==
    LET w == t.insn.kind.width
        fill == IF t.insn.kind.signed /\ 2 * bytes[w - 1] >= Base THEN Base - 1 ELSE 0
    IN  \A r \in Regs :
            IF r = t.insn.reg /\ r # 0
            THEN \A i \in 0 .. XBytes - 1 : Digit(x[r], i) = IF i < w THEN bytes[i] ELSE fill
            ELSE x[r] = trap.low.x[r]

\* What the instruction does to the registers, x, and to memory.
Effect(t, x) ==
    \/ /\ t.cause = LOAD_MISALIGNED
       /\ low.mem = trap.low.mem
       /\ RegisterHolds(t, x, [i \in 0 .. t.insn.kind.width - 1 |-> trap.low.mem[t.tval + i]])
    \/ /\ t.cause = STORE_MISALIGNED
       /\ x = trap.low.x
       /\ \A a \in DataAddrs : low.mem[a] = IF a \in AccessBytes(t)
                THEN Digit(trap.low.x[t.insn.reg], a - t.tval) ELSE trap.low.mem[a]
    \/ /\ t.cause = LOAD_FAULT
       /\ trap.answer.by = "dispatcher" /\ low.mem = trap.low.mem
       /\ RegisterHolds(t, x, [i \in 0 .. t.insn.kind.width - 1 |-> Digit(trap.answer.first, i)])
    \/ /\ t.cause = STORE_FAULT
       /\ trap.answer.by = "dispatcher" /\ x = trap.low.x
    \/ /\ t.cause = ILLEGAL_INSTRUCTION
       /\ x = [r \in Regs |-> IF r = t.insn.reg /\ r # 0 THEN TimeValue ELSE trap.low.x[r]]
       /\ low.mem = trap.low.mem
    \/ /\ t.cause = ECALL_FROM_S
       /\ x = [trap.low.x EXCEPT ![10] = trap.answer.first, ![11] = trap.answer.second]

\* The instruction took effect.
Executed(t, x) == csr.mepc = Pc + 4 /\ SameStatus /\ NoRedirect /\ Effect(t, x)

\* The supervisor gets a trap that this instruction can raise: its own, a
\* fault of its fetch, or a fault of a byte it accesses.
CanRaise(t, cause, tval) ==
    \/ cause = t.cause /\ tval = t.tval
    \/ /\ tval \in t.bad \cap {Pc, Pc + 2}
       /\ cause = IF t.page THEN INSTRUCTION_PAGE ELSE INSTRUCTION_ACCESS
    \/ /\ tval \in t.bad \cap AccessBytes(t)
       /\ cause = IF t.insn.op = "load" THEN IF t.page THEN LOAD_PAGE ELSE LOAD_FAULT
                  ELSE IF t.page THEN STORE_PAGE ELSE STORE_FAULT

\* A store that faulted may have written other bytes of its own.
PartlyStored(t) ==
    \A a \in DataAddrs :
        \/ low.mem[a] = trap.low.mem[a]
        \/ /\ t.cause = STORE_MISALIGNED /\ a \in AccessBytes(t) \ t.bad
           /\ low.mem[a] = Digit(trap.low.x[t.insn.reg], a - t.tval)

\* The supervisor gets the trap.
Delegated(t, x) ==
    /\ csr.mepc = Stvec /\ low.sepc = Pc /\ x = trap.low.x
    /\ csr.mstatus = [trap.status EXCEPT !.mpp = "S", !.spp = t.origin, !.spie = trap.status.sie, !.sie = FALSE]
    /\ CanRaise(t, low.scause, low.stval)
    /\ PartlyStored(t)

\* The firmware can carry the instruction out.
MustExecute(t) ==
    \/ /\ <<t.cause, t.insn.op>> \in {<<LOAD_MISALIGNED, "load">>, <<STORE_MISALIGNED, "store">>}
       /\ t.bad \cap (AccessBytes(t) \cup {Pc, Pc + 2}) = {}
    \/ /\ t.cause = ILLEGAL_INSTRUCTION /\ t.insn.op = "time"
       /\ plat.directTime \/ plat.deviceTime \/ plat.timeCsr
       /\ t.tval = 1 \/ t.bad \cap {Pc, Pc + 2} = {}

\* What the lower context may find when it goes on with registers x.
Transparent(x) ==
    LET t == trap.of IN
    IF trap.answer.by = "stage"
    THEN /\ csr.mepc = StageEntry
         /\ x = [r \in Regs |-> CASE r = 10 -> trap.answer.first [] r = 11 -> trap.answer.second [] OTHER -> 0]
    ELSE IF t.cause >= Irq
    THEN csr.mepc = Pc /\ SameStatus /\ NoRedirect /\ low.mem = trap.low.mem /\ x = trap.low.x
    ELSE \/ Executed(t, x)
         \/ Delegated(t, x) /\ ~MustExecute(t)

\* A trap never shows: the lower context finds the effect of its instruction,
\* a trap its instruction can raise, its own interrupted state, or the clean
\* registers of a new stage; and what the firmware can emulate is emulated.  One
\* thing differs from hardware: the load of an execute-only page is carried out,
\* where hardware would fault it unless the context's own MXR is set.
\* (trap_dispatch, emulate.rs, redirect_trap and the entry's save and restore)
TrapsAreTransparent == at = "lower" /\ trap.of.cause # 0 => Transparent(low.x)

\* Nothing the lower modes do stops the hart: fail_stop is reached only by an
\* exception of the firmware's own code, never by a guarded access's fault.
\* (recovery_entry's checks against the masks of the guards)
LowerCannotStop == at = "stopped" => trap.stray

\* An exception of the firmware's own code is never taken for the fault that a
\* guard expects, wherever in the window it happens.  (recovery_entry)
StrayStops == trap.stray => at \in {"recover", "stopped"}

\* A guarded access to memory is made in the mode of the context that trapped
\* and with its translation, and with one right more, MXR: a byte of an
\* execute-only page can be read, by the fetch of the instruction and by an
\* emulated load alike, whatever the context's own MXR is.  No other access of
\* the firmware is made so: the window is the only place with MPRV set, or with
\* an MXR that is not the context's, and both are put back before the code that
\* follows it, whether the access completed or faulted.  (guarded_access!, a3)
AccessedAsTheTrapped ==
    /\ at = "access" /\ fw.guard.what \notin GuardedCsrs =>
            csr.mstatus = [trap.status EXCEPT !.mprv = TRUE, !.mxr = TRUE]
    /\ csr.mstatus.mprv \/ csr.mstatus.mxr # trap.status.mxr => at \in {"access", "recover", "close", "stopped"}

\* Lower modes run with the normal vector, the clean stack top in mscratch,
\* MPRV clear and their own MXR, after whatever guards a trap went through.  (the guard's
\* restores, trap_entry's return path, finish_boot)
LowerContextIsSafe ==
    at = "lower" => /\ csr.mtvec = "normal"
                    /\ csr.mscratch = "top"
                    /\ ~csr.mstatus.mprv /\ csr.mstatus.mxr = trap.status.mxr
                    /\ fw.phase = "armed"
                    /\ fw.sstc = plat.stimecmp

\* The hart stops for the exceptions of the firmware's own code, all of them and
\* nothing else, wherever in a guarded access they happen and whatever the lower
\* modes do.  (recovery_entry, fail_stop)
StopsForStraysOnly == LowerCannotStop /\ StrayStops

\* Machine privilege does not leak: guarded accesses are made as the trapped
\* context with MXR added and nothing else, and lower modes resume with
\* everything put back, on every exit of every window.  (guarded_access!, trap_entry, finish_boot)
PrivilegeIsKept == AccessedAsTheTrapped /\ LowerContextIsSafe

(* -------------------------- inductive invariant -------------------------- *)

Statuses == [mpp : {"M", "S", "U"}, mprv : BOOLEAN, mxr : BOOLEAN, sie : BOOLEAN, spie : BOOLEAN, spp : {"S", "U"}]
Causes == 0 .. Irq + 11
Insns == Loads \cup Stores \cup CsrReads \cup Others
Traps == [cause : Causes, tval : {0, 1}, insn : Insns, origin : {"U", "S"}, bad : SUBSET Int, xonly : SUBSET Int, page : BOOLEAN]
LowerContexts == [x : [Regs -> Int], mem : [DataAddrs -> 0 .. Base - 1], sepc : Int, scause : Int, stval : Int]
CsrFiles == [mepc : Int, mcause : Int, mtval : Int, mstatus : Statuses,
             mtvec : {"failstop", "recovery", "normal"}, mscratch : {"zero", "top", "record"}]
Facts == [mepc : Int, mcause : Int, mtval : Int, mstatus : Statuses]
Guards == [what : GuardedCsrs \cup {"parcel", "read", "write"}, addr : Int, data : Int,
           a3 : Statuses, prev : {"failstop", "normal"}, ret : {"init", "delegate", "fetchLow", "fetchHigh", "bytes", "counter"}]
Records == [expected : {0, GuardPc}, mask : SUBSET Int, trapped : BOOLEAN, mcause : Int, mtval : Int]
Firmwares == [phase : {"uninitialized", "initializing", "ready", "armed"}, sstc : BOOLEAN, frame : [Regs -> Int],
              facts : Facts, guard : Guards, record : Records, insn : Insns, i : Nat, data : Int,
              error : [cause : Int, tval : Int]]
Ghosts == [of : Traps, status : Statuses, low : LowerContexts,
           answer : [by : {"none", "ecall", "stage", "dispatcher"}, first : Int, second : Int], stray : BOOLEAN]

TrapTypeOK ==
    /\ plat \in [timeCsr : BOOLEAN, directTime : BOOLEAN, deviceTime : BOOLEAN, dispatcher : BOOLEAN,
                 stimecmp : BOOLEAN]
    /\ csr \in CsrFiles
    /\ low \in LowerContexts
    /\ fw \in Firmwares
    /\ trap \in Ghosts

\* The steps of a guarded access, and the code that it returns to.
Window == {"publish", "window", "access", "recover", "close", "retire", "vector"}
Returns == {"delegate", "fetchLow", "fetchHigh", "bytes", "counter"}
Home == IF at \in Window THEN fw.guard.ret ELSE at
BootPlaces == {"init", "delegate", "commit", "arm"}
Emulating == {"fetchLow", "fetchHigh", "decode", "bytes", "counter", "finish", "failed"}

Places ==
    /\ at \in Window => fw.guard.ret \in Returns
    /\ at \in Window \cup BootPlaces \cup Emulating
              \cup {"lower", "entry", "dispatch", "fastReturn", "return"}

\* The status of the code around the window: M-mode's own while it boots, then
\* that of the trap.
HomeStatus == IF Home \in BootPlaces THEN [LowerStatus EXCEPT !.mpp = "M"] ELSE trap.status

\* Where the hart executes fixes mtvec, mscratch and mstatus, and what the
\* window will put back.
ControlHolds ==
    /\ csr.mtvec = IF at \in Window THEN "recovery"
                   ELSE IF at \in {"init", "delegate", "commit"} THEN "failstop" ELSE "normal"
    /\ at \in Window => fw.guard.prev = IF Home = "delegate" THEN "failstop" ELSE "normal"
    /\ csr.mscratch = IF at \in {"lower", "entry"} THEN "top"
                      ELSE IF at \in {"window", "access", "recover", "close", "retire"} THEN "record" ELSE "zero"
    /\ at \notin {"access", "recover", "close", "return", "lower"} => csr.mstatus = HomeStatus
    /\ at = "access" => csr.mstatus = [HomeStatus EXCEPT !.mprv = TRUE, !.mxr = TRUE]
    /\ at \in {"access", "recover", "close"} => fw.guard.a3 = HomeStatus
    /\ at \in {"return", "lower"} => ~csr.mstatus.mprv /\ csr.mstatus.mxr = trap.status.mxr
    /\ ~trap.status.mprv
    /\ trap.status.mpp = trap.of.origin

\* The hart's slot is armed before it first leaves M-mode, and the probe's
\* answer is kept.
PhaseHolds ==
    /\ fw.phase = CASE Home = "init" -> "uninitialized"
                    [] Home = "delegate" -> "initializing"
                    [] Home \in {"commit", "arm"} -> "ready"
                    [] OTHER -> "armed"
    /\ Home \notin {"init", "delegate"} => fw.sstc = plat.stimecmp

\* What is accessed under guard on the way to each place, and with which mask.
GuardHolds ==
    Home \in Returns =>
        /\ Home = "delegate" => fw.guard.what = "stimecmp"
        /\ Home = "counter" => fw.guard.what = "timeCsr"
        /\ Home = "fetchLow" => fw.guard.what = "parcel" /\ fw.guard.addr = Pc
        /\ Home = "fetchHigh" => fw.guard.what = "parcel" /\ fw.guard.addr = Pc + 2
        /\ Home = "bytes" /\ trap.of.cause = LOAD_MISALIGNED =>
              /\ fw.guard.what = "read"
              /\ fw.guard.addr = trap.of.tval + (trap.of.insn.kind.width - 1 - fw.i)
        /\ Home = "bytes" /\ trap.of.cause # LOAD_MISALIGNED =>
              /\ fw.guard.what = "write"
              /\ fw.guard.addr = trap.of.tval + fw.i
              /\ fw.guard.data = Digit(trap.low.x[trap.of.insn.reg], fw.i)
        /\ fw.record.mask = CASE fw.guard.what \in GuardedCsrs -> {ILLEGAL_INSTRUCTION}
                              [] fw.guard.what = "write" -> {STORE_FAULT, STORE_PAGE}
                              [] OTHER -> {LOAD_FAULT, LOAD_PAGE}

\* What the guarded instruction raises when the window is open.
WindowFault == FaultUnder(TRUE)

\* The record tells whether the guarded access faulted, and how.
Closed == at \in {"close", "retire", "vector"} \cup Returns
RecordHolds ==
    /\ at \in {"publish", "window", "access", "recover"} => ~fw.record.trapped
    /\ at \in {"window", "access", "recover"} => fw.record.expected = GuardPc
    /\ at = "recover" => /\ WindowFault # 0
                         /\ csr.mstatus.mpp = "M"
                         /\ csr.mepc = GuardPc /\ csr.mcause = WindowFault /\ csr.mtval = fw.guard.addr
    /\ Closed => (fw.record.trapped <=> WindowFault # 0)
    /\ Closed /\ fw.record.trapped => fw.record.mcause = WindowFault /\ fw.record.mtval = fw.guard.addr

\* The trap in the CSRs until its facts are captured, and the facts after that.
FactsHold ==
    /\ Home \in BootPlaces => trap.of = NoTrap /\ trap.status = LowerStatus
    /\ Home \notin BootPlaces \cup {"lower"} => trap.of \in Trappings
    /\ Home = "lower" => trap.of \in Trappings \cup {NoTrap}
    /\ at \in {"entry", "dispatch"} => csr.mepc = Pc /\ csr.mcause = trap.of.cause /\ csr.mtval = trap.of.tval
    /\ Home \in Emulating =>
        /\ fw.facts = [mepc |-> Pc, mcause |-> trap.of.cause, mtval |-> trap.of.tval, mstatus |-> trap.status]
        /\ trap.of.cause \in {LOAD_MISALIGNED, STORE_MISALIGNED, LOAD_FAULT, STORE_FAULT, ILLEGAL_INSTRUCTION}
    /\ Home \in {"fetchLow", "fetchHigh"} =>
        ~(trap.of.cause = ILLEGAL_INSTRUCTION /\ trap.of.tval = 1 /\ trap.of.insn.len = 4)
    /\ Home = "fetchHigh" => trap.of.insn.len = 4
    /\ Home \in {"decode", "bytes", "counter", "finish"} => fw.insn = trap.of.insn
    /\ Home \in {"entry", "dispatch", "fetchLow", "fetchHigh", "decode"} => fw.i = 0 /\ fw.data = 0
    /\ Home = "bytes" =>
        /\ <<trap.of.cause, trap.of.insn.op>> \in {<<LOAD_MISALIGNED, "load">>, <<STORE_MISALIGNED, "store">>}
        /\ fw.i \in 0 .. trap.of.insn.kind.width - 1
    /\ Home = "counter" => trap.of.cause = ILLEGAL_INSTRUCTION /\ trap.of.insn.op = "time" /\ ~plat.directTime

\* v holds the n highest bytes of the access.
HoldsHighest(v, n) ==
    /\ v \in 0 .. Base ^ n - 1
    /\ \A k \in 0 .. n - 1 : Digit(v, k) = trap.low.mem[trap.of.tval + trap.of.insn.kind.width - n + k]

\* The n lowest bytes of the access are stored, and none of them faulted.
LowestStored(n) ==
    /\ \A a \in DataAddrs : low.mem[a] = IF a \in trap.of.tval .. trap.of.tval + n - 1
                                         THEN Digit(trap.low.x[trap.of.insn.reg], a - trap.of.tval)
                                         ELSE trap.low.mem[a]
    /\ \A k \in 0 .. n - 1 : trap.of.tval + k \notin trap.of.bad

\* The lower context is as it was when it trapped, but for the bytes that the
\* emulated store has written; the frame holds its registers.
DataHolds ==
    /\ Home \in Emulating \cup {"entry", "dispatch"} => low.x = trap.low.x /\ NoRedirect
    /\ Home \in (Emulating \ {"finish"}) \cup {"entry", "dispatch"} => trap.answer = NoAnswer
    /\ Home \in {"entry", "dispatch", "fetchLow", "fetchHigh", "decode", "counter"} => low.mem = trap.low.mem
    /\ Home \in (Emulating \ {"finish"}) \cup {"dispatch"} => fw.frame = trap.low.x
    /\ Home = "bytes" /\ trap.of.cause = LOAD_MISALIGNED =>
        /\ low.mem = trap.low.mem
        /\ HoldsHighest(fw.data, fw.i)
        /\ Closed /\ ~fw.record.trapped => fw.guard.data = low.mem[fw.guard.addr]
    /\ Home = "bytes" /\ trap.of.cause = STORE_MISALIGNED =>
        LowestStored(IF Closed /\ ~fw.record.trapped THEN fw.i + 1 ELSE fw.i)

\* What the emulation ends with, and what the return will make visible.
OutcomeHolds ==
    /\ at = "finish" => Effect(trap.of, fw.frame) /\ trap.of.insn.len = 4 /\ trap.answer.by # "stage"
    /\ at = "failed" => /\ PartlyStored(trap.of)
                        /\ ~MustExecute(trap.of)
                        /\ CanRaise(trap.of, Reported(fw).cause, Reported(fw).tval)
    /\ at = "return" => Transparent(fw.frame)
    /\ at = "fastReturn" => Transparent([r \in Regs |-> IF r \in CallerSaved THEN fw.frame[r] ELSE low.x[r]])
    /\ TrapsAreTransparent

OnCourse ==
    Places /\ ControlHolds /\ PhaseHolds /\ GuardHolds /\ RecordHolds /\ FactsHold /\ DataHolds /\ OutcomeHolds

\* As long as the firmware's own code has raised no exception, all this holds;
\* after it, the recovery vector will not accept the exception.
TrapInv ==
    /\ TrapTypeOK
    /\ StopsForStraysOnly
    /\ trap.stray /\ at = "recover" => ~Recoverable
    /\ trap.stray => at # "lower"
    /\ ~trap.stray => OnCourse
==============================================================================
