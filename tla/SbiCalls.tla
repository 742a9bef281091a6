------------------------------ MODULE SbiCalls -------------------------------
(***************************************************************************)
(* An SBI call from the supervisor's function to the implementation's      *)
(* method and back: the sbi-rt library loads the registers, the structure  *)
(* that derives RustSBI picks a field by the extension number, the rustsbi *)
(* library picks the method and rebuilds its arguments, and a field may be *)
(* Forward, which makes the same call to the environment below.            *)
(*                                                                         *)
(* A byte has Byte values, a 32-bit half Half, and a word of RV64          *)
(* Half * Half.                                                            *)
(***************************************************************************)
EXTENDS SbiRt, SbiTraits, FiniteSets

CONSTANTS
    Environments,   \* the environments, each a sequence of structures, the lowest last
    RawFids,        \* the function numbers of calls that bypass the library
    Byte, Half,     \* how many values a byte and 32 bits have
    Sampled         \* the arguments tried, by type

ASSUME WordAssumption ==
    /\ Byte \in Nat \ {0} /\ Half \in Nat \ 0 .. 2
    /\ Sampled \in [{"u8", "u32", "u64", "rv32", "rv64"} -> SUBSET Nat]

\* A structure that derives RustSBI: the fields of each extension, in order.  A
\* reference to a field is the field itself, but for a reference to None.
FieldKinds == {"none", "refnone", "basic", "full", "forward"}
IsStruct(struct) ==
    /\ struct.mode \in {"static", "dynamic"}
    /\ DOMAIN struct.fields \subseteq DOMAIN Handle \ {"BASE"}
    /\ \A x \in DOMAIN struct.fields :
        struct.fields[x] \in Seq(IF x \in DOMAIN Forwards THEN FieldKinds ELSE FieldKinds \ {"forward"})
    /\ struct.vendor \in Seq(STRING) /\ struct.vendorPresent \in BOOLEAN
    /\ struct.info \in {"full", "forward"}

Forwarding(struct) ==
    \/ struct.info = "forward"
    \/ \E x \in DOMAIN struct.fields : \E i \in 1 .. Len(struct.fields[x]) : struct.fields[x][i] = "forward"

\* The lowest environment has none to forward to.
ASSUME EnvironmentsAssumption ==
    \A e \in Environments :
        /\ Len(e) \in Nat \ {0}
        /\ \A l \in 1 .. Len(e) : IsStruct(e[l])
        /\ ~Forwarding(e[Len(e)])

VARIABLES
    xlen,       \* 32 or 64
    env,        \* the environment
    caller,     \* the supervisor's call: extension, function and arguments
    level,      \* the structure that the call has come to
    ecall,      \* a7, a6 and a0 .. a5
    callee,     \* the field and the method the call is delivered to
    answer,     \* the SbiRet on its way back
    served,     \* the methods that implementations ran: level, field, method, arguments
    stage       \* "idle", "ecall", "method", "answer" or "done"

sbiVars == <<xlen, env, caller, level, ecall, callee, answer, served, stage>>

(* -------------------------- encoding, decoding -------------------------- *)

Params(f) == {f.regs[i] : i \in 1 .. Len(f.regs)}

\* On RV32 a double word takes two registers.
InTwo(f, i) == xlen = 32 /\ f.regs[i] \in f.u64

\* The parts of the parameters, and the register of each, from a0 on.
Slots(f) == {slot \in (1 .. Len(f.regs)) \X {"word", "low", "high"} : InTwo(f, slot[1]) <=> slot[2] # "word"}
Place(f, slot) ==
    slot[1] + Cardinality({i \in 1 .. slot[1] - 1 : InTwo(f, i)}) + IF slot[2] = "high" THEN 1 ELSE 0

\* `value as _` and `(value >> 32) as _`
Part(value, part) == CASE part = "high" -> value \div Half [] part = "low" -> value % Half [] OTHER -> value

\* The six argument registers; those the call does not set hold anything.
Encode(f, args, unset) ==
    [r \in 1 .. 6 |->
        IF \E slot \in Slots(f) : Place(f, slot) = r
        THEN LET slot == CHOOSE slot \in Slots(f) : Place(f, slot) = r IN Part(args[f.regs[slot[1]]], slot[2])
        ELSE unset]

\* concat_u32
\* Mutant: the halves are swapped.
MConcat(h, l) == l * Half + h
Concat(h, l) == h * Half + l

\* The parameters a handler reads.
Decode(f, regs) ==
    [p \in Params(f) |->
        LET i == CHOOSE i \in 1 .. Len(f.regs) : f.regs[i] = p
            Reg(part) == regs[Place(f, <<i, part>>)]
        IN  IF p \in f.u8 THEN Reg("word") % Byte
            ELSE IF InTwo(f, i) THEN Concat(Reg("high"), Reg("low"))
            ELSE Reg("word")]

\* u32::try_from
\* Mutant: the parameter is truncated by `as u32`.
MFitsRegister(value) == TRUE
FitsRegister(value) == value < Half

(* ----------------------------- dispatching ------------------------------ *)

Standard == DOMAIN Handle
LegacyEids == DOMAIN RtLegacy

\* extension::validate: the vendor extensions of a structure that compiles.
\* Mutant: standard numbers are accepted.
MValidVendor(eids) == Cardinality({eids[i] : i \in 1 .. Len(eids)}) = Len(eids)
ValidVendor(eids) ==
    /\ \A i \in 1 .. Len(eids) : eids[i] \notin Standard \cup LegacyEids
    /\ Cardinality({eids[i] : i \in 1 .. Len(eids)}) = Len(eids)

\* check_already_exists: a static structure has one field of an extension.
ValidFields(struct) == struct.mode = "static" => \A x \in DOMAIN struct.fields : Len(struct.fields[x]) <= 1

Compiles(struct) == ValidVendor(struct.vendor) /\ ValidFields(struct)

\* The fields of an extension, in order.
Fields(struct, eid) == IF eid \in DOMAIN struct.fields THEN struct.fields[eid] ELSE <<>>

\* _rustsbi_probe: only an Option that is None is unavailable.  The impl for a
\* reference has every method of the trait but this one, whose default is 1.
\* Mutant: Option does not override it.
MProbeField(field) == 1
ProbeField(field) == IF field = "none" THEN 0 ELSE 1

\* VendorSBI::probe_extension: each extension probes itself.
ProbeVendor(struct, eid) ==
    IF eid \in {struct.vendor[i] : i \in 1 .. Len(struct.vendor)} /\ struct.vendorPresent THEN 1 ELSE 0

\* _StandardExtensionProbe: a static structure has every field it declares.
ProbeStatic(struct, eid) ==
    IF eid = "BASE" \/ Fields(struct, eid) # <<>> THEN 1 ELSE ProbeVendor(struct, eid)

\* The _Prober of a dynamic structure.
ProbeDynamic(struct, eid) ==
    IF eid = "BASE" THEN 1
    ELSE IF eid \in Standard
    THEN IF \E i \in 1 .. Len(Fields(struct, eid)) : ProbeField(Fields(struct, eid)[i]) # 0 THEN 1 ELSE 0
    ELSE ProbeVendor(struct, eid)

ProbeExtension(struct, eid) ==
    IF struct.mode = "static" THEN ProbeStatic(struct, eid) ELSE ProbeDynamic(struct, eid)

\* The match arm of a static structure: its field, or 0 for the vendor.
StaticField(struct, eid) == IF Fields(struct, eid) = <<>> THEN 0 ELSE 1

\* A dynamic structure takes the first field that probes as available.
\* Mutant: the last one.
MDynamicField(struct, eid) ==
    LET there == {i \in 1 .. Len(Fields(struct, eid)) : ProbeField(Fields(struct, eid)[i]) # 0} IN
    IF there = {} THEN 0 ELSE CHOOSE i \in there : \A j \in there : j <= i
DynamicField(struct, eid) ==
    LET there == {i \in 1 .. Len(Fields(struct, eid)) : ProbeField(Fields(struct, eid)[i]) # 0} IN
    IF there = {} THEN 0 ELSE CHOOSE i \in there : \A j \in there : i <= j

FieldOf(struct, eid) == IF struct.mode = "static" THEN StaticField(struct, eid) ELSE DynamicField(struct, eid)

\* Whether a call that no field takes goes to the vendor: a dynamic structure
\* has an arm for every standard extension.
ToVendor(struct, eid) == eid # "BASE" /\ FieldOf(struct, eid) = 0 /\ (struct.mode = "static" \/ eid \notin Standard)

(* -------------------------------- calls --------------------------------- *)

\* A register that holds an extension number, as the call to probe it does.
Eids == <<"BASE", "TIME", "SPI", "RFNC", "HSM", "SRST", "PMU", "DBCN", "SUSP", "CPPC", "NACL", "STA", "SSE", "FWFT",
          "DBTR", "MPXY", "VENDOR">>
AsEid(n) == IF n \in 1 .. Len(Eids) THEN Eids[n] ELSE "UNKNOWN"

NoCallee == [field |-> 0, method |-> "", args |-> <<>>]
NoCaller == [eid |-> "", fn |-> "", args |-> <<>>]
NoEcall == [eid |-> "", fid |-> 0, regs |-> <<>>]
NoAnswer == Success(0)

SbiInit ==
    /\ xlen \in {32, 64}
    /\ env \in {e \in Environments : \A l \in 1 .. Len(e) : Compiles(e[l])}
    /\ caller = NoCaller /\ level = 0 /\ ecall = NoEcall /\ callee = NoCallee
    /\ answer = NoAnswer /\ served = {} /\ stage = "idle"

\* The values of a parameter's type that are tried.
Samples(f, p) ==
    IF p = "extension" THEN 0 .. Len(Eids)
    ELSE IF p \in f.u8 THEN {v \in Sampled.u8 : v < Byte}
    ELSE IF p \in f.u32 THEN {v \in Sampled.u32 : v < Half}
    ELSE IF p \in f.u64 THEN {v \in Sampled.u64 : v < Half * Half}
    ELSE IF xlen = 32 THEN {v \in Sampled.rv32 : v < Half}
    ELSE {v \in Sampled.rv64 : v < Half * Half}

ArgumentsOf(f) ==
    {a \in [Params(f) -> UNION {Samples(f, p) : p \in Params(f)}] : \A p \in Params(f) : a[p] \in Samples(f, p)}

\* What a register that nobody sets may hold.
Unset == {0, IF xlen = 32 THEN Half - 1 ELSE Half * Half - 1}

\* The supervisor calls a function of sbi-rt.
CallFunction ==
    /\ stage = "idle"
    /\ stage' = "ecall"
    /\ \E eid \in DOMAIN Rt : \E fn \in DOMAIN Rt[eid] : \E args \in ArgumentsOf(Rt[eid][fn]) : \E unset \in Unset :
        /\ caller' = [eid |-> eid, fn |-> fn, args |-> args]
        /\ ecall' = [eid |-> eid, fid |-> Rt[eid][fn].fid, regs |-> Encode(Rt[eid][fn], args, unset)]
    /\ level' = 1
    /\ UNCHANGED <<xlen, env, callee, answer, served>>

\* sbi_rt::raw, or a supervisor with a library of its own.
CallRaw ==
    /\ stage = "idle"
    /\ stage' = "ecall"
    /\ \E eid \in Standard \cup {"VENDOR", "UNKNOWN"}, fid \in RawFids, wide \in SUBSET (1 .. 3) :
        /\ xlen = 32 => wide = {}
        /\ ecall' = [eid |-> eid, fid |-> fid, regs |-> [i \in 1 .. 6 |-> IF i \in wide THEN Half + i ELSE i % 3]]
        /\ caller' = [eid |-> eid, fn |-> "raw", args |-> ecall'.regs]
    /\ level' = 1
    /\ UNCHANGED <<xlen, env, callee, answer, served>>

Answer(ret) ==
    /\ stage' = "answer"
    /\ answer' = ret
    /\ UNCHANGED callee

\* Whether the structure has an implementation for the call, and a method.
HasField == ecall.eid = "BASE" \/ FieldOf(env[level], ecall.eid) # 0
HasFunction == \E m \in DOMAIN Handle[ecall.eid] : Handle[ecall.eid][m].fid = ecall.fid
\* The match on the function number.
Matched == CHOOSE m \in DOMAIN Handle[ecall.eid] : Handle[ecall.eid][m].fid = ecall.fid

\* _rustsbi_base_env_info, the functions it answers itself.
AnswerBase ==
    /\ stage = "ecall"
    /\ ecall.eid = "BASE"
    /\ \/ ecall.fid \in {0, 1, 2} /\ Answer(Success(ecall.fid + 1))
       \/ ecall.fid = 3 /\ Answer(Success(ProbeExtension(env[level], AsEid(ecall.regs[1]))))
    /\ UNCHANGED <<xlen, env, caller, level, ecall, served>>

\* A structure's vendor field, and the derived VendorSBI of its type.
CallVendor ==
    /\ stage = "ecall"
    /\ ToVendor(env[level], ecall.eid)
    /\ IF ProbeVendor(env[level], ecall.eid) = 0 THEN Answer(NotSupported)
       ELSE /\ stage' = "method"
            /\ callee' = [field |-> 0, method |-> "handle", args |-> ecall.regs]
            /\ UNCHANGED answer
    /\ UNCHANGED <<xlen, env, caller, level, ecall, served>>

\* No field is available, or its extension has no such function.
NotHandled ==
    /\ stage = "ecall"
    /\ ~ToVendor(env[level], ecall.eid)
    /\ \/ ~HasField
       \/ HasField /\ ~HasFunction /\ (ecall.eid = "BASE" => ecall.fid \notin 0 .. 3)
    /\ Answer(NotSupported)
    /\ UNCHANGED <<xlen, env, caller, level, ecall, served>>

\* The function's method, unless a parameter does not fit.
CallMethod ==
    LET entry == Handle[ecall.eid][Matched]
        args == Decode(entry, ecall.regs)
    IN
    /\ stage = "ecall"
    /\ ecall.eid \in Standard /\ HasField /\ HasFunction
    /\ IF \E p \in entry.u32 : ~FitsRegister(args[p]) THEN Answer(InvalidParam)
       ELSE /\ stage' = "method"
            /\ callee' = [field |-> FieldOf(env[level], ecall.eid), method |-> Matched,
                          args |-> [p \in DOMAIN args |-> IF p \in entry.u32 THEN args[p] % Half ELSE args[p]]]
            /\ UNCHANGED answer
    /\ UNCHANGED <<xlen, env, caller, level, ecall, served>>

\* What the field is: the vendor's extension, the machine environment or a field.
FieldKind ==
    IF callee.method = "handle" THEN "full"
    ELSE IF ecall.eid = "BASE" THEN env[level].info
    ELSE Fields(env[level], ecall.eid)[callee.field]

\* What reaches the caller of a method's answer, and of a bare value's call.
\* Mutant: Forward passes on the error of a call for a bare value.
MReturned(ret) == ret
Returned(ret) ==
    LET kind == IF callee.method = "handle" THEN "ret" ELSE Handle[ecall.eid][callee.method].returns IN
    IF kind = "ret" THEN ret ELSE Success(IF kind = "value" THEN ret.value ELSE 0)

\* What the impl for Option answers for None.
NoneAnswer(eid, method) == IF method \in DOMAIN Traits[eid].none THEN Traits[eid].none[method] ELSE NotSupported

\* An implementation runs the method and answers as it likes.
RunMethod ==
    /\ stage = "method"
    /\ \/ FieldKind = "full"
       \/ FieldKind = "basic" /\ callee.method \in Traits[ecall.eid].required
    /\ \E ret \in {Success(0), Success(1), InvalidParam} :
        /\ Answer(Returned(ret))
        /\ served' = served \cup {[level |-> level, eid |-> ecall.eid, field |-> callee.field,
                                   method |-> callee.method, args |-> callee.args, ret |-> ret]}
    /\ UNCHANGED <<xlen, env, caller, level, ecall>>

\* A field that is None or refers to it, or a method that the trait provides.
Default ==
    LET trait == Traits[ecall.eid] IN
    /\ stage = "method"
    /\ \/ /\ FieldKind \in {"none", "refnone"}
          /\ Answer(NoneAnswer(ecall.eid, callee.method))
       \/ /\ \/ FieldKind = "basic"
             \/ FieldKind = "forward" /\ callee.method \notin Forwards[ecall.eid]
          /\ callee.method \in DOMAIN trait.provided
          /\ Answer(IF xlen = 32 THEN trait.provided[callee.method].rv32 ELSE trait.provided[callee.method].rv64)
    /\ UNCHANGED <<xlen, env, caller, level, ecall, served>>

\* Forward makes the call again, to the environment below.
Forward ==
    /\ stage = "method"
    /\ FieldKind = "forward"
    /\ callee.method \in Forwards[ecall.eid]
    /\ stage' = "ecall"
    /\ level' = level + 1
    /\ \E unset \in Unset :
        LET f == Rt[ecall.eid][callee.method] IN
        ecall' = [eid |-> ecall.eid, fid |-> f.fid, regs |-> Encode(f, callee.args, unset)]
    /\ UNCHANGED <<xlen, env, caller, callee, answer, served>>

\* The answer goes up: a Forward keeps only what its method returns.
Return ==
    /\ stage = "answer"
    /\ IF level = 1 THEN stage' = "done" /\ UNCHANGED <<level, answer>>
       ELSE level' = level - 1 /\ answer' = Returned(answer) /\ UNCHANGED stage
    /\ UNCHANGED <<xlen, env, caller, ecall, callee, served>>

\* The supervisor goes on.
Resume ==
    /\ stage = "done"
    /\ stage' = "idle"
    /\ caller' = NoCaller /\ level' = 0 /\ ecall' = NoEcall /\ callee' = NoCallee
    /\ answer' = NoAnswer /\ served' = {}
    /\ UNCHANGED <<xlen, env>>

SbiNext ==
    \/ CallFunction \/ CallRaw \/ AnswerBase \/ CallVendor \/ NotHandled \/ CallMethod
    \/ RunMethod \/ Default \/ Forward \/ Return \/ Resume

SbiSpec == SbiInit /\ [][SbiNext]_sbiVars

(* ------------------------------ properties ------------------------------ *)

Typed == caller.fn # "raw" /\ caller.eid \in Standard
TriggerMasks == {"uninstall_triggers", "enable_triggers", "disable_triggers"}
Pointers == {"read_attributes", "write_attributes"}

\* A method that runs is the one the supervisor called, with the arguments it
\* gave, on both word sizes and however many environments the call was
\* forwarded through.  The debug trigger masks are checked on their own, and
\* the pointers of two MPXY methods, which no supervisor passes, are left out.
\* (sbi-rt's encodings against the _rustsbi_* decodings)
CallsArriveIntact ==
    \A s \in served : Typed =>
        /\ s.eid = caller.eid /\ s.method = caller.fn
        /\ s.method \notin TriggerMasks =>
            /\ \A p \in DOMAIN caller.args : s.args[p] = caller.args[p]
            /\ DOMAIN s.args = DOMAIN caller.args \/ s.method \in Pointers

\* The masks of debug triggers arrive as they were given.  (debug_*_triggers
\* of sbi-rt and _rustsbi_dbtr)
TriggerMasksArrive == \A s \in served : Typed /\ s.method \in TriggerMasks => s.args = caller.args

\* The supervisor receives what the implementation answered: its value, and its
\* error where the function returns one, through every Forward.
\* (handle_ecall and Forward)
AnswersArriveIntact ==
    stage = "done" => \A s \in served :
        LET returns == IF s.method = "handle" THEN "ret" ELSE Handle[s.eid][s.method].returns IN
        IF returns = "ret" THEN answer = s.ret ELSE answer = Success(IF returns = "value" THEN s.ret.value ELSE 0)

\* An extension that every environment above the lowest forwards is there as the
\* lowest offers it: a method that the trait provides is forwarded like the
\* others.  (Forward and the provided methods of the traits)
Forwarded(l) == LET field == FieldOf(env[l], caller.eid) IN field # 0 /\ Fields(env[l], caller.eid)[field] = "forward"
ForwardsReach ==
    stage = "done" /\ Typed /\ caller.eid \in DOMAIN Forwards \ {"BASE"}
        /\ (\A l \in 1 .. Len(env) - 1 : Forwarded(l))
        /\ FieldOf(env[Len(env)], caller.eid) # 0
        /\ Fields(env[Len(env)], caller.eid)[FieldOf(env[Len(env)], caller.eid)] = "full"
        => \E s \in served : s.level = Len(env)

\* Whether the field that takes a call is None although the extension is
\* announced: a static structure announces the fields it declares, and a dynamic
\* one takes a reference to None for an implementation.
Hollow(struct, eid) ==
    \E i \in 1 .. Len(Fields(struct, eid)) :
        /\ \A j \in 1 .. i - 1 : Fields(struct, eid)[j] = "none"
        /\ \/ Fields(struct, eid)[i] = "refnone"
           \/ struct.mode = "static" /\ Fields(struct, eid)[i] = "none"

\* What a structure does with an extension's calls agrees with what it says when
\* it is probed.  Where it says that the extension is not there, every call is
\* refused; where it says that it is there, a method of a field runs, and only
\* the trait's own defaults answer for it, except when the announcement is
\* hollow: then nothing ever runs and each call is answered as None answers it.
\* (_StandardExtensionProbe or the _Prober, and handle_ecall, generated apart)
ProbeIsTruthful ==
    stage = "done" /\ Typed /\ caller.eid # "BASE" /\ Len(env) = 1 =>
        IF ProbeExtension(env[1], caller.eid) = 0 THEN answer = NotSupported /\ served = {}
        ELSE IF Hollow(env[1], caller.eid) THEN answer = NoneAnswer(caller.eid, caller.fn) /\ served = {}
        ELSE served # {} \/ caller.fn \in DOMAIN Traits[caller.eid].provided

\* Fields are tried in order and the first that is not None serves the call.
\* (impl_derive_rustsbi_dynamic)
FirstSomeServes ==
    \A s \in served : s.method # "handle" /\ s.eid # "BASE" =>
        \A i \in 1 .. s.field - 1 : Fields(env[s.level], s.eid)[i] = "none"

\* A vendor extension never sees a standard call, even where the structure has
\* no field for the standard extension.  (extension::validate)
StandardStaysStandard == \A s \in served : s.method = "handle" => s.eid \notin Standard \cup LegacyEids

\* What a method is given holds all the registers said: encoded again, its
\* arguments are the registers of the call, save a console byte.  A parameter
\* is refused rather than cut.  (u32::try_from in the _rustsbi_* functions)
NothingIsCut ==
    \A s \in served : s.level = 1 /\ caller.fn = "raw" /\ s.method \notin {"handle", "write_byte"} =>
        LET entry == Handle[s.eid][s.method] IN
        \A slot \in Slots(entry) : Part(s.args[entry.regs[slot[1]]], slot[2]) = caller.args[Place(entry, slot)]

\* A call is what it was when it was made, at the implementation and back at the
\* caller, on both word sizes, direct or forwarded.
\* (sbi-rt, handle_ecall, the _rustsbi_* functions and Forward)
CallsAreFaithful == CallsArriveIntact /\ AnswersArriveIntact /\ ForwardsReach /\ NothingIsCut

\* The environment serves what it announces, save what it announces hollowly, in
\* the order of its fields, and a vendor only what is not standard.  (the derive
\* macro)
ServedAsAnnounced == ProbeIsTruthful /\ FirstSomeServes /\ StandardStaysStandard
==============================================================================
