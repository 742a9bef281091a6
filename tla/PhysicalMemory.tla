---------------------------- MODULE PhysicalMemory ----------------------------
(***************************************************************************)
(* Physical memory as the firmware hands it out (runtime memory/, and its  *)
(* users in the SBI services): the ranges of the platform description are  *)
(* normalised and validated once, the supervisor's RAM is what is left of  *)
(* them, device windows are acquired one after the other, and the STA,     *)
(* MPXY and DBTR services take addresses from the supervisor.  PMP entries *)
(* guard the firmware from the supervisor's own accesses.                  *)
(*                                                                         *)
(* A range is <<start, end>>, half open.  The end of a range is a usize,   *)
(* so the last byte of the address space is in none.                       *)
(***************************************************************************)
EXTENDS Integers, Sequences, FiniteSets
LOCAL INSTANCE SequencesExt

CONSTANTS
    MaxAddr,     \* usize::MAX
    Descriptions,      \* ram, reserved: sequences of ranges; firmware, rodata, ramRange: ranges;
                 \* controllers: ranges; alias: offset; served: services are called
    Windows,     \* register ranges of the description
    ServiceHarts,
    StaSize,     \* SHMEM_SIZE of STA
    PageSize,    \* SHARED_MEMORY_SIZE of MPXY
    Triggers,    \* debug triggers of a hart
    TriggerSize, \* bytes of a trigger in the shared area
    WordSize     \* align_of::<usize>()

Addrs == 0 .. MaxAddr
Ranges == {r \in Addrs \X Addrs : r[1] < r[2]}
Bytes(r) == r[1] .. r[2] - 1
BytesOf(ranges) == UNION {Bytes(ranges[i]) : i \in DOMAIN ranges}

ASSUME MemoryAssumption ==
    /\ MaxAddr \in Nat /\ StaSize \in Nat \ {0} /\ PageSize \in Nat \ {0} /\ WordSize \in Nat \ {0}
    /\ {Triggers, TriggerSize} \subseteq Nat
    /\ \A b \in Descriptions : b.ram \in Seq(Ranges) /\ b.reserved \in Seq(Ranges) /\ b.firmware \in Ranges
    /\ Windows \subseteq Ranges

\* What set_pmp asserts, and the linker script and the boards ensure: the image
\* in order inside its RAM; three controllers in order below it; and neither the
\* controllers nor the alias of the firmware, above it, are RAM.
ASSUME LayoutAssumption ==
    \A b \in Descriptions :
        /\ b.rodata \in Ranges /\ b.ramRange \in Ranges /\ b.alias \in Nat
        /\ b.ramRange[1] <= b.firmware[1] /\ b.firmware[1] <= b.rodata[1]
        /\ b.rodata[2] <= b.firmware[2] /\ b.firmware[2] <= b.ramRange[2]
        /\ b.controllers # <<>> =>
            /\ b.controllers \in Seq(Ranges) /\ Len(b.controllers) = 3 /\ b.alias = 0
            /\ b.controllers[1][2] <= b.controllers[2][1] /\ b.controllers[2][2] <= b.controllers[3][1]
            /\ b.controllers[3][2] <= b.ramRange[1]
            /\ BytesOf(b.controllers) \cap BytesOf(b.ram) = {}
        /\ b.alias # 0 =>
            /\ b.ramRange[2] <= b.alias
            /\ (b.firmware[1] + b.alias .. b.firmware[2] + b.alias - 1) \cap BytesOf(b.ram) = {}

VARIABLES
    description,      \* the platform description
    regStep,    \* where the registration is: "ram", "reserved", "banks", "cuts", "done", "failed"
    ahead,       \* indices of the ranges that the loop there has not come to
    bank,       \* the bank whose free parts are looked for
    cursor,     \* how far they were found
    registry,   \* the result, ok when it is complete
    windows,    \* acquired_mmio
    written,    \* bytes that services wrote on behalf of the supervisor
    mpxy,       \* shmem of each hart, 0 for none
    dbtr,       \* SHMEM_ADDRESS
    lastSet     \* ghost: the address each hart last gave to MPXY, 0 for none

memoryVars == <<description, regStep, ahead, bank, cursor, registry, windows, written, mpxy, dbtr, lastSet>>

-----------------------------------------------------------------------------
(* Ranges.                                                                 *)

MaxOf(a, b) == IF a > b THEN a ELSE b
MinOf(a, b) == IF a < b THEN a ELSE b
ContainsRange(r, s) == r[1] <= s[1] /\ s[2] <= r[2]
Overlaps(r, s) == r[1] < s[2] /\ s[1] < r[2]
Adjacent(r, s) == r[2] = s[1] \/ s[2] = r[1]
JoinRanges(r, s) == <<MinOf(r[1], s[1]), MaxOf(r[2], s[2])>>

\* sort_unstable_by_key: of the ranges with the lowest start, any may come next.
NextByStart(ranges) == {i \in ahead : \A j \in ahead : ranges[i][1] <= ranges[j][1]}

\* PhysAddrRange::from_start_len, <<>> for an error.
FromStartLen(start, len) == IF len = 0 \/ start + len > MaxAddr THEN <<>> ELSE <<start, start + len>>

\* subrange, <<>> for an error.
Subrange(r, offset, len) ==
    IF len = 0 \/ r[1] + offset + len > MaxAddr \/ r[1] + offset + len > r[2]
    THEN <<>> ELSE <<r[1] + offset, r[1] + offset + len>>

-----------------------------------------------------------------------------
(* Registration.                                                           *)

NoRegistry == [ok |-> FALSE, ram |-> <<>>, reserved |-> <<>>, free |-> <<>>]

\* validate_memory_ranges: a reservation that meets a bank lies in it.
ValidMemory ==
    \A r \in ToSet(registry.ram), v \in ToSet(registry.reserved) : Overlaps(r, v) => ContainsRange(r, v)

\* The firmware lies in one bank.
FirmwareIsPlaced == \E r \in ToSet(registry.ram) : ContainsRange(r, description.firmware)

MemoryInit ==
    /\ description \in Descriptions
    /\ regStep = "ram" /\ ahead = DOMAIN description.ram /\ bank = 1 /\ cursor = 0
    /\ registry = NoRegistry
    /\ windows = <<>> /\ written = {} /\ dbtr = 0
    /\ mpxy = [h \in ServiceHarts |-> 0] /\ lastSet = mpxy

servedVars == <<windows, written, mpxy, dbtr, lastSet>>

RegistrationFails == regStep' = "failed" /\ registry' = NoRegistry /\ UNCHANGED ahead

\* The last range, joined with another.
JoinLast(done, r) == [done EXCEPT ![Len(done)] = JoinRanges(done[Len(done)], r)]

\* normalize_ram_ranges, one range of its loop.
NormalizeRam ==
    /\ regStep = "ram"
    /\ \/ /\ ahead = {}
          /\ regStep' = "reserved" /\ ahead' = DOMAIN description.reserved
          /\ UNCHANGED registry
       \/ \E i \in NextByStart(description.ram) :
            LET done == registry.ram
                r == description.ram[i]
            IN  IF done # <<>> /\ Overlaps(done[Len(done)], r) THEN RegistrationFails
                ELSE /\ registry' = [registry EXCEPT !.ram =
                            IF done # <<>> /\ Adjacent(done[Len(done)], r) THEN JoinLast(done, r) ELSE Append(done, r)]
                     /\ ahead' = ahead \ {i}
                     /\ UNCHANGED regStep
    /\ UNCHANGED <<description, bank, cursor, servedVars>>

\* normalize_reserved_ranges, one range of its loop; then the checks.
NormalizeReserved ==
    /\ regStep = "reserved"
    /\ \/ /\ ahead = {}
          /\ IF ValidMemory /\ FirmwareIsPlaced THEN regStep' = "banks" /\ UNCHANGED <<registry, ahead>> ELSE RegistrationFails
       \/ \E i \in NextByStart(description.reserved) :
            LET done == registry.reserved
                r == description.reserved[i]
            IN  /\ registry' = [registry EXCEPT !.reserved =
                        IF done # <<>> /\ (Overlaps(done[Len(done)], r) \/ Adjacent(done[Len(done)], r))
                        THEN JoinLast(done, r) ELSE Append(done, r)]
                /\ ahead' = ahead \ {i}
                /\ UNCHANGED regStep
    /\ UNCHANGED <<description, bank, cursor, servedVars>>

\* What is kept from the supervisor, and the part of it in the bank.
Excluded == Append(registry.reserved, description.firmware)
Clipped ==
    [k \in DOMAIN Excluded |->
        <<MaxOf(registry.ram[bank][1], Excluded[k][1]), MinOf(registry.ram[bank][2], Excluded[k][2])>>]

\* derive_supervisor_memory goes on with the next bank, or ends.
NextBank ==
    /\ regStep = "banks"
    /\ IF bank <= Len(registry.ram)
       THEN /\ ahead' = {k \in DOMAIN Clipped : Clipped[k][1] < Clipped[k][2]}
            /\ cursor' = registry.ram[bank][1] /\ regStep' = "cuts"
            /\ UNCHANGED registry
       ELSE /\ IF registry.free = <<>> THEN RegistrationFails
               ELSE regStep' = "done" /\ registry' = [registry EXCEPT !.ok = TRUE] /\ UNCHANGED ahead
            /\ UNCHANGED cursor
    /\ UNCHANGED <<description, bank, servedVars>>

\* Mutant: the cursor goes back to the end of an exclusion inside another one.
MPast(end) == end

Past(end) == MaxOf(cursor, end)

\* A part from the cursor on is free.
AddFree(end) ==
    registry' = IF cursor < end THEN [registry EXCEPT !.free = Append(@, <<cursor, end>>)] ELSE registry

\* excluding, one exclusion of its loop.
Exclude ==
    /\ regStep = "cuts"
    /\ \/ /\ ahead = {}
          /\ AddFree(registry.ram[bank][2])
          /\ regStep' = "banks" /\ bank' = bank + 1
          /\ UNCHANGED <<ahead, cursor>>
       \/ \E k \in NextByStart(Clipped) :
            /\ AddFree(Clipped[k][1])
            /\ cursor' = Past(Clipped[k][2])
            /\ ahead' = ahead \ {k}
            /\ UNCHANGED <<regStep, bank>>
    /\ UNCHANGED <<description, servedVars>>

buildVars == <<description, regStep, ahead, bank, cursor, registry>>

\* firmware_is_reserved.
FirmwareIsReserved == \E r \in ToSet(registry.reserved) : ContainsRange(r, description.firmware)

\* Mutant: windows acquired earlier are not looked at.
MUnavailable == ToSet(registry.ram) \cup ToSet(registry.reserved)

Unavailable == ToSet(registry.ram) \cup ToSet(registry.reserved) \cup ToSet(windows)

\* acquire_mmio of part of a device's registers.
AcquireMmio ==
    /\ \E w \in Windows, offset, len \in Addrs :
        LET r == Subrange(w, offset, len)
        IN  /\ r # <<>>
            /\ \A u \in Unavailable : ~Overlaps(u, r)
            /\ windows' = Append(windows, r)
    /\ UNCHANGED <<buildVars, written, mpxy, dbtr, lastSet>>

-----------------------------------------------------------------------------
(* Services.                                                               *)

\* SupervisorMemory::check_range.
CheckRange(r) == \E f \in ToSet(registry.free) : ContainsRange(f, r)

\* check_access: no bytes are always granted.
CheckAccess(start, len) == len = 0 \/ (FromStartLen(start, len) # <<>> /\ CheckRange(FromStartLen(start, len)))

\* Mutant: the high half of the address is ignored.
MValidateBuffer(lo, hi, len) == CheckAccess(lo, len)

\* SbiConsole::validate_buffer.
ValidateBuffer(lo, hi, len) == len = 0 \/ (hi = 0 /\ CheckAccess(lo, len))

AllOnes(lo, hi) == lo = MaxAddr /\ hi = MaxAddr

\* Mutant: the area is written up to the first byte that is not granted.
MSetSta(lo, hi, flags) ==
    /\ flags = 0 /\ ~AllOnes(lo, hi) /\ lo % StaSize = 0 /\ hi = 0
    /\ written' = written \cup {a \in lo .. lo + StaSize - 1 : CheckAccess(lo, a - lo + 1)}
    /\ UNCHANGED <<buildVars, windows, mpxy, dbtr, lastSet>>

\* SupervisorMemory::write checks the whole area before it stores a byte.
Write(start, len) ==
    /\ CheckAccess(start, len)
    /\ written' = written \cup (start .. start + len - 1)

\* SbiSta::set_shmem.
SetSta(lo, hi, flags) ==
    /\ flags = 0 /\ ~AllOnes(lo, hi) /\ lo % StaSize = 0 /\ hi = 0
    /\ Write(lo, StaSize)
    /\ UNCHANGED <<buildVars, windows, mpxy, dbtr, lastSet>>

\* Mutant: a hart disables the area of every hart.
MSetMpxy(h, lo, hi, flags) ==
    /\ flags = 0
    /\ \/ /\ AllOnes(lo, hi)
          /\ mpxy' = [g \in ServiceHarts |-> 0]
          /\ lastSet' = [lastSet EXCEPT ![h] = 0]
       \/ /\ ~AllOnes(lo, hi) /\ lo % PageSize = 0 /\ hi = 0
          /\ CheckAccess(lo, PageSize)
          /\ mpxy' = [mpxy EXCEPT ![h] = lo]
          /\ lastSet' = [lastSet EXCEPT ![h] = lo]
    /\ UNCHANGED <<buildVars, windows, written, dbtr>>

\* SbiMpxy::set_shmem.
SetMpxy(h, lo, hi, flags) ==
    /\ flags = 0
    /\ \/ /\ AllOnes(lo, hi)
          /\ mpxy' = [mpxy EXCEPT ![h] = 0]
          /\ lastSet' = [lastSet EXCEPT ![h] = 0]
       \/ /\ ~AllOnes(lo, hi) /\ lo % PageSize = 0 /\ hi = 0
          /\ CheckAccess(lo, PageSize)
          /\ mpxy' = [mpxy EXCEPT ![h] = lo]
          /\ lastSet' = [lastSet EXCEPT ![h] = lo]
    /\ UNCHANGED <<buildVars, windows, written, dbtr>>

\* get_channel_ids.
ChannelIds(h) == IF mpxy[h] = 0 THEN "no_shmem" ELSE "failed"

\* Mutant: only the first trigger of the area is checked.
MSetDbtr(lo, hi, flags) ==
    /\ flags = 0
    /\ \/ AllOnes(lo, hi) /\ dbtr' = 0
       \/ /\ ~AllOnes(lo, hi) /\ Triggers > 0 /\ lo % WordSize = 0 /\ hi = 0
          /\ CheckAccess(lo, TriggerSize)
          /\ dbtr' = lo
    /\ UNCHANGED <<buildVars, windows, written, mpxy, lastSet>>

\* SbiDbtr::set_shmem: the area has a place for every trigger.  There is one for
\* all harts, whichever of them calls.
SetDbtr(lo, hi, flags) ==
    /\ flags = 0
    /\ \/ AllOnes(lo, hi) /\ dbtr' = 0
       \/ /\ ~AllOnes(lo, hi) /\ Triggers > 0 /\ lo % WordSize = 0 /\ hi = 0
          /\ CheckAccess(lo, Triggers * TriggerSize)
          /\ dbtr' = lo
    /\ UNCHANGED <<buildVars, windows, written, mpxy, lastSet>>

\* Every other argument is refused without effect.
Serve ==
    \E lo \in Addrs, hi \in {0, MaxAddr}, flags \in {0, 1} :
        SetSta(lo, hi, flags) \/ SetDbtr(lo, hi, flags) \/ \E h \in ServiceHarts : SetMpxy(h, lo, hi, flags)

MemoryNext ==
    \/ NormalizeRam \/ NormalizeReserved \/ NextBank \/ Exclude
    \/ registry.ok /\ description.served /\ (AcquireMmio \/ Serve)
    \/ (regStep = "failed" \/ (registry.ok /\ ~description.served)) /\ UNCHANGED memoryVars

MemorySpec == MemoryInit /\ [][MemoryNext]_memoryVars

-----------------------------------------------------------------------------
(* Protection.                                                             *)

\* An entry that ends at top; its range begins where the previous one ends.
Tor(top, perm) == [top |-> top, perm |-> perm]
Everything == [top |-> -1, perm |-> "rwx"]  \* NAPOT, all ones

\* Mutant: everything is granted before the alias of the firmware is denied.
MAliasEntries(b) ==
    <<Tor(0, "off"), Tor(b.ramRange[1], "rwx"), Tor(b.firmware[1], "rwx"), Tor(b.rodata[1], "r"),
      Tor(b.rodata[2], "none"), Tor(b.firmware[2], "rw"), Tor(b.ramRange[2], "rwx"), Everything,
      Tor(b.firmware[1] + b.alias, "off"), Tor(b.firmware[2] + b.alias, "none")>>

\* set_pmp where RAM has a noncacheable alias: that of the firmware is denied
\* before the rest is granted.
AliasEntries(b) ==
    <<Tor(0, "off"), Tor(b.ramRange[1], "rwx"), Tor(b.firmware[1], "rwx"), Tor(b.rodata[1], "r"),
      Tor(b.rodata[2], "none"), Tor(b.firmware[2], "rw"), Tor(b.ramRange[2], "rwx"),
      Tor(b.firmware[1] + b.alias, "off"), Tor(b.firmware[2] + b.alias, "none"), Everything>>

\* set_pmp where there is no alias.  The image is text, read-only data, and data,
\* which S-mode may write because the device tree is in it.
PlainEntries(b) ==
    <<Tor(0, "off"), Tor(b.ramRange[1], "rwx"), Tor(b.firmware[1], "rwx"), Tor(b.rodata[1], "r"),
      Tor(b.rodata[2], "none"), Tor(b.firmware[2], "rw"), Tor(b.ramRange[2], "rwx"), Tor(MaxAddr, "rwx")>>

\* set_pmp where an IMSIC description keeps its machine-level controllers for the firmware.
ImsicEntries(b) ==
    LET c == b.controllers
    IN  <<Tor(0, "off"), Tor(c[1][1], "rwx"), Tor(c[1][2], "none"), Tor(c[2][1], "rwx"), Tor(c[2][2], "none"),
          Tor(c[3][1], "rwx"), Tor(c[3][2], "none"), Tor(b.ramRange[1], "rwx"), Tor(b.firmware[1], "rwx"),
          Tor(b.rodata[1], "r"), Tor(b.rodata[2], "none"), Tor(b.firmware[2], "rw"), Tor(b.ramRange[2], "rwx"),
          Tor(MaxAddr, "rwx")>>

PmpEntries(b) ==
    IF b.controllers # <<>> THEN ImsicEntries(b) ELSE IF b.alias = 0 THEN PlainEntries(b) ELSE AliasEntries(b)

\* The first entry that matches decides; none denies.
Permission(b, a) ==
    LET es == PmpEntries(b)
        hits == {i \in 2 .. Len(es) :
                    es[i] = Everything \/ (es[i].perm # "off" /\ es[i - 1].top <= a /\ a < es[i].top)}
    IN  IF hits = {} THEN "none" ELSE es[CHOOSE i \in hits : \A j \in hits : i <= j].perm

-----------------------------------------------------------------------------
(* Properties.                                                             *)

RamBytes == BytesOf(description.ram)
ReservedBytes == BytesOf(description.reserved)
Grantable == RamBytes \ (ReservedBytes \cup Bytes(description.firmware))

\* A check of a range grants exactly the ranges whose every byte is RAM that is
\* neither reserved nor firmware, however the description cuts RAM into banks
\* and lets reservations touch, nest or cover the firmware.
RangeCheckIsExact ==
    registry.ok =>
        /\ \A r \in Ranges : CheckRange(r) <=> Bytes(r) \subseteq Grantable
        /\ FirmwareIsReserved <=> Bytes(description.firmware) \subseteq ReservedBytes

\* Windows handed to drivers share no byte with each other, RAM or a
\* reservation.
WindowsAreApart ==
    /\ \A i, j \in DOMAIN windows : i # j => Bytes(windows[i]) \cap Bytes(windows[j]) = {}
    /\ \A i \in DOMAIN windows : Bytes(windows[i]) \cap (RamBytes \cup ReservedBytes) = {}

\* Services write only granted bytes, in whole areas: a refused call wrote
\* nothing.
WritesAreGranted ==
    /\ written \subseteq Grantable
    /\ \A a \in written : (a - (a % StaSize)) .. (a - (a % StaSize) + StaSize - 1) \subseteq written

\* The shared areas that the firmware keeps are granted from end to end.
AreasAreGranted ==
    /\ dbtr # 0 => dbtr .. dbtr + Triggers * TriggerSize - 1 \subseteq Grantable
    /\ \A h \in ServiceHarts : mpxy[h] # 0 => mpxy[h] .. mpxy[h] + PageSize - 1 \subseteq Grantable

\* Whether a hart has an MPXY area depends on its own calls only, except that
\* an area at address 0 is taken for none.
AreaIsOwn == \A h \in ServiceHarts : (ChannelIds(h) = "no_shmem") <=> (lastSet[h] = 0)

\* A console buffer is accepted exactly when it has no bytes, or all of them are
\* granted and its address fits a word.
BuffersAreGranted ==
    registry.ok =>
        \A lo \in Addrs, hi \in {0, 1}, n \in 0 .. MaxAddr :
            ValidateBuffer(lo, hi, n) <=>
                \/ n = 0
                \/ hi = 0 /\ \A a \in lo .. lo + n - 1 : a \in Grantable

\* The supervisor may itself access every byte that services access for it, and
\* of the firmware exactly this: it may read the text, not access the read-only
\* data, and read and write everything behind them, data, bss and stacks
\* included (the FIXME of set_pmp: the device tree is there).  It executes
\* nothing of the firmware, and reaches neither its alias nor the machine-level
\* interrupt controllers.  (set_pmp)
ProtectionAgrees ==
    registry.ok =>
        /\ \A a \in Grantable : Permission(description, a) = "rwx"
        /\ \A a \in description.firmware[1] .. description.rodata[1] - 1 : Permission(description, a) = "r"
        /\ \A a \in Bytes(description.rodata) : Permission(description, a) = "none"
        /\ \A a \in description.rodata[2] .. description.firmware[2] - 1 : Permission(description, a) = "rw"
        /\ \A a \in BytesOf(description.controllers) : Permission(description, a) = "none"
        /\ description.alias # 0 => \A a \in Bytes(description.firmware) : Permission(description, a + description.alias) = "none"

\* The registry grants exactly the free RAM, hands no register window out twice,
\* and the PMP entries allow the supervisor all that the registry grants it, and
\* of the firmware what ProtectionAgrees says: they do not isolate all of it, its
\* data can be written.  (MemoryRegistry, set_pmp)
RegistryIsExact == RangeCheckIsExact /\ WindowsAreApart /\ ProtectionAgrees

\* Memory that a supervisor names to a service is its own from end to end, when
\* it is named and when it is used, and a hart's MPXY area is its own.  The DBTR
\* area is not: it is one for all harts.  (check_range in the STA, DBTR, MPXY and
\* DBCN services)
NamedMemoryIsGranted == WritesAreGranted /\ AreasAreGranted /\ BuffersAreGranted /\ AreaIsOwn
=============================================================================
