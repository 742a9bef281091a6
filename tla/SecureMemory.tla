----------------------------- MODULE SecureMemory -----------------------------
(***************************************************************************)
(* Secure memory for enclaves (library smm: UniSecMemManager with RTAlloc  *)
(* and AppAlloc) over PMP slots (library pmpm: PMPSlotAllocator and the    *)
(* encoding of ranges in pmpaddr).                                         *)
(*                                                                         *)
(* The host gives regions to the manager and takes unused ones back; a     *)
(* region serves one kind of enclave at a time: a runtime enclave has a    *)
(* whole region, application enclaves share one.  Every method takes       *)
(* &mut self, so calls do not interleave.                                  *)
(*                                                                         *)
(* The manager is built with TestSecMemProtector, which gives out slots    *)
(* and programs nothing: granting, retrieving and disabling access answer  *)
(* true and have no effect, so they have no step here.                     *)
(***************************************************************************)
EXTENDS Integers, Sequences, FiniteSets, FiniteSetsExt

CONSTANTS
    SlotCount,    \* MAX_PMP_ENTRY_COUNT
    SmallestArea, \* least length of a NAPOT area: eight bytes are two units of the model
    MemoryEnd,    \* addresses are 1 .. MemoryEnd - 1
    MaxExtends,   \* bound on the regions ever made, for cur_idx
    AddressBits   \* width of usize in the check of the encoding

ASSUME SecureAssumption ==
    /\ SlotCount \in Nat /\ SlotCount >= 4
    /\ SmallestArea \in Nat /\ SmallestArea >= 2
    /\ MemoryEnd \in Nat /\ MaxExtends \in Nat /\ AddressBits \in Nat
    /\ 4 * MemoryEnd <= 2^AddressBits /\ 2 * SmallestArea <= 2^AddressBits

\* What 1 << n is: one, doubled n times.
ASSUME PowerAssumption == 2^0 = 1 /\ \A m \in 0 .. AddressBits : 2^(m + 1) = 2 * 2^m

VARIABLES
    pmpSlots,     \* pmp_slots: the slots in use
    reserved,     \* reserved_regions
    regions,      \* alloc_regions
    curIdx,       \* cur_idx
    live,         \* ghost: blocks that enclaves hold
    secrets       \* ghost: bytes that hold data of an enclave

secureVars == <<pmpSlots, reserved, regions, curIdx, live, secrets>>

Powers == {2^i : i \in 0 .. AddressBits}
NextPowerOfTwo(n) == CHOOSE p \in Powers : p >= n /\ \A q \in Powers : q >= n => p <= q
Area(r) == r.addr .. r.addr + r.len - 1
BytesIn(rs) == UNION {Area(r) : r \in rs}

-----------------------------------------------------------------------------
(* Slots.                                                                  *)

\* The slots of the monitor, of temporary grants and of the default grant, as
\* init passes them to the protector: the constants are masks with the bits 0, 1
\* and SlotCount - 1, and init passes them as slot numbers.
SmSlot == 2^0
TempSlot == 2^1
DefaultSlot == 2^(SlotCount - 1)

\* UNI_SECMEM_PMP_ALLOCMASK: the bits of the first two are out; the second is
\* named twice and the default slot not at all.
AllocMask == (0 .. SlotCount - 1) \ {0, 1}

\* Mutant: there is room for a region in every slot of the mask.
MCapacity == SlotCount - 2

\* The capacity of alloc_regions.
Capacity == SlotCount - 3

\* PMPSlotAllocator::alloc: the lowest free slot.
FreeSlots == AllocMask \ pmpSlots

\* check_pmp_area_available for NAPOT.
Protectable(addr, len) == len >= SmallestArea /\ len \in Powers /\ addr % len = 0

-----------------------------------------------------------------------------
(* Regions.                                                                *)

\* new.
SecureInit ==
    /\ pmpSlots = {} /\ reserved = <<>> /\ regions = <<>> /\ curIdx = 0
    /\ live = {} /\ secrets = {}

\* init of a new manager: the monitor's own memory becomes a reserved region.
\* One that the hardware cannot guard is refused: the manager stays as it is.
InitManager ==
    /\ curIdx = 0
    /\ \E addr \in 1 .. MemoryEnd - 1, len \in Powers :
        /\ addr + len <= MemoryEnd
        /\ Protectable(addr, len)
        /\ reserved' = Append(reserved, [addr |-> addr, len |-> len, id |-> curIdx, slot |-> SmSlot])
    /\ curIdx' = curIdx + 1
    /\ UNCHANGED <<pmpSlots, regions, live, secrets>>

Overlap(r, addr, len) == addr < r.addr + r.len /\ r.addr < addr + len
Contained(r, b) == b.addr >= r.addr /\ b.addr + b.len <= r.addr + r.len

\* extend, which looks at the regions of alloc_regions and not at the reserved
\* one; a call without effect is left out.
Extend ==
    /\ curIdx < MaxExtends
    /\ Len(regions) < Capacity
    /\ \E addr \in 1 .. MemoryEnd - 1, len \in Powers :
        /\ addr + len <= MemoryEnd
        /\ Protectable(addr, len)
        /\ \A i \in DOMAIN regions : ~Overlap(regions[i], addr, len)
        /\ FreeSlots # {}
        /\ LET slot == Min(FreeSlots)
           IN  /\ pmpSlots' = pmpSlots \cup {slot}
               /\ regions' = Append(regions, [addr |-> addr, len |-> len, id |-> curIdx + 1, slot |-> slot,
                                              used |-> FALSE, kind |-> "general", avail |-> 0])
    /\ curIdx' = curIdx + 1
    /\ UNCHANGED <<reserved, live, secrets>>

\* Vec::swap_remove.
SwapRemove(s, i) == [j \in 1 .. Len(s) - 1 |-> IF j = i THEN s[Len(s)] ELSE s[j]]

Unused(r) == ~r.used

\* reclaim: the first unused region goes back to the host, and its slot is free.
Reclaim ==
    /\ \E i \in DOMAIN regions :
        /\ Unused(regions[i])
        /\ \A j \in 1 .. i - 1 : ~Unused(regions[j])
        /\ regions' = SwapRemove(regions, i)
        /\ pmpSlots' = pmpSlots \ {regions[i].slot}
    /\ UNCHANGED <<reserved, curIdx, live, secrets>>

-----------------------------------------------------------------------------
(* Enclave memory.                                                         *)

\* A general region that is long enough takes the kind of the request.
Converted(r, len, kind) ==
    IF r.len >= len /\ r.kind = "general" THEN [r EXCEPT !.kind = kind, !.avail = r.len] ELSE r

\* The blocks that the allocator of a region may return: RTAlloc has the whole
\* region, the buddy heap of AppAlloc any aligned free block.
Blocks(r, len) ==
    IF r.kind = "runtime" THEN {[addr |-> r.addr, len |-> r.avail]}
    ELSE {b \in {[addr |-> a, len |-> len] : a \in {x \in Area(r) : x % len = 0}} :
            Area(b) \cap BytesIn(live) = {}}

\* Mutant: the capacity is not looked at.
MServes(r, len, kind) == r.len >= len /\ r.kind = kind

\* The region can serve the request.
Serves(r, len, kind) ==
    /\ r.len >= len /\ r.kind = kind
    /\ r.avail >= NextPowerOfTwo(len)
    /\ Blocks(r, NextPowerOfTwo(len)) # {}

\* A region after it gave a block.
Served(r, kind, b) == [r EXCEPT !.used = TRUE, !.avail = IF kind = "runtime" THEN 0 ELSE @ - b.len]

\* alloc_em: regions are converted on the way to the first one that serves.
AllocEm ==
    /\ \E len \in 1 .. SmallestArea * 2, kind \in {"runtime", "application"} :
        LET all == [i \in DOMAIN regions |-> Converted(regions[i], len, kind)]
            hits == {i \in DOMAIN regions : Serves(all[i], len, kind)}
        IN  \/ /\ hits = {}
               /\ regions' = all
               /\ UNCHANGED live
            \/ \E i \in hits, b \in UNION {Blocks(all[j], NextPowerOfTwo(len)) : j \in hits} :
                /\ \A j \in hits : i <= j
                /\ b \in Blocks(all[i], NextPowerOfTwo(len))
                /\ regions' = [j \in DOMAIN regions |->
                                    CASE j < i -> all[j]
                                      [] j = i -> Served(all[j], kind, b)
                                      [] OTHER -> regions[j]]
                /\ live' = live \cup {b}
    /\ UNCHANGED <<pmpSlots, reserved, curIdx, secrets>>

\* The enclave keeps data in its block.
Use ==
    /\ \E b \in live : secrets' = secrets \cup Area(b)
    /\ UNCHANGED <<pmpSlots, reserved, regions, curIdx, live>>

\* Mutant: only the smallest area is cleaned.
MCleaned(b) == b.addr .. b.addr + SmallestArea - 1

\* The bytes that free_em clears.
Cleaned(b) == Area(b)

\* Mutant: the region is general again as soon as something is free.
MFreed(r, b) ==
    LET avail == IF r.kind = "runtime" THEN NextPowerOfTwo(b.len) ELSE r.avail + NextPowerOfTwo(b.len)
    IN  [r EXCEPT !.used = FALSE, !.kind = "general", !.avail = avail]

\* A region after a block came back: a region all free is general again.
Freed(r, b) ==
    LET avail == IF r.kind = "runtime" THEN NextPowerOfTwo(b.len) ELSE r.avail + NextPowerOfTwo(b.len)
    IN  IF avail = r.len THEN [r EXCEPT !.used = FALSE, !.kind = "general", !.avail = 0]
        ELSE [r EXCEPT !.avail = avail]

\* free_em of what alloc_em returned.
FreeEm ==
    /\ \E b \in live, i \in DOMAIN regions :
        /\ Contained(regions[i], b)
        /\ \A j \in 1 .. i - 1 : ~Contained(regions[j], b)
        /\ secrets' = secrets \ Cleaned(b)
        /\ regions' = [regions EXCEPT ![i] = Freed(@, b)]
        /\ live' = live \ {b}
    /\ UNCHANGED <<pmpSlots, reserved, curIdx>>

\* Mutant: deinit cleans the smallest area of every region.
MScrubbed == UNION {r.addr .. r.addr + SmallestArea - 1 : r \in {regions[i] : i \in DOMAIN regions}}

\* The bytes that deinit clears: every region, whether in use or not.
Scrubbed == UNION {Area(regions[i]) : i \in DOMAIN regions}

\* deinit: the regions go back to the host with whatever enclaves still hold, and
\* the manager is gone; what follows is a new one.
Deinit ==
    /\ secrets' = secrets \ Scrubbed
    /\ live' = {}
    /\ pmpSlots' = {} /\ reserved' = <<>> /\ regions' = <<>> /\ curIdx' = 0

SecureNext == InitManager \/ Deinit \/ Extend \/ Reclaim \/ AllocEm \/ Use \/ FreeEm

SecureSpec == SecureInit /\ [][SecureNext]_secureVars

-----------------------------------------------------------------------------
(* The encoding of areas in pmpaddr, for a usize of AddressBits bits.      *)

\* Mutant: the mask keeps the bit that ends the run of ones.
MEncodeNapot(addr, k) == (addr \div 4) - ((addr \div 4) % 2^(k - 2)) + 2^(k - 2) - 1

\* encode_pmp_addr of 2^k bytes.
EncodeNapot(addr, k) ==
    IF k = AddressBits THEN 2^AddressBits - 1
    ELSE (addr \div 4) - ((addr \div 4) % 2^(k - 2)) + (2^(k - 2) - 1) \div 2

\* decode_pmp_addr: the trailing ones tell the length.
DecodeNapot(p) ==
    IF p = 2^AddressBits - 1 THEN <<0, AddressBits>>
    ELSE LET ones == CHOOSE n \in 0 .. AddressBits : p % 2^n = 2^n - 1 /\ p % 2^(n + 1) # 2^(n + 1) - 1
         IN  <<(p - (p % 2^ones)) * 4, ones + 3>>

-----------------------------------------------------------------------------
(* Properties.                                                             *)

\* Blocks of enclaves share no byte, and each lies in a region that still has
\* its slot and is in use for that long.
BlocksAreProtected ==
    /\ \A b, c \in live : b # c => Area(b) \cap Area(c) = {}
    /\ \A b \in live : \E i \in DOMAIN regions :
        Contained(regions[i], b) /\ regions[i].used /\ regions[i].slot \in pmpSlots

\* Regions have a slot each, of the slots 2 to N - 2 that the manager documents
\* for them: the mask of slots leaves the last slot in, and only the capacity of
\* the list of regions keeps it out.
SlotsAreOwn ==
    /\ \A i, j \in DOMAIN regions : i # j => regions[i].slot # regions[j].slot
    /\ pmpSlots = {regions[i].slot : i \in DOMAIN regions}
    /\ pmpSlots \subseteq 2 .. SlotCount - 2

\* Once the manager is initialised, the slots that init used for the monitor, for
\* temporary grants and for the default grant are not used for enclave memory.
ReservedSlotsAreKept ==
    reserved # <<>> =>
        \A i \in DOMAIN regions : regions[i].slot \notin {SmSlot, TempSlot, DefaultSlot}

\* Data of an enclave is only in memory that an enclave holds: what is reclaimed
\* or allocated anew is clean.
NoDataIsLeft == secrets \subseteq BytesIn(live)

\* A region is in use exactly while it has blocks, so that every region can be
\* reclaimed once its enclaves are gone.
UseIsTrue ==
    \A i \in DOMAIN regions :
        regions[i].used <=> \E b \in live : Contained(regions[i], b)

\* The pmpaddr of a region decodes to exactly the region, so the hardware guards
\* neither less nor more than the manager records.  (A unit of the model is the
\* four bytes of a pmpaddr step.)
RegionsAreEncodable ==
    \A i \in DOMAIN regions :
        LET k == CHOOSE n \in 0 .. AddressBits : 2^n = 4 * regions[i].len
        IN  DecodeNapot(EncodeNapot(4 * regions[i].addr, k)) = <<4 * regions[i].addr, k>>

-----------------------------------------------------------------------------
(* The inductive invariant of the proofs.                                  *)

Kinds == {"general", "runtime", "application"}
RegionSet ==
    [addr : Nat, len : Powers, id : Nat, slot : AllocMask, used : BOOLEAN, kind : Kinds, avail : Nat]
BlockSet == [addr : Nat, len : Powers]

SecureTypeOK ==
    /\ pmpSlots \subseteq AllocMask
    /\ reserved \in Seq([addr : Nat, len : Powers, id : Nat, slot : {SmSlot}])
    /\ regions \in Seq(RegionSet)
    /\ curIdx \in Nat
    /\ live \subseteq BlockSet

\* A region lies in memory as the hardware can guard it, and apart from others.
Placed(r) == r.addr >= 1 /\ r.addr + r.len <= MemoryEnd /\ Protectable(r.addr, r.len)
RegionsPlaced == \A i \in DOMAIN regions : Placed(regions[i])
RegionsApart == \A i, j \in DOMAIN regions : i # j => Area(regions[i]) \cap Area(regions[j]) = {}

SlotsKept == Len(regions) <= Capacity /\ SlotsAreOwn

BlocksApart == \A b, c \in live : b # c => Area(b) \cap Area(c) = {}
BlocksHoused == \A b \in live : \E i \in DOMAIN regions : Contained(regions[i], b)

\* What a region says of itself is what the blocks l take of it.
Taken(r, l) == Area(r) \cap BytesIn(l)
Accounted(r, l) ==
    /\ r.used <=> Taken(r, l) # {}
    /\ r.kind = "general" => ~r.used
    /\ r.kind # "general" => r.avail = r.len - Cardinality(Taken(r, l))
    /\ r.kind = "runtime" => /\ Taken(r, l) \in {{}, Area(r)}
                             /\ \A b \in l : Contained(r, b) => b.len = r.len
RegionsAccounted == \A i \in DOMAIN regions : Accounted(regions[i], live)

SecureInv ==
    /\ SecureTypeOK /\ RegionsPlaced /\ RegionsApart /\ SlotsKept
    /\ BlocksApart /\ BlocksHoused /\ RegionsAccounted /\ NoDataIsLeft

-----------------------------------------------------------------------------

\* Enclaves are kept apart over any sequence of calls: in regions of their own,
\* with slots of their own that encode them exactly, and without data of an
\* earlier enclave or of one that deinit ended.  (UniSecMemManager, pmpm)
EnclavesAreApart ==
    BlocksAreProtected /\ SlotsAreOwn /\ NoDataIsLeft /\ UseIsTrue /\ RegionsAreEncodable
===============================================================================
