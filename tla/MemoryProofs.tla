----------------------------- MODULE MemoryProofs -----------------------------
(***************************************************************************)
(* Proofs about memory, from the first instruction on.  BootElection, for  *)
(* any number of harts: at most one hart leads; and where stores reach     *)
(* memory in order, no hart runs on unprepared memory or uses a platform   *)
(* that is not published.  PhysicalMemory, for every description of the    *)
(* platform, every size of the address space and every number of harts:    *)
(* the registry that the loops of the registration build grants exactly    *)
(* the free RAM, what services do with memory stays in it, and the PMP     *)
(* entries agree with it.                                                  *)
(***************************************************************************)
EXTENDS PhysicalMemory, BootElection, FiniteSetTheorems, TLAPS
LOCAL INSTANCE SequencesExt

-----------------------------------------------------------------------------
(* Boot election.                                                          *)

Labels == {"held", "race", "relocate", "clear", "waitBss", "select", "publish",
           "dispatcher", "ready", "waitReady", "enter", "booted"}

BootTypeOK ==
    /\ info \in AllHarts \cup {"none", "any"}
    /\ pc \in [AllHarts -> Labels]
    /\ raceWord \in Nat /\ bssWord \in Nat
    /\ clearing \in 1..4
    /\ mem \in [Words -> {"stale", "zero", "ok", "set"}]
    /\ buffer \in [AllHarts -> SUBSET (Words \X {"zero", "ok"})]
    /\ bootHart \in AllHarts \cup {"none"}
    /\ led \in SUBSET AllHarts

\* Who leads is the hart that is named, or the one in BOOT_HART_ID.
LeaderInv ==
    IF info \in {"none", "any"}
    THEN led \subseteq {bootHart} /\ (bootHart = "none" => led = {})
    ELSE led \subseteq {info}

Preparing(h) == pc[h] \in {"relocate", "clear"}

\* One hart prepares memory, after which nothing is on its way there.
MemoryInv ==
    /\ raceWord = 0 =>
        /\ bssWord = 0 /\ clearing = 1
        /\ \A h \in AllHarts : pc[h] \in {"race", "held"}
    /\ \A h, k \in AllHarts : Preparing(h) /\ Preparing(k) => h = k
    /\ \A h \in AllHarts : Preparing(h) => bssWord = 0
    /\ \A h \in AllHarts : pc[h] = "relocate" => clearing = 1
    /\ \A h \in AllHarts : Started(h) => bssWord # 0
    /\ \A h \in AllHarts : buffer[h] # {} => Preparing(h)
    /\ \A h \in AllHarts : pc[h] = "clear" =>
        /\ mem["GOT"] # "stale" \/ <<"GOT", "ok">> \in buffer[h]
        /\ \A i \in 1..3 : i < clearing => mem[Bss[i]] # "stale" \/ <<Bss[i], "zero">> \in buffer[h]
    /\ bssWord # 0 => \A w \in Words : mem[w] # "stale"

\* READY is set after the platform and the dispatcher, and stays.
PublishedInv ==
    /\ bssWord = 0 => \A w \in Words : mem[w] # "set"
    /\ \A h \in AllHarts : pc[h] \in {"dispatcher", "ready"} => mem["PLATFORM"] = "set"
    /\ \A h \in AllHarts : pc[h] = "ready" => mem["DISPATCHER"] = "set"
    /\ mem["READY"] = "set" => mem["PLATFORM"] = "set" /\ mem["DISPATCHER"] = "set"
    /\ \A h \in AllHarts : pc[h] \in {"enter", "booted"} => mem["PLATFORM"] = "set" /\ mem["DISPATCHER"] = "set"
------------------------------------------------------------------------------
(* Types and the leader, whatever the order of stores. *)

LEMMA BssWords ==
    /\ Len(Bss) = 3
    /\ \A i \in 1..3 : Bss[i] \in Words
    /\ \A w \in Words : w = "GOT" \/ \E i \in 1..3 : w = Bss[i]
BY DEF Bss, Words

LEMMA TypeInit == BootInit => BootTypeOK
BY BootAssumption, SMT DEF BootInit, BootTypeOK, AllHarts, Labels, Words

LEMMA TypeStep == BootTypeOK /\ [BootNext]_bootVars => BootTypeOK'
<1> SUFFICES ASSUME BootTypeOK, [BootNext]_bootVars PROVE BootTypeOK'
    OBVIOUS
<1> USE DEF BootTypeOK, Jump, Labels
<1>1. ASSUME NEW h \in AllHarts, Drain(h) PROVE BootTypeOK'
    <2>1. PICK s \in buffer[h] : /\ mem' = [mem EXCEPT ![s[1]] = s[2]]
                                 /\ buffer' = [buffer EXCEPT ![h] = @ \ {s}]
        BY <1>1 DEF Drain
    <2>2. s \in Words \X {"zero", "ok"}
        BY <2>1
    <2>3. s[1] \in Words /\ s[2] \in {"zero", "ok"}
        BY <2>2
    <2>4. mem' \in [Words -> {"stale", "zero", "ok", "set"}]
        BY <2>1, <2>3
    <2>5. buffer' \in [AllHarts -> SUBSET (Words \X {"zero", "ok"})]
        BY <2>1
    <2> QED
        BY <1>1, <2>4, <2>5 DEF Drain
<1>2. ASSUME NEW h \in AllHarts, Relocate(h) PROVE BootTypeOK'
    <2>1. {s \in buffer[h] : s[1] # "GOT"} \cup {<<"GOT", "ok">>} \in SUBSET (Words \X {"zero", "ok"})
        BY DEF Words
    <2>2. buffer' \in [AllHarts -> SUBSET (Words \X {"zero", "ok"})]
        BY <1>2, <2>1 DEF Relocate, StoreWord
    <2> QED
        BY <1>2, <2>2 DEF Relocate
<1>3. ASSUME NEW h \in AllHarts, ClearBss(h) PROVE BootTypeOK'
    <2>1. clearing \in 1..3 /\ Bss[clearing] \in Words
        BY <1>3, BssWords DEF ClearBss, BssEnd
    <2>2. {s \in buffer[h] : s[1] # Bss[clearing]} \cup {<<Bss[clearing], "zero">>} \in SUBSET (Words \X {"zero", "ok"})
        BY <2>1
    <2>3. buffer' \in [AllHarts -> SUBSET (Words \X {"zero", "ok"})]
        BY <1>3, <2>2 DEF ClearBss, StoreWord
    <2> QED
        BY <1>3, <2>1, <2>3 DEF ClearBss
<1>4. ASSUME NEW h \in AllHarts, SelectBootHart(h) PROVE BootTypeOK'
    BY <1>4 DEF SelectBootHart, Claim
<1>5. ASSUME NEW h \in AllHarts,
             Race(h) \/ SignalBss(h) \/ WaitBss(h) \/ WaitUntilReady(h) \/ EnterPolicy(h) \/ ReleaseHeld(h)
      PROVE  BootTypeOK'
    BY <1>5 DEF Race, SignalBss, WaitBss, WaitUntilReady, EnterPolicy, ReleaseHeld
<1>6. ASSUME NEW h \in AllHarts, PublishPlatform(h) \/ PublishDispatcher(h) \/ MarkReady(h)
      PROVE  BootTypeOK'
    BY <1>6 DEF PublishPlatform, PublishDispatcher, MarkReady, Publish, Words
<1>7. CASE (\E h \in AllHarts : Spin(h)) \/ Booted \/ UNCHANGED bootVars
    BY <1>7 DEF Spin, Booted, bootVars
<1> QED
    BY <1>1, <1>2, <1>3, <1>4, <1>5, <1>6, <1>7 DEF BootNext, BootStep

\* The leader is the named hart or the one recorded in BOOT_HART_ID.
LEMMA LeaderStep == BootTypeOK /\ LeaderInv /\ [BootNext]_bootVars => LeaderInv'
<1> SUFFICES ASSUME BootTypeOK, LeaderInv, [BootNext]_bootVars PROVE LeaderInv'
    OBVIOUS
<1>1. ASSUME NEW h \in AllHarts, SelectBootHart(h) PROVE LeaderInv'
    BY <1>1, BootAssumption DEF SelectBootHart, Claim, LeaderInv, BootTypeOK, AllHarts
<1>2. CASE UNCHANGED <<info, bootHart, led>>
    BY <1>2 DEF LeaderInv
<1> QED
    BY <1>1, <1>2 DEF BootNext, BootStep, Drain, Race, Relocate, ClearBss, SignalBss, WaitBss,
        PublishPlatform, PublishDispatcher, MarkReady, WaitUntilReady, EnterPolicy, ReleaseHeld, Spin,
        Booted, bootVars

\* At most one hart leads the boot, for any set of harts and whatever order
\* stores reach memory in: a claim that finds BOOT_HART_ID set by another hart
\* loses, and a named boot hart does not claim.  (is_selected_boot_hart)
THEOREM OneLeader == BootSpec => []OneBootHart
<1>1. BootInit => BootTypeOK /\ LeaderInv
    BY TypeInit DEF BootInit, LeaderInv
<1>2. BootTypeOK /\ LeaderInv /\ [BootNext]_bootVars => (BootTypeOK /\ LeaderInv)'
    BY TypeStep, LeaderStep
<1>3. LeaderInv => OneBootHart
    <2> SUFFICES ASSUME LeaderInv PROVE Cardinality(led) <= 1
        BY DEF OneBootHart
    <2>1. PICK x : led \subseteq {x}
        BY DEF LeaderInv
    <2>2. led = {} \/ led = {x}
        BY <2>1
    <2>3. Cardinality({}) = 0 /\ Cardinality({x}) = 1
        BY FS_EmptySet, FS_Singleton
    <2>4. Cardinality(led) \in {0, 1}
        BY <2>2, <2>3
    <2> QED
        BY <2>4
<1> QED
    BY <1>1, <1>2, <1>3, PTL DEF BootSpec

------------------------------------------------------------------------------
(* Prepared memory and publication, where stores reach memory in order. *)

LEMMA OrderedInit == BootInit => MemoryInv /\ PublishedInv
BY DEF BootInit, MemoryInv, PublishedInv, Preparing, Started, AllHarts, Words, Bss

LEMMA MemoryStep ==
    ASSUME Ordered, BootTypeOK, MemoryInv, [BootNext]_bootVars
    PROVE  MemoryInv'
<1> USE DEF BootTypeOK, MemoryInv, Preparing, Started, Jump
<1>1. ASSUME NEW h \in AllHarts, Drain(h) PROVE MemoryInv'
    <2>1. PICK s \in buffer[h] : /\ mem' = [mem EXCEPT ![s[1]] = s[2]]
                                 /\ buffer' = [buffer EXCEPT ![h] = @ \ {s}]
        BY <1>1 DEF Drain
    <2>2. s \in Words \X {"zero", "ok"}
        BY <2>1
    <2>3. s[1] \in Words /\ s[2] \in {"zero", "ok"} /\ s = <<s[1], s[2]>>
        BY <2>2
    <2>4. \A w \in Words : mem'[w] = IF w = s[1] THEN s[2] ELSE mem[w]
        BY <2>1, <2>3
    <2>5. \A w \in Words : mem[w] # "stale" => mem'[w] # "stale"
        BY <2>3, <2>4
    <2>6. \A w \in Words, v \in {"zero", "ok"} : <<w, v>> \in buffer[h] => mem'[w] # "stale" \/ <<w, v>> \in buffer'[h]
        BY <2>1, <2>3, <2>4
    <2>7. ASSUME NEW k \in AllHarts, pc[k] = "clear"
          PROVE  /\ mem'["GOT"] # "stale" \/ <<"GOT", "ok">> \in buffer'[k]
                 /\ \A i \in 1..3 : i < clearing => mem'[Bss[i]] # "stale" \/ <<Bss[i], "zero">> \in buffer'[k]
        <3>1. k = h
            BY <2>1, <2>7
        <3>2. "GOT" \in Words /\ \A i \in 1..3 : Bss[i] \in Words
            BY BssWords DEF Words
        <3> QED
            BY <2>5, <2>6, <2>7, <3>1, <3>2
    <2>8. \A k \in AllHarts : buffer'[k] # {} => buffer[k] # {}
        BY <2>1
    <2> QED
        BY <1>1, <2>5, <2>7, <2>8 DEF Drain
<1>2. ASSUME NEW h \in AllHarts, Race(h) PROVE MemoryInv'
    BY <1>2 DEF Race
<1>3. ASSUME NEW h \in AllHarts, Relocate(h) PROVE MemoryInv'
    <2>1. <<"GOT", "ok">> \in buffer'[h] /\ \A k \in AllHarts \ {h} : buffer'[k] = buffer[k]
        BY <1>3 DEF Relocate, StoreWord
    <2>2. \A i \in 1..3 : ~(i < clearing)
        BY <1>3 DEF Relocate
    <2> QED
        BY <1>3, <2>1, <2>2 DEF Relocate
<1>4. ASSUME NEW h \in AllHarts, ClearBss(h) PROVE MemoryInv'
    <2>1. clearing \in 1..3 /\ Bss[clearing] \in {"PLATFORM", "DISPATCHER", "READY"} /\ clearing' = clearing + 1
        BY <1>4 DEF ClearBss, BssEnd, Bss
    <2>2. /\ buffer'[h] = {s \in buffer[h] : s[1] # Bss[clearing]} \cup {<<Bss[clearing], "zero">>}
          /\ \A k \in AllHarts \ {h} : buffer'[k] = buffer[k]
        BY <1>4 DEF ClearBss, StoreWord
    <2>3. \A w, v : <<w, v>> \in buffer[h] /\ w # Bss[clearing] => <<w, v>> \in buffer'[h]
        BY <2>2
    <2>4. <<"GOT", "ok">> \in buffer[h] => <<"GOT", "ok">> \in buffer'[h]
        BY <2>1, <2>3
    <2>5. ASSUME NEW i \in 1..3, i < clearing'
          PROVE  mem[Bss[i]] # "stale" \/ <<Bss[i], "zero">> \in buffer'[h]
        <3>1. CASE i = clearing
            BY <2>2, <3>1
        <3>2. CASE i < clearing
            <4>1. Bss[i] # Bss[clearing]
                BY <2>1, <3>2 DEF Bss
            <4> QED
                BY <1>4, <2>3, <3>2, <4>1 DEF ClearBss
        <3> QED
            BY <2>1, <2>5, <3>1, <3>2
    <2>6. \A k \in AllHarts : pc[k] = "clear" => k = h
        BY <1>4 DEF ClearBss
    <2> QED
        BY <1>4, <2>1, <2>2, <2>4, <2>5, <2>6 DEF ClearBss
<1>5. ASSUME NEW h \in AllHarts, SignalBss(h) PROVE MemoryInv'
    <2>1. buffer[h] = {} /\ clearing = 4 /\ pc[h] = "clear"
        BY <1>5, BssWords DEF SignalBss, Released, BssEnd
    <2>2. mem["GOT"] # "stale" /\ \A i \in 1..3 : mem[Bss[i]] # "stale"
        BY <2>1
    <2>3. \A w \in Words : mem[w] # "stale"
        BY <2>2, BssWords
    <2>4. \A k \in AllHarts : Preparing(k) => k = h
        BY <2>1
    <2> QED
        BY <1>5, <2>1, <2>3, <2>4 DEF SignalBss
<1>6. ASSUME NEW h \in AllHarts, WaitBss(h) \/ WaitUntilReady(h) \/ EnterPolicy(h) \/ SelectBootHart(h)
      PROVE  MemoryInv'
    BY <1>6 DEF WaitBss, WaitUntilReady, EnterPolicy, SelectBootHart
<1>7. ASSUME NEW h \in AllHarts, ReleaseHeld(h), led \subseteq AllHarts PROVE MemoryInv'
    BY <1>7 DEF ReleaseHeld
<1>8. ASSUME NEW h \in AllHarts, PublishPlatform(h) \/ PublishDispatcher(h) \/ MarkReady(h) PROVE MemoryInv'
    <2>1. PICK w \in Words : mem' = [mem EXCEPT ![w] = "set"]
        BY <1>8 DEF PublishPlatform, PublishDispatcher, MarkReady, Publish, Words
    <2>2. bssWord # 0 /\ Started(h)
        BY <1>8 DEF PublishPlatform, PublishDispatcher, MarkReady
    <2>3. \A v \in Words : mem[v] # "stale" => mem'[v] # "stale"
        BY <2>1
    <2>4. \A k \in AllHarts : pc'[k] # "clear" /\ pc'[k] # "relocate"
        BY <1>8, <2>2 DEF PublishPlatform, PublishDispatcher, MarkReady
    <2> QED
        BY <1>8, <2>2, <2>3, <2>4 DEF PublishPlatform, PublishDispatcher, MarkReady
<1>9. CASE (\E h \in AllHarts : Spin(h)) \/ Booted \/ UNCHANGED bootVars
    BY <1>9 DEF Spin, Booted, bootVars
<1> QED
    BY <1>1, <1>2, <1>3, <1>4, <1>5, <1>6, <1>7, <1>8, <1>9 DEF BootNext, BootStep

LEMMA PublishedStep ==
    ASSUME Ordered, BootTypeOK, MemoryInv, PublishedInv, [BootNext]_bootVars
    PROVE  PublishedInv'
<1> USE DEF BootTypeOK, PublishedInv, Jump, Words
<1>1. ASSUME NEW h \in AllHarts, Drain(h) PROVE PublishedInv'
    <2>1. PICK s \in buffer[h] : mem' = [mem EXCEPT ![s[1]] = s[2]]
        BY <1>1 DEF Drain
    <2>2. s[1] \in Words /\ s[2] \in {"zero", "ok"}
        BY <2>1
    <2>3. bssWord = 0 /\ \A k \in AllHarts : ~Started(k)
        BY <2>1 DEF MemoryInv
    <2>4. \A w \in Words : mem'[w] # "set"
        BY <2>1, <2>2, <2>3
    <2> QED
        BY <1>1, <2>3, <2>4 DEF Drain, Started
<1>2. ASSUME NEW h \in AllHarts, PublishPlatform(h) \/ PublishDispatcher(h) \/ MarkReady(h) PROVE PublishedInv'
    <2>1. bssWord # 0
        BY <1>2 DEF PublishPlatform, PublishDispatcher, MarkReady, MemoryInv, Started
    <2> QED
        BY <1>2, <2>1 DEF PublishPlatform, PublishDispatcher, MarkReady, Publish
<1>3. ASSUME NEW h \in AllHarts, WaitUntilReady(h) PROVE PublishedInv'
    <2>1. bssWord # 0 /\ buffer[h] = {} /\ mem["READY"] # "stale"
        BY <1>3 DEF WaitUntilReady, MemoryInv, Started, Preparing
    <2>2. mem["READY"] = "set"
        BY <1>3, <2>1 DEF WaitUntilReady, Sees
    <2> QED
        BY <1>3, <2>2 DEF WaitUntilReady
<1>4. ASSUME NEW h \in AllHarts,
             Race(h) \/ Relocate(h) \/ ClearBss(h) \/ SignalBss(h) \/ WaitBss(h) \/ SelectBootHart(h)
             \/ EnterPolicy(h) \/ ReleaseHeld(h)
      PROVE  PublishedInv'
    BY <1>4 DEF Race, Relocate, ClearBss, SignalBss, WaitBss, SelectBootHart, EnterPolicy, ReleaseHeld
<1>5. CASE (\E h \in AllHarts : Spin(h)) \/ Booted \/ UNCHANGED bootVars
    BY <1>5 DEF Spin, Booted, bootVars
<1> QED
    BY <1>1, <1>2, <1>3, <1>4, <1>5 DEF BootNext, BootStep

LEMMA OrderedInvariant == ASSUME Ordered PROVE BootSpec => [](BootTypeOK /\ MemoryInv /\ PublishedInv)
<1>1. BootInit => BootTypeOK /\ MemoryInv /\ PublishedInv
    BY TypeInit, OrderedInit
<1>2. BootTypeOK /\ MemoryInv /\ PublishedInv /\ [BootNext]_bootVars => (BootTypeOK /\ MemoryInv /\ PublishedInv)'
    BY TypeStep, MemoryStep, PublishedStep
<1> QED
    BY <1>1, <1>2, PTL DEF BootSpec

\* Where stores reach memory in order no hart runs compiled code before
\* relocation and the clearing of BSS are complete in memory, and nothing is
\* on its way there afterwards, for any number of harts.  (start.S)
THEOREM MemoryPrepared == ASSUME Ordered PROVE BootSpec => []MemoryIsPrepared
<1>1. BootTypeOK /\ MemoryInv => MemoryIsPrepared
    BY DEF BootTypeOK, MemoryInv, MemoryIsPrepared, Preparing, Started
<1> QED
    BY <1>1, OrderedInvariant, PTL

\* Where stores reach memory in order a hart that passed wait_until_ready
\* finds the platform and the dispatcher, for any number of harts.
THEOREM PublishedFirst == ASSUME Ordered PROVE BootSpec => []PublishedBeforeUse
<1>1. PublishedInv => PublishedBeforeUse
    BY DEF PublishedInv, PublishedBeforeUse
<1> QED
    BY <1>1, OrderedInvariant, PTL

-----------------------------------------------------------------------------
(* The memory registry and the memory that a supervisor names.             *)

Registries == [ok : BOOLEAN, ram : Seq(Ranges), reserved : Seq(Ranges), free : Seq(Ranges)]
RegSteps == {"ram", "reserved", "banks", "cuts", "done", "failed"}

MemoryTypeOK ==
    /\ description \in Descriptions
    /\ regStep \in RegSteps /\ registry \in Registries
    /\ bank \in Nat \ {0} /\ cursor \in Nat
    /\ windows \in Seq(Ranges)

\* Ranges in order, with a byte between each and the next.
Separated(ranges) == \A k, l \in 1 .. Len(ranges) : k < l => ranges[k][2] < ranges[l][1]

\* What a normalisation loop has made of the ranges it has come to.
Normalized(todo, done, ranges) ==
    /\ todo \subseteq DOMAIN ranges
    /\ Separated(done)
    /\ BytesOf(done) = UNION {Bytes(ranges[i]) : i \in DOMAIN ranges \ todo}
    /\ \A i \in todo, k \in 1 .. Len(done) : done[k][1] <= ranges[i][1]

Whole(done, ranges) == Separated(done) /\ BytesOf(done) = BytesOf(ranges)

Withheld == ReservedBytes \cup Bytes(description.firmware)
BanksBefore(n) == UNION {Bytes(registry.ram[k]) : k \in 1 .. n - 1}

\* The normalisation.
NormalInv ==
    /\ regStep \in {"ram", "reserved"} => bank = 1 /\ registry.free = <<>>
    /\ regStep = "ram" => registry.reserved = <<>> /\ Normalized(ahead, registry.ram, description.ram)
    /\ regStep = "reserved" => Normalized(ahead, registry.reserved, description.reserved)
    /\ regStep \in {"reserved", "banks", "cuts", "done"} => Whole(registry.ram, description.ram)
    /\ regStep \in {"banks", "cuts", "done"} => Whole(registry.reserved, description.reserved)

\* The free parts found so far, none of which could go on.
FreeInv ==
    /\ regStep \in {"banks", "cuts"} => bank <= Len(registry.ram) + 1
    /\ regStep = "banks" => BytesOf(registry.free) = BanksBefore(bank) \ Withheld
    /\ regStep = "cuts" =>
        /\ bank <= Len(registry.ram)
        /\ cursor \in registry.ram[bank][1] .. registry.ram[bank][2]
        /\ ahead \subseteq {k \in DOMAIN Clipped : Clipped[k][1] < Clipped[k][2]}
        /\ \A k \in DOMAIN Clipped : k \notin ahead /\ Clipped[k][1] < Clipped[k][2] => Clipped[k][2] <= cursor
        /\ BytesOf(registry.free) = (BanksBefore(bank) \cup (registry.ram[bank][1] .. cursor - 1)) \ Withheld
    /\ regStep = "done" => BytesOf(registry.free) = Grantable
    /\ registry.ok <=> regStep = "done"
    /\ \A k \in 1 .. Len(registry.free) : registry.free[k][2] \notin Grantable

RegistryInv == MemoryTypeOK /\ NormalInv /\ FreeInv

-----------------------------------------------------------------------------
(* Ranges and their bytes. *)

\* The bounds of a range, and the bytes in it.
LEMMA RangeFacts ==
    ASSUME NEW r \in Ranges
    PROVE  /\ r[1] \in Nat /\ r[2] \in Nat /\ r[1] < r[2] /\ r[2] <= MaxAddr
           /\ \A x : x \in Bytes(r) <=> x \in Nat /\ r[1] <= x /\ x < r[2]
<1>1. MaxAddr \in Nat
  BY MemoryAssumption
<1>2. r \in (0 .. MaxAddr) \X (0 .. MaxAddr) /\ r[1] < r[2]
  BY DEF Ranges, Addrs
<1>3. r[1] \in 0 .. MaxAddr /\ r[2] \in 0 .. MaxAddr
  BY <1>2
<1>4. r[1] \in Nat /\ r[2] \in Nat /\ r[1] < r[2] /\ r[2] <= MaxAddr
  BY <1>1, <1>2, <1>3
<1>5. \A x : x \in r[1] .. r[2] - 1 <=> x \in Nat /\ r[1] <= x /\ x < r[2]
  BY <1>4
<1> QED BY <1>4, <1>5 DEF Bytes

\* Two bounds in order are a range.
LEMMA MakeRange ==
    ASSUME NEW a \in Nat, NEW b \in Nat, a < b, b <= MaxAddr
    PROVE  <<a, b>> \in Ranges
<1>1. MaxAddr \in Nat
  BY MemoryAssumption
<1>2. a \in 0 .. MaxAddr /\ b \in 0 .. MaxAddr
  BY <1>1
<1>3. <<a, b>> \in (0 .. MaxAddr) \X (0 .. MaxAddr) /\ <<a, b>>[1] = a /\ <<a, b>>[2] = b
  BY <1>2
<1> QED BY <1>3 DEF Ranges, Addrs

\* The bytes of a sequence of ranges.
LEMMA BytesOfSeq ==
    ASSUME NEW s \in Seq(Ranges)
    PROVE  /\ \A x : x \in BytesOf(s) <=> \E k \in 1 .. Len(s) : x \in Bytes(s[k])
           /\ \A k \in 1 .. Len(s) : s[k] \in Ranges
           /\ DOMAIN s = 1 .. Len(s) /\ Len(s) \in Nat
<1>1. DOMAIN s = 1 .. Len(s) /\ Len(s) \in Nat /\ \A k \in 1 .. Len(s) : s[k] \in Ranges
  OBVIOUS
<1>2. BytesOf(s) = UNION {Bytes(s[k]) : k \in 1 .. Len(s)}
  BY <1>1 DEF BytesOf
<1> QED BY <1>1, <1>2

\* One range more.
LEMMA AppendRange ==
    ASSUME NEW s \in Seq(Ranges), NEW r \in Ranges
    PROVE  /\ Append(s, r) \in Seq(Ranges)
           /\ BytesOf(Append(s, r)) = BytesOf(s) \cup Bytes(r)
           /\ Len(Append(s, r)) = Len(s) + 1
           /\ \A k \in 1 .. Len(s) : Append(s, r)[k] = s[k]
           /\ Append(s, r)[Len(s) + 1] = r
<1> DEFINE t == Append(s, r)
<1>1. t \in Seq(Ranges) /\ Len(t) = Len(s) + 1 /\ (\A k \in 1 .. Len(s) : t[k] = s[k]) /\ t[Len(s) + 1] = r
      /\ Len(s) \in Nat
  OBVIOUS
<1> HIDE DEF t
<1>2. ASSUME NEW x PROVE x \in BytesOf(t) <=> x \in BytesOf(s) \/ x \in Bytes(r)
  <2>1. x \in BytesOf(t) <=> \E k \in 1 .. Len(s) + 1 : x \in Bytes(t[k])
    BY <1>1, BytesOfSeq
  <2>2. \A k : k \in 1 .. Len(s) + 1 <=> k \in 1 .. Len(s) \/ k = Len(s) + 1
    BY <1>1
  <2>3. x \in BytesOf(s) <=> \E k \in 1 .. Len(s) : x \in Bytes(s[k])
    BY BytesOfSeq
  <2> QED BY <1>1, <2>1, <2>2, <2>3
<1>3. BytesOf(t) = BytesOf(s) \cup Bytes(r)
  BY <1>2
<1> QED BY <1>1, <1>3 DEF t

\* The last range joined with one that begins in it or at its end.
LEMMA JoinRange ==
    ASSUME NEW s \in Seq(Ranges), s # <<>>, NEW r \in Ranges, s[Len(s)][1] <= r[1], r[1] <= s[Len(s)][2]
    PROVE  /\ JoinLast(s, r) \in Seq(Ranges)
           /\ BytesOf(JoinLast(s, r)) = BytesOf(s) \cup Bytes(r)
           /\ Len(JoinLast(s, r)) = Len(s)
           /\ \A k \in 1 .. Len(s) - 1 : JoinLast(s, r)[k] = s[k]
           /\ JoinLast(s, r)[Len(s)][1] = s[Len(s)][1]
<1> DEFINE n == Len(s)
           p == s[n]
           q == JoinRanges(p, r)
           t == JoinLast(s, r)
<1>1. n \in Nat /\ n >= 1 /\ n \in 1 .. n /\ p \in Ranges
  OBVIOUS
<1>2. /\ p[1] \in Nat /\ p[2] \in Nat /\ p[1] < p[2] /\ p[2] <= MaxAddr
      /\ r[1] \in Nat /\ r[2] \in Nat /\ r[1] < r[2] /\ r[2] <= MaxAddr
  BY <1>1, RangeFacts
<1>3. p[1] <= r[1] /\ r[1] <= p[2]
  OBVIOUS
<1> HIDE DEF n, p
<1>4. q = <<p[1], IF p[2] > r[2] THEN p[2] ELSE r[2]>>
  BY <1>2, <1>3 DEF JoinRanges, MinOf, MaxOf
<1>5. q \in Ranges /\ q[1] = p[1] /\ q[2] = (IF p[2] > r[2] THEN p[2] ELSE r[2])
  <2> DEFINE e == IF p[2] > r[2] THEN p[2] ELSE r[2]
  <2>1. e \in Nat /\ p[1] < e /\ e <= MaxAddr
    BY <1>2, <1>3
  <2> HIDE DEF e
  <2>2. <<p[1], e>> \in Ranges
    BY <1>2, <2>1, MakeRange
  <2> QED BY <1>4, <2>2 DEF e
<1>6. \A x : x \in Bytes(q) <=> x \in Bytes(p) \/ x \in Bytes(r)
  <2>1. \A x : x \in Bytes(q) <=> x \in Nat /\ q[1] <= x /\ x < q[2]
    BY <1>5, RangeFacts
  <2>2. \A x : x \in Bytes(p) <=> x \in Nat /\ p[1] <= x /\ x < p[2]
    BY <1>1, RangeFacts
  <2>3. \A x : x \in Bytes(r) <=> x \in Nat /\ r[1] <= x /\ x < r[2]
    BY RangeFacts
  <2> QED BY <1>2, <1>3, <1>5, <2>1, <2>2, <2>3
<1>7. t = [s EXCEPT ![n] = q]
  BY DEF JoinLast, n, p
<1> HIDE DEF q, t
<1>8. t \in Seq(Ranges) /\ Len(t) = n /\ t[n] = q /\ \A k \in 1 .. n : k # n => t[k] = s[k]
  BY <1>1, <1>5, <1>7 DEF n
<1>9. ASSUME NEW x PROVE x \in BytesOf(t) <=> x \in BytesOf(s) \/ x \in Bytes(r)
  <2>1. x \in BytesOf(t) <=> \E k \in 1 .. n : x \in Bytes(t[k])
    BY <1>8, BytesOfSeq
  <2>2. x \in BytesOf(s) <=> \E k \in 1 .. n : x \in Bytes(s[k])
    BY BytesOfSeq DEF n
  <2>3. s[n] = p
    BY DEF p
  <2> QED BY <1>1, <1>6, <1>8, <2>1, <2>2, <2>3
<1>10. BytesOf(t) = BytesOf(s) \cup Bytes(r)
  BY <1>9
<1>11. \A k \in 1 .. n - 1 : t[k] = s[k]
  BY <1>1, <1>8
<1> QED BY <1>5, <1>8, <1>10, <1>11 DEF n, p, q, t

\* The end of a range of separated ones is in none of them.
LEMMA EndIsOutside ==
    ASSUME NEW s \in Seq(Ranges), Separated(s), NEW k \in 1 .. Len(s)
    PROVE  s[k][2] \notin BytesOf(s)
<1> SUFFICES ASSUME NEW l \in 1 .. Len(s), s[k][2] \in Bytes(s[l]) PROVE FALSE
  BY BytesOfSeq
<1>1. /\ s[k][1] \in Nat /\ s[k][2] \in Nat /\ s[k][1] < s[k][2]
      /\ s[l][1] \in Nat /\ s[l][2] \in Nat /\ s[l][1] < s[l][2]
      /\ s[l][1] <= s[k][2] /\ s[k][2] < s[l][2]
  <2>1. s[k] \in Ranges /\ s[l] \in Ranges
    BY BytesOfSeq
  <2> QED BY <2>1, RangeFacts
<1>2. CASE k < l
  <2>1. s[k][2] < s[l][1]
    BY <1>2 DEF Separated
  <2> QED BY <1>1, <2>1
<1>3. CASE l < k
  <2>1. s[l][2] < s[k][1]
    BY <1>3 DEF Separated
  <2> QED BY <1>1, <2>1
<1>4. CASE k = l
  BY <1>1, <1>4
<1> QED BY <1>2, <1>3, <1>4

\* Where no range could go on, a range lies in the bytes of all exactly when it
\* lies in one.  (check_range, firmware_is_reserved)
LEMMA RangeInOne ==
    ASSUME NEW s \in Seq(Ranges), \A k \in 1 .. Len(s) : s[k][2] \notin BytesOf(s), NEW r \in Ranges
    PROVE  (\E f \in ToSet(s) : ContainsRange(f, r)) <=> Bytes(r) \subseteq BytesOf(s)
<1>0. /\ r[1] \in Nat /\ r[2] \in Nat /\ r[1] < r[2]
      /\ \A x : x \in Bytes(r) <=> x \in Nat /\ r[1] <= x /\ x < r[2]
  BY RangeFacts
<1>1. ToSet(s) = {s[k] : k \in 1 .. Len(s)}
  BY BytesOfSeq DEF ToSet
<1>2. ASSUME NEW k \in 1 .. Len(s)
      PROVE  /\ s[k][1] \in Nat /\ s[k][2] \in Nat
             /\ \A x : x \in Bytes(s[k]) <=> x \in Nat /\ s[k][1] <= x /\ x < s[k][2]
  <2>1. s[k] \in Ranges
    BY BytesOfSeq
  <2> QED BY <2>1, RangeFacts
<1>3. ASSUME NEW k \in 1 .. Len(s), ContainsRange(s[k], r)
      PROVE  Bytes(r) \subseteq BytesOf(s)
  <2>1. s[k][1] <= r[1] /\ r[2] <= s[k][2]
    BY <1>3 DEF ContainsRange
  <2>2. Bytes(r) \subseteq Bytes(s[k])
    BY <1>0, <1>2, <2>1
  <2> QED BY <2>2, BytesOfSeq
<1>4. ASSUME Bytes(r) \subseteq BytesOf(s)
      PROVE  \E k \in 1 .. Len(s) : ContainsRange(s[k], r)
  <2>1. r[1] \in Bytes(r)
    BY <1>0
  <2>2. PICK k \in 1 .. Len(s) : r[1] \in Bytes(s[k])
    BY <1>4, <2>1, BytesOfSeq
  <2>3. s[k][1] <= r[1] /\ r[1] < s[k][2] /\ s[k][1] \in Nat /\ s[k][2] \in Nat
    BY <1>2, <2>2
  <2>4. s[k][2] \notin Bytes(r)
    BY <1>4
  <2>5. r[2] <= s[k][2]
    BY <1>0, <2>3, <2>4
  <2> QED BY <2>3, <2>5 DEF ContainsRange
<1> QED BY <1>1, <1>3, <1>4

-----------------------------------------------------------------------------
(* Normalisation. *)

\* One range of a normalisation loop: it is appended where a byte lies between it
\* and the last one, and joined with that where it begins in it or at its end.
LEMMA NormalizeOne ==
    ASSUME NEW ranges \in Seq(Ranges), NEW done \in Seq(Ranges), NEW todo, NEW next,
           Normalized(todo, done, ranges),
           NEW i \in todo, \A j \in todo : ranges[i][1] <= ranges[j][1],
           \/ next = Append(done, ranges[i]) /\ (done # <<>> => done[Len(done)][2] < ranges[i][1])
           \/ next = JoinLast(done, ranges[i]) /\ done # <<>> /\ ranges[i][1] <= done[Len(done)][2]
    PROVE  next \in Seq(Ranges) /\ Normalized(todo \ {i}, next, ranges)
<1> DEFINE r == ranges[i]
           n == Len(done)
<1>1. /\ todo \subseteq 1 .. Len(ranges) /\ i \in 1 .. Len(ranges) /\ r \in Ranges /\ n \in Nat
      /\ \A k \in 1 .. Len(ranges) : ranges[k] \in Ranges /\ ranges[k][1] \in Nat
      /\ \A k \in 1 .. n : done[k] \in Ranges /\ done[k][1] \in Nat /\ done[k][2] \in Nat /\ done[k][1] < done[k][2]
      /\ DOMAIN ranges = 1 .. Len(ranges)
      /\ r[1] \in Nat
  <2>1. todo \subseteq DOMAIN ranges
    BY DEF Normalized
  <2> QED BY <2>1, BytesOfSeq, RangeFacts
<1>2. done # <<>> => n >= 1 /\ n \in 1 .. n
  BY <1>1
<1>3. \A j \in todo, k \in 1 .. n : done[k][1] <= ranges[j][1]
  BY DEF Normalized
<1>4. \A k, l \in 1 .. n : k < l => done[k][2] < done[l][1]
  BY DEF Normalized, Separated
<1>5. /\ next \in Seq(Ranges) /\ BytesOf(next) = BytesOf(done) \cup Bytes(r)
      /\ Separated(next)
      /\ \A j \in todo, k \in 1 .. Len(next) : next[k][1] <= ranges[j][1]
  <2>1. CASE next = Append(done, r) /\ (done # <<>> => done[n][2] < r[1])
    <3>1. /\ next \in Seq(Ranges) /\ BytesOf(next) = BytesOf(done) \cup Bytes(r)
          /\ Len(next) = n + 1 /\ next[n + 1] = r /\ \A k \in 1 .. n : next[k] = done[k]
      BY <1>1, <2>1, AppendRange
    <3>2. \A k \in 1 .. n : done[k][2] < r[1]
      <4> SUFFICES ASSUME NEW k \in 1 .. n PROVE done[k][2] < r[1]
        OBVIOUS
      <4>1. done # <<>> /\ done[n][2] < r[1] /\ n \in 1 .. n
        BY <1>1, <2>1
      <4>2. CASE k < n
        BY <1>1, <1>4, <4>1, <4>2
      <4>3. CASE k = n
        BY <4>1, <4>3
      <4> QED BY <1>1, <4>2, <4>3
    <3>3. \A k : k \in 1 .. n + 1 <=> k \in 1 .. n \/ k = n + 1
      BY <1>1
    <3>4. ASSUME NEW k \in 1 .. n + 1, NEW l \in 1 .. n + 1, k < l PROVE next[k][2] < next[l][1]
      <4>1. k \in 1 .. n /\ next[k] = done[k]
        BY <1>1, <3>1, <3>4
      <4>2. CASE l \in 1 .. n
        BY <1>4, <3>1, <3>4, <4>1, <4>2
      <4>3. CASE l = n + 1
        BY <3>1, <3>2, <4>1, <4>3
      <4> QED BY <3>3, <4>2, <4>3
    <3>5. \A j \in todo, k \in 1 .. Len(next) : next[k][1] <= ranges[j][1]
      BY <1>3, <3>1, <3>3
    <3> QED BY <3>1, <3>4, <3>5 DEF Separated
  <2>2. CASE next = JoinLast(done, r) /\ done # <<>> /\ r[1] <= done[n][2]
    <3>1. done[n][1] <= r[1]
      BY <1>2, <1>3, <2>2
    <3>2. /\ next \in Seq(Ranges) /\ BytesOf(next) = BytesOf(done) \cup Bytes(r)
          /\ Len(next) = n /\ next[n][1] = done[n][1] /\ \A k \in 1 .. n - 1 : next[k] = done[k]
      BY <1>1, <2>2, <3>1, JoinRange
    <3>3. \A k \in 1 .. n : next[k][1] = done[k][1] /\ (k < n => k \in 1 .. n - 1)
      BY <1>1, <3>2
    <3>4. ASSUME NEW k \in 1 .. n, NEW l \in 1 .. n, k < l PROVE next[k][2] < next[l][1]
      <4>1. k < n
        BY <1>1, <3>4
      <4>2. next[k] = done[k] /\ next[l][1] = done[l][1]
        BY <3>2, <3>3, <4>1
      <4> QED BY <1>4, <3>4, <4>2
    <3> QED BY <1>3, <3>2, <3>3, <3>4 DEF Separated
  <2> QED BY <2>1, <2>2
<1>6. BytesOf(next) = UNION {Bytes(ranges[k]) : k \in DOMAIN ranges \ (todo \ {i})}
  <2>1. BytesOf(done) = UNION {Bytes(ranges[k]) : k \in DOMAIN ranges \ todo}
    BY DEF Normalized
  <2>2. DOMAIN ranges \ (todo \ {i}) = (DOMAIN ranges \ todo) \cup {i}
    BY <1>1
  <2> QED BY <1>5, <2>1, <2>2
<1> QED BY <1>1, <1>5, <1>6 DEF Normalized

\* A loop begins with nothing made, and ends with the bytes of all its ranges.
LEMMA NormalizeEnds ==
    ASSUME NEW ranges \in Seq(Ranges)
    PROVE  /\ Normalized(DOMAIN ranges, <<>>, ranges)
           /\ \A done : Normalized({}, done, ranges) => Whole(done, ranges)
<1>1. <<>> \in Seq(Ranges) /\ Len(<<>>) = 0 /\ DOMAIN ranges \ DOMAIN ranges = {} /\ DOMAIN ranges \ {} = DOMAIN ranges
  OBVIOUS
<1>2. 1 .. 0 = {}
  OBVIOUS
<1>3. BytesOf(<<>>) = {}
  BY <1>1, <1>2, BytesOfSeq
<1>4. Separated(<<>>)
  BY <1>1, <1>2 DEF Separated
<1> QED BY <1>1, <1>2, <1>3, <1>4 DEF Normalized, Whole, BytesOf

-----------------------------------------------------------------------------
(* The registry is built. *)

\* The fields of a registry.
LEMMA RegistryFields ==
    ASSUME NEW g \in Registries
    PROVE  g.ram \in Seq(Ranges) /\ g.reserved \in Seq(Ranges) /\ g.free \in Seq(Ranges) /\ g.ok \in BOOLEAN
  BY DEF Registries

\* A registry with other ranges as its `ram'.
LEMMA WithRam ==
    ASSUME NEW g \in Registries, NEW h, NEW s \in Seq(Ranges), h = [g EXCEPT !.ram = s]
    PROVE  h \in Registries /\ h.ram = s /\ h.reserved = g.reserved /\ h.free = g.free /\ h.ok = g.ok
  BY DEF Registries

\* A registry with other ranges as its `reserved'.
LEMMA WithReserved ==
    ASSUME NEW g \in Registries, NEW h, NEW s \in Seq(Ranges), h = [g EXCEPT !.reserved = s]
    PROVE  h \in Registries /\ h.reserved = s /\ h.ram = g.ram /\ h.free = g.free /\ h.ok = g.ok
  BY DEF Registries

\* A registry with other ranges as its `free'.
LEMMA WithFree ==
    ASSUME NEW g \in Registries, NEW h, NEW s \in Seq(Ranges), h = [g EXCEPT !.free = s]
    PROVE  h \in Registries /\ h.free = s /\ h.ram = g.ram /\ h.reserved = g.reserved /\ h.ok = g.ok
  BY DEF Registries

\* A registry that is complete.
LEMMA WithOk ==
    ASSUME NEW g \in Registries, NEW h, h = [g EXCEPT !.ok = TRUE]
    PROVE  h \in Registries /\ h.ok /\ h.ram = g.ram /\ h.reserved = g.reserved /\ h.free = g.free
<1>1. \A b \in BOOLEAN :
        /\ [g EXCEPT !.ok = b] \in Registries
        /\ [g EXCEPT !.ok = b].ram = g.ram /\ [g EXCEPT !.ok = b].reserved = g.reserved
        /\ [g EXCEPT !.ok = b].free = g.free /\ [g EXCEPT !.ok = b].ok = b
  BY DEF Registries
<1> QED BY <1>1

\* The registry with nothing in it.
LEMMA EmptyRegistry ==
    /\ NoRegistry \in Registries /\ ~NoRegistry.ok
    /\ NoRegistry.ram = <<>> /\ NoRegistry.reserved = <<>> /\ NoRegistry.free = <<>>
<1>1. <<>> \in Seq(Ranges)
  OBVIOUS
<1>2. \A b \in BOOLEAN, s \in Seq(Ranges) :
        /\ [ok |-> b, ram |-> s, reserved |-> s, free |-> s] \in Registries
        /\ [ok |-> b, ram |-> s, reserved |-> s, free |-> s].ok = b
        /\ [ok |-> b, ram |-> s, reserved |-> s, free |-> s].ram = s
        /\ [ok |-> b, ram |-> s, reserved |-> s, free |-> s].reserved = s
        /\ [ok |-> b, ram |-> s, reserved |-> s, free |-> s].free = s
  BY DEF Registries
<1> QED BY <1>1, <1>2 DEF NoRegistry

\* What a description holds.
LEMMA Described ==
    ASSUME description \in Descriptions
    PROVE  description.ram \in Seq(Ranges) /\ description.reserved \in Seq(Ranges) /\ description.firmware \in Ranges
  BY MemoryAssumption

\* A registration that fails leaves nothing behind.
LEMMA FailKeeps ==
    ASSUME RegistryInv, RegistrationFails, description' = description, bank' = bank, windows' = windows, cursor' = cursor
    PROVE  RegistryInv'
<1>1. regStep' = "failed" /\ registry' = NoRegistry
  BY DEF RegistrationFails
<1>2. MemoryTypeOK'
  BY <1>1, EmptyRegistry DEF RegistryInv, MemoryTypeOK, RegSteps
<1>3. NormalInv'
  BY <1>1 DEF NormalInv
<1>4. FreeInv'
  <2>1. 1 .. Len(<<>>) = {}
    OBVIOUS
  <2>2. ~registry'.ok /\ registry'.free = <<>>
    BY <1>1, EmptyRegistry
  <2> QED BY <1>1, <2>1, <2>2 DEF FreeInv
<1> QED BY <1>2, <1>3, <1>4 DEF RegistryInv

\* While the ranges are normalised, nothing is free yet.
LEMMA NothingFree ==
    ASSUME registry.free = <<>>, ~registry.ok, regStep \in {"ram", "reserved"}
    PROVE  FreeInv
<1>1. 1 .. Len(<<>>) = {}
  OBVIOUS
<1> QED BY <1>1 DEF FreeInv

\* The registration begins with all of RAM ahead.
LEMMA RegistryInit == MemoryInit => RegistryInv
<1> SUFFICES ASSUME MemoryInit PROVE RegistryInv
  OBVIOUS
<1>1. /\ description \in Descriptions /\ regStep = "ram" /\ ahead = DOMAIN description.ram /\ bank = 1 /\ cursor = 0
      /\ registry = NoRegistry /\ windows = <<>>
  BY DEF MemoryInit
<1>2. MemoryTypeOK
  <2>1. <<>> \in Seq(Ranges)
    OBVIOUS
  <2> QED BY <1>1, <2>1, EmptyRegistry DEF MemoryTypeOK, RegSteps
<1>3. NormalInv
  <2>1. Normalized(DOMAIN description.ram, <<>>, description.ram)
    BY <1>1, Described, NormalizeEnds
  <2> QED BY <1>1, <2>1, EmptyRegistry DEF NormalInv
<1>4. FreeInv
  BY <1>1, EmptyRegistry, NothingFree
<1> QED BY <1>2, <1>3, <1>4 DEF RegistryInv

\* normalize_ram_ranges.
LEMMA RamStep ==
    ASSUME RegistryInv, NormalizeRam
    PROVE  RegistryInv'
<1>1. /\ regStep = "ram" /\ description' = description /\ bank' = bank /\ cursor' = cursor /\ windows' = windows
  BY DEF NormalizeRam, servedVars
<1>2. /\ MemoryTypeOK /\ bank = 1 /\ registry.free = <<>> /\ registry.reserved = <<>> /\ ~registry.ok
      /\ Normalized(ahead, registry.ram, description.ram)
  BY <1>1 DEF RegistryInv, NormalInv, FreeInv
<1>3. /\ registry \in Registries /\ description \in Descriptions /\ bank \in Nat \ {0} /\ cursor \in Nat /\ windows \in Seq(Ranges)
  BY <1>2 DEF MemoryTypeOK
<1>4. /\ description.ram \in Seq(Ranges) /\ description.reserved \in Seq(Ranges)
      /\ registry.ram \in Seq(Ranges) /\ registry.reserved \in Seq(Ranges) /\ registry.ok \in BOOLEAN
  BY <1>3, Described, RegistryFields
<1>5. CASE ahead = {} /\ regStep' = "reserved" /\ ahead' = DOMAIN description.reserved /\ UNCHANGED registry
  <2>1. MemoryTypeOK'
    BY <1>1, <1>3, <1>5 DEF MemoryTypeOK, RegSteps
  <2>2. NormalInv'
    <3>1. Whole(registry.ram, description.ram)
      BY <1>2, <1>4, <1>5, NormalizeEnds
    <3>2. Normalized(DOMAIN description.reserved, <<>>, description.reserved)
      BY <1>4, NormalizeEnds
    <3> QED BY <1>1, <1>2, <1>5, <3>1, <3>2 DEF NormalInv
  <2>3. FreeInv'
    <3>1. regStep' = "reserved" /\ registry' = registry
      BY <1>5
    <3>2. 1 .. Len(<<>>) = {}
      OBVIOUS
    <3> QED BY <1>2, <3>1, <3>2 DEF FreeInv
  <2> QED BY <2>1, <2>2, <2>3 DEF RegistryInv
<1>6. ASSUME NEW i \in NextByStart(description.ram),
             LET done == registry.ram
                 r == description.ram[i]
             IN  IF done # <<>> /\ Overlaps(done[Len(done)], r) THEN RegistrationFails
                 ELSE /\ registry' = [registry EXCEPT !.ram =
                             IF done # <<>> /\ Adjacent(done[Len(done)], r) THEN JoinLast(done, r) ELSE Append(done, r)]
                      /\ ahead' = ahead \ {i}
                      /\ UNCHANGED regStep
      PROVE  RegistryInv'
  <2> DEFINE done == registry.ram
             r == description.ram[i]
             next == IF done # <<>> /\ Adjacent(done[Len(done)], r) THEN JoinLast(done, r) ELSE Append(done, r)
  <2>1. CASE done # <<>> /\ Overlaps(done[Len(done)], r)
    BY <1>1, <1>6, <2>1, FailKeeps
  <2>2. CASE ~(done # <<>> /\ Overlaps(done[Len(done)], r))
    <3>1. registry' = [registry EXCEPT !.ram = next] /\ ahead' = ahead \ {i} /\ regStep' = "ram"
      BY <1>1, <1>6, <2>2
    <3>2. i \in ahead /\ \A j \in ahead : description.ram[i][1] <= description.ram[j][1]
      BY DEF NextByStart
    <3>3. /\ i \in DOMAIN description.ram
          /\ \A k \in 1 .. Len(done) : done[k][1] <= r[1]
      BY <1>2, <3>2 DEF Normalized
    <3>4. r \in Ranges
      BY <1>4, <3>3
    <3>5. ASSUME done # <<>>
          PROVE  IF Adjacent(done[Len(done)], r) THEN r[1] <= done[Len(done)][2] ELSE done[Len(done)][2] < r[1]
      <4> DEFINE p == done[Len(done)]
      <4>1. Len(done) \in 1 .. Len(done) /\ p \in Ranges
        BY <1>4, <3>5
      <4>2. p[1] <= r[1]
        BY <3>3, <4>1
      <4>3. ~(p[1] < r[2] /\ r[1] < p[2])
        BY <2>2, <3>5 DEF Overlaps
      <4>4. /\ p[1] \in Nat /\ p[2] \in Nat /\ p[1] < p[2]
            /\ r[1] \in Nat /\ r[2] \in Nat /\ r[1] < r[2]
        BY <3>4, <4>1, RangeFacts
      <4> HIDE DEF p, r
      <4> QED BY <4>2, <4>3, <4>4 DEF Adjacent, p
    <3>6. \/ next = Append(done, description.ram[i]) /\ (done # <<>> => done[Len(done)][2] < description.ram[i][1])
          \/ next = JoinLast(done, description.ram[i]) /\ done # <<>> /\ description.ram[i][1] <= done[Len(done)][2]
      BY <3>5
    <3> HIDE DEF next
    <3>7. next \in Seq(Ranges) /\ Normalized(ahead \ {i}, next, description.ram)
      BY <1>2, <1>4, <3>2, <3>6, NormalizeOne
    <3>8. /\ registry' \in Registries /\ registry'.ram = next /\ registry'.reserved = <<>>
          /\ registry'.free = <<>> /\ ~registry'.ok
      <4>1. next \in Seq(Ranges)
        BY <3>7
      <4> QED BY <1>2, <1>3, <3>1, <4>1, WithRam
    <3>9. MemoryTypeOK'
      BY <1>1, <1>3, <3>1, <3>8 DEF MemoryTypeOK, RegSteps
    <3>10. NormalInv'
      BY <1>1, <1>2, <3>1, <3>7, <3>8 DEF NormalInv
    <3>11. FreeInv'
      <4>1. 1 .. Len(<<>>) = {}
        OBVIOUS
      <4> QED BY <3>1, <3>8, <4>1 DEF FreeInv
    <3> QED BY <3>9, <3>10, <3>11 DEF RegistryInv
  <2> QED BY <2>1, <2>2
<1> QED BY <1>5, <1>6 DEF NormalizeRam

\* normalize_reserved_ranges, and the checks after it.
LEMMA ReservedStep ==
    ASSUME RegistryInv, NormalizeReserved
    PROVE  RegistryInv'
<1>1. /\ regStep = "reserved" /\ description' = description /\ bank' = bank /\ cursor' = cursor /\ windows' = windows
  BY DEF NormalizeReserved, servedVars
<1>2. /\ MemoryTypeOK /\ bank = 1 /\ registry.free = <<>> /\ ~registry.ok
      /\ Normalized(ahead, registry.reserved, description.reserved) /\ Whole(registry.ram, description.ram)
  BY <1>1 DEF RegistryInv, NormalInv, FreeInv
<1>3. /\ registry \in Registries /\ description \in Descriptions /\ bank \in Nat \ {0} /\ cursor \in Nat /\ windows \in Seq(Ranges)
  BY <1>2 DEF MemoryTypeOK
<1>4. /\ description.ram \in Seq(Ranges) /\ description.reserved \in Seq(Ranges)
      /\ registry.ram \in Seq(Ranges) /\ registry.reserved \in Seq(Ranges) /\ registry.ok \in BOOLEAN
  BY <1>3, Described, RegistryFields
<1>5. ASSUME ahead = {}, regStep' = "banks", UNCHANGED <<registry, ahead>>
      PROVE  RegistryInv'
  <2>1. MemoryTypeOK'
    BY <1>1, <1>3, <1>5 DEF MemoryTypeOK, RegSteps
  <2>2. NormalInv'
    <3>1. Whole(registry.reserved, description.reserved)
      BY <1>2, <1>4, <1>5, NormalizeEnds
    <3> QED BY <1>1, <1>2, <1>5, <3>1 DEF NormalInv
  <2>3. FreeInv'
    <3>1. regStep' = "banks" /\ registry' = registry /\ bank' = 1
      BY <1>1, <1>2, <1>5
    <3>2. 1 .. Len(<<>>) = {} /\ 1 .. 1 - 1 = {} /\ 1 <= Len(registry.ram) + 1
      BY <1>4
    <3>3. BytesOf(<<>>) = {}
      <4>1. <<>> \in Seq(Ranges)
        OBVIOUS
      <4> QED BY <3>2, <4>1, BytesOfSeq
    <3>4. BanksBefore(bank)' = {}
      BY <3>1, <3>2 DEF BanksBefore
    <3> QED BY <1>2, <3>1, <3>2, <3>3, <3>4 DEF FreeInv
  <2> QED BY <2>1, <2>2, <2>3 DEF RegistryInv
<1>6. ASSUME NEW i \in NextByStart(description.reserved),
             LET done == registry.reserved
                 r == description.reserved[i]
             IN  /\ registry' = [registry EXCEPT !.reserved =
                        IF done # <<>> /\ (Overlaps(done[Len(done)], r) \/ Adjacent(done[Len(done)], r))
                        THEN JoinLast(done, r) ELSE Append(done, r)]
                 /\ ahead' = ahead \ {i}
                 /\ UNCHANGED regStep
      PROVE  RegistryInv'
  <2> DEFINE done == registry.reserved
             r == description.reserved[i]
             next == IF done # <<>> /\ (Overlaps(done[Len(done)], r) \/ Adjacent(done[Len(done)], r))
                     THEN JoinLast(done, r) ELSE Append(done, r)
  <2>1. registry' = [registry EXCEPT !.reserved = next] /\ ahead' = ahead \ {i} /\ regStep' = "reserved"
    BY <1>1, <1>6
  <2>2. i \in ahead /\ \A j \in ahead : description.reserved[i][1] <= description.reserved[j][1]
    BY DEF NextByStart
  <2>3. /\ i \in DOMAIN description.reserved
        /\ \A k \in 1 .. Len(done) : done[k][1] <= r[1]
    BY <1>2, <2>2 DEF Normalized
  <2>4. r \in Ranges
    BY <1>4, <2>3
  <2>5. ASSUME done # <<>>
        PROVE  IF Overlaps(done[Len(done)], r) \/ Adjacent(done[Len(done)], r)
               THEN r[1] <= done[Len(done)][2] ELSE done[Len(done)][2] < r[1]
    <3> DEFINE p == done[Len(done)]
    <3>1. Len(done) \in 1 .. Len(done) /\ p \in Ranges
      BY <1>4, <2>5
    <3>2. p[1] <= r[1]
      BY <2>3, <3>1
    <3>3. /\ p[1] \in Nat /\ p[2] \in Nat /\ p[1] < p[2]
          /\ r[1] \in Nat /\ r[2] \in Nat /\ r[1] < r[2]
      BY <2>4, <3>1, RangeFacts
    <3> HIDE DEF p, r
    <3> QED BY <3>2, <3>3 DEF Overlaps, Adjacent, p
  <2>6. \/ next = Append(done, description.reserved[i]) /\ (done # <<>> => done[Len(done)][2] < description.reserved[i][1])
        \/ next = JoinLast(done, description.reserved[i]) /\ done # <<>> /\ description.reserved[i][1] <= done[Len(done)][2]
    BY <2>5
  <2> HIDE DEF next
  <2>7. next \in Seq(Ranges) /\ Normalized(ahead \ {i}, next, description.reserved)
    BY <1>2, <1>4, <2>2, <2>6, NormalizeOne
  <2>8. /\ registry' \in Registries /\ registry'.reserved = next /\ registry'.ram = registry.ram
        /\ registry'.free = <<>> /\ ~registry'.ok
    <3>1. next \in Seq(Ranges)
      BY <2>7
    <3> QED BY <1>2, <1>3, <2>1, <3>1, WithReserved
  <2>9. MemoryTypeOK'
    BY <1>1, <1>3, <2>1, <2>8 DEF MemoryTypeOK, RegSteps
  <2>10. NormalInv'
    BY <1>1, <1>2, <2>1, <2>7, <2>8 DEF NormalInv
  <2>11. FreeInv'
    <3>1. 1 .. Len(<<>>) = {}
      OBVIOUS
    <3> QED BY <2>1, <2>8, <3>1 DEF FreeInv
  <2> QED BY <2>9, <2>10, <2>11 DEF RegistryInv
<1>7. CASE ahead = {} /\ (IF ValidMemory /\ FirmwareIsPlaced THEN regStep' = "banks" /\ UNCHANGED <<registry, ahead>> ELSE RegistrationFails)
  <2>1. CASE RegistrationFails
    BY <1>1, <2>1, FailKeeps
  <2>2. CASE regStep' = "banks" /\ UNCHANGED <<registry, ahead>>
    BY <1>5, <1>7, <2>2
  <2> QED BY <1>7, <2>1, <2>2
<1> QED BY <1>6, <1>7 DEF NormalizeReserved

\* The excluded ranges, and their parts in the bank.
LEMMA ClippedFacts ==
    ASSUME RegistryInv, regStep \in {"banks", "cuts"}, bank <= Len(registry.ram)
    PROVE  LET c == registry.ram[bank]
               n == Len(registry.reserved) + 1
           IN  /\ bank \in 1 .. Len(registry.ram) /\ c \in Ranges
               /\ DOMAIN Clipped = 1 .. n
               /\ \A k \in 1 .. n :
                    /\ Clipped[k][1] \in Nat /\ Clipped[k][2] \in Nat
                    /\ c[1] <= Clipped[k][1] /\ Clipped[k][2] <= c[2]
                    /\ \A x \in Bytes(c) : x \in Bytes(Excluded[k]) <=> Clipped[k][1] <= x /\ x < Clipped[k][2]
               /\ Withheld = UNION {Bytes(Excluded[k]) : k \in 1 .. n}
<1> DEFINE c == registry.ram[bank]
           n == Len(registry.reserved) + 1
<1>1. /\ registry.ram \in Seq(Ranges) /\ registry.reserved \in Seq(Ranges) /\ description.firmware \in Ranges
      /\ bank \in Nat \ {0} /\ description.reserved \in Seq(Ranges)
  <2>1. description \in Descriptions /\ registry \in Registries /\ bank \in Nat \ {0}
    BY DEF RegistryInv, MemoryTypeOK
  <2> QED BY <2>1, RegistryFields, Described
<1>2. bank \in 1 .. Len(registry.ram) /\ c \in Ranges
  <2>1. bank \in 1 .. Len(registry.ram)
    BY <1>1
  <2> QED BY <1>1, <2>1
<1>3. /\ Excluded \in Seq(Ranges) /\ Len(Excluded) = n
      /\ BytesOf(Excluded) = BytesOf(registry.reserved) \cup Bytes(description.firmware)
  BY <1>1, AppendRange DEF Excluded
<1>4. DOMAIN Excluded = 1 .. n /\ (\A k \in 1 .. n : Excluded[k] \in Ranges) /\ n \in Nat
  BY <1>3, BytesOfSeq
<1>5. DOMAIN Clipped = 1 .. n
  BY <1>4 DEF Clipped
<1>6. ASSUME NEW k \in 1 .. n
      PROVE  /\ Clipped[k][1] \in Nat /\ Clipped[k][2] \in Nat
             /\ c[1] <= Clipped[k][1] /\ Clipped[k][2] <= c[2]
             /\ \A x \in Bytes(c) : x \in Bytes(Excluded[k]) <=> Clipped[k][1] <= x /\ x < Clipped[k][2]
  <2> DEFINE e == Excluded[k]
             p == Clipped[k]
  <2>1. /\ c[1] \in Nat /\ c[2] \in Nat /\ e[1] \in Nat /\ e[2] \in Nat
        /\ \A x : x \in Bytes(c) <=> x \in Nat /\ c[1] <= x /\ x < c[2]
        /\ \A x : x \in Bytes(e) <=> x \in Nat /\ e[1] <= x /\ x < e[2]
    <3>1. e \in Ranges
      BY <1>4
    <3> QED BY <1>2, <3>1, RangeFacts
  <2>2. p = <<MaxOf(c[1], e[1]), MinOf(c[2], e[2])>>
    BY <1>4 DEF Clipped
  <2>3. p[1] = MaxOf(c[1], e[1]) /\ p[2] = MinOf(c[2], e[2])
    BY <2>2
  <2> HIDE DEF c, e, p
  <2>4. /\ p[1] \in Nat /\ p[2] \in Nat /\ c[1] <= p[1] /\ p[2] <= c[2]
        /\ \A x \in Bytes(c) : x \in Bytes(e) <=> p[1] <= x /\ x < p[2]
    BY <2>1, <2>3 DEF MaxOf, MinOf
  <2> QED BY <2>4 DEF e, p
<1>7. Withheld = UNION {Bytes(Excluded[k]) : k \in 1 .. n}
  <2>1. BytesOf(registry.reserved) = ReservedBytes
    BY DEF RegistryInv, NormalInv, Whole, ReservedBytes
  <2>2. BytesOf(Excluded) = UNION {Bytes(Excluded[k]) : k \in 1 .. n}
    BY <1>4 DEF BytesOf
  <2> QED BY <1>3, <2>1, <2>2 DEF Withheld
<1> QED BY <1>2, <1>5, <1>6, <1>7

\* derive_supervisor_memory between two banks.
LEMMA BankStep ==
    ASSUME RegistryInv, NextBank
    PROVE  RegistryInv'
<1>1. /\ regStep = "banks" /\ description' = description /\ bank' = bank /\ windows' = windows
  BY DEF NextBank, servedVars
<1>2. /\ MemoryTypeOK /\ ~registry.ok
      /\ Whole(registry.ram, description.ram) /\ Whole(registry.reserved, description.reserved)
      /\ bank <= Len(registry.ram) + 1
      /\ BytesOf(registry.free) = BanksBefore(bank) \ Withheld
      /\ \A k \in 1 .. Len(registry.free) : registry.free[k][2] \notin Grantable
  BY <1>1 DEF RegistryInv, NormalInv, FreeInv
<1>3. /\ registry \in Registries /\ description \in Descriptions /\ bank \in Nat \ {0} /\ cursor \in Nat /\ windows \in Seq(Ranges)
  BY <1>2 DEF MemoryTypeOK
<1>4. registry.ram \in Seq(Ranges) /\ registry.free \in Seq(Ranges) /\ registry.ok \in BOOLEAN
  BY <1>3, RegistryFields
<1>5. Withheld' = Withheld /\ Grantable' = Grantable
  BY <1>1 DEF Withheld, Grantable, RamBytes, ReservedBytes
<1>6. CASE bank <= Len(registry.ram)
  <2> DEFINE c == registry.ram[bank]
  <2>1. /\ ahead' = {k \in DOMAIN Clipped : Clipped[k][1] < Clipped[k][2]}
        /\ cursor' = c[1] /\ regStep' = "cuts" /\ registry' = registry
    BY <1>6 DEF NextBank
  <2>2. c \in Ranges
    BY <1>1, <1>6, ClippedFacts
  <2>3. c[1] \in Nat /\ c[2] \in Nat /\ c[1] < c[2]
    BY <2>2, RangeFacts
  <2>4. Clipped' = Clipped /\ BanksBefore(bank)' = BanksBefore(bank)
    BY <1>1, <2>1 DEF Clipped, Excluded, BanksBefore
  <2>5. MemoryTypeOK'
    BY <1>1, <1>3, <2>1, <2>3 DEF MemoryTypeOK, RegSteps
  <2>6. NormalInv'
    BY <1>1, <1>2, <2>1 DEF NormalInv
  <2>7. FreeInv'
    <3>1. cursor' \in c[1] .. c[2] /\ c[1] .. cursor' - 1 = {}
      BY <2>1, <2>3
    <3>2. bank <= Len(registry.ram) + 1
      BY <1>2
    <3>3. BytesOf(registry.free) = (BanksBefore(bank) \cup {}) \ Withheld
      BY <1>2
    <3>4. registry'.ram[bank'] = c
      BY <1>1, <2>1
    <3> HIDE DEF c
    <3> QED BY <1>1, <1>2, <1>5, <1>6, <2>1, <2>4, <3>1, <3>2, <3>3, <3>4 DEF FreeInv
  <2> QED BY <2>5, <2>6, <2>7 DEF RegistryInv
<1>7. CASE ~(bank <= Len(registry.ram))
  <2>1. /\ cursor' = cursor
        /\ IF registry.free = <<>> THEN RegistrationFails
           ELSE regStep' = "done" /\ registry' = [registry EXCEPT !.ok = TRUE] /\ UNCHANGED ahead
    BY <1>7 DEF NextBank
  <2>2. CASE registry.free = <<>>
    BY <1>1, <2>1, <2>2, FailKeeps
  <2>3. CASE registry.free # <<>>
    <3>1. regStep' = "done" /\ registry' = [registry EXCEPT !.ok = TRUE]
      BY <2>1, <2>3
    <3>2. /\ registry' \in Registries /\ registry'.ok /\ registry'.ram = registry.ram
          /\ registry'.reserved = registry.reserved /\ registry'.free = registry.free
      BY <1>3, <3>1, WithOk
    <3>3. BytesOf(registry.free) = Grantable
      <4>1. bank - 1 = Len(registry.ram)
        BY <1>2, <1>3, <1>4, <1>7
      <4>2. BanksBefore(bank) = BytesOf(registry.ram)
        <5>1. DOMAIN registry.ram = 1 .. bank - 1
          BY <1>4, <4>1
        <5> QED BY <5>1 DEF BanksBefore, BytesOf
      <4> QED BY <1>2, <4>2 DEF Whole, RamBytes, Grantable, Withheld
    <3>4. MemoryTypeOK'
      BY <1>1, <1>3, <2>1, <3>1, <3>2 DEF MemoryTypeOK, RegSteps
    <3>5. NormalInv'
      BY <1>1, <1>2, <3>1, <3>2 DEF NormalInv
    <3>6. FreeInv'
      BY <1>2, <1>5, <3>1, <3>2, <3>3 DEF FreeInv
    <3> QED BY <3>4, <3>5, <3>6 DEF RegistryInv
  <2> QED BY <2>2, <2>3
<1> QED BY <1>6, <1>7

\* The free part up to an end, of which nothing is withheld.
LEMMA FreeAdded ==
    ASSUME RegistryInv, regStep = "cuts", NEW end \in Nat, end <= registry.ram[bank][2],
           AddFree(end), end \notin Grantable
    PROVE  /\ registry' \in Registries /\ registry'.ok = registry.ok
           /\ registry'.ram = registry.ram /\ registry'.reserved = registry.reserved
           /\ BytesOf(registry'.free) = BytesOf(registry.free) \cup (cursor .. end - 1)
           /\ \A k \in 1 .. Len(registry'.free) : registry'.free[k][2] \notin Grantable
<1> DEFINE c == registry.ram[bank]
<1>1. registry \in Registries /\ cursor \in Nat /\ bank <= Len(registry.ram)
      /\ \A k \in 1 .. Len(registry.free) : registry.free[k][2] \notin Grantable
  BY DEF RegistryInv, MemoryTypeOK, FreeInv
<1>2. c \in Ranges
  BY <1>1, ClippedFacts
<1>3. registry.free \in Seq(Ranges)
  BY <1>1, RegistryFields
<1>4. CASE cursor < end
  <2> DEFINE r == <<cursor, end>>
             next == Append(registry.free, r)
  <2>1. registry' = [registry EXCEPT !.free = next]
    BY <1>4 DEF AddFree
  <2>2. c[2] <= MaxAddr /\ c[2] \in Nat /\ MaxAddr \in Nat
    BY <1>2, RangeFacts, MemoryAssumption
  <2>3. r \in Ranges
    <3>1. end <= MaxAddr
      BY <2>2
    <3> QED BY <1>1, <1>4, <3>1, MakeRange
  <2>4. Bytes(r) = cursor .. end - 1 /\ r[2] = end
    BY DEF Bytes
  <2> HIDE DEF r
  <2>5. /\ next \in Seq(Ranges) /\ BytesOf(next) = BytesOf(registry.free) \cup Bytes(r)
        /\ Len(next) = Len(registry.free) + 1 /\ next[Len(registry.free) + 1] = r
        /\ \A k \in 1 .. Len(registry.free) : next[k] = registry.free[k]
    BY <1>3, <2>3, AppendRange
  <2> HIDE DEF next
  <2>6. /\ registry' \in Registries /\ registry'.free = next /\ registry'.ok = registry.ok
        /\ registry'.ram = registry.ram /\ registry'.reserved = registry.reserved
    BY <1>1, <2>1, <2>5, WithFree
  <2>7. \A k \in 1 .. Len(next) : next[k][2] \notin Grantable
    <3>1. Len(registry.free) \in Nat
      BY <1>3
    <3>2. \A k \in 1 .. Len(next) : k \in 1 .. Len(registry.free) \/ k = Len(registry.free) + 1
      BY <2>5, <3>1
    <3> QED BY <1>1, <2>4, <2>5, <3>2
  <2> QED BY <2>4, <2>5, <2>6, <2>7
<1>5. CASE ~(cursor < end)
  <2>1. registry' = registry
    BY <1>5 DEF AddFree
  <2>2. cursor .. end - 1 = {}
    BY <1>1, <1>5
  <2> QED BY <1>1, <2>1, <2>2
<1> QED BY <1>4, <1>5

\* excluding: the bytes from the cursor to the next exclusion are free, and those
\* of the exclusion are not.
LEMMA ExcludeStep ==
    ASSUME RegistryInv, Exclude
    PROVE  RegistryInv'
<1> DEFINE c == registry.ram[bank]
           n == Len(registry.reserved) + 1
           before == BanksBefore(bank)
           held == Withheld
<1>1. /\ regStep = "cuts" /\ description' = description /\ windows' = windows
  BY DEF Exclude, servedVars
<1>2. /\ MemoryTypeOK /\ ~registry.ok
      /\ Whole(registry.ram, description.ram) /\ Whole(registry.reserved, description.reserved)
      /\ bank <= Len(registry.ram)
      /\ cursor \in c[1] .. c[2]
      /\ ahead \subseteq {k \in DOMAIN Clipped : Clipped[k][1] < Clipped[k][2]}
      /\ \A k \in DOMAIN Clipped : k \notin ahead /\ Clipped[k][1] < Clipped[k][2] => Clipped[k][2] <= cursor
      /\ BytesOf(registry.free) = (before \cup (c[1] .. cursor - 1)) \ held
  BY <1>1 DEF RegistryInv, NormalInv, FreeInv
<1>3. /\ registry \in Registries /\ description \in Descriptions /\ bank \in Nat \ {0} /\ cursor \in Nat /\ windows \in Seq(Ranges)
  BY <1>2 DEF MemoryTypeOK
<1>4. registry.ram \in Seq(Ranges) /\ registry.free \in Seq(Ranges) /\ registry.ok \in BOOLEAN
  BY <1>3, RegistryFields
<1>5. Withheld' = Withheld /\ Grantable' = Grantable /\ Grantable = BytesOf(description.ram) \ held
  BY <1>1 DEF Withheld, Grantable, RamBytes, ReservedBytes
<1>6. /\ bank \in 1 .. Len(registry.ram) /\ c \in Ranges
      /\ DOMAIN Clipped = 1 .. n
      /\ \A k \in 1 .. n :
            /\ Clipped[k][1] \in Nat /\ Clipped[k][2] \in Nat
            /\ c[1] <= Clipped[k][1] /\ Clipped[k][2] <= c[2]
            /\ \A x \in Bytes(c) : x \in Bytes(Excluded[k]) <=> Clipped[k][1] <= x /\ x < Clipped[k][2]
      /\ held = UNION {Bytes(Excluded[k]) : k \in 1 .. n}
  BY <1>1, <1>2, ClippedFacts
<1>7. /\ c[1] \in Nat /\ c[2] \in Nat /\ c[1] < c[2]
      /\ \A x : x \in Bytes(c) <=> x \in Nat /\ c[1] <= x /\ x < c[2]
  BY <1>6, RangeFacts
<1>8. c[1] <= cursor /\ cursor <= c[2] /\ cursor \in Nat
  BY <1>2, <1>7
<1>9. ASSUME NEW x \in Bytes(c)
      PROVE  x \in held <=> \E k \in 1 .. n : Clipped[k][1] <= x /\ x < Clipped[k][2]
  BY <1>6
<1>10. ASSUME ahead = {}, AddFree(c[2]), regStep' = "banks", bank' = bank + 1, UNCHANGED <<ahead, cursor>>
      PROVE  RegistryInv'
  <2>1. \A x : x \in cursor .. c[2] - 1 => x \in Bytes(c) /\ x \notin held
    <3> SUFFICES ASSUME NEW x \in cursor .. c[2] - 1 PROVE x \in Bytes(c) /\ x \notin held
      OBVIOUS
    <3>0. x \in Nat /\ cursor <= x /\ x < c[2] /\ c[1] <= x
      BY <1>7, <1>8
    <3>1. x \in Nat /\ cursor <= x /\ x \in Bytes(c)
      BY <1>7, <3>0
    <3>2. ASSUME NEW k \in 1 .. n, Clipped[k][1] <= x, x < Clipped[k][2] PROVE FALSE
      <4>1. Clipped[k][1] \in Nat /\ Clipped[k][2] \in Nat
        BY <1>6
      <4>2. Clipped[k][1] < Clipped[k][2]
        BY <3>1, <3>2, <4>1
      <4>3. Clipped[k][2] <= cursor
        BY <1>2, <1>6, <1>10, <4>2
      <4> QED BY <1>3, <3>1, <3>2, <4>1, <4>3
    <3> QED BY <1>9, <3>1, <3>2
  <2>2. c[2] \notin Grantable
    <3>1. c[2] \notin BytesOf(registry.ram)
      BY <1>2, <1>4, <1>6, EndIsOutside DEF Whole
    <3> QED BY <1>2, <1>5, <3>1 DEF Whole
  <2>3. /\ registry' \in Registries /\ registry'.ok = registry.ok
        /\ registry'.ram = registry.ram /\ registry'.reserved = registry.reserved
        /\ BytesOf(registry'.free) = BytesOf(registry.free) \cup (cursor .. c[2] - 1)
        /\ \A k \in 1 .. Len(registry'.free) : registry'.free[k][2] \notin Grantable
    <3>1. c[2] <= registry.ram[bank][2] /\ c[2] \in Nat
      BY <1>7
    <3> QED BY <1>1, <1>10, <2>2, <3>1, FreeAdded
  <2>4. BanksBefore(bank)' = before \cup Bytes(c)
    <3>1. 1 .. bank' - 1 = (1 .. bank - 1) \cup {bank}
      BY <1>3, <1>10
    <3> QED BY <2>3, <3>1 DEF BanksBefore
  <2>5. BytesOf(registry'.free) = (before \cup Bytes(c)) \ held
    <3>1. Bytes(c) = (c[1] .. cursor - 1) \cup (cursor .. c[2] - 1)
      BY <1>2, <1>7, SMTT(30)
    <3> HIDE DEF c, before, held
    <3> QED BY <1>2, <2>1, <2>3, <3>1
  <2>6. MemoryTypeOK'
    BY <1>1, <1>3, <1>10, <2>3 DEF MemoryTypeOK, RegSteps
  <2>7. NormalInv'
    BY <1>1, <1>2, <1>10, <2>3 DEF NormalInv
  <2>8. FreeInv'
    <3>1. bank' <= Len(registry'.ram) + 1
      BY <1>3, <1>4, <1>6, <1>10, <2>3
    <3> QED BY <1>2, <1>5, <1>10, <2>3, <2>4, <2>5, <3>1 DEF FreeInv
  <2> QED BY <2>6, <2>7, <2>8 DEF RegistryInv
<1>11. ASSUME NEW k \in NextByStart(Clipped), AddFree(Clipped[k][1]), cursor' = Past(Clipped[k][2]),
              ahead' = ahead \ {k}, UNCHANGED <<regStep, bank>>
       PROVE  RegistryInv'
  <2> DEFINE s == Clipped[k][1]
             e == Clipped[k][2]
  <2>1. k \in ahead /\ \A j \in ahead : s <= Clipped[j][1]
    BY DEF NextByStart
  <2>2. k \in 1 .. n /\ s < e /\ s \in Nat /\ e \in Nat /\ c[1] <= s /\ e <= c[2]
    BY <1>2, <1>6, <2>1
  <2>3. \A x : x \in cursor .. s - 1 => x \in Bytes(c) /\ x \notin held
    <3> SUFFICES ASSUME NEW x \in cursor .. s - 1 PROVE x \in Bytes(c) /\ x \notin held
      OBVIOUS
    <3>0. x \in Nat /\ cursor <= x /\ x < s /\ x < c[2] /\ c[1] <= x
      BY <1>7, <1>8, <2>2, SMTT(30)
    <3>1. x \in Nat /\ cursor <= x /\ x < s /\ x \in Bytes(c)
      BY <1>7, <3>0
    <3>2. ASSUME NEW j \in 1 .. n, Clipped[j][1] <= x, x < Clipped[j][2] PROVE FALSE
      <4>1. Clipped[j][1] \in Nat /\ Clipped[j][2] \in Nat
        BY <1>6
      <4>2. Clipped[j][1] < Clipped[j][2]
        BY <3>1, <3>2, <4>1
      <4>3. CASE j \in ahead
        BY <2>1, <2>2, <3>1, <3>2, <4>1, <4>3
      <4>4. CASE j \notin ahead
        <5>1. Clipped[j][2] <= cursor
          BY <1>2, <1>6, <4>2, <4>4
        <5> QED BY <1>3, <3>1, <3>2, <4>1, <5>1
      <4> QED BY <4>3, <4>4
    <3> QED BY <1>9, <3>1, <3>2
  <2>4. \A x : x \in s .. e - 1 => x \in Bytes(c) /\ x \in held
    <3> SUFFICES ASSUME NEW x \in s .. e - 1 PROVE x \in Bytes(c) /\ x \in held
      OBVIOUS
    <3>1. x \in Nat /\ s <= x /\ x < e /\ x \in Bytes(c)
      BY <1>7, <2>2, SMTT(30)
    <3> QED BY <1>9, <2>2, <3>1
  <2>5. s \notin Grantable
    <3>1. s \in s .. e - 1
      BY <2>2
    <3> QED BY <1>5, <2>4, <3>1
  <2>6. /\ registry' \in Registries /\ registry'.ok = registry.ok
        /\ registry'.ram = registry.ram /\ registry'.reserved = registry.reserved
        /\ BytesOf(registry'.free) = BytesOf(registry.free) \cup (cursor .. s - 1)
        /\ \A j \in 1 .. Len(registry'.free) : registry'.free[j][2] \notin Grantable
    <3>1. s <= registry.ram[bank][2] /\ s \in Nat /\ AddFree(s)
      BY <1>7, <1>11, <2>2
    <3> QED BY <1>1, <2>5, <3>1, FreeAdded
  <2>7. cursor' = (IF cursor > e THEN cursor ELSE e)
    BY <1>11 DEF Past, MaxOf
  <2>8. cursor' \in Nat /\ cursor' \in c[1] .. c[2] /\ cursor <= cursor' /\ e <= cursor'
    BY <1>2, <1>3, <1>7, <2>2, <2>7, SMTT(30)
  <2>9. /\ regStep' = "cuts" /\ bank' = bank /\ Clipped' = Clipped /\ BanksBefore(bank)' = before
        /\ registry'.ram[bank'] = c
    BY <1>1, <1>11, <2>6 DEF Clipped, Excluded, BanksBefore
  <2>10. BytesOf(registry'.free) = (before \cup (c[1] .. cursor' - 1)) \ held
    <3>1. \A x : x \in c[1] .. cursor' - 1 <=>
                    \/ x \in c[1] .. cursor - 1 \/ x \in cursor .. s - 1
                    \/ (x \in c[1] .. cursor' - 1 /\ x \notin c[1] .. cursor - 1 /\ x \notin cursor .. s - 1 /\ x \in s .. e - 1)
      <4>1. /\ c[1] \in Nat /\ cursor \in Nat /\ s \in Nat /\ e \in Nat /\ c[1] <= s /\ s < e /\ c[1] <= cursor
            /\ cursor' = (IF cursor > e THEN cursor ELSE e)
        BY <1>7, <1>8, <2>2, <2>7
      <4> HIDE DEF c, before, held, s, e
      <4> QED BY ONLY <4>1
    <3> HIDE DEF c, before, held, s, e
    <3> QED BY <1>2, <2>3, <2>4, <2>6, <3>1
  <2>11. ahead' \subseteq {j \in DOMAIN Clipped : Clipped[j][1] < Clipped[j][2]}
    BY <1>2, <1>11
  <2>12. \A j \in DOMAIN Clipped : j \notin ahead' /\ Clipped[j][1] < Clipped[j][2] => Clipped[j][2] <= cursor'
    <3> SUFFICES ASSUME NEW j \in 1 .. n, j \notin ahead', Clipped[j][1] < Clipped[j][2] PROVE Clipped[j][2] <= cursor'
      BY <1>6
    <3>1. CASE j = k
      BY <2>8, <3>1
    <3>2. CASE j # k
      <4>1. Clipped[j][2] <= cursor
        BY <1>2, <1>6, <1>11, <3>2
      <4>2. Clipped[j][2] \in Nat
        BY <1>6
      <4> QED BY <1>3, <2>8, <4>1, <4>2
    <3> QED BY <3>1, <3>2
  <2>13. MemoryTypeOK'
    BY <1>1, <1>3, <2>6, <2>8, <2>9 DEF MemoryTypeOK, RegSteps
  <2>14. NormalInv'
    BY <1>1, <1>2, <2>6, <2>9 DEF NormalInv
  <2>15. FreeInv'
    <3>1. bank' <= Len(registry'.ram) + 1 /\ bank' <= Len(registry'.ram)
      BY <1>3, <1>4, <1>6, <2>6, <2>9
    <3>2. ~registry'.ok
      BY <1>2, <2>6
    <3> HIDE DEF c, before, held, s, e
    <3> QED BY <1>5, <2>6, <2>8, <2>9, <2>10, <2>11, <2>12, <3>1, <3>2 DEF FreeInv, held
  <2> QED BY <2>13, <2>14, <2>15 DEF RegistryInv
<1> QED BY <1>10, <1>11 DEF Exclude

-----------------------------------------------------------------------------
(* Windows and granted memory. *)

\* The windows, the areas and what was written, together with what their owners know.
ServedInv ==
    /\ WindowsAreApart /\ WritesAreGranted /\ AreasAreGranted
    /\ dbtr \in Nat /\ mpxy \in [ServiceHarts -> Nat] /\ lastSet = mpxy

\* A complete registry grants exactly the ranges of grantable bytes.
LEMMA CheckIsExact ==
    ASSUME RegistryInv, registry.ok
    PROVE  /\ \A r \in Ranges : CheckRange(r) <=> Bytes(r) \subseteq Grantable
           /\ FirmwareIsReserved <=> Bytes(description.firmware) \subseteq ReservedBytes
<1>1. registry \in Registries /\ description \in Descriptions /\ regStep = "done"
  BY DEF RegistryInv, MemoryTypeOK, FreeInv
<1>2. registry.free \in Seq(Ranges) /\ registry.reserved \in Seq(Ranges) /\ description.firmware \in Ranges
  BY <1>1, RegistryFields, Described
<1>3. BytesOf(registry.free) = Grantable /\ \A k \in 1 .. Len(registry.free) : registry.free[k][2] \notin BytesOf(registry.free)
  BY <1>1 DEF RegistryInv, FreeInv
<1>4. BytesOf(registry.reserved) = ReservedBytes /\ Separated(registry.reserved)
  BY <1>1 DEF RegistryInv, NormalInv, Whole, ReservedBytes
<1>5. ASSUME NEW r \in Ranges PROVE CheckRange(r) <=> Bytes(r) \subseteq Grantable
  BY <1>2, <1>3, RangeInOne DEF CheckRange
<1>6. \A k \in 1 .. Len(registry.reserved) : registry.reserved[k][2] \notin BytesOf(registry.reserved)
  BY <1>2, <1>4, EndIsOutside
<1>7. FirmwareIsReserved <=> Bytes(description.firmware) \subseteq ReservedBytes
  BY <1>2, <1>4, <1>6, RangeInOne DEF FirmwareIsReserved
<1> QED BY <1>5, <1>7

\* The bytes of RAM are addresses before the last one.
LEMMA GrantableBelow ==
    ASSUME description \in Descriptions, NEW a \in Grantable
    PROVE  a \in Nat /\ a < MaxAddr
<1>1. a \in BytesOf(description.ram) /\ description.ram \in Seq(Ranges)
  BY Described DEF Grantable, RamBytes
<1>2. PICK k \in 1 .. Len(description.ram) : a \in Bytes(description.ram[k]) /\ description.ram[k] \in Ranges
  BY <1>1, BytesOfSeq
<1>3. LET r == description.ram[k] IN a \in Nat /\ a < r[2] /\ r[2] <= MaxAddr /\ r[2] \in Nat
  BY <1>2, RangeFacts
<1> QED BY <1>3, MemoryAssumption

\* Bytes are granted exactly when all of them are grantable.  (check_access)
LEMMA AccessIsExact ==
    ASSUME RegistryInv, registry.ok, NEW start \in Nat, NEW len \in Nat
    PROVE  CheckAccess(start, len) <=> start .. start + len - 1 \subseteq Grantable
<1>1. description \in Descriptions /\ MaxAddr \in Nat
  BY MemoryAssumption DEF RegistryInv, MemoryTypeOK
<1>2. CASE len = 0
  <2>1. start .. start + len - 1 = {}
    BY <1>2
  <2> QED BY <1>2, <2>1 DEF CheckAccess
<1>3. CASE len # 0 /\ start + len > MaxAddr
  <2>1. FromStartLen(start, len) = <<>>
    BY <1>3 DEF FromStartLen
  <2>2. ~CheckAccess(start, len)
    BY <1>3, <2>1 DEF CheckAccess
  <2>3. ASSUME start .. start + len - 1 \subseteq Grantable PROVE FALSE
    <3>1. start + len - 1 \in Grantable
      BY <1>3, <2>3
    <3>2. start + len - 1 < MaxAddr
      BY <1>1, <3>1, GrantableBelow
    <3> QED BY <1>1, <1>3, <3>2
  <2> QED BY <2>2, <2>3
<1>4. CASE len # 0 /\ start + len <= MaxAddr
  <2> DEFINE r == <<start, start + len>>
  <2>1. FromStartLen(start, len) = r
    BY <1>1, <1>4 DEF FromStartLen
  <2>2. r # <<>>
    OBVIOUS
  <2>3. r \in Ranges
    <3> DEFINE b == start + len
    <3>1. b \in Nat /\ start < b /\ b <= MaxAddr
      BY <1>4
    <3> HIDE DEF b
    <3>2. <<start, b>> \in Ranges
      BY <3>1, MakeRange
    <3> QED BY <3>2 DEF b
  <2>4. Bytes(r) = start .. start + len - 1
    BY DEF Bytes
  <2> HIDE DEF r
  <2>5. CheckRange(r) <=> Bytes(r) \subseteq Grantable
    BY <2>3, CheckIsExact
  <2> QED BY <1>4, <2>1, <2>2, <2>4, <2>5 DEF CheckAccess
<1> QED BY <1>1, <1>2, <1>3, <1>4

\* What builds no registry keeps the one that is there.
LEMMA RegistryIsKept ==
    ASSUME RegistryInv, UNCHANGED buildVars, windows' \in Seq(Ranges)
    PROVE  RegistryInv'
<1>1. /\ description' = description /\ regStep' = regStep /\ ahead' = ahead /\ bank' = bank
      /\ cursor' = cursor /\ registry' = registry
  BY DEF buildVars
<1>2. MemoryTypeOK'
  BY <1>1 DEF RegistryInv, MemoryTypeOK
<1>3. NormalInv'
  BY <1>1 DEF RegistryInv, NormalInv
<1>4. Withheld' = Withheld /\ Grantable' = Grantable /\ Clipped' = Clipped /\ BanksBefore(bank)' = BanksBefore(bank)
  BY <1>1 DEF Withheld, Grantable, RamBytes, ReservedBytes, Clipped, Excluded, BanksBefore
<1>5. FreeInv'
  BY <1>1, <1>4 DEF RegistryInv, FreeInv
<1> QED BY <1>2, <1>3, <1>5 DEF RegistryInv

\* Ranges that do not overlap share no byte.
LEMMA ApartRanges ==
    ASSUME NEW r \in Ranges, NEW s \in Ranges, ~Overlaps(r, s)
    PROVE  Bytes(r) \cap Bytes(s) = {}
<1>1. /\ r[1] \in Nat /\ r[2] \in Nat /\ s[1] \in Nat /\ s[2] \in Nat
      /\ \A x : x \in Bytes(r) <=> x \in Nat /\ r[1] <= x /\ x < r[2]
      /\ \A x : x \in Bytes(s) <=> x \in Nat /\ s[1] <= x /\ x < s[2]
  BY RangeFacts
<1> QED BY <1>1 DEF Overlaps

\* acquire_mmio.
LEMMA AcquireStep ==
    ASSUME RegistryInv, ServedInv, registry.ok, AcquireMmio
    PROVE  RegistryInv' /\ ServedInv'
<1>1. PICK w \in Windows, offset \in Addrs, len \in Addrs :
        LET r == Subrange(w, offset, len)
        IN  /\ r # <<>>
            /\ \A u \in Unavailable : ~Overlaps(u, r)
            /\ windows' = Append(windows, r)
  BY DEF AcquireMmio
<1> DEFINE r == Subrange(w, offset, len)
           n == Len(windows)
<1>2. UNCHANGED <<buildVars, written, mpxy, dbtr, lastSet>>
  BY DEF AcquireMmio
<1>3. /\ registry \in Registries /\ windows \in Seq(Ranges) /\ regStep = "done"
  BY DEF RegistryInv, MemoryTypeOK, FreeInv
<1>4. registry.ram \in Seq(Ranges) /\ registry.reserved \in Seq(Ranges)
  BY <1>3, RegistryFields
<1>5. BytesOf(registry.ram) = RamBytes /\ BytesOf(registry.reserved) = ReservedBytes
  BY <1>3 DEF RegistryInv, NormalInv, Whole, RamBytes, ReservedBytes
<1>6. r \in Ranges
  <2>1. w \in Ranges /\ offset \in Nat /\ len \in Nat /\ MaxAddr \in Nat
    BY MemoryAssumption DEF Addrs
  <2>2. w[1] \in Nat /\ w[2] \in Nat
    BY <2>1, RangeFacts
  <2> DEFINE a == w[1] + offset
             b == w[1] + offset + len
  <2>3. ~(len = 0 \/ b > MaxAddr \/ b > w[2]) /\ r = <<a, b>>
    BY <1>1 DEF Subrange
  <2>4. a \in Nat /\ b \in Nat /\ a < b /\ b <= MaxAddr
    BY <2>1, <2>2, <2>3
  <2> HIDE DEF a, b
  <2>5. <<a, b>> \in Ranges
    BY <2>4, MakeRange
  <2> QED BY <2>3, <2>5
<1>7. windows' = Append(windows, r) /\ \A u \in Unavailable : ~Overlaps(u, r)
  BY <1>1
<1> HIDE DEF r
<1>8. /\ windows' \in Seq(Ranges) /\ Len(windows') = n + 1 /\ windows'[n + 1] = r
      /\ \A k \in 1 .. n : windows'[k] = windows[k]
  BY <1>3, <1>6, <1>7, AppendRange
<1>9. n \in Nat /\ DOMAIN windows = 1 .. n /\ DOMAIN windows' = 1 .. n + 1 /\ \A k \in 1 .. n : windows[k] \in Ranges
  BY <1>3, <1>8, BytesOfSeq
<1>10. \A s \in Seq(Ranges) : ToSet(s) = {s[k] : k \in 1 .. Len(s)} /\ \A k \in 1 .. Len(s) : s[k] \in Ranges
  BY BytesOfSeq DEF ToSet
<1>11. ASSUME NEW s \in Seq(Ranges), ToSet(s) \subseteq Unavailable, NEW k \in 1 .. Len(s)
       PROVE  Bytes(s[k]) \cap Bytes(r) = {}
  <2>1. s[k] \in Ranges /\ s[k] \in ToSet(s)
    BY <1>10
  <2>2. ~Overlaps(s[k], r)
    BY <1>7, <1>11, <2>1
  <2> QED BY <1>6, <2>1, <2>2, ApartRanges
<1>12. ToSet(registry.ram) \subseteq Unavailable /\ ToSet(registry.reserved) \subseteq Unavailable /\ ToSet(windows) \subseteq Unavailable
  BY DEF Unavailable
<1>13. Bytes(r) \cap RamBytes = {} /\ Bytes(r) \cap ReservedBytes = {}
  BY <1>4, <1>5, <1>11, <1>12, BytesOfSeq
<1>14. \A k \in 1 .. n : Bytes(windows[k]) \cap Bytes(r) = {}
  BY <1>3, <1>11, <1>12
<1>15. RamBytes' = RamBytes /\ ReservedBytes' = ReservedBytes /\ Grantable' = Grantable
  BY <1>2 DEF buildVars, RamBytes, ReservedBytes, Grantable
<1>16. WindowsAreApart'
  <2>1. \A k : k \in 1 .. n + 1 <=> k \in 1 .. n \/ k = n + 1
    BY <1>9
  <2>2. /\ \A i, j \in 1 .. n : i # j => Bytes(windows[i]) \cap Bytes(windows[j]) = {}
        /\ \A i \in 1 .. n : Bytes(windows[i]) \cap (RamBytes \cup ReservedBytes) = {}
    BY <1>9 DEF ServedInv, WindowsAreApart
  <2>3. \A i, j \in 1 .. n + 1 : i # j => Bytes(windows'[i]) \cap Bytes(windows'[j]) = {}
    BY <1>8, <1>14, <2>1, <2>2
  <2>4. \A i \in 1 .. n + 1 : Bytes(windows'[i]) \cap (RamBytes \cup ReservedBytes) = {}
    BY <1>8, <1>13, <2>1, <2>2
  <2> QED BY <1>9, <1>15, <2>3, <2>4 DEF WindowsAreApart
<1>17. WritesAreGranted' /\ AreasAreGranted'
  BY <1>2, <1>15 DEF ServedInv, WritesAreGranted, AreasAreGranted
<1>18. RegistryInv'
  BY <1>2, <1>8, RegistryIsKept
<1> QED BY <1>2, <1>16, <1>17, <1>18 DEF ServedInv

\* set_shmem of STA writes whole areas of granted bytes.
LEMMA StaStep ==
    ASSUME RegistryInv, ServedInv, registry.ok,
           NEW lo \in Addrs, NEW hi, NEW flags, SetSta(lo, hi, flags)
    PROVE  RegistryInv' /\ ServedInv'
<1>1. /\ lo % StaSize = 0 /\ CheckAccess(lo, StaSize)
      /\ written' = written \cup (lo .. lo + StaSize - 1)
      /\ UNCHANGED <<buildVars, windows, mpxy, dbtr, lastSet>>
  BY DEF SetSta, Write
<1>2. lo \in Nat /\ StaSize \in Nat /\ StaSize > 0
  BY MemoryAssumption DEF Addrs
<1>3. lo .. lo + StaSize - 1 \subseteq Grantable
  BY <1>1, <1>2, AccessIsExact
<1>4. /\ description' = description /\ windows' = windows /\ RamBytes' = RamBytes /\ ReservedBytes' = ReservedBytes
      /\ Grantable' = Grantable
  BY <1>1 DEF buildVars, RamBytes, ReservedBytes, Grantable
<1>5. written' \subseteq Grantable
  BY <1>1, <1>3 DEF ServedInv, WritesAreGranted
<1>6. ASSUME NEW a \in written'
      PROVE  (a - (a % StaSize)) .. (a - (a % StaSize) + StaSize - 1) \subseteq written'
  <2>1. CASE a \in written
    BY <1>1, <2>1 DEF ServedInv, WritesAreGranted
  <2>2. CASE a \in lo .. lo + StaSize - 1
    <3>1. a \in Nat /\ lo <= a /\ a < lo + StaSize
      BY <1>2, <2>2
    <3>2. a - (a % StaSize) = lo
      BY ONLY <1>1, <1>2, <3>1
    <3> QED BY <1>1, <3>2
  <2> QED BY <1>1, <2>1, <2>2
<1>7. WritesAreGranted'
  BY <1>4, <1>5, <1>6 DEF WritesAreGranted
<1>8. WindowsAreApart' /\ AreasAreGranted'
  BY <1>1, <1>4 DEF ServedInv, WindowsAreApart, AreasAreGranted
<1>9. RegistryInv'
  <2>1. windows' \in Seq(Ranges)
    BY <1>4 DEF RegistryInv, MemoryTypeOK
  <2> QED BY <1>1, <2>1, RegistryIsKept
<1> QED BY <1>1, <1>7, <1>8, <1>9 DEF ServedInv

\* set_shmem of MPXY keeps an area that is granted, for its own hart.
LEMMA MpxyStep ==
    ASSUME RegistryInv, ServedInv, registry.ok,
           NEW h \in ServiceHarts, NEW lo \in Addrs, NEW hi, NEW flags, SetMpxy(h, lo, hi, flags)
    PROVE  RegistryInv' /\ ServedInv'
<1>1. /\ UNCHANGED <<buildVars, windows, written, dbtr>>
      /\ \/ mpxy' = [mpxy EXCEPT ![h] = 0] /\ lastSet' = [lastSet EXCEPT ![h] = 0]
         \/ mpxy' = [mpxy EXCEPT ![h] = lo] /\ lastSet' = [lastSet EXCEPT ![h] = lo] /\ CheckAccess(lo, PageSize)
  BY DEF SetMpxy
<1>2. lo \in Nat /\ PageSize \in Nat
  BY MemoryAssumption DEF Addrs
<1>3. PICK x \in Nat : /\ mpxy' = [mpxy EXCEPT ![h] = x] /\ lastSet' = [lastSet EXCEPT ![h] = x]
                       /\ x # 0 => x .. x + PageSize - 1 \subseteq Grantable
  <2>1. CASE mpxy' = [mpxy EXCEPT ![h] = 0] /\ lastSet' = [lastSet EXCEPT ![h] = 0]
    BY <2>1
  <2>2. CASE mpxy' = [mpxy EXCEPT ![h] = lo] /\ lastSet' = [lastSet EXCEPT ![h] = lo] /\ CheckAccess(lo, PageSize)
    BY <1>2, <2>2, AccessIsExact
  <2> QED BY <1>1, <2>1, <2>2
<1>4. /\ description' = description /\ windows' = windows /\ RamBytes' = RamBytes /\ ReservedBytes' = ReservedBytes
      /\ Grantable' = Grantable
  BY <1>1 DEF buildVars, RamBytes, ReservedBytes, Grantable
<1>5. mpxy \in [ServiceHarts -> Nat] /\ lastSet = mpxy
  BY DEF ServedInv
<1>6. mpxy' \in [ServiceHarts -> Nat] /\ lastSet' = mpxy'
  BY <1>3, <1>5
<1>7. AreasAreGranted'
  <2>1. AreasAreGranted
    BY DEF ServedInv
  <2>2. \A g \in ServiceHarts : mpxy'[g] # 0 => mpxy'[g] .. mpxy'[g] + PageSize - 1 \subseteq Grantable
    BY <1>3, <1>5, <2>1 DEF AreasAreGranted
  <2> QED BY <1>1, <1>4, <2>1, <2>2 DEF AreasAreGranted
<1>8. WindowsAreApart' /\ WritesAreGranted'
  BY <1>1, <1>4 DEF ServedInv, WindowsAreApart, WritesAreGranted
<1>9. RegistryInv'
  <2>1. windows' \in Seq(Ranges)
    BY <1>4 DEF RegistryInv, MemoryTypeOK
  <2> QED BY <1>1, <2>1, RegistryIsKept
<1> QED BY <1>1, <1>6, <1>7, <1>8, <1>9 DEF ServedInv

\* set_shmem of DBTR keeps an area that is granted for every trigger.
LEMMA DbtrStep ==
    ASSUME RegistryInv, ServedInv, registry.ok,
           NEW lo \in Addrs, NEW hi, NEW flags, SetDbtr(lo, hi, flags)
    PROVE  RegistryInv' /\ ServedInv'
<1>1. /\ UNCHANGED <<buildVars, windows, written, mpxy, lastSet>>
      /\ \/ dbtr' = 0
         \/ dbtr' = lo /\ CheckAccess(lo, Triggers * TriggerSize)
  BY DEF SetDbtr
<1>2. lo \in Nat /\ Triggers * TriggerSize \in Nat
  BY MemoryAssumption DEF Addrs
<1>3. dbtr' \in Nat /\ (dbtr' # 0 => dbtr' .. dbtr' + Triggers * TriggerSize - 1 \subseteq Grantable)
  <2> DEFINE size == Triggers * TriggerSize
  <2>1. size \in Nat
    BY <1>2
  <2> HIDE DEF size
  <2>2. CheckAccess(lo, size) <=> lo .. lo + size - 1 \subseteq Grantable
    BY <1>2, <2>1, AccessIsExact
  <2> QED BY <1>1, <1>2, <2>2 DEF size
<1>4. /\ description' = description /\ windows' = windows /\ RamBytes' = RamBytes /\ ReservedBytes' = ReservedBytes
      /\ Grantable' = Grantable
  BY <1>1 DEF buildVars, RamBytes, ReservedBytes, Grantable
<1>5. AreasAreGranted'
  BY <1>1, <1>3, <1>4 DEF ServedInv, AreasAreGranted
<1>6. WindowsAreApart' /\ WritesAreGranted'
  BY <1>1, <1>4 DEF ServedInv, WindowsAreApart, WritesAreGranted
<1>7. RegistryInv'
  <2>1. windows' \in Seq(Ranges)
    BY <1>4 DEF RegistryInv, MemoryTypeOK
  <2> QED BY <1>1, <2>1, RegistryIsKept
<1> QED BY <1>1, <1>3, <1>5, <1>6, <1>7 DEF ServedInv

\* The registration and the services, together.
LEMMA MemoryInduction == MemorySpec => [](RegistryInv /\ ServedInv)
<1>1. MemoryInit => RegistryInv /\ ServedInv
  <2> SUFFICES ASSUME MemoryInit PROVE ServedInv
    BY RegistryInit
  <2>1. windows = <<>> /\ written = {} /\ dbtr = 0 /\ mpxy = [h \in ServiceHarts |-> 0] /\ lastSet = mpxy
    BY DEF MemoryInit
  <2>2. mpxy \in [ServiceHarts -> Nat] /\ \A h \in ServiceHarts : mpxy[h] = 0
    BY <2>1
  <2>3. DOMAIN windows = {}
    BY <2>1
  <2>4. WindowsAreApart
    BY <2>3 DEF WindowsAreApart
  <2>5. WritesAreGranted /\ AreasAreGranted
    BY <2>1, <2>2 DEF WritesAreGranted, AreasAreGranted
  <2> QED BY <2>1, <2>2, <2>4, <2>5 DEF ServedInv
<1>2. RegistryInv /\ ServedInv /\ [MemoryNext]_memoryVars => RegistryInv' /\ ServedInv'
  <2> SUFFICES ASSUME RegistryInv, ServedInv, [MemoryNext]_memoryVars PROVE RegistryInv' /\ ServedInv'
    OBVIOUS
  <2>1. ASSUME description' = description, UNCHANGED servedVars PROVE ServedInv'
    <3>1. /\ windows' = windows /\ written' = written /\ mpxy' = mpxy /\ dbtr' = dbtr /\ lastSet' = lastSet
          /\ RamBytes' = RamBytes /\ ReservedBytes' = ReservedBytes /\ Grantable' = Grantable
      BY <2>1 DEF servedVars, RamBytes, ReservedBytes, Grantable
    <3>2. WindowsAreApart' /\ WritesAreGranted' /\ AreasAreGranted'
      BY <3>1 DEF ServedInv, WindowsAreApart, WritesAreGranted, AreasAreGranted
    <3> QED BY <3>1, <3>2 DEF ServedInv
  <2>2. CASE NormalizeRam
    BY <2>1, <2>2, RamStep DEF NormalizeRam
  <2>3. CASE NormalizeReserved
    BY <2>1, <2>3, ReservedStep DEF NormalizeReserved
  <2>4. CASE NextBank
    BY <2>1, <2>4, BankStep DEF NextBank
  <2>5. CASE Exclude
    BY <2>1, <2>5, ExcludeStep DEF Exclude
  <2>6. CASE registry.ok /\ AcquireMmio
    BY <2>6, AcquireStep
  <2>7. CASE registry.ok /\ Serve
    <3>1. PICK lo \in Addrs, hi \in {0, MaxAddr}, flags \in {0, 1} :
            SetSta(lo, hi, flags) \/ SetDbtr(lo, hi, flags) \/ \E h \in ServiceHarts : SetMpxy(h, lo, hi, flags)
      BY <2>7 DEF Serve
    <3> QED BY <2>7, <3>1, StaStep, DbtrStep, MpxyStep
  <2>8. CASE UNCHANGED memoryVars
    <3>1. UNCHANGED buildVars /\ UNCHANGED servedVars /\ description' = description /\ windows' = windows
      BY <2>8 DEF memoryVars, buildVars, servedVars
    <3>2. windows' \in Seq(Ranges)
      BY <3>1 DEF RegistryInv, MemoryTypeOK
    <3> QED BY <2>1, <3>1, <3>2, RegistryIsKept
  <2> QED BY <2>2, <2>3, <2>4, <2>5, <2>6, <2>7, <2>8 DEF MemoryNext
<1> QED BY <1>1, <1>2, PTL DEF MemorySpec

-----------------------------------------------------------------------------
(* Protection. *)

\* No entry that ends at an address grants everything.
LEMMA NotEverything ==
    ASSUME NEW e, e.top \in Nat
    PROVE  e # Everything
<1>1. Everything.top = -1 /\ -1 \notin Nat
  BY DEF Everything
<1> QED BY <1>1

\* Entry n is the first of a table that matches an address.
Decides(es, a, n) ==
    /\ Len(es) \in Nat /\ n \in 2 .. Len(es)
    /\ \A j \in 2 .. n - 1 : es[j] # Everything /\ (es[j].perm = "off" \/ ~(es[j - 1].top <= a) \/ ~(a < es[j].top))
    /\ es[n] = Everything \/ (es[n].perm # "off" /\ es[n - 1].top <= a /\ a < es[n].top)

\* The first entry that matches decides.
LEMMA FirstHit ==
    ASSUME NEW b, NEW a \in Nat, NEW n, Decides(PmpEntries(b), a, n)
    PROVE  Permission(b, a) = PmpEntries(b)[n].perm
<1> DEFINE es == PmpEntries(b)
<1>0. /\ Len(es) \in Nat /\ n \in 2 .. Len(es)
      /\ \A j \in 2 .. n - 1 : es[j] # Everything /\ (es[j].perm = "off" \/ ~(es[j - 1].top <= a) \/ ~(a < es[j].top))
      /\ es[n] = Everything \/ (es[n].perm # "off" /\ es[n - 1].top <= a /\ a < es[n].top)
  BY DEF Decides
<1> DEFINE hits == {i \in 2 .. Len(es) :
                    es[i] = Everything \/ (es[i].perm # "off" /\ es[i - 1].top <= a /\ a < es[i].top)}
           first == CHOOSE i \in hits : \A j \in hits : i <= j
<1>1. Permission(b, a) = IF hits = {} THEN "none" ELSE es[first].perm
  BY DEF Permission
<1>2. n \in hits
  BY <1>0
<1>3. \A j \in hits : j \in Nat /\ n <= j
  <2> SUFFICES ASSUME NEW j \in hits, ~(n <= j) PROVE FALSE
    BY <1>0
  <2>1. j \in 2 .. n - 1
    BY <1>0
  <2> QED BY <1>0, <2>1
<1> HIDE DEF hits, es
<1>4. first \in hits /\ \A j \in hits : first <= j
  BY <1>2, <1>3
<1> HIDE DEF first
<1>5. first = n
  BY <1>2, <1>3, <1>4
<1> QED BY <1>1, <1>2, <1>5 DEF es

\* Where the entries before one end at or below the address, and it has the
\* address, it decides.
LEMMA RangeDecides ==
    ASSUME NEW es, NEW a \in Nat, Len(es) \in Nat, NEW n \in 2 .. Len(es),
           \A j \in 1 .. n - 1 : es[j].top \in Nat /\ es[j].top <= a,
           es[n].perm # "off", a < es[n].top
    PROVE  Decides(es, a, n)
<1>1. ASSUME NEW j \in 2 .. n - 1 PROVE es[j] # Everything /\ ~(a < es[j].top)
  <2>1. j \in 1 .. n - 1
    OBVIOUS
  <2>2. es[j].top \in Nat /\ es[j].top <= a
    BY <2>1
  <2> QED BY <2>2, NotEverything
<1>2. es[n - 1].top <= a
  OBVIOUS
<1> QED BY <1>1, <1>2 DEF Decides

\* What the entries say of an address where there is no alias.
LEMMA PlainPermission ==
    ASSUME NEW b \in Descriptions, b.controllers = <<>>, b.alias = 0, NEW a \in Nat
    PROVE  /\ a < b.ramRange[1] => Permission(b, a) = "rwx"
           /\ b.ramRange[1] <= a /\ a < b.firmware[1] => Permission(b, a) = "rwx"
           /\ b.firmware[1] <= a /\ a < b.rodata[1] => Permission(b, a) = "r"
           /\ b.rodata[1] <= a /\ a < b.rodata[2] => Permission(b, a) = "none"
           /\ b.rodata[2] <= a /\ a < b.firmware[2] => Permission(b, a) = "rw"
           /\ b.firmware[2] <= a /\ a < b.ramRange[2] => Permission(b, a) = "rwx"
           /\ b.ramRange[2] <= a /\ a < MaxAddr => Permission(b, a) = "rwx"
<1> DEFINE es == PmpEntries(b)
           t2 == b.ramRange[1]
           t3 == b.firmware[1]
           t4 == b.rodata[1]
           t5 == b.rodata[2]
           t6 == b.firmware[2]
           t7 == b.ramRange[2]
           t8 == MaxAddr
<1>1. /\ t2 \in Nat /\ t3 \in Nat /\ t4 \in Nat /\ t5 \in Nat /\ t6 \in Nat /\ t7 \in Nat /\ MaxAddr \in Nat
      /\ t2 <= t3 /\ t3 <= t4 /\ t4 <= t5 /\ t5 <= t6 /\ t6 <= t7 /\ t7 <= MaxAddr /\ t8 = MaxAddr
  <2>1. /\ b.firmware \in Ranges /\ b.rodata \in Ranges /\ b.ramRange \in Ranges /\ MaxAddr \in Nat
      /\ b.ramRange[1] <= b.firmware[1] /\ b.firmware[1] <= b.rodata[1]
      /\ b.rodata[2] <= b.firmware[2] /\ b.firmware[2] <= b.ramRange[2]
    BY MemoryAssumption, LayoutAssumption
  <2>2. \A r \in Ranges : r[1] \in Nat /\ r[2] \in Nat /\ r[1] <= r[2] /\ r[2] <= MaxAddr
    BY RangeFacts
  <2> QED BY <2>1, <2>2
<1>2. es = <<Tor(0, "off"), Tor(t2, "rwx"), Tor(t3, "rwx"), Tor(t4, "r"), Tor(t5, "none"), Tor(t6, "rw"), Tor(t7, "rwx"), Tor(t8, "rwx")>>
  BY DEF PmpEntries, PlainEntries
<1> HIDE DEF es, t2, t3, t4, t5, t6, t7, t8
<1>3. Len(es) = 8 /\ es[1].top = 0 /\ es[2].top = t2 /\ es[3].top = t3 /\ es[4].top = t4 /\ es[5].top = t5 /\ es[6].top = t6 /\ es[7].top = t7 /\ es[8].top = t8
  BY <1>1, <1>2 DEF Tor
<1>4. es[1].perm = "off" /\ es[2].perm = "rwx" /\ es[3].perm = "rwx" /\ es[4].perm = "r" /\ es[5].perm = "none" /\ es[6].perm = "rw" /\ es[7].perm = "rwx" /\ es[8].perm = "rwx"
  BY <1>1, <1>2 DEF Tor, Everything
<1>5. a \in Nat /\ Len(es) \in Nat
  BY <1>3
<1>6. ASSUME a < t2 PROVE Permission(b, a) = "rwx"
  <2>1. \A j \in 1 .. 2 - 1 : es[j].top \in Nat /\ es[j].top <= a
    BY ONLY <1>1, <1>3, <1>5, <1>6
  <2>2. 2 \in 2 .. Len(es) /\ es[2].perm # "off" /\ a < es[2].top
    BY ONLY <1>3, <1>4, <1>6
  <2>3. Decides(es, a, 2)
    BY <1>5, <2>1, <2>2, RangeDecides
  <2> QED BY <1>4, <2>3, FirstHit DEF es
<1>7. ASSUME t2 <= a /\ a < t3 PROVE Permission(b, a) = "rwx"
  <2>1. \A j \in 1 .. 3 - 1 : es[j].top \in Nat /\ es[j].top <= a
    BY ONLY <1>1, <1>3, <1>5, <1>7
  <2>2. 3 \in 2 .. Len(es) /\ es[3].perm # "off" /\ a < es[3].top
    BY ONLY <1>3, <1>4, <1>7
  <2>3. Decides(es, a, 3)
    BY <1>5, <2>1, <2>2, RangeDecides
  <2> QED BY <1>4, <2>3, FirstHit DEF es
<1>8. ASSUME t3 <= a /\ a < t4 PROVE Permission(b, a) = "r"
  <2>1. \A j \in 1 .. 4 - 1 : es[j].top \in Nat /\ es[j].top <= a
    BY ONLY <1>1, <1>3, <1>5, <1>8
  <2>2. 4 \in 2 .. Len(es) /\ es[4].perm # "off" /\ a < es[4].top
    BY ONLY <1>3, <1>4, <1>8
  <2>3. Decides(es, a, 4)
    BY <1>5, <2>1, <2>2, RangeDecides
  <2> QED BY <1>4, <2>3, FirstHit DEF es
<1>9. ASSUME t4 <= a /\ a < t5 PROVE Permission(b, a) = "none"
  <2>1. \A j \in 1 .. 5 - 1 : es[j].top \in Nat /\ es[j].top <= a
    BY ONLY <1>1, <1>3, <1>5, <1>9
  <2>2. 5 \in 2 .. Len(es) /\ es[5].perm # "off" /\ a < es[5].top
    BY ONLY <1>3, <1>4, <1>9
  <2>3. Decides(es, a, 5)
    BY <1>5, <2>1, <2>2, RangeDecides
  <2> QED BY <1>4, <2>3, FirstHit DEF es
<1>10. ASSUME t5 <= a /\ a < t6 PROVE Permission(b, a) = "rw"
  <2>1. \A j \in 1 .. 6 - 1 : es[j].top \in Nat /\ es[j].top <= a
    BY ONLY <1>1, <1>3, <1>5, <1>10
  <2>2. 6 \in 2 .. Len(es) /\ es[6].perm # "off" /\ a < es[6].top
    BY ONLY <1>3, <1>4, <1>10
  <2>3. Decides(es, a, 6)
    BY <1>5, <2>1, <2>2, RangeDecides
  <2> QED BY <1>4, <2>3, FirstHit DEF es
<1>11. ASSUME t6 <= a /\ a < t7 PROVE Permission(b, a) = "rwx"
  <2>1. \A j \in 1 .. 7 - 1 : es[j].top \in Nat /\ es[j].top <= a
    BY ONLY <1>1, <1>3, <1>5, <1>11
  <2>2. 7 \in 2 .. Len(es) /\ es[7].perm # "off" /\ a < es[7].top
    BY ONLY <1>3, <1>4, <1>11
  <2>3. Decides(es, a, 7)
    BY <1>5, <2>1, <2>2, RangeDecides
  <2> QED BY <1>4, <2>3, FirstHit DEF es
<1>12. ASSUME t7 <= a /\ a < t8 PROVE Permission(b, a) = "rwx"
  <2>1. \A j \in 1 .. 8 - 1 : es[j].top \in Nat /\ es[j].top <= a
    BY ONLY <1>1, <1>3, <1>5, <1>12
  <2>2. 8 \in 2 .. Len(es) /\ es[8].perm # "off" /\ a < es[8].top
    BY ONLY <1>3, <1>4, <1>12
  <2>3. Decides(es, a, 8)
    BY <1>5, <2>1, <2>2, RangeDecides
  <2> QED BY <1>4, <2>3, FirstHit DEF es
<1> QED BY <1>6, <1>7, <1>8, <1>9, <1>10, <1>11, <1>12 DEF t2, t3, t4, t5, t6, t7, t8

\* What the entries say of an address where RAM has an alias.
LEMMA AliasPermission ==
    ASSUME NEW b \in Descriptions, b.controllers = <<>>, b.alias # 0, NEW a \in Nat
    PROVE  /\ a < b.ramRange[1] => Permission(b, a) = "rwx"
           /\ b.ramRange[1] <= a /\ a < b.firmware[1] => Permission(b, a) = "rwx"
           /\ b.firmware[1] <= a /\ a < b.rodata[1] => Permission(b, a) = "r"
           /\ b.rodata[1] <= a /\ a < b.rodata[2] => Permission(b, a) = "none"
           /\ b.rodata[2] <= a /\ a < b.firmware[2] => Permission(b, a) = "rw"
           /\ b.firmware[2] <= a /\ a < b.ramRange[2] => Permission(b, a) = "rwx"
           /\ b.ramRange[2] <= a /\ a < b.firmware[1] + b.alias => Permission(b, a) = "rwx"
           /\ b.firmware[1] + b.alias <= a /\ a < b.firmware[2] + b.alias => Permission(b, a) = "none"
           /\ b.firmware[2] + b.alias <= a => Permission(b, a) = "rwx"
<1> DEFINE es == PmpEntries(b)
           t2 == b.ramRange[1]
           t3 == b.firmware[1]
           t4 == b.rodata[1]
           t5 == b.rodata[2]
           t6 == b.firmware[2]
           t7 == b.ramRange[2]
           t8 == b.firmware[1] + b.alias
           t9 == b.firmware[2] + b.alias
<1>1. /\ t2 \in Nat /\ t3 \in Nat /\ t4 \in Nat /\ t5 \in Nat /\ t6 \in Nat /\ t7 \in Nat /\ MaxAddr \in Nat
      /\ t2 <= t3 /\ t3 <= t4 /\ t4 <= t5 /\ t5 <= t6 /\ t6 <= t7 /\ t7 <= MaxAddr /\ t8 \in Nat /\ t9 \in Nat /\ t7 <= t8 /\ t8 <= t9
  <2>1. /\ b.firmware \in Ranges /\ b.rodata \in Ranges /\ b.ramRange \in Ranges /\ MaxAddr \in Nat
      /\ b.ramRange[1] <= b.firmware[1] /\ b.firmware[1] <= b.rodata[1]
      /\ b.rodata[2] <= b.firmware[2] /\ b.firmware[2] <= b.ramRange[2] /\ b.alias \in Nat /\ b.ramRange[2] <= b.alias
    BY MemoryAssumption, LayoutAssumption
  <2>2. \A r \in Ranges : r[1] \in Nat /\ r[2] \in Nat /\ r[1] <= r[2] /\ r[2] <= MaxAddr
    BY RangeFacts
  <2> QED BY <2>1, <2>2, SMTT(30)
<1>2. es = <<Tor(0, "off"), Tor(t2, "rwx"), Tor(t3, "rwx"), Tor(t4, "r"), Tor(t5, "none"), Tor(t6, "rw"), Tor(t7, "rwx"), Tor(t8, "off"), Tor(t9, "none"), Everything>>
  BY DEF PmpEntries, AliasEntries
<1> HIDE DEF es, t2, t3, t4, t5, t6, t7, t8, t9
<1>3. Len(es) = 10 /\ es[1].top = 0 /\ es[2].top = t2 /\ es[3].top = t3 /\ es[4].top = t4 /\ es[5].top = t5 /\ es[6].top = t6 /\ es[7].top = t7 /\ es[8].top = t8 /\ es[9].top = t9 /\ es[10] = Everything
  BY <1>1, <1>2 DEF Tor
<1>4. es[1].perm = "off" /\ es[2].perm = "rwx" /\ es[3].perm = "rwx" /\ es[4].perm = "r" /\ es[5].perm = "none" /\ es[6].perm = "rw" /\ es[7].perm = "rwx" /\ es[8].perm = "off" /\ es[9].perm = "none" /\ es[10].perm = "rwx"
  BY <1>1, <1>2 DEF Tor, Everything
<1>5. a \in Nat /\ Len(es) \in Nat
  BY <1>3
<1>6. ASSUME a < t2 PROVE Permission(b, a) = "rwx"
  <2>1. \A j \in 1 .. 2 - 1 : es[j].top \in Nat /\ es[j].top <= a
    BY ONLY <1>1, <1>3, <1>5, <1>6
  <2>2. 2 \in 2 .. Len(es) /\ es[2].perm # "off" /\ a < es[2].top
    BY ONLY <1>3, <1>4, <1>6
  <2>3. Decides(es, a, 2)
    BY <1>5, <2>1, <2>2, RangeDecides
  <2> QED BY <1>4, <2>3, FirstHit DEF es
<1>7. ASSUME t2 <= a /\ a < t3 PROVE Permission(b, a) = "rwx"
  <2>1. \A j \in 1 .. 3 - 1 : es[j].top \in Nat /\ es[j].top <= a
    BY ONLY <1>1, <1>3, <1>5, <1>7
  <2>2. 3 \in 2 .. Len(es) /\ es[3].perm # "off" /\ a < es[3].top
    BY ONLY <1>3, <1>4, <1>7
  <2>3. Decides(es, a, 3)
    BY <1>5, <2>1, <2>2, RangeDecides
  <2> QED BY <1>4, <2>3, FirstHit DEF es
<1>8. ASSUME t3 <= a /\ a < t4 PROVE Permission(b, a) = "r"
  <2>1. \A j \in 1 .. 4 - 1 : es[j].top \in Nat /\ es[j].top <= a
    BY ONLY <1>1, <1>3, <1>5, <1>8
  <2>2. 4 \in 2 .. Len(es) /\ es[4].perm # "off" /\ a < es[4].top
    BY ONLY <1>3, <1>4, <1>8
  <2>3. Decides(es, a, 4)
    BY <1>5, <2>1, <2>2, RangeDecides
  <2> QED BY <1>4, <2>3, FirstHit DEF es
<1>9. ASSUME t4 <= a /\ a < t5 PROVE Permission(b, a) = "none"
  <2>1. \A j \in 1 .. 5 - 1 : es[j].top \in Nat /\ es[j].top <= a
    BY ONLY <1>1, <1>3, <1>5, <1>9
  <2>2. 5 \in 2 .. Len(es) /\ es[5].perm # "off" /\ a < es[5].top
    BY ONLY <1>3, <1>4, <1>9
  <2>3. Decides(es, a, 5)
    BY <1>5, <2>1, <2>2, RangeDecides
  <2> QED BY <1>4, <2>3, FirstHit DEF es
<1>10. ASSUME t5 <= a /\ a < t6 PROVE Permission(b, a) = "rw"
  <2>1. \A j \in 1 .. 6 - 1 : es[j].top \in Nat /\ es[j].top <= a
    BY ONLY <1>1, <1>3, <1>5, <1>10
  <2>2. 6 \in 2 .. Len(es) /\ es[6].perm # "off" /\ a < es[6].top
    BY ONLY <1>3, <1>4, <1>10
  <2>3. Decides(es, a, 6)
    BY <1>5, <2>1, <2>2, RangeDecides
  <2> QED BY <1>4, <2>3, FirstHit DEF es
<1>11. ASSUME t6 <= a /\ a < t7 PROVE Permission(b, a) = "rwx"
  <2>1. \A j \in 1 .. 7 - 1 : es[j].top \in Nat /\ es[j].top <= a
    BY ONLY <1>1, <1>3, <1>5, <1>11
  <2>2. 7 \in 2 .. Len(es) /\ es[7].perm # "off" /\ a < es[7].top
    BY ONLY <1>3, <1>4, <1>11
  <2>3. Decides(es, a, 7)
    BY <1>5, <2>1, <2>2, RangeDecides
  <2> QED BY <1>4, <2>3, FirstHit DEF es
<1>12. ASSUME t7 <= a /\ a < t8 PROVE Permission(b, a) = "rwx"
  <2>1. \A j \in 1 .. 9 : es[j].top \in Nat /\ (j <= 7 => es[j].top <= a) /\ (j = 8 => es[j].perm = "off") /\ (j = 9 => ~(es[j - 1].top <= a))
    BY ONLY <1>1, <1>3, <1>4, <1>5, <1>12
  <2>2. \A j \in 2 .. 10 - 1 : j \in 1 .. 9 /\ (j <= 7 \/ j = 8 \/ j = 9)
    OBVIOUS
  <2>3. \A j \in 1 .. 9 : es[j] # Everything
    BY <2>1, NotEverything
  <2>4. ASSUME NEW j \in 2 .. 10 - 1 PROVE es[j] # Everything /\ (es[j].perm = "off" \/ ~(es[j - 1].top <= a) \/ ~(a < es[j].top))
    <3>1. j \in 1 .. 9
      BY <2>2
    <3>2. es[j] # Everything
      BY <2>3, <3>1
    <3>3. es[j].top \in Nat /\ (j <= 7 => es[j].top <= a) /\ (j = 8 => es[j].perm = "off") /\ (j = 9 => ~(es[j - 1].top <= a))
      BY <2>1, <3>1
    <3>4. es[j].perm = "off" \/ ~(es[j - 1].top <= a) \/ ~(a < es[j].top)
      BY ONLY <1>5, <2>2, <3>3
    <3> QED BY <3>2, <3>4
  <2>5. Decides(es, a, 10)
    BY <1>3, <2>4 DEF Decides
  <2> QED BY <1>4, <2>5, FirstHit DEF es
<1>13. ASSUME t8 <= a /\ a < t9 PROVE Permission(b, a) = "none"
  <2>1. \A j \in 1 .. 9 - 1 : es[j].top \in Nat /\ es[j].top <= a
    BY ONLY <1>1, <1>3, <1>5, <1>13
  <2>2. 9 \in 2 .. Len(es) /\ es[9].perm # "off" /\ a < es[9].top
    BY ONLY <1>3, <1>4, <1>13
  <2>3. Decides(es, a, 9)
    BY <1>5, <2>1, <2>2, RangeDecides
  <2> QED BY <1>4, <2>3, FirstHit DEF es
<1>14. ASSUME t9 <= a PROVE Permission(b, a) = "rwx"
  <2>1. \A j \in 1 .. 9 : es[j].top \in Nat /\ es[j].top <= a
    BY ONLY <1>1, <1>3, <1>5, <1>14
  <2>2. \A j \in 2 .. 10 - 1 : j \in 1 .. 9
    OBVIOUS
  <2>3. \A j \in 1 .. 9 : es[j] # Everything
    BY <2>1, NotEverything
  <2>4. ASSUME NEW j \in 2 .. 10 - 1 PROVE es[j] # Everything /\ ~(a < es[j].top)
    <3>1. j \in 1 .. 9
      BY <2>2
    <3>2. es[j] # Everything
      BY <2>3, <3>1
    <3>3. es[j].top \in Nat /\ es[j].top <= a
      BY <2>1, <3>1
    <3> QED BY <1>5, <3>2, <3>3
  <2>5. Decides(es, a, 10)
    BY <1>3, <2>4 DEF Decides
  <2> QED BY <1>4, <2>5, FirstHit DEF es
<1> QED BY <1>6, <1>7, <1>8, <1>9, <1>10, <1>11, <1>12, <1>13, <1>14 DEF t2, t3, t4, t5, t6, t7, t8, t9

\* What the entries say of an address where machine-level controllers are kept.
LEMMA ImsicPermission ==
    ASSUME NEW b \in Descriptions, b.controllers # <<>>, NEW a \in Nat
    PROVE  /\ a < b.controllers[1][1] => Permission(b, a) = "rwx"
           /\ b.controllers[1][1] <= a /\ a < b.controllers[1][2] => Permission(b, a) = "none"
           /\ b.controllers[1][2] <= a /\ a < b.controllers[2][1] => Permission(b, a) = "rwx"
           /\ b.controllers[2][1] <= a /\ a < b.controllers[2][2] => Permission(b, a) = "none"
           /\ b.controllers[2][2] <= a /\ a < b.controllers[3][1] => Permission(b, a) = "rwx"
           /\ b.controllers[3][1] <= a /\ a < b.controllers[3][2] => Permission(b, a) = "none"
           /\ b.controllers[3][2] <= a /\ a < b.ramRange[1] => Permission(b, a) = "rwx"
           /\ b.ramRange[1] <= a /\ a < b.firmware[1] => Permission(b, a) = "rwx"
           /\ b.firmware[1] <= a /\ a < b.rodata[1] => Permission(b, a) = "r"
           /\ b.rodata[1] <= a /\ a < b.rodata[2] => Permission(b, a) = "none"
           /\ b.rodata[2] <= a /\ a < b.firmware[2] => Permission(b, a) = "rw"
           /\ b.firmware[2] <= a /\ a < b.ramRange[2] => Permission(b, a) = "rwx"
           /\ b.ramRange[2] <= a /\ a < MaxAddr => Permission(b, a) = "rwx"
<1> DEFINE es == PmpEntries(b)
           t2 == b.controllers[1][1]
           t3 == b.controllers[1][2]
           t4 == b.controllers[2][1]
           t5 == b.controllers[2][2]
           t6 == b.controllers[3][1]
           t7 == b.controllers[3][2]
           t8 == b.ramRange[1]
           t9 == b.firmware[1]
           t10 == b.rodata[1]
           t11 == b.rodata[2]
           t12 == b.firmware[2]
           t13 == b.ramRange[2]
           t14 == MaxAddr
<1>1. /\ t8 \in Nat /\ t9 \in Nat /\ t10 \in Nat /\ t11 \in Nat /\ t12 \in Nat /\ t13 \in Nat /\ MaxAddr \in Nat
      /\ t8 <= t9 /\ t9 <= t10 /\ t10 <= t11 /\ t11 <= t12 /\ t12 <= t13 /\ t13 <= MaxAddr
      /\ t2 \in Nat /\ t3 \in Nat /\ t4 \in Nat /\ t5 \in Nat /\ t6 \in Nat /\ t7 \in Nat /\ t14 = MaxAddr
      /\ t2 <= t3 /\ t3 <= t4 /\ t4 <= t5 /\ t5 <= t6 /\ t6 <= t7 /\ t7 <= t8
  <2>1. /\ b.firmware \in Ranges /\ b.rodata \in Ranges /\ b.ramRange \in Ranges /\ MaxAddr \in Nat
      /\ b.ramRange[1] <= b.firmware[1] /\ b.firmware[1] <= b.rodata[1]
      /\ b.rodata[2] <= b.firmware[2] /\ b.firmware[2] <= b.ramRange[2]
        /\ b.controllers[1] \in Ranges /\ b.controllers[2] \in Ranges /\ b.controllers[3] \in Ranges
        /\ b.controllers[1][2] <= b.controllers[2][1] /\ b.controllers[2][2] <= b.controllers[3][1] /\ b.controllers[3][2] <= b.ramRange[1]
    BY MemoryAssumption, LayoutAssumption
  <2>2. \A r \in Ranges : r[1] \in Nat /\ r[2] \in Nat /\ r[1] <= r[2] /\ r[2] <= MaxAddr
    BY RangeFacts
  <2> QED BY <2>1, <2>2
<1>2. es = <<Tor(0, "off"), Tor(t2, "rwx"), Tor(t3, "none"), Tor(t4, "rwx"), Tor(t5, "none"), Tor(t6, "rwx"), Tor(t7, "none"), Tor(t8, "rwx"), Tor(t9, "rwx"), Tor(t10, "r"), Tor(t11, "none"), Tor(t12, "rw"), Tor(t13, "rwx"), Tor(t14, "rwx")>>
  BY DEF PmpEntries, ImsicEntries
<1> HIDE DEF es, t2, t3, t4, t5, t6, t7, t8, t9, t10, t11, t12, t13, t14
<1>3. Len(es) = 14 /\ es[1].top = 0 /\ es[2].top = t2 /\ es[3].top = t3 /\ es[4].top = t4 /\ es[5].top = t5 /\ es[6].top = t6 /\ es[7].top = t7 /\ es[8].top = t8 /\ es[9].top = t9 /\ es[10].top = t10 /\ es[11].top = t11 /\ es[12].top = t12 /\ es[13].top = t13 /\ es[14].top = t14
  BY <1>1, <1>2 DEF Tor
<1>4. es[1].perm = "off" /\ es[2].perm = "rwx" /\ es[3].perm = "none" /\ es[4].perm = "rwx" /\ es[5].perm = "none" /\ es[6].perm = "rwx" /\ es[7].perm = "none" /\ es[8].perm = "rwx" /\ es[9].perm = "rwx" /\ es[10].perm = "r" /\ es[11].perm = "none" /\ es[12].perm = "rw" /\ es[13].perm = "rwx" /\ es[14].perm = "rwx"
  BY <1>1, <1>2 DEF Tor, Everything
<1>5. a \in Nat /\ Len(es) \in Nat
  BY <1>3
<1>6. ASSUME a < t2 PROVE Permission(b, a) = "rwx"
  <2>1. \A j \in 1 .. 2 - 1 : es[j].top \in Nat /\ es[j].top <= a
    BY ONLY <1>1, <1>3, <1>5, <1>6
  <2>2. 2 \in 2 .. Len(es) /\ es[2].perm # "off" /\ a < es[2].top
    BY ONLY <1>3, <1>4, <1>6
  <2>3. Decides(es, a, 2)
    BY <1>5, <2>1, <2>2, RangeDecides
  <2> QED BY <1>4, <2>3, FirstHit DEF es
<1>7. ASSUME t2 <= a /\ a < t3 PROVE Permission(b, a) = "none"
  <2>1. \A j \in 1 .. 3 - 1 : es[j].top \in Nat /\ es[j].top <= a
    BY ONLY <1>1, <1>3, <1>5, <1>7
  <2>2. 3 \in 2 .. Len(es) /\ es[3].perm # "off" /\ a < es[3].top
    BY ONLY <1>3, <1>4, <1>7
  <2>3. Decides(es, a, 3)
    BY <1>5, <2>1, <2>2, RangeDecides
  <2> QED BY <1>4, <2>3, FirstHit DEF es
<1>8. ASSUME t3 <= a /\ a < t4 PROVE Permission(b, a) = "rwx"
  <2>1. \A j \in 1 .. 4 - 1 : es[j].top \in Nat /\ es[j].top <= a
    BY ONLY <1>1, <1>3, <1>5, <1>8
  <2>2. 4 \in 2 .. Len(es) /\ es[4].perm # "off" /\ a < es[4].top
    BY ONLY <1>3, <1>4, <1>8
  <2>3. Decides(es, a, 4)
    BY <1>5, <2>1, <2>2, RangeDecides
  <2> QED BY <1>4, <2>3, FirstHit DEF es
<1>9. ASSUME t4 <= a /\ a < t5 PROVE Permission(b, a) = "none"
  <2>1. \A j \in 1 .. 5 - 1 : es[j].top \in Nat /\ es[j].top <= a
    BY ONLY <1>1, <1>3, <1>5, <1>9
  <2>2. 5 \in 2 .. Len(es) /\ es[5].perm # "off" /\ a < es[5].top
    BY ONLY <1>3, <1>4, <1>9
  <2>3. Decides(es, a, 5)
    BY <1>5, <2>1, <2>2, RangeDecides
  <2> QED BY <1>4, <2>3, FirstHit DEF es
<1>10. ASSUME t5 <= a /\ a < t6 PROVE Permission(b, a) = "rwx"
  <2>1. \A j \in 1 .. 6 - 1 : es[j].top \in Nat /\ es[j].top <= a
    BY ONLY <1>1, <1>3, <1>5, <1>10
  <2>2. 6 \in 2 .. Len(es) /\ es[6].perm # "off" /\ a < es[6].top
    BY ONLY <1>3, <1>4, <1>10
  <2>3. Decides(es, a, 6)
    BY <1>5, <2>1, <2>2, RangeDecides
  <2> QED BY <1>4, <2>3, FirstHit DEF es
<1>11. ASSUME t6 <= a /\ a < t7 PROVE Permission(b, a) = "none"
  <2>1. \A j \in 1 .. 7 - 1 : es[j].top \in Nat /\ es[j].top <= a
    BY ONLY <1>1, <1>3, <1>5, <1>11
  <2>2. 7 \in 2 .. Len(es) /\ es[7].perm # "off" /\ a < es[7].top
    BY ONLY <1>3, <1>4, <1>11
  <2>3. Decides(es, a, 7)
    BY <1>5, <2>1, <2>2, RangeDecides
  <2> QED BY <1>4, <2>3, FirstHit DEF es
<1>12. ASSUME t7 <= a /\ a < t8 PROVE Permission(b, a) = "rwx"
  <2>1. \A j \in 1 .. 8 - 1 : es[j].top \in Nat /\ es[j].top <= a
    BY ONLY <1>1, <1>3, <1>5, <1>12
  <2>2. 8 \in 2 .. Len(es) /\ es[8].perm # "off" /\ a < es[8].top
    BY ONLY <1>3, <1>4, <1>12
  <2>3. Decides(es, a, 8)
    BY <1>5, <2>1, <2>2, RangeDecides
  <2> QED BY <1>4, <2>3, FirstHit DEF es
<1>13. ASSUME t8 <= a /\ a < t9 PROVE Permission(b, a) = "rwx"
  <2>1. \A j \in 1 .. 9 - 1 : es[j].top \in Nat /\ es[j].top <= a
    BY ONLY <1>1, <1>3, <1>5, <1>13
  <2>2. 9 \in 2 .. Len(es) /\ es[9].perm # "off" /\ a < es[9].top
    BY ONLY <1>3, <1>4, <1>13
  <2>3. Decides(es, a, 9)
    BY <1>5, <2>1, <2>2, RangeDecides
  <2> QED BY <1>4, <2>3, FirstHit DEF es
<1>14. ASSUME t9 <= a /\ a < t10 PROVE Permission(b, a) = "r"
  <2>1. \A j \in 1 .. 10 - 1 : es[j].top \in Nat /\ es[j].top <= a
    BY ONLY <1>1, <1>3, <1>5, <1>14
  <2>2. 10 \in 2 .. Len(es) /\ es[10].perm # "off" /\ a < es[10].top
    BY ONLY <1>3, <1>4, <1>14
  <2>3. Decides(es, a, 10)
    BY <1>5, <2>1, <2>2, RangeDecides
  <2> QED BY <1>4, <2>3, FirstHit DEF es
<1>15. ASSUME t10 <= a /\ a < t11 PROVE Permission(b, a) = "none"
  <2>1. \A j \in 1 .. 11 - 1 : es[j].top \in Nat /\ es[j].top <= a
    BY ONLY <1>1, <1>3, <1>5, <1>15
  <2>2. 11 \in 2 .. Len(es) /\ es[11].perm # "off" /\ a < es[11].top
    BY ONLY <1>3, <1>4, <1>15
  <2>3. Decides(es, a, 11)
    BY <1>5, <2>1, <2>2, RangeDecides
  <2> QED BY <1>4, <2>3, FirstHit DEF es
<1>16. ASSUME t11 <= a /\ a < t12 PROVE Permission(b, a) = "rw"
  <2>1. \A j \in 1 .. 12 - 1 : es[j].top \in Nat /\ es[j].top <= a
    BY ONLY <1>1, <1>3, <1>5, <1>16
  <2>2. 12 \in 2 .. Len(es) /\ es[12].perm # "off" /\ a < es[12].top
    BY ONLY <1>3, <1>4, <1>16
  <2>3. Decides(es, a, 12)
    BY <1>5, <2>1, <2>2, RangeDecides
  <2> QED BY <1>4, <2>3, FirstHit DEF es
<1>17. ASSUME t12 <= a /\ a < t13 PROVE Permission(b, a) = "rwx"
  <2>1. \A j \in 1 .. 13 - 1 : es[j].top \in Nat /\ es[j].top <= a
    BY ONLY <1>1, <1>3, <1>5, <1>17
  <2>2. 13 \in 2 .. Len(es) /\ es[13].perm # "off" /\ a < es[13].top
    BY ONLY <1>3, <1>4, <1>17
  <2>3. Decides(es, a, 13)
    BY <1>5, <2>1, <2>2, RangeDecides
  <2> QED BY <1>4, <2>3, FirstHit DEF es
<1>18. ASSUME t13 <= a /\ a < t14 PROVE Permission(b, a) = "rwx"
  <2>1. \A j \in 1 .. 14 - 1 : es[j].top \in Nat /\ es[j].top <= a
    BY ONLY <1>1, <1>3, <1>5, <1>18
  <2>2. 14 \in 2 .. Len(es) /\ es[14].perm # "off" /\ a < es[14].top
    BY ONLY <1>3, <1>4, <1>18
  <2>3. Decides(es, a, 14)
    BY <1>5, <2>1, <2>2, RangeDecides
  <2> QED BY <1>4, <2>3, FirstHit DEF es
<1> QED BY <1>6, <1>7, <1>8, <1>9, <1>10, <1>11, <1>12, <1>13, <1>14, <1>15, <1>16, <1>17, <1>18 DEF t2, t3, t4, t5, t6, t7, t8, t9, t10, t11, t12, t13, t14

\* What the entries say of the firmware, its alias, the controllers, and the rest.
LEMMA EntriesProtect ==
    ASSUME NEW b \in Descriptions, NEW a \in Nat
    PROVE  /\ b.firmware[1] <= a /\ a < b.rodata[1] => Permission(b, a) = "r"
           /\ b.rodata[1] <= a /\ a < b.rodata[2] => Permission(b, a) = "none"
           /\ b.rodata[2] <= a /\ a < b.firmware[2] => Permission(b, a) = "rw"
           /\ a \in BytesOf(b.controllers) => Permission(b, a) = "none"
           /\ b.alias # 0 /\ b.firmware[1] + b.alias <= a /\ a < b.firmware[2] + b.alias => Permission(b, a) = "none"
           /\ a < MaxAddr /\ ~(b.firmware[1] <= a /\ a < b.firmware[2]) /\ a \notin BytesOf(b.controllers)
              /\ ~(b.alias # 0 /\ b.firmware[1] + b.alias <= a /\ a < b.firmware[2] + b.alias) => Permission(b, a) = "rwx"
<1>1. /\ b.ramRange[1] \in Nat /\ b.ramRange[2] \in Nat /\ b.firmware[1] \in Nat /\ b.firmware[2] \in Nat
      /\ b.rodata[1] \in Nat /\ b.rodata[2] \in Nat /\ MaxAddr \in Nat /\ b.alias \in Nat
  <2>1. b.ramRange \in Ranges /\ b.firmware \in Ranges /\ b.rodata \in Ranges /\ MaxAddr \in Nat /\ b.alias \in Nat
    BY MemoryAssumption, LayoutAssumption
  <2> QED BY <2>1, RangeFacts
<1>2. CASE b.controllers = <<>> /\ b.alias = 0
  <2>1. BytesOf(b.controllers) = {}
    BY <1>2 DEF BytesOf
  <2>2. /\ b.firmware[1] <= a /\ a < b.rodata[1] => Permission(b, a) = "r"
        /\ b.rodata[1] <= a /\ a < b.rodata[2] => Permission(b, a) = "none"
        /\ b.rodata[2] <= a /\ a < b.firmware[2] => Permission(b, a) = "rw"
        /\ a < b.ramRange[1] => Permission(b, a) = "rwx"
        /\ b.ramRange[1] <= a /\ a < b.firmware[1] => Permission(b, a) = "rwx"
        /\ b.firmware[2] <= a /\ a < b.ramRange[2] => Permission(b, a) = "rwx"
        /\ b.ramRange[2] <= a /\ a < MaxAddr => Permission(b, a) = "rwx"
    BY <1>2, PlainPermission
  <2> QED BY <1>1, <1>2, <2>1, <2>2
<1>3. CASE b.controllers = <<>> /\ b.alias # 0
  <2>1. BytesOf(b.controllers) = {}
    BY <1>3 DEF BytesOf
  <2>2. /\ b.firmware[1] <= a /\ a < b.rodata[1] => Permission(b, a) = "r"
        /\ b.rodata[1] <= a /\ a < b.rodata[2] => Permission(b, a) = "none"
        /\ b.rodata[2] <= a /\ a < b.firmware[2] => Permission(b, a) = "rw"
        /\ a < b.ramRange[1] => Permission(b, a) = "rwx"
        /\ b.ramRange[1] <= a /\ a < b.firmware[1] => Permission(b, a) = "rwx"
        /\ b.firmware[2] <= a /\ a < b.ramRange[2] => Permission(b, a) = "rwx"
        /\ b.ramRange[2] <= a /\ a < b.firmware[1] + b.alias => Permission(b, a) = "rwx"
        /\ b.firmware[1] + b.alias <= a /\ a < b.firmware[2] + b.alias => Permission(b, a) = "none"
        /\ b.firmware[2] + b.alias <= a => Permission(b, a) = "rwx"
    BY <1>3, AliasPermission
  <2> QED BY <1>1, <1>3, <2>1, <2>2, SMTT(30)
<1>4. CASE b.controllers # <<>>
  <2> DEFINE c == b.controllers
  <2>1. c \in Seq(Ranges) /\ Len(c) = 3 /\ b.alias = 0
    BY <1>4, LayoutAssumption
  <2>2. c[1] \in Ranges /\ c[2] \in Ranges /\ c[3] \in Ranges
    BY <2>1
  <2>3. a \in BytesOf(c) <=> \/ c[1][1] <= a /\ a < c[1][2]
                             \/ c[2][1] <= a /\ a < c[2][2]
                             \/ c[3][1] <= a /\ a < c[3][2]
    <3>1. a \in BytesOf(c) <=> \E k \in 1 .. 3 : a \in Bytes(c[k])
      BY <2>1, BytesOfSeq
    <3>2. a \in BytesOf(c) <=> a \in Bytes(c[1]) \/ a \in Bytes(c[2]) \/ a \in Bytes(c[3])
      BY <3>1
    <3>3. /\ a \in Bytes(c[1]) <=> c[1][1] <= a /\ a < c[1][2]
          /\ a \in Bytes(c[2]) <=> c[2][1] <= a /\ a < c[2][2]
          /\ a \in Bytes(c[3]) <=> c[3][1] <= a /\ a < c[3][2]
      BY <2>2, RangeFacts
    <3> QED BY <3>2, <3>3
  <2>4. /\ c[1][1] \in Nat /\ c[1][2] \in Nat /\ c[2][1] \in Nat /\ c[2][2] \in Nat /\ c[3][1] \in Nat /\ c[3][2] \in Nat
    BY <2>2, RangeFacts
  <2>5. /\ b.firmware[1] <= a /\ a < b.rodata[1] => Permission(b, a) = "r"
        /\ b.rodata[1] <= a /\ a < b.rodata[2] => Permission(b, a) = "none"
        /\ b.rodata[2] <= a /\ a < b.firmware[2] => Permission(b, a) = "rw"
        /\ a < c[1][1] => Permission(b, a) = "rwx"
        /\ c[1][1] <= a /\ a < c[1][2] => Permission(b, a) = "none"
        /\ c[1][2] <= a /\ a < c[2][1] => Permission(b, a) = "rwx"
        /\ c[2][1] <= a /\ a < c[2][2] => Permission(b, a) = "none"
        /\ c[2][2] <= a /\ a < c[3][1] => Permission(b, a) = "rwx"
        /\ c[3][1] <= a /\ a < c[3][2] => Permission(b, a) = "none"
        /\ c[3][2] <= a /\ a < b.ramRange[1] => Permission(b, a) = "rwx"
        /\ b.ramRange[1] <= a /\ a < b.firmware[1] => Permission(b, a) = "rwx"
        /\ b.firmware[2] <= a /\ a < b.ramRange[2] => Permission(b, a) = "rwx"
        /\ b.ramRange[2] <= a /\ a < MaxAddr => Permission(b, a) = "rwx"
    BY <1>4, ImsicPermission
  <2> HIDE DEF c
  <2>6. a \in BytesOf(c) => Permission(b, a) = "none"
    BY <2>3, <2>5
  <2>7. ASSUME a < MaxAddr, ~(b.firmware[1] <= a /\ a < b.firmware[2]), a \notin BytesOf(c)
        PROVE  Permission(b, a) = "rwx"
    <3>1. /\ ~(c[1][1] <= a /\ a < c[1][2]) /\ ~(c[2][1] <= a /\ a < c[2][2]) /\ ~(c[3][1] <= a /\ a < c[3][2])
      BY <2>3, <2>7
    <3>2. \/ a < c[1][1]
          \/ c[1][2] <= a /\ a < c[2][1]
          \/ c[2][2] <= a /\ a < c[3][1]
          \/ c[3][2] <= a /\ a < b.ramRange[1]
          \/ b.ramRange[1] <= a /\ a < b.firmware[1]
          \/ b.firmware[2] <= a /\ a < b.ramRange[2]
          \/ b.ramRange[2] <= a /\ a < MaxAddr
      BY <1>1, <2>4, <2>7, <3>1
    <3> QED BY <2>5, <3>2
  <2> QED BY <2>1, <2>5, <2>6, <2>7 DEF c
<1> QED BY <1>2, <1>3, <1>4

\* The entries allow what the registry grants, and of each part of the firmware
\* what set_pmp gives it.
LEMMA ProtectionHolds == RegistryInv => ProtectionAgrees
<1> SUFFICES ASSUME RegistryInv PROVE ProtectionAgrees
  OBVIOUS
<1> DEFINE b == description
<1>1. b \in Descriptions
  BY DEF RegistryInv, MemoryTypeOK
<1>2. /\ b.firmware \in Ranges /\ b.rodata \in Ranges /\ b.alias \in Nat
      /\ b.firmware[1] <= b.rodata[1] /\ b.rodata[2] <= b.firmware[2]
      /\ b.controllers # <<>> => b.controllers \in Seq(Ranges) /\ BytesOf(b.controllers) \cap BytesOf(b.ram) = {}
      /\ b.alias # 0 => (b.firmware[1] + b.alias .. b.firmware[2] + b.alias - 1) \cap BytesOf(b.ram) = {}
  BY <1>1, MemoryAssumption, LayoutAssumption
<1>3. /\ b.firmware[1] \in Nat /\ b.firmware[2] \in Nat /\ b.rodata[1] \in Nat /\ b.rodata[2] \in Nat
      /\ \A x : x \in Bytes(b.firmware) <=> x \in Nat /\ b.firmware[1] <= x /\ x < b.firmware[2]
      /\ \A x : x \in Bytes(b.rodata) <=> x \in Nat /\ b.rodata[1] <= x /\ x < b.rodata[2]
  BY <1>2, RangeFacts
<1>4. b.controllers = <<>> => BytesOf(b.controllers) = {}
  BY DEF BytesOf
<1>5. BytesOf(b.controllers) \cap BytesOf(b.ram) = {} /\ \A x \in BytesOf(b.controllers) : x \in Nat
  <2>1. CASE b.controllers = <<>>
    BY <1>4, <2>1
  <2>2. CASE b.controllers # <<>>
    <3>1. b.controllers \in Seq(Ranges)
      BY <1>2, <2>2
    <3>2. ASSUME NEW x \in BytesOf(b.controllers) PROVE x \in Nat
      <4>1. PICK k \in 1 .. Len(b.controllers) : x \in Bytes(b.controllers[k]) /\ b.controllers[k] \in Ranges
        BY <3>1, BytesOfSeq
      <4> QED BY <4>1, RangeFacts
    <3> QED BY <1>2, <2>2, <3>2
  <2> QED BY <2>1, <2>2
<1>6. ASSUME NEW a \in Grantable PROVE Permission(b, a) = "rwx"
  <2>1. a \in Nat /\ a < MaxAddr
    BY <1>1, GrantableBelow
  <2>2. a \in BytesOf(b.ram) /\ a \notin Bytes(b.firmware)
    BY DEF Grantable, RamBytes
  <2>3. ~(b.alias # 0 /\ b.firmware[1] + b.alias <= a /\ a < b.firmware[2] + b.alias)
    <3> SUFFICES ASSUME b.alias # 0, b.firmware[1] + b.alias <= a, a < b.firmware[2] + b.alias PROVE FALSE
      OBVIOUS
    <3>1. a \in b.firmware[1] + b.alias .. b.firmware[2] + b.alias - 1
      BY <1>2, <1>3, <2>1
    <3> QED BY <1>2, <2>2, <3>1
  <2>4. a \notin BytesOf(b.controllers) /\ ~(b.firmware[1] <= a /\ a < b.firmware[2])
    BY <1>3, <1>5, <2>1, <2>2
  <2> QED BY <1>1, <2>1, <2>3, <2>4, EntriesProtect
<1>7. ASSUME NEW a \in b.firmware[1] .. b.rodata[1] - 1 PROVE Permission(b, a) = "r"
  <2>1. a \in Nat /\ b.firmware[1] <= a /\ a < b.rodata[1]
    BY <1>3
  <2> QED BY <1>1, <2>1, EntriesProtect
<1>8. ASSUME NEW a \in Bytes(b.rodata) PROVE Permission(b, a) = "none"
  <2>1. a \in Nat /\ b.rodata[1] <= a /\ a < b.rodata[2]
    BY <1>3
  <2> QED BY <1>1, <2>1, EntriesProtect
<1>9. ASSUME NEW a \in b.rodata[2] .. b.firmware[2] - 1 PROVE Permission(b, a) = "rw"
  <2>1. a \in Nat /\ b.rodata[2] <= a /\ a < b.firmware[2]
    BY <1>3
  <2> QED BY <1>1, <2>1, EntriesProtect
<1>10. ASSUME NEW a \in BytesOf(b.controllers) PROVE Permission(b, a) = "none"
  BY <1>1, <1>5, EntriesProtect
<1>11. ASSUME b.alias # 0, NEW a \in Bytes(b.firmware) PROVE Permission(b, a + b.alias) = "none"
  <2> DEFINE x == a + b.alias
  <2>1. x \in Nat /\ b.firmware[1] + b.alias <= x /\ x < b.firmware[2] + b.alias
    BY <1>2, <1>3
  <2> HIDE DEF x
  <2>2. Permission(b, x) = "none"
    BY <1>1, <1>11, <2>1, EntriesProtect
  <2> QED BY <2>2 DEF x
<1> QED BY <1>6, <1>7, <1>8, <1>9, <1>10, <1>11 DEF ProtectionAgrees

\* A console buffer is accepted exactly when its bytes are granted.
LEMMA BufferIsExact == RegistryInv => BuffersAreGranted
<1> SUFFICES ASSUME RegistryInv, registry.ok, NEW lo \in Addrs, NEW hi \in {0, 1}, NEW n \in 0 .. MaxAddr
             PROVE  ValidateBuffer(lo, hi, n) <=>
                        \/ n = 0
                        \/ hi = 0 /\ \A a \in lo .. lo + n - 1 : a \in Grantable
  BY DEF BuffersAreGranted
<1>1. lo \in Nat /\ n \in Nat
  BY MemoryAssumption DEF Addrs
<1>2. CheckAccess(lo, n) <=> lo .. lo + n - 1 \subseteq Grantable
  BY <1>1, AccessIsExact
<1> QED BY <1>2 DEF ValidateBuffer

\* The registry of the platform's memory grants exactly its free RAM, windows are
\* apart, and the PMP entries give the supervisor all that is granted, and of
\* the firmware to read the text, nothing of the read-only data, and to read and
\* write the rest: for every description and every number of ranges.
\* (MemoryRegistry, set_pmp)
THEOREM RegistryExact == MemorySpec => []RegistryIsExact
<1>1. RegistryInv /\ ServedInv => RegistryIsExact
  <2> SUFFICES ASSUME RegistryInv, ServedInv PROVE RegistryIsExact
    OBVIOUS
  <2>1. RangeCheckIsExact
    BY CheckIsExact DEF RangeCheckIsExact
  <2>2. WindowsAreApart
    BY DEF ServedInv
  <2> QED BY <2>1, <2>2, ProtectionHolds DEF RegistryIsExact
<1> QED BY <1>1, MemoryInduction, PTL

\* The memory that a supervisor names to STA, MPXY, DBTR or the console is granted
\* from end to end, and each hart's MPXY area is its own.
THEOREM NamedMemoryGranted == MemorySpec => []NamedMemoryIsGranted
<1>1. RegistryInv /\ ServedInv => NamedMemoryIsGranted
  <2> SUFFICES ASSUME RegistryInv, ServedInv PROVE NamedMemoryIsGranted
    OBVIOUS
  <2>1. AreaIsOwn
    BY DEF ServedInv, AreaIsOwn, ChannelIds
  <2> QED BY <2>1, BufferIsExact DEF ServedInv, NamedMemoryIsGranted
<1> QED BY <1>1, MemoryInduction, PTL
=============================================================================
