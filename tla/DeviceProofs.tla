---------------------------- MODULE DeviceProofs ----------------------------
(***************************************************************************)
(* Proofs about the devices that the firmware drives: the vendor cache     *)
(* calls (VendorCache), system reset (SystemReset) and the timer (Timer).  *)
(***************************************************************************)
EXTENDS VendorCache, SystemReset, Timer, SequenceTheorems, TLAPS

-----------------------------------------------------------------------------
(* Vendor cache calls.                                                     *)

\* Division with remainder by the line size.
LEMMA Division ==
    ASSUME NEW a \in Nat
    PROVE  /\ LineOf(a) \in Nat
           /\ a % LineSize \in 0 .. LineSize - 1
           /\ a = LineOf(a) * LineSize + (a % LineSize)
<1>1. LineSize \in Nat \ {0}
  BY CacheAssumption
<1> DEFINE n == LineSize
<1>2. n \in Nat /\ n > 0
  BY <1>1
<1> HIDE DEF n
<1>3. a \div n \in Nat /\ a % n \in 0 .. n - 1 /\ a = (a \div n) * n + (a % n)
  BY <1>2, Z3
<1> QED
  BY <1>3 DEF LineOf, n

\* The first bytes of the lines are ordered as the lines are.
LEMMA LineOrder ==
    ASSUME NEW l \in Nat, NEW m \in Nat
    PROVE  /\ l <= m => l * LineSize <= m * LineSize
           /\ l * LineSize < m * LineSize => l < m
           /\ (l + 1) * LineSize = l * LineSize + LineSize
           /\ l * LineSize \in Nat
<1>1. l <= m => l * LineSize <= m * LineSize
  BY CacheAssumption, Z3
<1>2. l * LineSize < m * LineSize => l < m
  BY CacheAssumption, Z3
<1>3. (l + 1) * LineSize = l * LineSize + LineSize /\ l * LineSize \in Nat
  BY CacheAssumption, Z3
<1> QED
  BY <1>1, <1>2, <1>3

\* An address lies between the first byte of its line and that of the next.
LEMMA LineBounds ==
    ASSUME NEW a \in Nat
    PROVE  /\ LineOf(a) \in Nat
           /\ LineOf(a) * LineSize \in Nat
           /\ (LineOf(a) + 1) * LineSize \in Nat
           /\ LineOf(a) * LineSize <= a
           /\ a < (LineOf(a) + 1) * LineSize
<1> DEFINE p == LineOf(a) * LineSize
           q == (LineOf(a) + 1) * LineSize
           r == a % LineSize
<1>1. LineOf(a) \in Nat /\ r \in 0 .. LineSize - 1 /\ a = p + r
  BY Division
<1>2. p \in Nat /\ q = p + LineSize /\ LineSize \in Nat
  BY <1>1, LineOrder, CacheAssumption
<1> HIDE DEF p, q, r
<1>3. p <= a /\ a < q /\ q \in Nat
  BY <1>1, <1>2
<1> QED
  BY <1>1, <1>2, <1>3 DEF p, q

\* The place of a byte: its line, and its place in the line.
LEMMA ByteFacts ==
    ASSUME NEW a \in CachedBytes
    PROVE  /\ a \in Nat
           /\ LineOf(a) \in Lines
           /\ a % LineSize \in 0 .. LineSize - 1
           /\ a = LineOf(a) * LineSize + (a % LineSize)
<1>1. a \in Nat /\ a < (LastLine + 1) * LineSize
  <2>1. (LastLine + 1) * LineSize \in Nat
    BY CacheAssumption, LineOrder
  <2> QED
    BY <2>1 DEF CachedBytes
<1>2. /\ LineOf(a) \in Nat
      /\ a % LineSize \in 0 .. LineSize - 1
      /\ a = LineOf(a) * LineSize + (a % LineSize)
  BY <1>1, Division
<1>3. LineOf(a) < LastLine + 1
  <2>1. LineOf(a) * LineSize \in Nat /\ LineSize \in Nat
    BY <1>2, LineOrder, CacheAssumption
  <2>2. LineOf(a) * LineSize < (LastLine + 1) * LineSize
    BY <1>1, LineBounds, LineOrder, CacheAssumption
  <2> QED
    BY <1>2, <2>2, LineOrder, CacheAssumption
<1> QED
  BY <1>1, <1>2, <1>3, CacheAssumption DEF Lines

\* A byte lies in its own line and in no other.
LEMMA ByteInLine ==
    ASSUME NEW a \in CachedBytes, NEW l \in Lines
    PROVE  a \in InLine(l) <=> l = LineOf(a)
<1> DEFINE m == LineOf(a)
<1>1. /\ a \in Nat /\ m \in Nat /\ l \in Nat
      /\ m * LineSize \in Nat /\ l * LineSize \in Nat
      /\ m * LineSize <= a /\ a < m * LineSize + LineSize
  BY ByteFacts, LineOrder, CacheAssumption DEF Lines
<1> HIDE DEF m
<1>2. l < m => l * LineSize + LineSize <= m * LineSize
  BY <1>1, LineOrder
<1>3. m < l => m * LineSize + LineSize <= l * LineSize
  BY <1>1, LineOrder
<1>4. a \in InLine(l) <=> l * LineSize <= a /\ a < l * LineSize + LineSize
  BY <1>1, CacheAssumption DEF InLine
<1>5. a \in InLine(l) <=> l = m
  BY <1>1, <1>2, <1>3, <1>4, CacheAssumption
<1> QED
  BY <1>5 DEF m

\* Memory is read by lines.
LEMMA FromRamBytes ==
    ASSUME CacheTypeOK
    PROVE  /\ \A l \in Lines : FromRam(l) \in [0 .. LineSize - 1 -> ByteValues]
           /\ \A a \in CachedBytes : FromRam(LineOf(a))[a % LineSize] = ram[a]
<1>1. ASSUME NEW l \in Lines, NEW i \in 0 .. LineSize - 1
      PROVE  l * LineSize + i \in CachedBytes
  <2>1. l \in Nat /\ l <= LastLine
    BY CacheAssumption DEF Lines
  <2>2. l * LineSize \in Nat /\ LastLine * LineSize \in Nat
        /\ l * LineSize <= LastLine * LineSize
        /\ (LastLine + 1) * LineSize = LastLine * LineSize + LineSize
    BY <2>1, LineOrder, CacheAssumption
  <2> QED
    BY <2>2, CacheAssumption DEF CachedBytes
<1>2. \A l \in Lines : FromRam(l) \in [0 .. LineSize - 1 -> ByteValues]
  BY <1>1 DEF FromRam, CacheTypeOK
<1>3. ASSUME NEW a \in CachedBytes PROVE FromRam(LineOf(a))[a % LineSize] = ram[a]
  BY ByteFacts DEF FromRam
<1> QED
  BY <1>2, <1>3

\* The copies of a line the hart reads.
LEMMA Reads ==
    ASSUME CacheTypeOK
    PROVE  /\ \A l \in Lines : /\ Behind(l) \in [0 .. LineSize - 1 -> ByteValues]
                               /\ Seen(l) \in [0 .. LineSize - 1 -> ByteValues]
           /\ Missing \in CacheEntries
<1>1. \A l \in Lines : Behind(l) \in [0 .. LineSize - 1 -> ByteValues]
  BY FromRamBytes DEF Behind, CacheTypeOK, CacheEntries
<1>2. \A l \in Lines : Seen(l) \in [0 .. LineSize - 1 -> ByteValues]
  BY <1>1 DEF Seen, CacheTypeOK, CacheEntries
<1>3. Missing \in CacheEntries
  BY DEF Missing, CacheEntries, ByteValues
<1> QED
  BY <1>1, <1>2, <1>3

\* Every step keeps the types of the cache.
LEMMA CacheTypes == CacheTypeOK /\ [CacheNext]_cacheVars => CacheTypeOK'
<1> SUFFICES ASSUME CacheTypeOK, [CacheNext]_cacheVars PROVE CacheTypeOK'
  OBVIOUS
<1>0. /\ \A l \in Lines : /\ Behind(l) \in [0 .. LineSize - 1 -> ByteValues]
                          /\ Seen(l) \in [0 .. LineSize - 1 -> ByteValues]
      /\ Missing \in CacheEntries
  BY Reads
<1>01. \A s \in {"none", "clean", "dirty"}, d \in [0 .. LineSize - 1 -> ByteValues] :
           [state |-> s, data |-> d] \in CacheEntries
  BY DEF CacheEntries
<1>02. \A c \in CacheEntries, s \in {"none", "clean", "dirty"} :
           /\ [c EXCEPT !.state = s] \in CacheEntries
           /\ c.data \in [0 .. LineSize - 1 -> ByteValues]
  BY DEF CacheEntries
<1>03. \A a \in CachedBytes : LineOf(a) \in Lines /\ a % LineSize \in 0 .. LineSize - 1
  BY ByteFacts
<1>04. NoOp \in [fn : {"none", "flush", "write_back", "invalidate"}, start : Nat, end : Nat]
  BY DEF NoOp
<1>1. CASE Load
  BY <1>0, <1>01, <1>1 DEF Load, CacheTypeOK
<1>2. CASE Store
  <2>1. PICK a \in CachedBytes :
        /\ l1' = [l1 EXCEPT ![LineOf(a)] =
                    [state |-> "dirty", data |-> [Seen(LineOf(a)) EXCEPT ![a % LineSize] = "new"]]]
        /\ stored' = [stored EXCEPT ![a] = "new"]
    BY <1>2 DEF Store
  <2>2. [Seen(LineOf(a)) EXCEPT ![a % LineSize] = "new"] \in [0 .. LineSize - 1 -> ByteValues]
    BY <1>0, <1>03 DEF ByteValues
  <2>3. l1' \in [Lines -> CacheEntries]
    BY <1>01, <2>1, <2>2 DEF CacheTypeOK
  <2> QED
    BY <1>2, <2>1, <2>3 DEF Store, CacheTypeOK
<1>3. CASE Evict
  <2>1. PICK l \in Lines :
        \/ /\ l1[l].state # "none"
           /\ WriteL1(l) /\ l1' = [l1 EXCEPT ![l] = Missing] /\ UNCHANGED ram
        \/ /\ l2[l].state # "none"
           /\ WriteL2(l) /\ l2' = [l2 EXCEPT ![l] = Missing] /\ UNCHANGED l1
    BY <1>3 DEF Evict
  <2>2. l1' \in [Lines -> CacheEntries]
    BY <1>0, <2>1 DEF CacheTypeOK
  <2>3. l2' \in [Lines -> CacheEntries]
    <3>1. CASE WriteL1(l)
      <4>1. [l1[l] EXCEPT !.state = "dirty"] \in CacheEntries
        BY <1>02 DEF CacheTypeOK
      <4> QED
        BY <3>1, <4>1 DEF CacheTypeOK, WriteL1
    <3>2. CASE l2' = [l2 EXCEPT ![l] = Missing]
      BY <1>0, <3>2 DEF CacheTypeOK
    <3> QED
      BY <2>1, <3>1, <3>2
  <2>4. ram' \in [CachedBytes -> ByteValues]
    <3>1. CASE WriteL2(l)
      <4>1. \A a \in CachedBytes : l2[l].data[a % LineSize] \in ByteValues
        BY <1>02, <1>03 DEF CacheTypeOK
      <4> QED
        BY <3>1, <4>1 DEF CacheTypeOK, WriteL2
    <3> QED
      BY <2>1, <3>1 DEF CacheTypeOK
  <2> QED
    BY <1>3, <2>2, <2>3, <2>4 DEF CacheTypeOK, Evict
<1>4. CASE Dma
  BY <1>4 DEF Dma, CacheTypeOK, ByteValues
<1>5. CASE CallRange
  <2>1. PICK fn \in {"write_back", "invalidate"}, start \in 0 .. MaxAddress, length \in 1 .. LargeFlush :
        /\ op' = [fn |-> IF Flushes(fn, length) THEN "flush" ELSE fn, start |-> start, end |-> start + length]
        /\ line' = LineOf(start)
        /\ stored' = IF fn = "invalidate"
                     THEN [a \in CachedBytes |-> IF start <= a /\ a < start + length THEN "any" ELSE stored[a]]
                     ELSE stored
    BY <1>5 DEF CallRange
  <2>2. start \in Nat /\ length \in Nat /\ LineOf(start) \in Nat
    BY Division
  <2>3. op' \in [fn : {"none", "flush", "write_back", "invalidate"}, start : Nat, end : Nat]
    BY <2>1, <2>2
  <2>4. stored' \in [CachedBytes -> {"old", "new", "any"}]
    BY <2>1 DEF CacheTypeOK
  <2> QED
    BY <1>5, <2>1, <2>2, <2>3, <2>4 DEF CallRange, CacheTypeOK
<1>6. CASE CallFlush
  BY <1>04, <1>6 DEF CallFlush, CacheTypeOK, NoOp
<1>7. ASSUME MaintainL1 \/ MaintainL2
      PROVE  /\ ram' \in [CachedBytes -> ByteValues]
             /\ l1' \in [Lines -> CacheEntries] /\ l2' \in [Lines -> CacheEntries]
  <2>1. \A c \in CacheEntries : After(c) \in CacheEntries
    BY <1>0, <1>02 DEF After
  <2>2. CASE MaintainL1
    BY <2>1, <2>2 DEF MaintainL1, CacheTypeOK
  <2>3. CASE MaintainL2
    BY <1>02, <1>03, <2>1, <2>3 DEF MaintainL2, CacheTypeOK
  <2> QED
    BY <1>7, <2>2, <2>3
<1>8. CASE FirstHalf
  BY <1>7, <1>8 DEF FirstHalf, OneHalf, Halves, CacheTypeOK
<1>9. CASE SecondHalf
  BY <1>7, <1>9 DEF SecondHalf, OneHalf, Halves, CacheTypeOK
<1>10. CASE CommandFails
  BY <1>7, <1>10 DEF CommandFails, CacheTypeOK
<1>11. CASE ReturnToCaller
  BY <1>04, <1>11 DEF ReturnToCaller, CacheTypeOK
<1>12. CASE UNCHANGED cacheVars
  BY <1>12 DEF cacheVars, CacheTypeOK
<1> QED
  BY <1>1, <1>2, <1>3, <1>4, <1>5, <1>6, <1>8, <1>9, <1>10, <1>11, <1>12 DEF CacheNext

\* What the hart stored is what it reads, in every copy that matters.
LEMMA KeptBytesAreSeen ==
    ASSUME CacheTypeOK, NEW a \in CachedBytes, ByteKept(a), stored[a] # "any"
    PROVE  /\ View(a) = stored[a]
           /\ l1[LineOf(a)].state # "dirty" =>
                  Behind(LineOf(a))[a % LineSize] = stored[a]
<1>1. FromRam(LineOf(a))[a % LineSize] = ram[a]
  BY FromRamBytes
<1>2. LineOf(a) \in Lines
  BY ByteFacts
<1>3. /\ l1[LineOf(a)].state \in {"none", "clean", "dirty"}
      /\ l2[LineOf(a)].state \in {"none", "clean", "dirty"}
  BY <1>2 DEF CacheTypeOK, CacheEntries
<1> QED
  BY <1>1, <1>3 DEF View, Seen, Behind, ByteKept

\* The hart's own accesses and the device's writes.
LEMMA AccessKeepsBytes ==
    ASSUME CacheInv, Load \/ Store \/ Evict \/ Dma, NEW a \in CachedBytes
    PROVE  ByteKept(a)'
<1> DEFINE l == LineOf(a)
           i == a % LineSize
<1>0. CacheTypeOK /\ ByteKept(a)
  BY DEF CacheInv
<1>1. l \in Lines /\ i \in 0 .. LineSize - 1
  BY ByteFacts
<1>2. /\ l1[l] \in CacheEntries /\ l2[l] \in CacheEntries
      /\ l1[l].state \in {"none", "clean", "dirty"}
      /\ l2[l].state \in {"none", "clean", "dirty"}
  BY <1>0, <1>1 DEF CacheTypeOK, CacheEntries
<1>3. stored[a] # "any" => View(a) = stored[a] /\ (l1[l].state # "dirty" => Behind(l)[i] = stored[a])
  BY <1>0, KeptBytesAreSeen
<1>4. CASE Load
  <2>1. PICK m \in Lines :
        /\ l1[m].state = "none"
        /\ l1' = [l1 EXCEPT ![m] = [state |-> "clean", data |-> Behind(m)]]
        /\ l2' = IF l2[m].state = "none" THEN [l2 EXCEPT ![m] = [state |-> "clean", data |-> Behind(m)]] ELSE l2
    BY <1>4 DEF Load
  <2>2. CASE m = l
    BY <1>0, <1>1, <1>2, <1>3, <1>4, <2>1, <2>2 DEF ByteKept, CacheTypeOK, Load
  <2>3. CASE m # l
    <3>1. l1'[l] = l1[l] /\ l2'[l] = l2[l] /\ ram' = ram /\ stored' = stored
      BY <1>0, <1>1, <1>4, <2>1, <2>3 DEF CacheTypeOK, Load
    <3> QED
      BY <1>0, <3>1 DEF ByteKept
  <2> QED
    BY <2>2, <2>3
<1>5. CASE Store
  <2>1. PICK b \in CachedBytes :
        /\ l1' = [l1 EXCEPT ![LineOf(b)] =
                    [state |-> "dirty", data |-> [Seen(LineOf(b)) EXCEPT ![b % LineSize] = "new"]]]
        /\ stored' = [stored EXCEPT ![b] = "new"]
    BY <1>5 DEF Store
  <2>2. CASE LineOf(b) = l
    <3>1. l1'[l] = [state |-> "dirty", data |-> [Seen(l) EXCEPT ![b % LineSize] = "new"]]
      BY <1>0, <1>1, <2>1, <2>2 DEF CacheTypeOK
    <3>2. Seen(l) \in [0 .. LineSize - 1 -> ByteValues]
      BY <1>0, <1>1, Reads
    <3>3. b % LineSize = i => b = a
      BY <2>2, ByteFacts
    <3>4. stored'[a] # "any" => l1'[l].data[i] = stored'[a]
      <4>1. CASE b = a
        BY <1>0, <1>1, <2>1, <3>1, <3>2, <4>1 DEF CacheTypeOK
      <4>2. CASE b # a
        <5>1. l1'[l].data[i] = Seen(l)[i]
          BY <1>1, <3>1, <3>2, <3>3, <4>2
        <5>2. stored'[a] = stored[a]
          BY <1>0, <2>1, <4>2 DEF CacheTypeOK
        <5>3. View(a) = Seen(l)[i]
          BY DEF View
        <5> QED
          BY <1>3, <5>1, <5>2, <5>3
      <4> QED
        BY <4>1, <4>2
    <3>5. l1'[l].state = "dirty"
      BY <3>1
    <3> QED
      BY <3>4, <3>5 DEF ByteKept
  <2>3. CASE LineOf(b) # l
    <3>1. l1'[l] = l1[l] /\ l2' = l2 /\ ram' = ram /\ stored'[a] = stored[a]
      BY <1>0, <1>1, <1>5, <2>1, <2>3 DEF CacheTypeOK, Store
    <3> QED
      BY <1>0, <3>1 DEF ByteKept
  <2> QED
    BY <2>2, <2>3
<1>6. CASE Dma
  BY <1>0, <1>6 DEF Dma, ByteKept, CacheTypeOK
<1>7. CASE Evict
  <2>1. PICK m \in Lines :
        \/ /\ l1[m].state # "none"
           /\ WriteL1(m) /\ l1' = [l1 EXCEPT ![m] = Missing] /\ UNCHANGED ram
        \/ /\ l2[m].state # "none"
           /\ WriteL2(m) /\ l2' = [l2 EXCEPT ![m] = Missing] /\ UNCHANGED l1
    BY <1>7 DEF Evict
  <2>2. stored' = stored
    BY <1>7 DEF Evict
  <2>3. a \in InLine(m) <=> m = l
    BY ByteInLine
  <2>4. CASE WriteL1(m) /\ l1' = [l1 EXCEPT ![m] = Missing] /\ UNCHANGED ram
    <3>1. CASE m = l
      <4>1. l1'[l].state = "none" /\ ram' = ram
        BY <1>0, <1>1, <2>4, <3>1 DEF CacheTypeOK, Missing
      <4>2. CASE l1[l].state = "dirty"
        <5>1. l2'[l] = [l1[l] EXCEPT !.state = "dirty"]
          BY <1>0, <1>1, <2>4, <3>1, <4>2 DEF CacheTypeOK, WriteL1
        <5>2. l2'[l].state = "dirty" /\ l2'[l].data = l1[l].data
          BY <1>2, <5>1 DEF CacheEntries
        <5> QED
          BY <1>0, <2>2, <4>1, <4>2, <5>2 DEF ByteKept
      <4>3. CASE l1[l].state # "dirty"
        BY <1>0, <2>2, <2>4, <3>1, <4>1, <4>3 DEF ByteKept, WriteL1
      <4> QED
        BY <4>2, <4>3
    <3>2. CASE m # l
      <4>1. l1'[l] = l1[l] /\ l2'[l] = l2[l] /\ ram' = ram
        BY <1>0, <1>1, <2>4, <3>2 DEF CacheTypeOK, WriteL1
      <4> QED
        BY <1>0, <2>2, <4>1 DEF ByteKept
    <3> QED
      BY <3>1, <3>2
  <2>5. CASE WriteL2(m) /\ l2' = [l2 EXCEPT ![m] = Missing] /\ UNCHANGED l1
    <3>1. CASE m = l
      <4>1. l2'[l].state = "none" /\ l1' = l1
        BY <1>0, <1>1, <2>5, <3>1 DEF CacheTypeOK, Missing
      <4>2. ram'[a] = IF l2[l].state = "dirty" THEN l2[l].data[i] ELSE ram[a]
        BY <2>3, <2>5, <3>1 DEF WriteL2
      <4> QED
        BY <1>0, <2>2, <4>1, <4>2 DEF ByteKept
    <3>2. CASE m # l
      <4>1. l1'[l] = l1[l] /\ l2'[l] = l2[l] /\ ram'[a] = ram[a]
        BY <1>0, <1>1, <2>3, <2>5, <3>2 DEF CacheTypeOK, WriteL2
      <4> QED
        BY <1>0, <2>2, <4>1 DEF ByteKept
    <3> QED
      BY <3>1, <3>2
  <2> QED
    BY <2>1, <2>4, <2>5
<1> QED
  BY <1>4, <1>5, <1>6, <1>7

\* A line that is dropped without a write-back lies in the range as a whole.
LEMMA DroppedBytesAreGiven ==
    ASSUME CacheInv, ~WritesBack, NEW a \in CachedBytes, LineOf(a) \in Targets
    PROVE  stored[a] = "any"
<1>1. /\ op.fn = "invalidate" /\ LineOf(a) = line
      /\ ~(line * LineSize < op.start) /\ ~(op.end - line * LineSize < LineSize)
  BY DEF WritesBack, Targets, Partial
<1>2. op.start \in Nat /\ op.end \in Nat /\ line \in Nat
  BY DEF CacheInv, CacheTypeOK
<1>3. a = line * LineSize + (a % LineSize) /\ a % LineSize \in 0 .. LineSize - 1
  BY <1>1, ByteFacts
<1>4. line * LineSize \in Nat /\ LineSize \in Nat
  BY <1>2, LineOrder, CacheAssumption
<1>5. op.start <= a /\ a < op.end
  BY <1>1, <1>2, <1>3, <1>4
<1> QED
  BY <1>1, <1>5 DEF CacheInv, CallInv

\* The firmware's maintenance of a line or of everything.
LEMMA MaintenanceKeepsBytes ==
    ASSUME CacheInv, MaintainL1 \/ MaintainL2, stored' = stored,
           NEW a \in CachedBytes
    PROVE  ByteKept(a)'
<1> DEFINE l == LineOf(a)
           i == a % LineSize
<1>0. CacheTypeOK /\ ByteKept(a)
  BY DEF CacheInv
<1>1. l \in Lines /\ i \in 0 .. LineSize - 1
  BY ByteFacts
<1>2. /\ l1[l] \in CacheEntries /\ l2[l] \in CacheEntries
  BY <1>0, <1>1 DEF CacheTypeOK
<1>3. ASSUME NEW c \in CacheEntries
      PROVE  /\ After(c).state # "dirty"
             /\ After(c).state # "none" => c.state # "none" /\ After(c).data = c.data
  BY DEF After, Missing, CacheEntries
<1>4. CASE stored[a] = "any"
  BY <1>4 DEF ByteKept
<1>5. CASE stored[a] # "any" /\ l \notin Targets
  <2>1. l1'[l] = l1[l] /\ l2'[l] = l2[l] /\ ram'[a] = ram[a]
    BY <1>1, <1>5 DEF MaintainL1, MaintainL2
  <2> QED
    BY <1>0, <2>1 DEF ByteKept
<1>6. CASE stored[a] # "any" /\ l \in Targets
  <2>1. WritesBack
    BY <1>6, DroppedBytesAreGiven
  <2>2. CASE MaintainL1
    <3>1. /\ l2'[l] = IF l1[l].state = "dirty" THEN l1[l] ELSE l2[l]
          /\ l1'[l] = After(l1[l]) /\ ram' = ram
      BY <1>1, <1>6, <2>1, <2>2 DEF MaintainL1, Leaves
    <3> QED
      BY <1>0, <1>2, <1>3, <3>1 DEF ByteKept
  <2>3. CASE MaintainL2
    <3>1. /\ ram'[a] = IF l2[l].state = "dirty" THEN l2[l].data[i] ELSE ram[a]
          /\ l2'[l] = After(l2[l]) /\ l1' = l1
      BY <1>1, <1>6, <2>1, <2>3 DEF MaintainL2, Leaves
    <3> QED
      BY <1>0, <1>2, <1>3, <3>1 DEF ByteKept
  <2> QED
    BY <2>2, <2>3
<1> QED
  BY <1>4, <1>5, <1>6

\* No line the loop has passed becomes dirty again, and the loop ends past the
\* last line of the range.
LEMMA CallInvKept == CacheInv /\ CacheTypeOK' /\ [CacheNext]_cacheVars => CallInv'
<1> SUFFICES ASSUME CacheInv, CacheTypeOK', [CacheNext]_cacheVars PROVE CallInv'
  OBVIOUS
<1>0. CacheTypeOK /\ CallInv
  BY DEF CacheInv
<1>1. /\ \A l \in Lines : l1[l] \in CacheEntries /\ l2[l] \in CacheEntries
      /\ line \in Nat /\ op.start \in Nat /\ op.end \in Nat
      /\ Lines \subseteq Nat
  BY <1>0, CacheAssumption DEF CacheTypeOK, Lines
<1>2. CASE Load \/ Store
  BY <1>0, <1>2 DEF Load, Store, CallInv
<1>3. CASE Evict
  <2>1. PICK m \in Lines :
        \/ /\ l1[m].state # "none"
           /\ WriteL1(m) /\ l1' = [l1 EXCEPT ![m] = Missing] /\ UNCHANGED ram
        \/ /\ l2[m].state # "none"
           /\ WriteL2(m) /\ l2' = [l2 EXCEPT ![m] = Missing] /\ UNCHANGED l1
    BY <1>3 DEF Evict
  <2>2. ASSUME NEW l \in Lines, Maintained(l1[l]) PROVE Maintained(l1[l])'
    BY <1>0, <1>3, <2>1, <2>2 DEF Maintained, Invalidates, Missing, Evict, CacheTypeOK
  <2>3. ASSUME NEW l \in Lines, Maintained(l1[l]), Maintained(l2[l]) PROVE Maintained(l2[l])'
    BY <1>0, <1>3, <2>1, <2>3 DEF Maintained, Invalidates, Missing, Evict, CacheTypeOK, WriteL1
  <2>4. ASSUME NEW l \in Lines
        PROVE  PastL1(l)' = PastL1(l) /\ PastL2(l)' = PastL2(l) /\ (PastL2(l) => PastL1(l))
    BY <1>3 DEF PastL1, PastL2, Evict
  <2> QED
    BY <1>0, <1>3, <2>2, <2>3, <2>4 DEF CallInv, Evict
<1>4. CASE Dma
  <2>1. UNCHANGED <<l1, l2, step, op, line>>
    BY <1>4 DEF Dma
  <2>2. \A a \in CachedBytes : stored[a] = "any" => stored'[a] = "any"
    BY <1>0, <1>4 DEF Dma, CacheTypeOK
  <2> QED
    BY <1>0, <2>1, <2>2 DEF CallInv, PastL1, PastL2, Maintained, Invalidates
<1>5. CASE CallRange
  <2>1. PICK fn \in {"write_back", "invalidate"}, start \in 0 .. MaxAddress, length \in 1 .. LargeFlush :
        /\ op' = [fn |-> IF Flushes(fn, length) THEN "flush" ELSE fn, start |-> start, end |-> start + length]
        /\ line' = LineOf(start)
        /\ stored' = IF fn = "invalidate"
                     THEN [a \in CachedBytes |-> IF start <= a /\ a < start + length THEN "any" ELSE stored[a]]
                     ELSE stored
    BY <1>5 DEF CallRange
  <2>2. step' = "first" /\ LineOf(start) \in Nat
    BY <1>5, Division DEF CallRange
  <2>3. \A l \in Lines : ~PastL1(l)' /\ ~PastL2(l)'
    BY <1>1, <2>1, <2>2 DEF PastL1, PastL2
  <2>4. op'.fn = "invalidate" =>
            \A a \in CachedBytes : op'.start <= a /\ a < op'.end => stored'[a] = "any"
    BY <2>1
  <2> QED
    BY <2>2, <2>3, <2>4 DEF CallInv
<1>6. CASE CallFlush
  <2>1. op'.fn = "flush" /\ step' = "first"
    BY <1>6 DEF CallFlush, NoOp
  <2> QED
    BY <2>1 DEF CallInv, PastL1, PastL2
<1>7. ASSUME NEW c \in CacheEntries PROVE Maintained(After(c))
  BY DEF Maintained, After, Missing, CacheEntries
<1>8. CASE FirstHalf
  <2>1. MaintainL1 /\ step' = "second" /\ step = "first" /\ UNCHANGED <<op, line, stored>>
    BY <1>8 DEF FirstHalf, OneHalf, Halves
  <2>2. ASSUME NEW l \in Lines, PastL1(l)' PROVE Maintained(l1[l])'
    <3>1. l \in Targets \/ PastL1(l)
      BY <2>1, <2>2 DEF Targets, PastL1
    <3>2. l1'[l] = IF l \in Targets THEN After(l1[l]) ELSE l1[l]
      BY <2>1 DEF MaintainL1
    <3>3. Maintained(l1'[l])
      BY <1>0, <1>1, <1>7, <2>1, <3>1, <3>2 DEF CallInv
    <3> QED
      BY <2>1, <3>3 DEF Maintained, Invalidates
  <2>3. ASSUME NEW l \in Lines, PastL2(l)' PROVE Maintained(l2[l])'
    <3>1. l \notin Targets /\ PastL2(l)
      BY <1>1, <2>1, <2>3 DEF Targets, PastL2
    <3>2. l2'[l] = l2[l]
      BY <2>1, <3>1 DEF MaintainL1
    <3> QED
      BY <1>0, <2>1, <3>1, <3>2 DEF CallInv, Maintained, Invalidates
  <2> QED
    BY <1>0, <2>1, <2>2, <2>3 DEF CallInv
<1>9. CASE SecondHalf
  <2>1. MaintainL2 /\ step = "second" /\ UNCHANGED <<op, stored>>
    BY <1>9 DEF SecondHalf, OneHalf, Halves
  <2>2. IF op.fn # "flush" /\ More
        THEN step' = "first" /\ line' = line + 1
        ELSE step' = "done" /\ line' = line
    BY <1>9 DEF SecondHalf
  <2>3. ASSUME NEW l \in Lines, PastL1(l)' PROVE Maintained(l1[l])'
    <3>1. PastL1(l)
      BY <1>1, <2>1, <2>2, <2>3 DEF PastL1
    <3>2. l1' = l1
      BY <2>1 DEF MaintainL2
    <3> QED
      BY <1>0, <2>1, <3>1, <3>2 DEF CallInv, Maintained, Invalidates
  <2>4. ASSUME NEW l \in Lines, PastL2(l)' PROVE Maintained(l2[l])'
    <3>1. l \in Targets \/ PastL2(l)
      BY <1>1, <2>1, <2>2, <2>4 DEF PastL2, Targets
    <3>2. l2'[l] = IF l \in Targets THEN After(l2[l]) ELSE l2[l]
      BY <2>1 DEF MaintainL2
    <3>3. Maintained(l2'[l])
      BY <1>0, <1>1, <1>7, <2>1, <3>1, <3>2 DEF CallInv
    <3> QED
      BY <2>1, <3>3 DEF Maintained, Invalidates
  <2>5. step' = "done" /\ op'.fn # "flush" => op'.end <= (line' + 1) * LineSize
    <3>1. (line + 1) * LineSize \in Nat
      BY <1>1, LineOrder
    <3> QED
      BY <1>1, <2>1, <2>2, <3>1 DEF More
  <2> QED
    BY <1>0, <2>1, <2>2, <2>3, <2>4, <2>5 DEF CallInv
<1>10. CASE CommandFails
  BY <1>0, <1>10 DEF CommandFails, CallInv
<1>11. CASE ReturnToCaller
  BY <1>11 DEF ReturnToCaller, CallInv, NoOp
<1>12. CASE UNCHANGED cacheVars
  BY <1>0, <1>12 DEF cacheVars, CallInv, PastL1, PastL2, Maintained, Invalidates
<1> QED
  BY <1>2, <1>3, <1>4, <1>5, <1>6, <1>8, <1>9, <1>10, <1>11, <1>12 DEF CacheNext

\* The invariant holds at the start.
LEMMA CacheInvInit == CacheInit => CacheInv
<1> SUFFICES ASSUME CacheInit PROVE CacheInv
  OBVIOUS
<1>1. CacheTypeOK
  BY DEF CacheInit, CacheTypeOK, Missing, NoOp, CacheEntries, ByteValues
<1>2. \A a \in CachedBytes : ByteKept(a)
  BY ByteFacts DEF CacheInit, ByteKept, Missing
<1>3. CallInv
  BY DEF CacheInit, CallInv, NoOp
<1> QED
  BY <1>1, <1>2, <1>3 DEF CacheInv

\* Every step keeps the invariant.
LEMMA CacheInvNext == CacheInv /\ [CacheNext]_cacheVars => CacheInv'
<1> SUFFICES ASSUME CacheInv, [CacheNext]_cacheVars PROVE CacheInv'
  OBVIOUS
<1>1. CacheTypeOK'
  BY CacheTypes DEF CacheInv
<1>2. CallInv'
  BY <1>1, CallInvKept
<1>3. ASSUME NEW a \in CachedBytes PROVE ByteKept(a)'
  <2>0. ByteKept(a)
    BY DEF CacheInv
  <2>1. CASE Load \/ Store \/ Evict \/ Dma
    BY <2>1, AccessKeepsBytes
  <2>2. CASE FirstHalf \/ SecondHalf
    BY <2>2, MaintenanceKeepsBytes DEF FirstHalf, SecondHalf, OneHalf
  <2>3. CASE CommandFails
    <3>1. CASE MaintainL2
      BY <2>3, <3>1, MaintenanceKeepsBytes DEF CommandFails
    <3>2. CASE UNCHANGED <<ram, l1, l2>>
      BY <2>0, <2>3, <3>2 DEF CommandFails, ByteKept
    <3> QED
      BY <2>3, <3>1, <3>2 DEF CommandFails
  <2>4. CASE CallRange
    <3>1. UNCHANGED <<ram, l1, l2>> /\ (stored'[a] = stored[a] \/ stored'[a] = "any")
      BY <2>4 DEF CallRange
    <3> QED
      BY <2>0, <3>1 DEF ByteKept
  <2>5. CASE CallFlush \/ ReturnToCaller \/ UNCHANGED cacheVars
    BY <2>0, <2>5 DEF CallFlush, ReturnToCaller, cacheVars, ByteKept
  <2> QED
    BY <2>1, <2>2, <2>3, <2>4, <2>5 DEF CacheNext
<1> QED
  BY <1>1, <1>2, <1>3 DEF CacheInv

\* When the loop has ended every line with a byte of the range is maintained,
\* so that memory holds the byte.
LEMMA CacheInvCoherent == CacheInv => RangeIsCoherent
<1> SUFFICES ASSUME CacheInv PROVE StoresAreKept /\ RangeAgrees
  BY DEF RangeIsCoherent
<1>0. CacheTypeOK /\ CallInv
  BY DEF CacheInv
<1>1. StoresAreKept
  BY <1>0, KeptBytesAreSeen DEF CacheInv, StoresAreKept
<1>2. ASSUME step = "done", NEW a \in CachedBytes,
             op.fn = "flush" \/ (op.start <= a /\ a < op.end /\ op.fn # "none")
      PROVE  Maintained(l1[LineOf(a)]) /\ Maintained(l2[LineOf(a)])
  <2>1. LineOf(a) \in Lines
    BY ByteFacts
  <2>2. CASE op.fn = "flush"
    BY <1>0, <1>2, <2>1, <2>2 DEF CallInv, PastL1, PastL2
  <2>3. CASE op.fn # "flush" /\ op.start <= a /\ a < op.end
    <3>1. /\ a \in Nat /\ LineOf(a) \in Nat /\ line \in Nat
          /\ op.start \in Nat /\ op.end \in Nat
      BY <1>0, <2>1, ByteFacts, CacheAssumption DEF CacheTypeOK, Lines
    <3>2. LineOf(a) <= line
      <4>1. LineOf(a) * LineSize <= a
        BY <3>1, ByteFacts, LineOrder, CacheAssumption
      <4>2. LineOf(a) * LineSize < (line + 1) * LineSize
        BY <1>0, <1>2, <2>3, <3>1, <4>1, LineOrder DEF CallInv
      <4> QED
        BY <3>1, <4>2, LineOrder
    <3>3. LineOf(op.start) <= LineOf(a)
      <4> DEFINE s == LineOf(op.start)
                 m == LineOf(a)
      <4>1. s \in Nat /\ s * LineSize <= op.start /\ s * LineSize \in Nat
        BY <3>1, LineBounds
      <4>2. a < (m + 1) * LineSize /\ m \in Nat /\ (m + 1) * LineSize \in Nat
        BY <3>1, LineBounds
      <4> HIDE DEF s, m
      <4>3. s * LineSize < (m + 1) * LineSize
        BY <2>3, <3>1, <4>1, <4>2
      <4>4. s < m + 1
        BY <4>1, <4>2, <4>3, LineOrder
      <4> QED
        BY <4>1, <4>2, <4>4 DEF s, m
    <3>4. PastL1(LineOf(a)) /\ PastL2(LineOf(a))
      BY <1>2, <2>3, <3>1, <3>2, <3>3 DEF PastL1, PastL2
    <3> QED
      BY <1>0, <1>2, <2>1, <3>4 DEF CallInv
  <2> QED
    BY <1>2, <2>2, <2>3
<1>3. RangeAgrees
  <2> SUFFICES ASSUME step = "done", NEW a \in CachedBytes
      PROVE /\ op.fn = "flush" \/ (op.fn = "invalidate" /\ op.start <= a /\ a < op.end) => ram[a] = View(a)
            /\ op.fn = "write_back" /\ op.start <= a /\ a < op.end /\ stored[a] # "any" => ram[a] = stored[a]
    BY DEF RangeAgrees
  <2>1. ASSUME op.fn = "flush" \/ (op.fn = "invalidate" /\ op.start <= a /\ a < op.end)
        PROVE  ram[a] = View(a)
    <3>1. l1[LineOf(a)].state = "none" /\ l2[LineOf(a)].state = "none"
      BY <1>2, <2>1 DEF Maintained, Invalidates
    <3> QED
      BY <1>0, <3>1, FromRamBytes DEF View, Seen, Behind
  <2>2. ASSUME op.fn = "write_back", op.start <= a, a < op.end, stored[a] # "any"
        PROVE  ram[a] = stored[a]
    <3>1. l1[LineOf(a)].state # "dirty" /\ l2[LineOf(a)].state # "dirty"
      BY <1>2, <2>2 DEF Maintained
    <3> QED
      BY <2>2, <3>1 DEF CacheInv, ByteKept
  <2> QED
    BY <2>1, <2>2
<1> QED
  BY <1>1, <1>3

\* Cache maintenance of a range does what it says to the bytes of the range, and
\* loses nothing around it, for any cache and any range.  (maintain_range, flush_all)
THEOREM CacheCallsAreCoherent == CacheSpec => []RangeIsCoherent
  BY CacheInvInit, CacheInvNext, CacheInvCoherent, PTL DEF CacheSpec

-----------------------------------------------------------------------------
(* System reset.                                                           *)

\* What a program has left: its next access and the rest after it.
LEMMA RestFacts ==
    ASSUME NEW p \in Seq(AccessNames)
    PROVE  /\ Rest(p, 1) = p
           /\ Rest(p, Len(p) + 1) = <<>>
           /\ \A n \in 1 .. Len(p) : /\ Rest(p, n) # <<>>
                                     /\ Head(Rest(p, n)) = p[n]
                                     /\ Tail(Rest(p, n)) = Rest(p, n + 1)
<1>0. Len(p) \in Nat /\ \A i \in 1 .. Len(p) : p[i] \in AccessNames
  BY LenProperties
<1>1. Rest(p, 1) = p
  BY SubSeqFull DEF Rest
<1>2. Rest(p, Len(p) + 1) = <<>>
  BY <1>0, SubSeqEmpty DEF Rest
<1>3. ASSUME NEW n \in 1 .. Len(p)
      PROVE  /\ Head(Rest(p, n)) = p[n]
             /\ Tail(Rest(p, n)) = Rest(p, n + 1)
  BY <1>0, HeadTailOfSubSeq DEF Rest
<1>4. ASSUME NEW n \in 1 .. Len(p) PROVE Rest(p, n) # <<>>
  <2>1. \A i \in n .. Len(p) : p[i] \in AccessNames
    BY <1>0
  <2>2. Len(Rest(p, n)) = Len(p) - n + 1
    BY <1>0, <2>1, SubSeqProperties DEF Rest
  <2> QED
    BY <1>0, <2>2, EmptySeq
<1> QED
  BY <1>1, <1>2, <1>3, <1>4

\* The programs of the backends.
LEMMA ProgramFacts ==
    ASSUME ResetTypeOK, backend # "none", NEW r
    PROVE  /\ Program(r) \in Seq(AccessNames)
           /\ backend = "sifive" => Program(r) = <<"finish">>
           /\ backend = "v105" => Program(r) \in {<<"mode_off", "trigger">>, <<"gate_on", "mode_off", "trigger">>}
           /\ backend = "v104" => Program(r) = WatchdogV104
           /\ backend = "p1" => Program(r) = PowerTransaction
           /\ backend = "syscon" => Program(r) = <<"sys_read", "sys_write">>
<1>1. backend \in {"sifive", "p1", "v105", "v104", "syscon"}
  BY DEF ResetTypeOK, DriverNames
<1>2. /\ backend = "sifive" => Program(r) = <<"finish">>
      /\ backend = "v105" => Program(r) = WatchdogV105
      /\ backend = "v104" => Program(r) = WatchdogV104
      /\ backend = "p1" => Program(r) = PowerTransaction
      /\ backend = "syscon" => Program(r) = <<"sys_read", "sys_write">>
  <2>1. backend = "sifive" => Program(r) = <<"finish">>
    BY Zenon DEF Program
  <2>2. backend = "v105" => Program(r) = WatchdogV105
    BY Zenon DEF Program
  <2>3. backend = "v104" => Program(r) = WatchdogV104
    BY Zenon DEF Program
  <2>4. backend = "p1" => Program(r) = PowerTransaction
    BY Zenon DEF Program
  <2>5. backend = "syscon" => Program(r) = <<"sys_read", "sys_write">>
    BY Zenon DEF Program
  <2> QED
    BY <2>1, <2>2, <2>3, <2>4, <2>5
<1>3. WatchdogV105 \in {<<"mode_off", "trigger">>, <<"gate_on", "mode_off", "trigger">>}
  BY DEF WatchdogV105
<1>4. WatchdogV104 \in Seq(AccessNames)
  BY DEF WatchdogV104, AccessNames
<1>5. PowerTransaction \in Seq(AccessNames)
  BY DEF PowerTransaction, AccessNames
<1>6. /\ <<"finish">> \in Seq(AccessNames) /\ <<"sys_read", "sys_write">> \in Seq(AccessNames)
      /\ <<"mode_off", "trigger">> \in Seq(AccessNames)
      /\ <<"gate_on", "mode_off", "trigger">> \in Seq(AccessNames)
  BY DEF AccessNames
<1>7. Program(r) \in Seq(AccessNames)
  BY <1>1, <1>2, <1>3, <1>4, <1>5, <1>6
<1> QED
  BY <1>2, <1>3, <1>7

\* The device registers after an access.
DevTypes == [mode : SUBSET RegisterBits, config : SUBSET RegisterBits, gate : SUBSET RegisterBits,
             power : SUBSET RegisterBits, sysoff : SUBSET RegisterBits, sysreboot : SUBSET RegisterBits,
             finish : SUBSET RegisterBits]

\* What an access does to the device and to the byte or word read from it.
LEMMA AccessFacts ==
    ASSUME NEW h, NEW acc \in AccessNames, Access(h, acc)
    PROVE  /\ acc = "mode_off" => dev' = [dev EXCEPT !.mode = dev.mode \ {"enable"}] /\ value' = value
           /\ acc = "config_off" => dev' = [dev EXCEPT !.config = dev.config \ {"enable"}] /\ value' = value
           /\ acc = "config_on" => dev' = [dev EXCEPT !.config = {"enable"}] /\ value' = value
           /\ acc = "mode_on" => dev' = [dev EXCEPT !.mode = dev.mode \cup {"enable"}] /\ value' = value
           /\ acc = "gate_on" => dev' = [dev EXCEPT !.gate = {"enable"}] /\ value' = value
           /\ acc = "trigger" => dev' = [dev EXCEPT !.finish = {"reboot"}] /\ value' = value
           /\ acc = "finish" => dev' = [dev EXCEPT !.finish = {Kind(ask[h])}] /\ value' = value
           /\ acc = "receive" => value' = dev.power /\ dev' = dev
           /\ acc = "send_value" => dev' = [dev EXCEPT !.power = value \cup {PowerBit(ask[h])}] /\ value' = value
           /\ acc = "sys_read" => value' = dev[SysconWord(ask[h])] /\ dev' = dev
           /\ acc = "sys_write" =>
                  /\ dev' = [dev EXCEPT ![SysconWord(ask[h])] = (value \ SysconMask) \cup {Kind(ask[h])}]
                  /\ value' = value
           /\ acc \in {"prepare", "start", "send_register", "stop", "disable", "delay"} => UNCHANGED <<dev, value>>
  BY DEF Access, SetReg, AccessNames

\* A syscon has one word for poweroff and one for reboot.
LEMMA SysconWords == \A r : SysconWord(r) \in {"sysoff", "sysreboot"}
  BY DEF SysconWord

\* The next access of a program keeps the types.
LEMMA AccessTypes ==
    ASSUME dev \in DevTypes, value \in SUBSET RegisterBits,
           NEW h, NEW acc \in AccessNames, Access(h, acc)
    PROVE  dev' \in DevTypes /\ value' \in SUBSET RegisterBits
<1> USE DEF DevTypes, RegisterBits
<1>1. Kind(ask[h]) \in {"off", "reboot"} /\ PowerBit(ask[h]) \in {"shutdown", "reset"}
  BY DEF Kind, PowerBit
<1>2. CASE acc \in {"mode_off", "config_off", "config_on", "mode_on", "gate_on", "trigger"}
  BY <1>2, AccessFacts
<1>3. CASE acc \in {"finish", "send_value"}
  BY <1>1, <1>3, AccessFacts
<1>4. CASE acc \in {"receive", "prepare", "start", "send_register", "stop", "disable", "delay"}
  BY <1>4, AccessFacts
<1>5. CASE acc = "sys_read"
  BY <1>5, AccessFacts, SysconWords
<1>6. CASE acc = "sys_write"
  <2>1. (value \ SysconMask) \cup {Kind(ask[h])} \in SUBSET RegisterBits
    BY <1>1
  <2>2. /\ dev' = [dev EXCEPT ![SysconWord(ask[h])] = (value \ SysconMask) \cup {Kind(ask[h])}]
        /\ value' = value
    BY <1>6, AccessFacts
  <2> QED
    BY <2>1, <2>2, SysconWords
<1> QED
  BY <1>2, <1>3, <1>4, <1>5, <1>6 DEF AccessNames

\* The next node to probe.
LEMMA NextNode ==
    ASSUME ResetTypeOK, probed < Len(nodes)
    PROVE  /\ nodes \in Seq(ResetNodes) /\ Len(nodes) \in Nat
           /\ probed + 1 \in 1 .. Len(nodes)
           /\ nodes[probed + 1] \in ResetNodes
  BY ResetAssumption, LenProperties DEF ResetTypeOK

\* Probing a node keeps the types.
LEMMA ProbeTypes == ASSUME ResetTypeOK, ProbeNode PROVE ResetTypeOK'
<1> DEFINE n == nodes[probed + 1]
           bad == n.malformed \/ n.driver \in found.once \/ (n.driver = "gprcm" /\ found.gate)
<1>1. probed + 1 \in 1 .. Len(nodes) /\ Len(nodes) \in Nat /\ n \in ResetNodes
  BY NextNode DEF ProbeNode
<1>2. /\ n.driver \in {"sifive", "p1", "v105", "v104", "syscon", "gprcm"}
      /\ n.priority \in Nat /\ n.window \in Nat
      /\ n.driver = "syscon" => n.action \in Actions
  BY <1>1 DEF ResetNodes
<1>3. /\ rphase' = IF bad THEN "failed" ELSE rphase
      /\ found' =
            IF bad THEN found
            ELSE CASE n.driver = "syscon" -> [found EXCEPT ![n.action] = Consider(@, n)]
                   [] n.driver = "gprcm" -> [found EXCEPT !.gate = TRUE]
                   [] OTHER -> [found EXCEPT !.once = @ \cup {n.driver}]
      /\ probed' = probed + 1
      /\ UNCHANGED <<resets, nodes, timebase, backend, rlock, rpc, ask, prog, failed, dev, value, machine, asked>>
  BY DEF ProbeNode
<1>4. \A s \in Selections : Consider(s, n) \in Selections
  BY <1>2 DEF Consider, Selections
<1> HIDE DEF n
<1>5. /\ bad => found' = found
      /\ ~bad /\ n.driver = "syscon" => found' = [found EXCEPT ![n.action] = Consider(@, n)]
      /\ ~bad /\ n.driver = "gprcm" => found' = [found EXCEPT !.gate = TRUE]
      /\ ~bad /\ n.driver \notin {"syscon", "gprcm"} => found' = [found EXCEPT !.once = @ \cup {n.driver}]
  <2>1. bad => found' = found
    BY <1>3, Zenon
  <2>2. ~bad /\ n.driver = "syscon" => found' = [found EXCEPT ![n.action] = Consider(@, n)]
    BY <1>3, Zenon
  <2>3. ~bad /\ n.driver = "gprcm" => found' = [found EXCEPT !.gate = TRUE]
    BY <1>3, Zenon
  <2>4. ~bad /\ n.driver \notin {"syscon", "gprcm"} => found' = [found EXCEPT !.once = @ \cup {n.driver}]
    BY <1>3, Zenon
  <2> QED
    BY <2>1, <2>2, <2>3, <2>4
<1>6. found' \in [once : SUBSET {"sifive", "p1", "v105", "v104"}, poweroff : Selections, reboot : Selections, gate : BOOLEAN]
  <2>1. CASE ~bad /\ n.driver = "syscon"
    BY <1>2, <1>4, <1>5, <2>1 DEF ResetTypeOK, Actions
  <2>2. CASE ~bad /\ n.driver # "syscon"
    <3>1. CASE n.driver = "gprcm"
      BY <1>5, <2>2, <3>1 DEF ResetTypeOK
    <3>2. CASE n.driver # "gprcm"
      <4>1. found.once \cup {n.driver} \in SUBSET {"sifive", "p1", "v105", "v104"}
        BY <1>2, <2>2, <3>2 DEF ResetTypeOK
      <4>2. found' = [found EXCEPT !.once = found.once \cup {n.driver}]
        BY <1>5, <2>2, <3>2
      <4> QED
        BY <4>1, <4>2 DEF ResetTypeOK
    <3> QED
      BY <3>1, <3>2
  <2> QED
    BY <1>5, <2>1, <2>2 DEF ResetTypeOK
<1>7. probed' \in 0 .. Len(nodes')
  BY <1>1, <1>3
<1> QED
  BY <1>3, <1>6, <1>7 DEF ResetTypeOK

\* A call returns to the supervisor or stops the hart.
LEMMA WhereTo ==
    ASSUME ResetTypeOK, NEW h \in ResetCallers
    PROVE  ask[h][3] \in {"smode", "stopped"}
<1>1. ask[h] \in AllRequests
  BY DEF ResetTypeOK
<1>2. ASSUME NEW r \in ResetCalls, NEW then \in {"smode", "stopped"}, ask[h] = <<r[1], r[2], then>>
      PROVE  ask[h][3] \in {"smode", "stopped"}
  BY <1>2
<1>3. CASE ask[h] = NoRequest
  BY <1>3 DEF NoRequest
<1> QED
  BY <1>1, <1>2, <1>3 DEF AllRequests

\* Types of the calls.
LEMMA CallTypes ==
    ASSUME ResetTypeOK, OneUser, Callable, NEW h \in ResetCallers,
           \/ CallerStep(h) \/ FailReset(h) \/ \E r \in Requests : CallReset(h, r, "smode")
    PROVE  ResetTypeOK'
<1>0. /\ rpc \in [ResetCallers -> {"smode", "stopped", "lock", "run", "parked"}]
      /\ ask \in [ResetCallers -> AllRequests]
      /\ prog \in [ResetCallers -> Seq(AccessNames)]
      /\ failed \in [ResetCallers -> BOOLEAN]
      /\ asked \subseteq {"off", "reboot"}
  BY DEF ResetTypeOK
<1>1. UNCHANGED <<nodes, probed, timebase, found, rphase, backend>>
  BY DEF Callable, boardState
<1>2. ASSUME NEW r \in ResetCalls, NEW then \in {"smode", "stopped"},
             CallReset(h, r, then)
      PROVE  ResetTypeOK'
  <2>1. Kind(r) \in {"off", "reboot"}
    BY DEF Kind
  <2>2. /\ rpc' \in [ResetCallers -> {"smode", "stopped", "lock", "run", "parked"}]
        /\ ask' \in [ResetCallers -> AllRequests]
        /\ asked' \subseteq {"off", "reboot"}
    <3>1. CASE ValidRequest(r) /\ backend # "none"
      <4>1. /\ rpc' = [rpc EXCEPT ![h] = "lock"] /\ ask' = [ask EXCEPT ![h] = <<r[1], r[2], then>>]
            /\ asked' = asked \cup {Kind(r)}
        BY <1>2, <3>1, Zenon DEF CallReset, Continue
      <4>2. <<r[1], r[2], then>> \in {<<q[1], q[2], t>> : q \in ResetCalls, t \in {"smode", "stopped"}}
        OBVIOUS
      <4>3. <<r[1], r[2], then>> \in AllRequests
        BY <4>2 DEF AllRequests
      <4> QED
        BY <1>0, <2>1, <4>1, <4>3
    <3>2. CASE ~(ValidRequest(r) /\ backend # "none")
      BY <1>0, <1>2, <3>2 DEF CallReset, Continue
    <3> QED
      BY <3>1, <3>2
  <2> QED
    BY <1>1, <1>2, <2>2 DEF CallReset, ResetTypeOK
<1>3. CASE TakeBackend(h)
  <2>1. CASE Supports(ask[h])
    <3>1. Program(ask[h]) \in Seq(AccessNames)
      BY <1>3, ProgramFacts DEF TakeBackend, OneUser
    <3>2. /\ rpc' \in [ResetCallers -> {"smode", "stopped", "lock", "run", "parked"}]
          /\ prog' \in [ResetCallers -> Seq(AccessNames)]
      BY <1>0, <1>3, <2>1, <3>1 DEF TakeBackend, Continue
    <3> QED
      BY <1>1, <1>3, <3>2 DEF TakeBackend, ResetTypeOK
  <2>2. CASE ~Supports(ask[h])
    <3>1. ask[h][3] \in {"smode", "stopped"}
      BY WhereTo
    <3>2. rpc' = [rpc EXCEPT ![h] = ask[h][3]] /\ UNCHANGED <<prog, ask, failed, dev, value, machine, asked>>
      BY <1>3, <2>2 DEF TakeBackend, Continue
    <3>3. rpc' \in [ResetCallers -> {"smode", "stopped", "lock", "run", "parked"}]
      BY <1>0, <3>1, <3>2
    <3> QED
      BY <1>1, <3>2, <3>3 DEF ResetTypeOK
  <2> QED
    BY <2>1, <2>2
<1>4. CASE Step(h)
  <2>1. /\ prog[h] \in Seq(AccessNames) /\ prog[h] # <<>>
        /\ Head(prog[h]) \in AccessNames /\ Tail(prog[h]) \in Seq(AccessNames)
    BY <1>4, HeadTailProperties DEF Step, ResetTypeOK
  <2>2. dev' \in DevTypes /\ value' \in SUBSET RegisterBits
    BY <1>4, <2>1, AccessTypes DEF Step, ResetTypeOK, DevTypes
  <2> QED
    BY <1>1, <1>4, <2>1, <2>2 DEF Step, ResetTypeOK, DevTypes
<1>5. CASE StepFails(h)
  <2>1. dev' \in DevTypes /\ value' \in SUBSET RegisterBits
    <3>1. "send_value" \in AccessNames
      BY DEF AccessNames
    <3> QED
      BY <1>5, <3>1, AccessTypes DEF StepFails, ResetTypeOK, DevTypes
  <2>2. <<>> \in Seq(AccessNames) /\ <<"disable">> \in Seq(AccessNames)
    BY DEF AccessNames
  <2> QED
    BY <1>1, <1>5, <2>1, <2>2 DEF StepFails, ResetTypeOK, DevTypes
<1>6. CASE Finish(h)
  <2>1. NoRequest \in AllRequests
    BY DEF AllRequests
  <2>2. /\ rpc' \in [ResetCallers -> {"smode", "stopped", "lock", "run", "parked"}]
        /\ ask' \in [ResetCallers -> AllRequests]
        /\ failed' \in [ResetCallers -> BOOLEAN]
    <3>1. ask[h][3] \in {"smode", "stopped"}
      BY WhereTo
    <3>2. /\ \/ rpc' = [rpc EXCEPT ![h] = ask[h][3]] /\ ask' = [ask EXCEPT ![h] = NoRequest]
             \/ rpc' = [rpc EXCEPT ![h] = "parked"] /\ ask' = ask
          /\ failed' = [failed EXCEPT ![h] = FALSE]
      BY <1>6 DEF Finish, Continue
    <3> QED
      BY <1>0, <2>1, <3>1, <3>2
  <2> QED
    BY <1>1, <1>6, <2>2 DEF Finish, ResetTypeOK
<1>7. Requests \subseteq ResetCalls /\ <<"shutdown", "system_failure">> \in ResetCalls
  BY DEF ResetCalls
<1> QED
  BY <1>2, <1>3, <1>4, <1>5, <1>6, <1>7 DEF CallerStep, FailReset

\* Every step keeps the types of the reset devices.
LEMMA ResetTypes == ResetTypeOK /\ OneUser /\ [ResetNext]_resetVars => ResetTypeOK'
<1> SUFFICES ASSUME ResetTypeOK, OneUser, [ResetNext]_resetVars PROVE ResetTypeOK'
  OBVIOUS
<1>1. CASE BindReset
  <2>1. backend' \in DriverNames \cup {"none"}
    <3> DEFINE matched == {i \in DOMAIN Drivers : HasDevice(Drivers[i])}
               first == CHOOSE i \in matched : \A j \in matched : i <= j
    <3>1. backend' = IF matched = {} THEN "none" ELSE Drivers[first]
      BY <1>1 DEF BindReset
    <3>2. DOMAIN Drivers = 1 .. 5 /\ \A i \in 1 .. 5 : Drivers[i] \in DriverNames
      BY DEF Drivers, DriverNames
    <3>3. matched # {} => first \in matched
      <4>1. \A i \in matched : i \in {1, 2, 3, 4, 5}
        BY <3>2
      <4> HIDE DEF matched
      <4>2. matched # {} => \E i \in matched : \A j \in matched : i <= j
        BY <4>1
      <4> QED
        BY <4>2
    <3> QED
      BY <3>1, <3>2, <3>3
  <2> QED
    BY <1>1, <2>1 DEF BindReset, ResetTypeOK
<1>2. CASE Callable /\ Takedown
  BY <1>2 DEF Callable, boardState, Takedown, ResetTypeOK
<1>3. CASE UNCHANGED resetVars
  BY <1>3 DEF resetVars, boardState, ResetTypeOK
<1> QED
  BY <1>1, <1>2, <1>3, ProbeTypes, CallTypes DEF ResetNext

\* The lock of the device: a hart that runs a program or waits for its reset
\* has it, and no other hart does.
LEMMA OneUserKept ==
    ResetTypeOK /\ OneUser /\ [ResetNext]_resetVars => OneUser'
<1> SUFFICES ASSUME ResetTypeOK, OneUser, [ResetNext]_resetVars PROVE OneUser'
  OBVIOUS
<1>0. /\ rpc \in [ResetCallers -> {"smode", "stopped", "lock", "run", "parked"}]
      /\ rphase \in {"probing", "serving", "failed"}
  BY DEF ResetTypeOK
<1>1. CASE ProbeNode
  <2>1. \A h \in ResetCallers : rpc[h] \notin {"lock", "run", "parked"}
    BY <1>1 DEF ProbeNode, OneUser
  <2> QED
    BY <1>1, <2>1 DEF ProbeNode, OneUser
<1>2. CASE BindReset
  <2>1. \A h \in ResetCallers : rpc[h] \notin {"lock", "run", "parked"}
    BY <1>2 DEF BindReset, OneUser
  <2> QED
    BY <1>2, <2>1 DEF BindReset, OneUser
<1>3. ASSUME Callable, NEW h \in ResetCallers, NEW r, NEW then \in {"smode", "stopped"},
             CallReset(h, r, then)
      PROVE  OneUser'
  <2>1. rlock' = rlock /\ rphase' = rphase /\ backend' = backend /\ rphase = "serving"
    BY <1>3 DEF CallReset, Callable, boardState
  <2>2. rpc' = [rpc EXCEPT ![h] = IF ValidRequest(r) /\ backend # "none" THEN "lock" ELSE then]
    BY <1>3 DEF CallReset, Continue
  <2> QED
    BY <1>0, <2>1, <2>2 DEF OneUser
<1>4. ASSUME Callable, NEW h \in ResetCallers, CallerStep(h) PROVE OneUser'
  <2>1. rphase' = rphase /\ backend' = backend /\ rphase = "serving"
    BY <1>4 DEF Callable, boardState
  <2>2. CASE TakeBackend(h)
    BY <1>0, <2>1, <2>2, ResetAssumption, WhereTo DEF TakeBackend, OneUser, Continue
  <2>3. CASE Step(h) \/ StepFails(h)
    BY <2>1, <2>3 DEF Step, StepFails, OneUser
  <2>4. CASE Finish(h)
    BY <1>0, <2>1, <2>4, WhereTo DEF Finish, OneUser, Continue
  <2> QED
    BY <1>4, <2>2, <2>3, <2>4 DEF CallerStep
<1>5. CASE Callable /\ Takedown
  BY <1>5 DEF Callable, boardState, Takedown, OneUser
<1>6. CASE UNCHANGED resetVars
  BY <1>6 DEF resetVars, boardState, OneUser
<1> QED
  BY <1>1, <1>2, <1>3, <1>4, <1>5, <1>6 DEF ResetNext, FailReset

\* The accesses of the programs, in their order.
LEMMA ProgramOrder ==
    /\ Len(WatchdogV104) = 5
    /\ WatchdogV104[1] = "mode_off" /\ WatchdogV104[2] = "config_off" /\ WatchdogV104[3] = "delay"
    /\ WatchdogV104[4] = "config_on" /\ WatchdogV104[5] = "mode_on"
    /\ Len(PowerTransaction) = 12
    /\ PowerTransaction[5] = "receive" /\ PowerTransaction[11] = "send_value"
    /\ \A n \in 1 .. 12 : n \notin {5, 11} =>
           PowerTransaction[n] \in {"prepare", "start", "send_register", "stop", "disable"}
<1>1. /\ Len(WatchdogV104) = 5
      /\ WatchdogV104[1] = "mode_off" /\ WatchdogV104[2] = "config_off" /\ WatchdogV104[3] = "delay"
      /\ WatchdogV104[4] = "config_on" /\ WatchdogV104[5] = "mode_on"
  BY DEF WatchdogV104
<1>2. /\ Len(PowerTransaction) = 12
      /\ PowerTransaction[5] = "receive" /\ PowerTransaction[11] = "send_value"
  BY DEF PowerTransaction
<1>3. \A n \in 1 .. 12 : n \notin {5, 11} =>
           PowerTransaction[n] \in {"prepare", "start", "send_register", "stop", "disable"}
  BY DEF PowerTransaction
<1> QED
  BY <1>1, <1>2, <1>3

\* An access takes a program from one point to the next, and keeps the
\* registers whole: this is what the order of the accesses is for.
LEMMA AccessAdvances ==
    ASSUME ResetTypeOK, backend # "none", backend' = backend, TransactionsAreWhole,
           NEW h, NEW n \in 1 .. Len(Program(ask[h])), Halfway(n),
           Access(h, Program(ask[h])[n])
    PROVE  Halfway(n + 1)' /\ TransactionsAreWhole'
<1> USE DEF TransactionsAreWhole, WatchdogIsWhole, OtherBitsAreKept, Halfway
<1>0. dev \in DevTypes /\ backend \in {"sifive", "p1", "v105", "v104", "syscon"}
  BY DEF ResetTypeOK, DevTypes, DriverNames
<1>1. CASE backend = "sifive"
  <2>1. Program(ask[h])[n] = "finish"
    BY <1>1, ProgramFacts
  <2>2. dev' = [dev EXCEPT !.finish = {Kind(ask[h])}]
    BY <2>1, AccessFacts DEF AccessNames
  <2> QED
    BY <1>0, <1>1, <2>2 DEF DevTypes
<1>2. CASE backend = "v105"
  <2>1. Program(ask[h])[n] \in {"gate_on", "mode_off", "trigger"}
    BY <1>2, ProgramFacts
  <2>2. \/ dev' = [dev EXCEPT !.gate = {"enable"}]
        \/ dev' = [dev EXCEPT !.mode = dev.mode \ {"enable"}]
        \/ dev' = [dev EXCEPT !.finish = {"reboot"}]
    BY <2>1, AccessFacts DEF AccessNames
  <2> QED
    BY <1>0, <1>2, <2>2 DEF DevTypes
<1>3. CASE backend = "v104"
  <2>0. Program(ask[h]) = WatchdogV104 /\ n \in 1 .. 5
    BY <1>3, ProgramFacts, ProgramOrder
  <2>1. CASE n = 1
    <3>1. dev' = [dev EXCEPT !.mode = dev.mode \ {"enable"}]
      BY <2>0, <2>1, ProgramOrder, AccessFacts DEF AccessNames
    <3> QED
      BY <1>0, <1>3, <2>1, <3>1 DEF DevTypes
  <2>2. CASE n = 2
    <3>1. dev' = [dev EXCEPT !.config = dev.config \ {"enable"}]
      BY <2>0, <2>2, ProgramOrder, AccessFacts DEF AccessNames
    <3> QED
      BY <1>0, <1>3, <2>2, <3>1 DEF DevTypes
  <2>3. CASE n = 3
    <3>1. dev' = dev
      BY <2>0, <2>3, ProgramOrder, AccessFacts DEF AccessNames
    <3> QED
      BY <1>0, <1>3, <2>3, <3>1 DEF DevTypes
  <2>4. CASE n = 4
    <3>1. dev' = [dev EXCEPT !.config = {"enable"}]
      BY <2>0, <2>4, ProgramOrder, AccessFacts DEF AccessNames
    <3> QED
      BY <1>0, <1>3, <2>4, <3>1 DEF DevTypes
  <2>5. CASE n = 5
    <3>1. dev' = [dev EXCEPT !.mode = dev.mode \cup {"enable"}]
      BY <2>0, <2>5, ProgramOrder, AccessFacts DEF AccessNames
    <3> QED
      BY <1>0, <1>3, <2>5, <3>1 DEF DevTypes
  <2> QED
    BY <2>0, <2>1, <2>2, <2>3, <2>4, <2>5
<1>4. CASE backend = "p1"
  <2>0. Program(ask[h]) = PowerTransaction /\ n \in 1 .. 12
    BY <1>4, ProgramFacts, ProgramOrder
  <2>1. CASE n = 5
    <3>1. dev' = dev /\ value' = dev.power
      BY <2>0, <2>1, ProgramOrder, AccessFacts DEF AccessNames
    <3> QED
      BY <1>4, <2>1, <3>1
  <2>2. CASE n = 11
    <3>1. dev' = [dev EXCEPT !.power = value \cup {PowerBit(ask[h])}] /\ value' = value
      BY <2>0, <2>2, ProgramOrder, AccessFacts DEF AccessNames
    <3> QED
      BY <1>0, <1>4, <2>2, <3>1 DEF DevTypes
  <2>3. CASE n \notin {5, 11}
    <3>1. dev' = dev /\ value' = value
      BY <2>0, <2>3, ProgramOrder, AccessFacts DEF AccessNames
    <3> QED
      BY <1>4, <2>0, <2>3, <3>1
  <2> QED
    BY <2>1, <2>2, <2>3
<1>5. CASE backend = "syscon"
  <2>0. Program(ask[h]) = <<"sys_read", "sys_write">> /\ n \in 1 .. 2
    BY <1>5, ProgramFacts
  <2>1. CASE n = 1
    <3>1. dev' = dev /\ value' = dev[SysconWord(ask[h])]
      BY <2>0, <2>1, AccessFacts DEF AccessNames
    <3> QED
      BY <1>5, <2>1, <3>1, SysconWords
  <2>2. CASE n = 2
    <3>1. dev' = [dev EXCEPT ![SysconWord(ask[h])] = (value \ SysconMask) \cup {Kind(ask[h])}]
      BY <2>0, <2>2, AccessFacts DEF AccessNames
    <3>2. "other" \in (value \ SysconMask) \cup {Kind(ask[h])}
      BY <1>5, <2>2 DEF SysconMask
    <3> QED
      BY <1>0, <1>5, <2>2, <3>1, <3>2, SysconWords DEF DevTypes
  <2> QED
    BY <2>0, <2>1, <2>2
<1> QED
  BY <1>0, <1>1, <1>2, <1>3, <1>4, <1>5

\* Only the PMIC's program has transfers that may fail.
LEMMA OnlyThePmicFails ==
    ASSUME ResetTypeOK, backend # "none", NEW r, NEW n \in 1 .. Len(Program(r)), Program(r)[n] \in OnBus
    PROVE  backend = "p1"
<1>0. backend \in {"sifive", "p1", "v105", "v104", "syscon"}
  BY DEF ResetTypeOK, DriverNames
<1>1. CASE backend \in {"sifive", "v105", "syscon"}
  BY <1>1, ProgramFacts DEF OnBus
<1>2. CASE backend = "v104"
  <2>1. Program(r) = WatchdogV104 /\ n \in 1 .. 5
    BY <1>2, ProgramFacts, ProgramOrder
  <2>2. n = 1 \/ n = 2 \/ n = 3 \/ n = 4 \/ n = 5
    BY <2>1
  <2> QED
    BY <2>1, <2>2, ProgramOrder DEF OnBus
<1> QED
  BY <1>0, <1>1, <1>2

\* Where the program of a hart that makes its next access stands.
LEMMA NextAccess ==
    ASSUME ResetTypeOK, OneUser, ProgramInv, NEW h \in ResetCallers,
           rpc[h] = "run", prog[h] # <<>>
    PROVE  \/ backend = "p1" /\ prog[h] = <<"disable">>
           \/ \E n \in 1 .. Len(Program(ask[h])) :
                  /\ Halfway(n) /\ Head(prog[h]) = Program(ask[h])[n]
                  /\ Tail(prog[h]) = Rest(Program(ask[h]), n + 1)
<1>1. backend # "none"
  BY DEF OneUser
<1>2. Program(ask[h]) \in Seq(AccessNames) /\ Len(Program(ask[h])) \in Nat
  BY <1>1, ProgramFacts, LenProperties
<1>3. CASE backend = "p1" /\ prog[h] \in {<<>>, <<"disable">>}
  BY <1>3
<1>4. ASSUME NEW n \in 1 .. Len(Program(ask[h])) + 1, prog[h] = Rest(Program(ask[h]), n), Halfway(n)
      PROVE  \E m \in 1 .. Len(Program(ask[h])) :
                  /\ Halfway(m) /\ Head(prog[h]) = Program(ask[h])[m]
                  /\ Tail(prog[h]) = Rest(Program(ask[h]), m + 1)
  <2>1. n # Len(Program(ask[h])) + 1
    BY <1>2, <1>4, RestFacts
  <2>2. n \in 1 .. Len(Program(ask[h]))
    BY <1>2, <2>1
  <2>3. Head(prog[h]) = Program(ask[h])[n] /\ Tail(prog[h]) = Rest(Program(ask[h]), n + 1)
    BY <1>2, <1>4, <2>2, RestFacts
  <2> QED
    BY <1>4, <2>2, <2>3
<1> QED
  BY <1>3, <1>4 DEF ProgramInv

\* A hart's program advances or is given up; the others have none.
LEMMA ProgramsAdvance ==
    ASSUME ResetTypeOK, OneUser, ProgramInv, TransactionsAreWhole, Callable,
           NEW h \in ResetCallers, CallerStep(h), OneUser'
    PROVE  ProgramInv' /\ TransactionsAreWhole'
<1>0. /\ rpc \in [ResetCallers -> {"smode", "stopped", "lock", "run", "parked"}]
      /\ prog \in [ResetCallers -> Seq(AccessNames)]
      /\ backend' = backend /\ found' = found
  BY DEF ResetTypeOK, Callable, boardState
<1>1. Program(ask[h])' = Program(ask[h])
  BY <1>0 DEF Program, WatchdogV105
<1>2. rpc[h] = "run" => rlock = h /\ backend # "none"
  BY DEF OneUser
<1>3. \A g \in ResetCallers \ {h} : rpc'[g] # "run"
  <2>1. rlock' \in {h, "free"}
    BY <1>2 DEF CallerStep, TakeBackend, Step, StepFails, Finish
  <2> QED
    BY <2>1, ResetAssumption DEF OneUser
<1>4. CASE TakeBackend(h)
  <2>1. UNCHANGED <<dev, value>>
    BY <1>4 DEF TakeBackend
  <2>2. CASE Supports(ask[h])
    <3>1. prog'[h] = Program(ask[h]) /\ backend # "none"
      BY <1>0, <1>4, <2>2 DEF TakeBackend, OneUser
    <3>2. Program(ask[h]) \in Seq(AccessNames) /\ Len(Program(ask[h])) \in Nat
      BY <3>1, ProgramFacts, LenProperties
    <3>3. prog'[h] = Rest(Program(ask[h]), 1) /\ 1 \in 1 .. Len(Program(ask[h])) + 1
      BY <3>1, <3>2, RestFacts
    <3>4. Halfway(1)'
      BY DEF Halfway
    <3> QED
      BY <1>1, <1>3, <2>1, <3>3, <3>4
      DEF ProgramInv, TransactionsAreWhole, WatchdogIsWhole, OtherBitsAreKept
  <2>3. CASE ~Supports(ask[h])
    <3>1. rpc'[h] \in {"smode", "stopped"}
      BY <1>0, <1>4, <2>3, WhereTo DEF TakeBackend, Continue
    <3> QED
      BY <1>3, <2>1, <3>1
      DEF ProgramInv, TransactionsAreWhole, WatchdogIsWhole, OtherBitsAreKept
  <2> QED
    BY <2>2, <2>3
<1>5. CASE Step(h)
  <2>1. rpc[h] = "run" /\ prog[h] # <<>> /\ Access(h, Head(prog[h])) /\ prog'[h] = Tail(prog[h])
    BY <1>0, <1>5 DEF Step
  <2>2. CASE backend = "p1" /\ prog[h] = <<"disable">>
    <3>1. Head(prog[h]) = "disable" /\ Tail(prog[h]) = <<>>
      BY <2>2
    <3>2. UNCHANGED <<dev, value>>
      BY <2>1, <3>1, AccessFacts DEF AccessNames
    <3> QED
      BY <1>0, <1>3, <2>1, <2>2, <3>1, <3>2
      DEF ProgramInv, TransactionsAreWhole, WatchdogIsWhole, OtherBitsAreKept
  <2>3. ASSUME NEW n \in 1 .. Len(Program(ask[h])), Halfway(n),
               Head(prog[h]) = Program(ask[h])[n], Tail(prog[h]) = Rest(Program(ask[h]), n + 1)
        PROVE  ProgramInv' /\ TransactionsAreWhole'
    <3>1. Halfway(n + 1)' /\ TransactionsAreWhole'
      BY <1>0, <1>2, <2>1, <2>3, AccessAdvances
    <3>2. Len(Program(ask[h])) \in Nat
      BY <1>2, <2>1, ProgramFacts, LenProperties
    <3>3. n + 1 \in 1 .. Len(Program(ask[h])) + 1
      BY <3>2
    <3> QED
      BY <1>1, <1>3, <2>1, <2>3, <3>1, <3>3 DEF ProgramInv
  <2> QED
    BY <2>1, <2>2, <2>3, NextAccess
<1>6. CASE StepFails(h)
  <2>1. /\ rpc[h] = "run" /\ prog[h] # <<>> /\ Head(prog[h]) \in OnBus
        /\ prog'[h] \in {<<>>, <<"disable">>}
        /\ UNCHANGED <<dev, value>> \/ (Head(prog[h]) = "send_value" /\ Access(h, "send_value"))
    BY <1>0, <1>6 DEF StepFails
  <2>2. CASE backend = "p1" /\ prog[h] = <<"disable">>
    BY <2>1, <2>2 DEF OnBus
  <2>3. ASSUME NEW n \in 1 .. Len(Program(ask[h])), Halfway(n), Head(prog[h]) = Program(ask[h])[n]
        PROVE  ProgramInv' /\ TransactionsAreWhole'
    <3>1. backend = "p1"
      BY <1>2, <2>1, <2>3, OnlyThePmicFails
    <3>2. TransactionsAreWhole'
      <4>1. CASE UNCHANGED <<dev, value>>
        BY <4>1 DEF TransactionsAreWhole, WatchdogIsWhole, OtherBitsAreKept
      <4>2. CASE Head(prog[h]) = "send_value" /\ Access(h, "send_value")
        BY <1>0, <1>2, <2>1, <2>3, <4>2, AccessAdvances
      <4> QED
        BY <2>1, <4>1, <4>2
    <3> QED
      BY <1>0, <1>3, <2>1, <3>1, <3>2 DEF ProgramInv
  <2> QED
    BY <2>1, <2>2, <2>3, NextAccess
<1>7. CASE Finish(h)
  <2>1. rpc'[h] # "run" /\ dev' = dev
    <3>1. ask[h][3] \in {"smode", "stopped"}
      BY WhereTo
    <3> QED
      BY <1>0, <1>7, <3>1 DEF Finish, Continue
  <2> QED
    BY <1>3, <2>1 DEF ProgramInv, TransactionsAreWhole, WatchdogIsWhole, OtherBitsAreKept
<1> QED
  BY <1>4, <1>5, <1>6, <1>7 DEF CallerStep

\* Every step keeps the program of accesses whole.
LEMMA ProgramsKept ==
    ResetTypeOK /\ OneUser /\ ProgramInv /\ TransactionsAreWhole /\ [ResetNext]_resetVars
        => ProgramInv' /\ TransactionsAreWhole'
<1> SUFFICES ASSUME ResetTypeOK, OneUser, ProgramInv, TransactionsAreWhole, [ResetNext]_resetVars
             PROVE  ProgramInv' /\ TransactionsAreWhole'
  OBVIOUS
<1> USE DEF TransactionsAreWhole, WatchdogIsWhole, OtherBitsAreKept
<1>0. OneUser'
  BY OneUserKept
<1>1. CASE ProbeNode \/ BindReset
  <2>1. \A h \in ResetCallers : rpc[h] # "run"
    BY <1>1 DEF ProbeNode, BindReset, OneUser
  <2>2. UNCHANGED <<rpc, dev>>
    BY <1>1 DEF ProbeNode, BindReset
  <2> QED
    BY <2>1, <2>2 DEF ProgramInv
<1>2. ASSUME Callable, NEW h \in ResetCallers, NEW r, NEW then \in {"smode", "stopped"}, CallReset(h, r, then)
      PROVE  ProgramInv' /\ TransactionsAreWhole'
  <2>1. UNCHANGED <<dev, value, prog, backend, found>>
    BY <1>2 DEF CallReset, Callable, boardState
  <2>2. ASSUME NEW g \in ResetCallers, rpc'[g] = "run" PROVE rpc[g] = "run" /\ Program(ask[g])' = Program(ask[g])
    <3>1. rpc' = [rpc EXCEPT ![h] = IF ValidRequest(r) /\ backend # "none" THEN "lock" ELSE then]
      BY <1>2 DEF CallReset, Continue
    <3>2. rpc[g] = "run"
      BY <2>2, <3>1 DEF ResetTypeOK
    <3> QED
      BY <2>1, <3>2 DEF Program, WatchdogV105
  <2>3. \A n : Halfway(n)' = Halfway(n)
    BY <2>1 DEF Halfway
  <2> QED
    BY <2>1, <2>2, <2>3 DEF ProgramInv
<1>3. ASSUME UNCHANGED <<dev, value, prog, backend, found, rpc, ask>> PROVE ProgramInv' /\ TransactionsAreWhole'
  <2>1. \A n : Halfway(n)' = Halfway(n)
    BY <1>3 DEF Halfway
  <2>2. \A g \in ResetCallers : Program(ask[g])' = Program(ask[g])
    BY <1>3 DEF Program, WatchdogV105
  <2> QED
    BY <1>3, <2>1, <2>2 DEF ProgramInv
<1>4. CASE (Callable /\ Takedown) \/ UNCHANGED resetVars
  <2>1. UNCHANGED <<dev, value, prog, backend, found, rpc, ask>>
    BY <1>4 DEF Callable, boardState, Takedown, resetVars
  <2> QED
    BY <1>3, <2>1
<1> HIDE DEF TransactionsAreWhole, WatchdogIsWhole, OtherBitsAreKept
<1>5. ASSUME Callable, NEW h \in ResetCallers, CallerStep(h)
      PROVE  ProgramInv' /\ TransactionsAreWhole'
  BY <1>0, <1>5, ProgramsAdvance
<1> QED
  BY <1>1, <1>2, <1>4, <1>5 DEF ResetNext, FailReset

\* An access commands only what was asked for.
LEMMA AccessAsked ==
    ASSUME ResetTypeOK, AskedBits, NEW h, NEW acc \in AccessNames, Access(h, acc), asked' = asked,
           Kind(ask[h]) \in asked, acc \in {"trigger", "mode_on"} => Kind(ask[h]) = "reboot"
    PROVE  AskedBits'
<1> USE DEF AskedBits
<1>0. dev \in DevTypes /\ value \in SUBSET RegisterBits
  BY DEF ResetTypeOK, DevTypes
<1>1. Kind(ask[h]) \in {"off", "reboot"} /\ PowerBit(ask[h]) = IF Kind(ask[h]) = "off" THEN "shutdown" ELSE "reset"
  BY DEF Kind, PowerBit
<1>2. CASE acc \in {"mode_off", "config_off", "config_on", "gate_on"}
  BY <1>0, <1>2, AccessFacts DEF DevTypes
<1>3. CASE acc \in {"mode_on", "trigger"}
  BY <1>0, <1>3, AccessFacts DEF DevTypes
<1>4. CASE acc = "finish"
  BY <1>0, <1>1, <1>4, AccessFacts DEF DevTypes
<1>5. CASE acc = "send_value"
  BY <1>0, <1>1, <1>5, AccessFacts DEF DevTypes
<1>6. CASE acc = "sys_write"
  <2> DEFINE word == (value \ SysconMask) \cup {Kind(ask[h])}
  <2>1. /\ word \cap {"off", "reboot"} \subseteq asked
        /\ "shutdown" \in word => "off" \in asked
        /\ "reset" \in word => "reboot" \in asked
    BY <1>1 DEF SysconMask
  <2>2. dev' = [dev EXCEPT ![SysconWord(ask[h])] = word] /\ value' = value
    BY <1>6, AccessFacts
  <2> HIDE DEF word
  <2>3. CASE SysconWord(ask[h]) = "sysoff"
    BY <1>0, <2>1, <2>2, <2>3 DEF DevTypes
  <2>4. CASE SysconWord(ask[h]) = "sysreboot"
    BY <1>0, <2>1, <2>2, <2>4 DEF DevTypes
  <2> QED
    BY <2>3, <2>4, SysconWords
<1>7. CASE acc \in {"receive", "prepare", "start", "send_register", "stop", "disable", "delay"}
  BY <1>7, AccessFacts
<1>8. CASE acc = "sys_read"
  BY <1>8, AccessFacts, SysconWords
<1> QED
  BY <1>2, <1>3, <1>4, <1>5, <1>6, <1>7, <1>8 DEF AccessNames

\* Only the watchdogs trigger and enable.
LEMMA OnlyWatchdogsTrigger ==
    ASSUME ResetTypeOK, backend # "none", NEW r, NEW n \in 1 .. Len(Program(r)), Program(r)[n] \in {"trigger", "mode_on"}
    PROVE  backend \in {"v104", "v105"}
<1>0. backend \in {"sifive", "p1", "v105", "v104", "syscon"}
  BY DEF ResetTypeOK, DriverNames
<1>1. CASE backend \in {"sifive", "syscon"}
  BY <1>1, ProgramFacts
<1>2. CASE backend = "p1"
  <2>1. Program(r) = PowerTransaction /\ n \in 1 .. 12
    BY <1>2, ProgramFacts, ProgramOrder
  <2> QED
    BY <2>1, ProgramOrder
<1> QED
  BY <1>0, <1>1, <1>2

\* A hart commands the reset it asked for.
LEMMA CallersAsk ==
    ASSUME ResetTypeOK, OneUser, ProgramInv, AskedCalls, AskedBits, Callable,
           NEW h \in ResetCallers, CallerStep(h)
    PROVE  AskedCalls' /\ AskedBits' /\ asked' = asked /\ machine' = machine
<1>0. /\ rpc \in [ResetCallers -> {"smode", "stopped", "lock", "run", "parked"}]
      /\ ask \in [ResetCallers -> AllRequests]
      /\ prog \in [ResetCallers -> Seq(AccessNames)]
      /\ backend' = backend
  BY DEF ResetTypeOK, Callable, boardState
<1>1. asked' = asked /\ machine' = machine
  BY DEF CallerStep, TakeBackend, Step, StepFails, Finish
<1>2. CASE TakeBackend(h)
  <2>1. UNCHANGED <<dev, value, ask>> /\ rpc[h] = "lock"
    BY <1>2 DEF TakeBackend
  <2>2. \A g \in ResetCallers : Kind(ask[g])' = Kind(ask[g])
    BY <2>1 DEF Kind
  <2>3. Supports(ask[h]) /\ backend \in {"v104", "v105"} => Kind(ask[h]) = "reboot"
    BY DEF Supports, Kind
  <2>4. rpc' = [rpc EXCEPT ![h] = IF Supports(ask[h]) THEN "run" ELSE ask[h][3]]
    BY <1>2 DEF TakeBackend, Continue
  <2>5. AskedCalls'
    BY <1>0, <1>1, <2>1, <2>2, <2>3, <2>4, WhereTo DEF AskedCalls
  <2> QED
    BY <1>1, <2>1, <2>5 DEF AskedBits
<1>3. ASSUME NEW acc, rpc[h] = "run", prog[h] # <<>>, acc = Head(prog[h]), Access(h, acc) PROVE AskedBits'
  <2>1. acc \in AccessNames
    BY <1>0, <1>3, HeadTailProperties
  <2>2. Kind(ask[h]) \in asked
    BY <1>3 DEF AskedCalls
  <2>3. acc \in {"trigger", "mode_on"} => Kind(ask[h]) = "reboot"
    <3>1. CASE prog[h] = <<"disable">>
      BY <1>3, <3>1
    <3>2. ASSUME NEW n \in 1 .. Len(Program(ask[h])), acc = Program(ask[h])[n], acc \in {"trigger", "mode_on"}
          PROVE  Kind(ask[h]) = "reboot"
      BY <1>3, <3>2, OnlyWatchdogsTrigger DEF OneUser, AskedCalls
    <3> QED
      BY <1>3, <3>1, <3>2, NextAccess
  <2> QED
    BY <1>1, <1>3, <2>1, <2>2, <2>3, AccessAsked
<1>4. CASE Step(h) \/ StepFails(h)
  <2>1. UNCHANGED <<rpc, ask>>
    BY <1>4 DEF Step, StepFails
  <2>2. \A g \in ResetCallers : Kind(ask[g])' = Kind(ask[g])
    BY <2>1 DEF Kind
  <2>3. AskedCalls'
    BY <1>0, <1>1, <2>1, <2>2 DEF AskedCalls
  <2>4. AskedBits'
    <3>1. CASE UNCHANGED <<dev, value>>
      BY <1>1, <3>1 DEF AskedBits
    <3> QED
      BY <1>3, <1>4, <3>1 DEF Step, StepFails
  <2> QED
    BY <1>1, <2>3, <2>4
<1>5. CASE Finish(h)
  <2>1. dev' = dev /\ value' = {}
    BY <1>5 DEF Finish
  <2>2. AskedBits'
    BY <1>1, <2>1 DEF AskedBits
  <2>3. rpc'[h] \in {"smode", "stopped", "parked"} /\ \A g \in ResetCallers \ {h} : rpc'[g] = rpc[g] /\ ask'[g] = ask[g]
    BY <1>0, <1>5, WhereTo DEF Finish, Continue
  <2>4. \A g \in ResetCallers \ {h} : Kind(ask[g])' = Kind(ask[g])
    BY <2>3 DEF Kind
  <2>5. AskedCalls'
    BY <1>0, <1>1, <2>3, <2>4 DEF AskedCalls
  <2> QED
    BY <1>1, <2>2, <2>5
<1> QED
  BY <1>2, <1>4, <1>5 DEF CallerStep

\* The system goes down only as asked: the hardware takes what the registers
\* say, and every bit of them was asked for.
LEMMA AskedKept ==
    ResetTypeOK /\ OneUser /\ ProgramInv /\ AskedCalls /\ AskedBits /\ GoesDownAsAsked /\ [ResetNext]_resetVars
        => AskedCalls' /\ AskedBits' /\ GoesDownAsAsked'
<1> SUFFICES ASSUME ResetTypeOK, OneUser, ProgramInv, AskedCalls, AskedBits, GoesDownAsAsked,
                    [ResetNext]_resetVars
             PROVE  AskedCalls' /\ AskedBits' /\ GoesDownAsAsked'
  OBVIOUS
<1>0. /\ rpc \in [ResetCallers -> {"smode", "stopped", "lock", "run", "parked"}]
      /\ ask \in [ResetCallers -> AllRequests]
  BY DEF ResetTypeOK
<1>1. CASE ProbeNode \/ BindReset
  <2>1. \A h \in ResetCallers : rpc[h] \notin {"lock", "run"}
    BY <1>1 DEF ProbeNode, BindReset, OneUser
  <2>2. UNCHANGED <<rpc, dev, value, asked, machine>>
    BY <1>1 DEF ProbeNode, BindReset
  <2> QED
    BY <2>1, <2>2 DEF AskedCalls, AskedBits, GoesDownAsAsked
<1>2. ASSUME Callable, NEW h \in ResetCallers, NEW r, NEW then \in {"smode", "stopped"}, CallReset(h, r, then)
      PROVE  AskedCalls' /\ AskedBits' /\ GoesDownAsAsked'
  <2>1. UNCHANGED <<dev, value, backend, machine>>
    BY <1>2 DEF CallReset, Callable, boardState
  <2>2. \/ /\ rpc' = [rpc EXCEPT ![h] = "lock"] /\ ask' = [ask EXCEPT ![h] = <<r[1], r[2], then>>]
           /\ asked' = asked \cup {Kind(r)}
        \/ rpc' = [rpc EXCEPT ![h] = then] /\ ask' = ask /\ asked' = asked
    BY <1>2 DEF CallReset, Continue
  <2>3. asked \subseteq asked'
    BY <2>2
  <2>4. AskedBits' /\ GoesDownAsAsked'
    BY <2>1, <2>3 DEF AskedBits, GoesDownAsAsked
  <2>5. ASSUME NEW g \in ResetCallers \ {h}
        PROVE  /\ rpc'[g] = rpc[g] /\ Kind(ask[g])' = Kind(ask[g])
    <3>1. rpc'[g] = rpc[g] /\ ask'[g] = ask[g]
      BY <1>0, <2>2
    <3> QED
      BY <3>1 DEF Kind
  <2>6. rpc'[h] \in {"lock", "smode", "stopped"} /\ (rpc'[h] = "lock" => Kind(ask[h])' \in asked')
    <3>1. CASE /\ rpc' = [rpc EXCEPT ![h] = "lock"] /\ ask' = [ask EXCEPT ![h] = <<r[1], r[2], then>>]
               /\ asked' = asked \cup {Kind(r)}
      <4>1. rpc'[h] = "lock" /\ ask'[h] = <<r[1], r[2], then>>
        BY <1>0, <3>1
      <4>2. Kind(ask[h])' = Kind(r)
        BY <4>1 DEF Kind
      <4> QED
        BY <3>1, <4>1, <4>2
    <3>2. CASE rpc' = [rpc EXCEPT ![h] = then]
      BY <1>0, <3>2
    <3> QED
      BY <2>2, <3>1, <3>2
  <2>7. AskedCalls'
    BY <2>1, <2>3, <2>5, <2>6 DEF AskedCalls
  <2> QED
    BY <2>4, <2>7
<1>3. ASSUME Callable, NEW h \in ResetCallers, CallerStep(h)
      PROVE  AskedCalls' /\ AskedBits' /\ GoesDownAsAsked'
  BY <1>3, CallersAsk DEF GoesDownAsAsked
<1>4. ASSUME UNCHANGED <<rpc, ask, backend, dev, value, asked>> PROVE AskedCalls' /\ AskedBits'
  <2>1. \A h \in ResetCallers : Kind(ask[h])' = Kind(ask[h])
    BY <1>4 DEF Kind
  <2> QED
    BY <1>4, <2>1 DEF AskedCalls, AskedBits
<1>5. CASE Callable /\ Takedown
  <2>1. UNCHANGED <<rpc, ask, backend, dev, value, asked>>
    BY <1>5 DEF Callable, boardState, Takedown
  <2>2. machine' \in asked
    <3>1. machine' \in {"off", "reboot"} /\ Takes(machine')
      BY <1>5 DEF Takedown
    <3> QED
      BY <3>1 DEF Takes, AskedBits
  <2> QED
    BY <1>4, <2>1, <2>2 DEF GoesDownAsAsked
<1>6. CASE UNCHANGED resetVars
  <2>1. UNCHANGED <<rpc, ask, backend, dev, value, asked, machine>>
    BY <1>6 DEF resetVars, boardState
  <2> QED
    BY <1>4, <2>1 DEF GoesDownAsAsked
<1> QED
  BY <1>1, <1>2, <1>3, <1>5, <1>6 DEF ResetNext, FailReset

\* A syscon is bound only when no other driver has a device.
LEMMA SysconIsLast == ASSUME BindReset, backend' = "syscon", ResetTypeOK PROVE found.once = {}
<1> DEFINE matched == {i \in DOMAIN Drivers : HasDevice(Drivers[i])}
           first == CHOOSE i \in matched : \A j \in matched : i <= j
<1>1. backend' = IF matched = {} THEN "none" ELSE Drivers[first]
  BY DEF BindReset
<1>2. /\ DOMAIN Drivers = 1 .. 5 /\ Drivers[1] = "sifive" /\ Drivers[2] = "p1" /\ Drivers[3] = "v105"
      /\ Drivers[4] = "v104" /\ Drivers[5] = "syscon"
  BY DEF Drivers
<1>3. matched # {} => first \in matched /\ \A j \in matched : first <= j
  <2>1. \A i \in matched : i \in {1, 2, 3, 4, 5}
    BY <1>2
  <2> HIDE DEF matched
  <2>2. matched # {} => \E i \in matched : \A j \in matched : i <= j
    BY <2>1
  <2> QED
    BY <2>2
<1>4. first = 5 /\ \A j \in matched : 5 <= j
  <2>1. matched # {}
    BY <1>1
  <2>2. first \in matched /\ Drivers[first] = "syscon"
    BY <1>1, <1>3, <2>1
  <2>3. first \in 1 .. 5
    BY <1>2, <2>2
  <2> HIDE DEF matched, first
  <2> QED
    BY <1>2, <1>3, <2>1, <2>2, <2>3
<1>5. \A j \in 1 .. 4 : j \notin matched
  <2> HIDE DEF matched, first
  <2> QED
    BY <1>4
<1>6. \A j \in 1 .. 4 : ~HasDevice(Drivers[j])
  BY <1>2, <1>5
<1>7. ~HasDevice("sifive") /\ ~HasDevice("p1") /\ ~HasDevice("v105") /\ ~HasDevice("v104")
  BY <1>2, <1>6
<1> QED
  BY <1>7 DEF HasDevice, ResetTypeOK

\* What the probe of a node does to what was found.
LEMMA ProbeEffect ==
    ASSUME ResetTypeOK, ProbeNode, NEW n, n = nodes[probed + 1]
    PROVE  /\ n \in ResetNodes /\ probed' = probed + 1 /\ nodes' = nodes /\ backend' = backend
           /\ rphase = "probing" /\ rphase' \in {"probing", "failed"}
           /\ rphase' # "failed" =>
                  /\ n.driver = "syscon" => found' = [found EXCEPT ![n.action] = Consider(found[n.action], n)]
                  /\ n.driver = "gprcm" => found' = [found EXCEPT !.gate = TRUE]
                  /\ n.driver \notin {"syscon", "gprcm"} => found' = [found EXCEPT !.once = found.once \cup {n.driver}]
<1> DEFINE bad == n.malformed \/ n.driver \in found.once \/ (n.driver = "gprcm" /\ found.gate)
<1>1. n \in ResetNodes
  BY NextNode DEF ProbeNode
<1>2. /\ rphase = "probing" /\ rphase' = (IF bad THEN "failed" ELSE rphase)
      /\ found' =
            IF bad THEN found
            ELSE CASE n.driver = "syscon" -> [found EXCEPT ![n.action] = Consider(@, n)]
                   [] n.driver = "gprcm" -> [found EXCEPT !.gate = TRUE]
                   [] OTHER -> [found EXCEPT !.once = @ \cup {n.driver}]
      /\ probed' = probed + 1 /\ nodes' = nodes /\ backend' = backend
  BY DEF ProbeNode
<1>3. ~bad /\ n.driver = "syscon" => found' = [found EXCEPT ![n.action] = Consider(@, n)]
  BY <1>2, Zenon
<1>4. ~bad /\ n.driver = "gprcm" => found' = [found EXCEPT !.gate = TRUE]
  BY <1>2, Zenon
<1>5. ~bad /\ n.driver \notin {"syscon", "gprcm"} => found' = [found EXCEPT !.once = @ \cup {n.driver}]
  BY <1>2, Zenon
<1>6. rphase' # "failed" => ~bad
  BY <1>2
<1> HIDE DEF bad
<1>7. rphase' \in {"probing", "failed"}
  BY <1>2
<1> QED
  BY <1>1, <1>2, <1>3, <1>4, <1>5, <1>6, <1>7

\* One more node: it replaces the one kept exactly when its priority is higher.
LEMMA KeepsHighest ==
    ASSUME NEW k \in Nat, NEW a, nodes' = nodes, Kept(a, k),
           \A i \in 1 .. k + 1 : nodes[i].priority \in Nat,
           found'[a] = IF nodes[k + 1].action = a THEN Consider(found[a], nodes[k + 1]) ELSE found[a]
    PROVE  Kept(a, k + 1)'
<1> DEFINE n == nodes[k + 1]
<1>0. n.priority \in Nat
  OBVIOUS
<1>1. CASE nodes[k + 1].action # a
  <2>1. found'[a] = found[a]
    BY <1>1
  <2>2. ASSUME NEW i \in 1 .. k, FirstHighest(a, i, k) PROVE i \in 1 .. k + 1 /\ FirstHighest(a, i, k + 1)'
    BY <1>1, <2>2 DEF FirstHighest
  <2>3. CASE found[a] = Absent /\ \A i \in 1 .. k : nodes[i].action # a
    BY <1>1, <2>1, <2>3 DEF Kept, Absent
  <2>4. ASSUME NEW i \in 1 .. k, FirstHighest(a, i, k),
               found[a] = [priority |-> nodes[i].priority, window |-> nodes[i].window]
        PROVE  Kept(a, k + 1)'
    BY <2>1, <2>2, <2>4 DEF Kept
  <2> QED
    BY <2>3, <2>4 DEF Kept
<1>2. CASE nodes[k + 1].action = a
  <2>0. found'[a] = Consider(found[a], n)
    BY <1>2
  <2>1. CASE found[a] = Absent /\ \A i \in 1 .. k : nodes[i].action # a
    <3>1. found'[a] = [priority |-> n.priority, window |-> n.window]
      BY <1>0, <2>0, <2>1 DEF Consider, Absent
    <3>2. FirstHighest(a, k + 1, k + 1)'
      BY <1>2, <2>1 DEF FirstHighest
    <3> QED
      BY <3>1, <3>2 DEF Kept
  <2>2. ASSUME NEW i \in 1 .. k, FirstHighest(a, i, k),
               found[a] = [priority |-> nodes[i].priority, window |-> nodes[i].window]
        PROVE  Kept(a, k + 1)'
    <3>0. nodes[i].priority \in Nat /\ i \in 1 .. k + 1
      OBVIOUS
    <3>1. CASE n.priority > nodes[i].priority
      <4>1. found'[a] = [priority |-> n.priority, window |-> n.window]
        BY <2>0, <2>2, <3>1 DEF Consider
      <4>2. FirstHighest(a, k + 1, k + 1)'
        BY <1>2, <2>2, <3>0, <3>1 DEF FirstHighest
      <4> QED
        BY <4>1, <4>2 DEF Kept
    <3>2. CASE ~(n.priority > nodes[i].priority)
      <4>1. found'[a] = [priority |-> nodes[i].priority, window |-> nodes[i].window]
        BY <2>0, <2>2, <3>2 DEF Consider
      <4>2. FirstHighest(a, i, k + 1)'
        BY <1>0, <1>2, <2>2, <3>0, <3>2 DEF FirstHighest
      <4> QED
        BY <3>0, <4>1, <4>2 DEF Kept
    <3> QED
      BY <3>1, <3>2
  <2> QED
    BY <2>1, <2>2 DEF Kept
<1> QED
  BY <1>1, <1>2

\* Probing keeps what the drivers know of the nodes, and binding looks at all
\* of them.
LEMMA ProbeKept ==
    ResetTypeOK /\ ProbeInv /\ [ResetNext]_resetVars => ProbeInv'
<1> SUFFICES ASSUME ResetTypeOK, ProbeInv, [ResetNext]_resetVars PROVE ProbeInv'
  OBVIOUS
<1>0. /\ nodes \in Seq(ResetNodes) /\ Len(nodes) \in Nat /\ probed \in 0 .. Len(nodes)
      /\ \A i \in 1 .. Len(nodes) : nodes[i] \in ResetNodes
  BY ResetAssumption, LenProperties DEF ResetTypeOK
<1>1. CASE ProbeNode
  <2> DEFINE n == nodes[probed + 1]
  <2>1. probed + 1 \in 1 .. Len(nodes)
    BY <1>1, NextNode DEF ProbeNode
  <2>2. /\ probed' = probed + 1 /\ nodes' = nodes
        /\ rphase = "probing" /\ rphase' \in {"probing", "failed"}
    BY <1>1, ProbeEffect
  <2>3. CASE rphase' = "failed"
    BY <2>3 DEF ProbeInv
  <2>4. CASE rphase' # "failed"
    <3>1. /\ n.driver = "syscon" => found' = [found EXCEPT ![n.action] = Consider(found[n.action], n)]
          /\ n.driver = "gprcm" => found' = [found EXCEPT !.gate = TRUE]
          /\ n.driver \notin {"syscon", "gprcm"} => found' = [found EXCEPT !.once = found.once \cup {n.driver}]
      BY <1>1, <2>4, ProbeEffect
    <3>2. /\ n.driver \in {"sifive", "p1", "v105", "v104", "syscon", "gprcm"}
          /\ n.driver = "syscon" <=> n.action # "none" 
          /\ n.action \in {"poweroff", "reboot", "none"}
      BY <1>0, <2>1 DEF ResetNodes, Actions
    <3>3. found \in [once : SUBSET {"sifive", "p1", "v105", "v104"}, poweroff : Selections,
                     reboot : Selections, gate : BOOLEAN]
      BY DEF ResetTypeOK
    <3> HIDE DEF n
    <3>4. ASSUME NEW a \in Actions
          PROVE  found'[a] = IF n.action = a THEN Consider(found[a], n) ELSE found[a]
      <4>0. a \in {"poweroff", "reboot"}
        BY DEF Actions
      <4>1. CASE n.driver = "syscon"
        BY <3>1, <3>2, <3>3, <4>0, <4>1
      <4>2. CASE n.driver = "gprcm"
        BY <3>1, <3>2, <3>3, <4>0, <4>2
      <4>3. CASE n.driver \notin {"syscon", "gprcm"}
        BY <3>1, <3>2, <3>3, <4>0, <4>3
      <4> QED
        BY <4>1, <4>2, <4>3
    <3>5. found.once \subseteq found'.once /\ (n.driver \in found'.once \cup {"syscon", "gprcm"})
      <4>1. CASE n.driver = "syscon"
        BY <3>1, <3>2, <3>3, <4>1
      <4>2. CASE n.driver = "gprcm"
        BY <3>1, <3>3, <4>2
      <4>3. CASE n.driver \notin {"syscon", "gprcm"}
        BY <3>1, <3>3, <4>3
      <4> QED
        BY <4>1, <4>2, <4>3
    <3>6. \A i \in 1 .. probed + 1 : nodes[i].priority \in Nat
      <4>1. \A i \in 1 .. probed + 1 : nodes[i] \in ResetNodes
        BY <1>0, <2>1
      <4> QED
        BY <4>1 DEF ResetNodes
    <3>7. \A a \in Actions : Kept(a, probed)
      BY <2>2 DEF ProbeInv
    <3>8. probed \in Nat
      BY <1>0
    <3>9. \A a \in Actions : Kept(a, probed)'
      <4> SUFFICES ASSUME NEW a \in Actions PROVE Kept(a, probed)'
        OBVIOUS
      <4>1. PICK k \in Nat : k = probed
        BY <3>8
      <4>2. found'[a] = IF nodes[k + 1].action = a THEN Consider(found[a], nodes[k + 1]) ELSE found[a]
        BY <3>4, <4>1 DEF n
      <4>3. Kept(a, k + 1)'
        BY <2>2, <3>6, <3>7, <4>1, <4>2, KeepsHighest
      <4> QED
        BY <2>2, <4>1, <4>3
    <3>10. \A i \in 1 .. probed' : nodes'[i].driver \in found'.once \cup {"syscon", "gprcm"}
      <4>1. \A i \in 1 .. probed : nodes[i].driver \in found.once \cup {"syscon", "gprcm"}
        BY <2>2 DEF ProbeInv
      <4>2. \A i \in 1 .. probed' : i \in 1 .. probed \/ i = probed + 1
        BY <2>2, <3>8
      <4> QED
        BY <2>2, <3>5, <4>1, <4>2 DEF n
    <3> QED
      BY <2>2, <3>9, <3>10 DEF ProbeInv
  <2> QED
    BY <2>3, <2>4
<1>2. ASSUME UNCHANGED <<nodes, probed, found>>, ~(rphase' # "failed" /\ rphase = "failed")
      PROVE  /\ rphase' # "failed" => /\ \A a \in Actions : Kept(a, probed)'
                                      /\ \A i \in 1 .. probed' : nodes'[i].driver \in found'.once \cup {"syscon", "gprcm"}
  BY <1>2 DEF ProbeInv, Kept, FirstHighest
<1>3. CASE BindReset
  <2>1. UNCHANGED <<nodes, probed, found>> /\ rphase = "probing" /\ probed = Len(nodes)
    BY <1>3 DEF BindReset
  <2>2. backend' = "syscon" => found'.once = {}
    BY <1>3, <2>1, SysconIsLast
  <2> QED
    BY <1>2, <2>1, <2>2 DEF ProbeInv
<1>4. CASE UNCHANGED boardState
  <2>1. UNCHANGED <<nodes, probed, found, rphase, backend>>
    BY <1>4 DEF boardState
  <2> QED
    BY <1>2, <2>1 DEF ProbeInv
<1> QED
  BY <1>1, <1>3, <1>4 DEF ResetNext, Callable, resetVars

\* The invariant holds at the start.
LEMMA ResetInvInit == ResetInit => ResetInv
<1> SUFFICES ASSUME ResetInit PROVE ResetInv
  OBVIOUS
<1>0. nodes \in Seq(ResetNodes) /\ Len(nodes) \in Nat
  BY ResetAssumption, LenProperties DEF ResetInit
<1>1. ResetTypeOK
  <2>1. found \in [once : SUBSET {"sifive", "p1", "v105", "v104"}, poweroff : Selections, reboot : Selections, gate : BOOLEAN]
    BY DEF ResetInit, Absent, Selections
  <2>2. ask \in [ResetCallers -> AllRequests]
    BY DEF ResetInit, AllRequests
  <2>3. dev \in [mode : SUBSET RegisterBits, config : SUBSET RegisterBits, gate : SUBSET RegisterBits,
                power : SUBSET RegisterBits, sysoff : SUBSET RegisterBits, sysreboot : SUBSET RegisterBits,
                finish : SUBSET RegisterBits]
    BY DEF ResetInit, RegisterBits
  <2>4. prog \in [ResetCallers -> Seq(AccessNames)]
    BY DEF ResetInit
  <2>5. probed \in 0 .. Len(nodes) /\ timebase \in BOOLEAN
    BY <1>0, ResetAssumption DEF ResetInit
  <2> QED
    BY <2>1, <2>2, <2>3, <2>4, <2>5 DEF ResetInit, ResetTypeOK
<1>2. OneUser /\ ProgramInv /\ AskedCalls
  BY DEF ResetInit, OneUser, ProgramInv, AskedCalls
<1>3. AskedBits /\ GoesDownAsAsked /\ TransactionsAreWhole
  BY DEF ResetInit, AskedBits, GoesDownAsAsked, TransactionsAreWhole, WatchdogIsWhole, OtherBitsAreKept
<1>4. ProbeInv
  BY DEF ResetInit, ProbeInv, Kept, Actions
<1> QED
  BY <1>1, <1>2, <1>3, <1>4 DEF ResetInv

\* Every step keeps the invariant.
LEMMA ResetInvNext == ResetInv /\ [ResetNext]_resetVars => ResetInv'
  BY ResetTypes, OneUserKept, ProgramsKept, AskedKept, ProbeKept DEF ResetInv

\* The driver has kept a node that nothing takes precedence over.
LEMMA KeptIsPreferred == ResetTypeOK /\ ProbeInv => HighestPriorityWins
<1> SUFFICES ASSUME ResetTypeOK, ProbeInv, rphase = "serving" PROVE HighestPriorityWins
  BY DEF HighestPriorityWins
<1>0. /\ nodes \in Seq(ResetNodes) /\ Len(nodes) \in Nat
      /\ \A i \in 1 .. Len(nodes) : nodes[i] \in ResetNodes
  BY ResetAssumption, LenProperties DEF ResetTypeOK
<1>1. probed = Len(nodes) /\ (backend = "syscon" => found.once = {})
  BY DEF ProbeInv
<1>2. ASSUME NEW a \in Actions
      PROVE  IF Preferred(a) = {} THEN found[a] = Absent ELSE found[a].window \in {nodes[i].window : i \in Preferred(a)}
  <2>1. Kept(a, Len(nodes))
    BY <1>1 DEF ProbeInv
  <2>2. CASE found[a] = Absent /\ \A i \in 1 .. Len(nodes) : nodes[i].action # a
    BY <2>2 DEF Preferred
  <2>3. ASSUME NEW i \in 1 .. Len(nodes), FirstHighest(a, i, Len(nodes)),
               found[a] = [priority |-> nodes[i].priority, window |-> nodes[i].window]
        PROVE  i \in Preferred(a) /\ found[a].window = nodes[i].window
    BY <2>3 DEF Preferred, FirstHighest
  <2> QED
    BY <2>1, <2>2, <2>3 DEF Kept
<1>3. backend = "syscon" => \A i \in 1 .. Len(nodes) : nodes[i].driver \in {"syscon", "gprcm"}
  BY <1>1 DEF ProbeInv
<1> QED
  BY <1>2, <1>3 DEF HighestPriorityWins

\* Whatever the harts ask for, in whatever order, and wherever a transfer
\* fails, a watchdog never counts before it is configured, and the
\* read-modify-writes of the PMIC and of the syscon lose no bit of others.
\* (ResetDevice::reset and the start_reset and set_power_control of the
\* backends, under the lock of the device)
THEOREM ResetsAreWhole == ResetSpec => []TransactionsAreWhole
<1>1. ResetInv => TransactionsAreWhole
  BY DEF ResetInv
<1> QED
  BY <1>1, ResetInvInit, ResetInvNext, PTL DEF ResetSpec

\* On every board the system goes down only in a way a hart asked for, the
\* syscon node of an action is the first with the highest priority, and a
\* syscon is used only on a board without another device.
\* (SysconDriver::consider, Registry::bind_first, the for_request of each
\* backend)
THEOREM ResetsAreAsAsked == ResetSpec => []ResetIsAsAsked
<1>1. ResetInv => ResetIsAsAsked
  BY KeptIsPreferred DEF ResetInv, ResetIsAsAsked
<1> QED
  BY <1>1, ResetInvInit, ResetInvNext, PTL DEF ResetSpec

-----------------------------------------------------------------------------
(* The timer.                                                              *)

\* A double word and its halves.
LEMMA SplitFacts ==
    /\ Half \in Nat /\ Half >= 2 /\ Max \in Nat /\ LastTick \in Nat /\ LastTick < Max
    /\ \A v \in 0 .. Max : Split(v) \in DoubleWords /\ Join(Split(v)) = v
    /\ \A w \in DoubleWords : Join(w) \in 0 .. Max /\ w.hi * Half + (Half - 1) \in 0 .. Max
                              /\ Join(w) <= w.hi * Half + (Half - 1)
<1>1. Half \in Nat /\ Half >= 2
  BY TimerAssumption
<1>2. Max \in Nat /\ Max = Half * Half - 1
  BY <1>1 DEF Max
<1>3. LastTick \in Nat /\ LastTick < Max
  BY <1>2, TimerAssumption
<1>4. ASSUME NEW v \in 0 .. Max PROVE Split(v) \in DoubleWords /\ Join(Split(v)) = v
  <2>1. v % Half \in 0 .. Half - 1 /\ v = (v \div Half) * Half + (v % Half) /\ v \div Half \in Int
    BY <1>1, <1>2
  <2>2. v \div Half \in 0 .. Half - 1
    BY <1>1, <1>2, <2>1
  <2> QED
    BY <2>1, <2>2 DEF Split, Join, DoubleWords, HalfWords
<1>5. ASSUME NEW w \in DoubleWords
      PROVE  /\ Join(w) \in 0 .. Max /\ w.hi * Half + (Half - 1) \in 0 .. Max
             /\ Join(w) <= w.hi * Half + (Half - 1)
  <2>1. w.hi \in 0 .. Half - 1 /\ w.lo \in 0 .. Half - 1
    BY DEF DoubleWords, HalfWords
  <2>2. w.hi * Half \in Nat /\ w.hi * Half <= (Half - 1) * Half
    BY <1>1, <2>1
  <2> QED
    BY <1>1, <1>2, <2>1, <2>2 DEF Join
<1> QED
  BY <1>1, <1>2, <1>3, <1>4, <1>5

\* The high half of a double word.
LEMMA SplitOfJoin == ASSUME NEW w \in DoubleWords PROVE Split(Join(w)).hi = w.hi
<1>1. Half \in Nat /\ Half >= 2
  BY SplitFacts
<1>2. w.hi \in Nat /\ w.lo \in 0 .. Half - 1
  BY DEF DoubleWords, HalfWords
<1>3. ASSUME NEW a \in Nat, NEW b \in 0 .. Half - 1 PROVE (a * Half + b) \div Half = a
  BY <1>1
<1> QED
  BY <1>2, <1>3 DEF Split, Join

\* What is left of a handler after its next access.
LEMMA NextTodo ==
    ASSUME todo \in Seq(Accesses), todo # <<>>
    PROVE  /\ Len(todo) \in Nat /\ 1 \in 1 .. Len(todo) /\ todo[1] \in Accesses
           /\ Tail(todo) \in Seq(Accesses) /\ Len(Tail(todo)) = Len(todo) - 1
           /\ \A i \in 1 .. Len(todo) - 1 : Tail(todo)[i] = todo[i + 1]
<1>1. Len(todo) \in Nat /\ Len(todo) # 0 /\ \A i \in 1 .. Len(todo) : todo[i] \in Accesses
  BY LenProperties, EmptySeq
<1>2. /\ Tail(todo) \in Seq(Accesses) /\ Len(Tail(todo)) = Len(todo) - 1
      /\ \A i \in 1 .. Len(todo) - 1 : Tail(todo)[i] = todo[i + 1]
  BY <1>1, HeadTailProperties
<1> QED
  BY <1>1, <1>2

\* A write of a register or of half of it.
LEMMA WriteEffect ==
    ASSUME TimerTypeOK, MakeAccess, NEW reg \in Registers, NEW val, todo[1] = <<reg, val>>
    PROVE  /\ val \in DoubleWords => compare' = [compare EXCEPT ![reg] = val]
           /\ val \in [hi : HalfWords] => compare' = [compare EXCEPT ![reg] = [hi |-> val.hi, lo |-> compare[reg].lo]]
           /\ val \in [lo : HalfWords] => compare' = [compare EXCEPT ![reg] = [hi |-> compare[reg].hi, lo |-> val.lo]]
           /\ UNCHANGED <<mie, mip>>
<1>1. compare' = [compare EXCEPT ![reg] = [x \in DOMAIN compare[reg] |-> IF x \in DOMAIN val THEN val[x] ELSE compare[reg][x]]]
  BY DEF MakeAccess, Registers
<1>2. compare[reg] \in DoubleWords
  BY DEF TimerTypeOK, Registers
<1>3. ASSUME NEW x \in {"hi", "lo"}, val \in DoubleWords
      PROVE  x \in DOMAIN val
  BY <1>3 DEF DoubleWords
<1>4. UNCHANGED <<mie, mip>>
  BY DEF MakeAccess, Registers
<1>5. ASSUME val \in DoubleWords PROVE compare' = [compare EXCEPT ![reg] = val]
  BY <1>1, <1>2, <1>5 DEF DoubleWords
<1>6. ASSUME val \in [hi : HalfWords]
      PROVE  compare' = [compare EXCEPT ![reg] = [hi |-> val.hi, lo |-> compare[reg].lo]]
  <2>1. DOMAIN compare[reg] = {"hi", "lo"} /\ DOMAIN val = {"hi"}
    BY <1>2, <1>6 DEF DoubleWords
  <2>2. [x \in {"hi", "lo"} |-> IF x \in {"hi"} THEN val[x] ELSE compare[reg][x]]
            = [hi |-> val.hi, lo |-> compare[reg].lo]
    OBVIOUS
  <2> QED
    BY <1>1, <2>1, <2>2
<1>7. ASSUME val \in [lo : HalfWords]
      PROVE  compare' = [compare EXCEPT ![reg] = [hi |-> compare[reg].hi, lo |-> val.lo]]
  <2>1. DOMAIN compare[reg] = {"hi", "lo"} /\ DOMAIN val = {"lo"}
    BY <1>2, <1>7 DEF DoubleWords
  <2>2. [x \in {"hi", "lo"} |-> IF x \in {"lo"} THEN val[x] ELSE compare[reg][x]]
            = [hi |-> compare[reg].hi, lo |-> val.lo]
    OBVIOUS
  <2> QED
    BY <1>1, <2>1, <2>2
<1> QED
  BY <1>4, <1>5, <1>6, <1>7

\* An access to an enable or pending bit.
LEMMA BitEffect ==
    ASSUME TimerTypeOK, MakeAccess, NEW bit \in {"MTIE", "STIP"}, NEW val \in {"set", "clear"}, todo[1] = <<bit, val>>
    PROVE  /\ compare' = compare
           /\ mie' = IF bit = "MTIE" THEN val = "set" ELSE mie
           /\ mip' = IF bit = "STIP" THEN val = "set" ELSE mip
  BY DEF MakeAccess

\* An access is one or the other.
LEMMA TwoAccesses ==
    ASSUME NEW a \in Accesses
    PROVE  \/ \E bit \in {"MTIE", "STIP"}, val \in {"set", "clear"} : a = <<bit, val>>
           \/ \E reg \in Registers : \E val : /\ a = <<reg, val>>
                                              /\ val \in DoubleWords \/ val \in [hi : HalfWords] \/ val \in [lo : HalfWords]
  BY DEF Accesses, BitAccesses, RegisterWrites

\* Types of an access.
LEMMA AccessKeepsTypes == ASSUME TimerTypeOK, MakeAccess PROVE TimerTypeOK'
<1>0. /\ todo \in Seq(Accesses) /\ todo # <<>> /\ todo' = Tail(todo)
      /\ compare \in [device : DoubleWords, stimecmp : DoubleWords] /\ mie \in BOOLEAN /\ mip \in BOOLEAN
      /\ UNCHANGED <<board, now, mode, wish, traps, reader>>
  BY DEF TimerTypeOK, MakeAccess
<1>1. todo' \in Seq(Accesses) /\ todo[1] \in Accesses
  BY <1>0, NextTodo
<1> DEFINE TypesAfter == compare' \in [device : DoubleWords, stimecmp : DoubleWords] /\ mie' \in BOOLEAN /\ mip' \in BOOLEAN
<1>2. TypesAfter
  <2>1. ASSUME NEW bit \in {"MTIE", "STIP"}, NEW val \in {"set", "clear"}, todo[1] = <<bit, val>>
        PROVE  TypesAfter
    BY <1>0, <2>1, BitEffect
  <2>2. ASSUME NEW reg \in Registers, NEW val, todo[1] = <<reg, val>>,
               val \in DoubleWords \/ val \in [hi : HalfWords] \/ val \in [lo : HalfWords]
        PROVE  TypesAfter
    <3>1. compare[reg] \in DoubleWords
      BY <1>0 DEF Registers
    <3>2. UNCHANGED <<mie, mip>> /\ \E w \in DoubleWords : compare' = [compare EXCEPT ![reg] = w]
      <4>1. CASE val \in DoubleWords
        BY <2>2, <4>1, WriteEffect
      <4>2. CASE val \in [hi : HalfWords]
        <5>1. [hi |-> val.hi, lo |-> compare[reg].lo] \in DoubleWords
          BY <3>1, <4>2 DEF DoubleWords
        <5> QED
          BY <2>2, <4>2, <5>1, WriteEffect
      <4>3. CASE val \in [lo : HalfWords]
        <5>1. [hi |-> compare[reg].hi, lo |-> val.lo] \in DoubleWords
          BY <3>1, <4>3 DEF DoubleWords
        <5> QED
          BY <2>2, <4>3, <5>1, WriteEffect
      <4> QED
        BY <2>2, <4>1, <4>2, <4>3
    <3> QED
      BY <1>0, <3>2 DEF Registers
  <2> QED
    BY <1>1, <2>1, <2>2, TwoAccesses
<1> QED
  BY <1>0, <1>1, <1>2 DEF TimerTypeOK

\* An access that is planned is made next or stays planned, and no access
\* becomes planned.
LEMMA PlannedAfter ==
    ASSUME TimerTypeOK, MakeAccess, NEW a
    PROVE  (Planned(a) => todo[1] = a \/ Planned(a)') /\ (Planned(a)' => Planned(a))
<1>0. todo \in Seq(Accesses) /\ todo # <<>> /\ todo' = Tail(todo)
  BY DEF TimerTypeOK, MakeAccess
<1>1. /\ Len(todo) \in Nat /\ Len(todo') = Len(todo) - 1
      /\ \A i \in 1 .. Len(todo) - 1 : todo'[i] = todo[i + 1]
  BY <1>0, NextTodo
<1>2. ASSUME NEW i \in 1 .. Len(todo), todo[i] = a, i # 1 PROVE i - 1 \in 1 .. Len(todo') /\ todo'[i - 1] = a
  BY <1>1, <1>2
<1>3. ASSUME NEW i \in 1 .. Len(todo'), todo'[i] = a PROVE i + 1 \in 1 .. Len(todo) /\ todo[i + 1] = a
  BY <1>1, <1>3
<1> QED
  BY <1>2, <1>3 DEF Planned

\* An access keeps what the interrupt bits owe to the accesses still to come.
LEMMA AccessKeepsBits ==
    ASSUME TimerTypeOK, MakeAccess, MaskInv, PendingInv PROVE MaskInv' /\ PendingInv'
<1>0. /\ todo \in Seq(Accesses) /\ todo # <<>> /\ UNCHANGED <<board, now, wish, traps>>
      /\ mie \in BOOLEAN /\ mip \in BOOLEAN
  BY DEF TimerTypeOK, MakeAccess
<1>1. todo[1] \in Accesses /\ Planned(todo[1])
  BY <1>0, NextTodo DEF Planned
<1>2. ASSUME NEW bit \in {"MTIE", "STIP"}, NEW val \in {"set", "clear"}, todo[1] = <<bit, val>>
      PROVE  MaskInv' /\ PendingInv'
  <2>1. /\ mie' = IF bit = "MTIE" THEN val = "set" ELSE mie
        /\ mip' = IF bit = "STIP" THEN val = "set" ELSE mip
    BY <1>2, BitEffect
  <2>2. MaskInv'
    <3>1. bit = "MTIE" => val = "clear" \/ Planned(<<"MTIE", "set">>)
      BY <1>1, <1>2
    <3>2. bit = "MTIE" \/ (Planned(<<"MTIE", "clear">>) => Planned(<<"MTIE", "clear">>)')
      BY <1>2, PlannedAfter
    <3>3. Planned(<<"MTIE", "set">>)' => Planned(<<"MTIE", "set">>)
      BY PlannedAfter
    <3> QED
      BY <1>0, <2>1, <3>1, <3>2, <3>3 DEF MaskInv
  <2>3. PendingInv'
    <3>1. bit = "STIP" => val = "clear" \/ Planned(<<"STIP", "set">>)
      BY <1>1, <1>2
    <3>2. bit = "STIP" \/ (Planned(<<"STIP", "clear">>) => Planned(<<"STIP", "clear">>)')
      BY <1>2, PlannedAfter
    <3>3. Planned(<<"STIP", "set">>)' => Planned(<<"STIP", "set">>)
      BY PlannedAfter
    <3> QED
      BY <1>0, <2>1, <3>1, <3>2, <3>3 DEF PendingInv
  <2> QED
    BY <2>2, <2>3
<1>3. ASSUME NEW reg \in Registers, NEW val, todo[1] = <<reg, val>>
      PROVE  MaskInv' /\ PendingInv'
  <2>1. UNCHANGED <<mie, mip>>
    BY <1>3, WriteEffect
  <2>2. \A bit \in {"MTIE", "STIP"} : \A b \in {"set", "clear"} : Planned(<<bit, b>>)' <=> Planned(<<bit, b>>)
    BY <1>3, PlannedAfter DEF Registers
  <2>3. MaskInv'
    BY <1>0, <2>1, <2>2 DEF MaskInv
  <2>4. PendingInv'
    BY <1>0, <2>1, <2>2 DEF PendingInv
  <2> QED
    BY <2>3, <2>4
<1> QED
  BY <1>1, <1>2, <1>3, TwoAccesses

\* The target of a call does not change, and neither does the width of a write.
LEMMA SameBoard == ASSUME board' = board PROVE Target' = Target
  BY DEF Target

\* An access to a bit leaves the writes ahead as they are.
LEMMA BitKeepsCompare ==
    ASSUME TimerTypeOK, MakeAccess, CompareInv, IsBit(1) PROVE CompareInv'
<1>0. /\ todo \in Seq(Accesses) /\ todo # <<>> /\ todo' = Tail(todo)
      /\ UNCHANGED <<board, wish>>
  BY DEF TimerTypeOK, MakeAccess
<1>1. /\ Len(todo) \in Nat /\ 1 \in 1 .. Len(todo) /\ Len(todo') = Len(todo) - 1
      /\ \A i \in 1 .. Len(todo) - 1 : todo'[i] = todo[i + 1]
  BY <1>0, NextTodo
<1>2. compare' = compare
  BY DEF MakeAccess, IsBit, OnRegister, Registers
<1>3. ASSUME NEW i \in 1 .. Len(todo') PROVE i + 1 \in 2 .. Len(todo) /\ todo'[i] = todo[i + 1] /\ (IsBit(i + 1) => IsBit(i)')
  BY <1>1 DEF IsBit
<1>4. Target' = Target
  BY <1>0, SameBoard
<1>5. CASE Booting
  BY <1>0, <1>5 DEF Booting, CompareInv
<1>6. CASE CompareSettled
  BY <1>0, <1>2, <1>3, <1>4, <1>6 DEF CompareSettled, CompareInv
<1>7. CASE Replacing
  <2>1. ~HighAhead /\ ~LowAhead
    BY <1>1, TimerTypeOK DEF HighAhead, LowAhead, IsBit, OnRegister, TimerTypeOK
  <2>2. PICK p \in 1 .. Len(todo) : WholeAhead(p) \/ HalvesAhead(p)
    BY <1>7, <2>1 DEF Replacing
  <2>3. p # 1
    BY <2>2 DEF WholeAhead, HalvesAhead, IsBit, OnRegister, TimerTypeOK
  <2>4. p - 1 \in 1 .. Len(todo')
    BY <1>1, <2>3
  <2>5. WholeAhead(p) => WholeAhead(p - 1)'
    BY <1>0, <1>1, <1>2, <1>3, <2>4 DEF WholeAhead, Split
  <2>6. HalvesAhead(p) => HalvesAhead(p - 1)'
    <3> SUFFICES ASSUME HalvesAhead(p) PROVE HalvesAhead(p - 1)'
      OBVIOUS
    <3>1. p + 2 <= Len(todo) /\ todo'[p - 1] = todo[p] /\ todo'[p] = todo[p + 1] /\ todo'[p + 1] = todo[p + 2]
      <4>1. p + 2 <= Len(todo) /\ p \in 2 .. Len(todo)
        BY <1>1, <2>3 DEF HalvesAhead
      <4>2. p - 1 \in 1 .. Len(todo) - 1 /\ p \in 1 .. Len(todo) - 1 /\ p + 1 \in 1 .. Len(todo) - 1
        BY <1>1, <4>1
      <4>3. p - 1 + 1 = p /\ p + 1 + 1 = p + 2
        OBVIOUS
      <4> QED
        BY <1>1, <4>1, <4>2, <4>3
    <3>2. \A i \in 1 .. Len(todo') : i \notin p - 1 .. p + 1 => IsBit(i)'
      BY <1>3 DEF HalvesAhead
    <3>3. p - 1 + 1 = p /\ p - 1 + 2 = p + 1 /\ p - 1 + 2 <= Len(todo')
      BY <1>1, <3>1
    <3> QED
      BY <1>0, <1>2, <3>1, <3>2, <3>3 DEF HalvesAhead
  <2> QED
    BY <1>0, <1>4, <1>7, <2>2, <2>4, <2>5, <2>6 DEF Replacing, CompareInv
<1> QED
  BY <1>5, <1>6, <1>7 DEF CompareInv

\* The next write of a register: the low half goes out of the way before the
\* high half is replaced.
LEMMA WriteKeepsCompare ==
    ASSUME TimerTypeOK, MakeAccess, CompareInv, ~IsBit(1) PROVE CompareInv'
<1>0. /\ todo \in Seq(Accesses) /\ todo # <<>> /\ todo' = Tail(todo)
      /\ UNCHANGED <<board, wish>>
      /\ wish.reg \in Registers /\ wish.from \in 0 .. Max /\ wish.to \in 0 .. Max /\ wish.deadline \in 0 .. Max
      /\ compare \in [device : DoubleWords, stimecmp : DoubleWords]
  BY DEF TimerTypeOK, MakeAccess
<1>1. /\ Len(todo) \in Nat /\ 1 \in 1 .. Len(todo) /\ Len(todo') = Len(todo) - 1
      /\ \A i \in 1 .. Len(todo) - 1 : todo'[i] = todo[i + 1]
  BY <1>0, NextTodo
<1>2. ASSUME NEW i \in 1 .. Len(todo') PROVE i + 1 \in 2 .. Len(todo) /\ todo'[i] = todo[i + 1] /\ (IsBit(i + 1) => IsBit(i)')
  BY <1>1 DEF IsBit
<1>3. Target' = Target /\ wish.reg' = wish.reg
  BY <1>0, SameBoard
<1>4. compare[wish.reg] \in DoubleWords
  BY <1>0 DEF Registers
<1>5. \A w \in DoubleWords :
         compare' = [compare EXCEPT ![wish.reg] = w] => compare'[wish.reg] = w
  BY <1>0 DEF Registers
<1>6. Split(wish.to) \in DoubleWords /\ Split(wish.from) \in DoubleWords
      /\ Join(Split(wish.to)) = wish.to /\ Half - 1 \in HalfWords
  <2>1. Half - 1 \in HalfWords
    BY TimerAssumption DEF HalfWords
  <2> QED
    BY <1>0, <2>1, SplitFacts
<1>7. ~CompareSettled
  BY <1>1 DEF CompareSettled
<1>8. CASE Booting
  BY <1>0, <1>8 DEF Booting, CompareInv
<1>9. CASE Replacing
  <2>0. wish.asked => wish.reg = Target /\ wish.to >= wish.deadline
    BY <1>9 DEF Replacing
  <2>1. ASSUME compare'[wish.reg] = Split(wish.to), \A i \in 2 .. Len(todo) : IsBit(i) PROVE CompareSettled'
    <3>1. \A i \in 1 .. Len(todo') : IsBit(i)'
      BY <1>2, <2>1
    <3>2. Join(compare[wish.reg])' = wish.to
      BY <1>0, <1>6, <2>1
    <3>3. wish.asked => Join(compare[Target])' >= wish.deadline
      BY <1>0, <1>3, <2>0, <3>2
    <3> QED
      BY <1>0, <3>1, <3>2, <3>3 DEF CompareSettled
  <2>2. CASE \E p \in 1 .. Len(todo) : WholeAhead(p)
    <3>1. PICK p \in 1 .. Len(todo) : WholeAhead(p)
      BY <2>2
    <3>2. p = 1
      BY <1>1, <3>1 DEF WholeAhead
    <3>3. todo[1] = <<wish.reg, Split(wish.to)>> /\ \A i \in 2 .. Len(todo) : IsBit(i)
      BY <1>1, <3>1, <3>2 DEF WholeAhead
    <3>4. compare'[wish.reg] = Split(wish.to)
      BY <1>0, <1>5, <1>6, <3>3, WriteEffect
    <3> QED
      BY <2>1, <3>3, <3>4 DEF CompareInv
  <2>3. CASE \E p \in 1 .. Len(todo) : HalvesAhead(p)
    <3>1. PICK p \in 1 .. Len(todo) : HalvesAhead(p)
      BY <2>3
    <3>2. p = 1
      BY <1>1, <3>1 DEF HalvesAhead
    <3>3. /\ 3 <= Len(todo) /\ \A i \in 4 .. Len(todo) : IsBit(i)
          /\ todo[1] = <<wish.reg, [lo |-> Half - 1]>>
          /\ todo[2] = <<wish.reg, [hi |-> Split(wish.to).hi]>>
          /\ todo[3] = <<wish.reg, [lo |-> Split(wish.to).lo]>>
          /\ Join(compare[wish.reg]) = wish.from
      BY <1>1, <3>1, <3>2 DEF HalvesAhead
    <3>4. compare'[wish.reg] = [hi |-> compare[wish.reg].hi, lo |-> Half - 1]
      <4>1. [lo |-> Half - 1] \in [lo : HalfWords] /\ [lo |-> Half - 1].lo = Half - 1
        BY <1>6
      <4>2. [hi |-> compare[wish.reg].hi, lo |-> Half - 1] \in DoubleWords
        BY <1>4, <1>6 DEF DoubleWords
      <4> QED
        BY <1>0, <1>5, <3>3, <4>1, <4>2, WriteEffect
    <3>5. compare[wish.reg].hi = Split(wish.from).hi
      BY <1>4, <3>3, SplitOfJoin
    <3>6. /\ 2 <= Len(todo') /\ todo'[1] = todo[2] /\ todo'[2] = todo[3]
          /\ \A i \in 3 .. Len(todo') : IsBit(i)'
      <4>1. 2 <= Len(todo') /\ todo'[1] = todo[2] /\ todo'[2] = todo[3]
        BY <1>1, <3>3
      <4>2. ASSUME NEW i \in 3 .. Len(todo') PROVE i \in 1 .. Len(todo') /\ i + 1 \in 4 .. Len(todo)
        BY <1>1
      <4> QED
        BY <1>2, <3>3, <4>1, <4>2
    <3>7. HighAhead'
      BY <1>0, <3>3, <3>4, <3>5, <3>6 DEF HighAhead
    <3> QED
      BY <1>0, <1>3, <2>0, <3>7 DEF Replacing, CompareInv
  <2>4. CASE HighAhead
    <3>1. compare'[wish.reg] = [hi |-> Split(wish.to).hi, lo |-> Half - 1]
      <4>0. todo[1] = <<wish.reg, [hi |-> Split(wish.to).hi]>> /\ compare[wish.reg].lo = Half - 1
        BY <2>4 DEF HighAhead
      <4>1. [hi |-> Split(wish.to).hi] \in [hi : HalfWords] /\ [hi |-> Split(wish.to).hi].hi = Split(wish.to).hi
        BY <1>6 DEF DoubleWords
      <4>2. [hi |-> Split(wish.to).hi, lo |-> Half - 1] \in DoubleWords
        BY <1>6 DEF DoubleWords
      <4> QED
        BY <1>0, <1>5, <4>0, <4>1, <4>2, WriteEffect
    <3>2. /\ 1 <= Len(todo') /\ todo'[1] = todo[2] /\ \A i \in 2 .. Len(todo') : IsBit(i)'
      BY <1>1, <1>2, <2>4 DEF HighAhead
    <3>3. LowAhead'
      BY <1>0, <2>4, <3>1, <3>2 DEF HighAhead, LowAhead
    <3> QED
      BY <1>0, <1>3, <2>0, <3>3 DEF Replacing, CompareInv
  <2>5. CASE LowAhead
    <3>0. /\ todo[1] = <<wish.reg, [lo |-> Split(wish.to).lo]>> /\ compare[wish.reg].hi = Split(wish.to).hi
          /\ \A i \in 2 .. Len(todo) : IsBit(i)
      BY <2>5 DEF LowAhead
    <3>1. [lo |-> Split(wish.to).lo] \in [lo : HalfWords] /\ [lo |-> Split(wish.to).lo].lo = Split(wish.to).lo
      BY <1>6 DEF DoubleWords
    <3>2. [hi |-> Split(wish.to).hi, lo |-> Split(wish.to).lo] = Split(wish.to)
      BY <1>6 DEF DoubleWords
    <3>3. compare'[wish.reg] = Split(wish.to)
      BY <1>0, <1>5, <1>6, <3>0, <3>1, <3>2, WriteEffect
    <3> QED
      BY <2>1, <3>0, <3>3 DEF CompareInv
  <2> QED
    BY <1>9, <2>2, <2>3, <2>4, <2>5 DEF Replacing
<1> QED
  BY <1>7, <1>8, <1>9 DEF CompareInv

\* The programs of the handlers are well formed.
LEMMA WritesAre ==
    ASSUME NEW reg \in Registers, NEW v \in 0 .. Max
    PROVE  /\ WriteCompare(reg, v) \in Seq(Accesses)
           /\ ~InHalves(reg) => Len(WriteCompare(reg, v)) = 1 /\ WriteCompare(reg, v)[1] = <<reg, Split(v)>>
           /\ InHalves(reg) => /\ Len(WriteCompare(reg, v)) = 3
                               /\ WriteCompare(reg, v)[1] = <<reg, [lo |-> Half - 1]>>
                               /\ WriteCompare(reg, v)[2] = <<reg, [hi |-> Split(v).hi]>>
                               /\ WriteCompare(reg, v)[3] = <<reg, [lo |-> Split(v).lo]>>
<1>1. Split(v) \in DoubleWords
  BY SplitFacts
<1>2. Half - 1 \in HalfWords
  BY TimerAssumption DEF HalfWords
<1>3. /\ <<reg, Split(v)>> \in Accesses
      /\ <<reg, [lo |-> Half - 1]>> \in Accesses
      /\ <<reg, [hi |-> Split(v).hi]>> \in Accesses
      /\ <<reg, [lo |-> Split(v).lo]>> \in Accesses
  <2>1. /\ [lo |-> Half - 1] \in [lo : HalfWords] /\ [hi |-> Split(v).hi] \in [hi : HalfWords]
        /\ [lo |-> Split(v).lo] \in [lo : HalfWords]
    BY <1>1, <1>2 DEF DoubleWords
  <2> QED
    BY <1>1, <2>1 DEF Accesses, RegisterWrites
<1>4. CASE InHalves(reg)
  <2>1. WriteCompare(reg, v) =
          << <<reg, [lo |-> Half - 1]>>, <<reg, [hi |-> Split(v).hi]>>, <<reg, [lo |-> Split(v).lo]>> >>
    BY <1>4, Zenon DEF WriteCompare
  <2>2. ASSUME NEW a \in Accesses, NEW b \in Accesses, NEW c \in Accesses
        PROVE  /\ <<a, b, c>> \in Seq(Accesses) /\ Len(<<a, b, c>>) = 3
               /\ <<a, b, c>>[1] = a /\ <<a, b, c>>[2] = b /\ <<a, b, c>>[3] = c
    OBVIOUS
  <2> HIDE DEF Accesses
  <2> QED
    BY <1>3, <1>4, <2>1, <2>2
<1>5. CASE ~InHalves(reg)
  <2>1. WriteCompare(reg, v) = << <<reg, Split(v)>> >>
    BY <1>5, Zenon DEF WriteCompare
  <2>2. ASSUME NEW a \in Accesses
        PROVE  <<a>> \in Seq(Accesses) /\ Len(<<a>>) = 1 /\ <<a>>[1] = a
    OBVIOUS
  <2> QED
    BY <1>3, <1>5, <2>1, <2>2
<1> QED
  BY <1>4, <1>5

\* The sequences of bit accesses.
LEMMA BitsAre ==
    /\ \A bit \in {"MTIE", "STIP"}, val \in {"set", "clear"} : << <<bit, val>> >> \in Seq(Accesses)
    /\ \A a, b \in {"MTIE", "STIP"}, x, y \in {"set", "clear"} : << <<a, x>>, <<b, y>> >> \in Seq(Accesses)
    /\ <<>> \in Seq(Accesses)
<1>1. \A bit \in {"MTIE", "STIP"}, val \in {"set", "clear"} : <<bit, val>> \in Accesses
  BY DEF Accesses, BitAccesses
<1>2. ASSUME NEW a \in Accesses, NEW b \in Accesses PROVE <<a>> \in Seq(Accesses) /\ <<a, b>> \in Seq(Accesses)
  OBVIOUS
<1> QED
  BY <1>1, <1>2

\* A program q that makes the accesses of w after k others; all others are to
\* bits.
Embeds(q, k, w) == \A i \in 1 .. Len(w) : q[k + i] = w[i]
BitsAround(q, k, n) == \A i \in 1 .. Len(q) : i <= k \/ i > k + n => ~OnRegister(q[i])
BitsOnly(q) == \A i \in 1 .. Len(q) : ~OnRegister(q[i])
WritesOnly(q) == \A i \in 1 .. Len(q) : OnRegister(q[i])

\* A handler that writes v to a register after k other accesses is about to
\* replace it.
LEMMA WritesAhead ==
    ASSUME NEW reg \in Registers, NEW v \in 0 .. Max, NEW k \in Nat, NEW q \in Seq(Accesses),
           NEW w, w = WriteCompare(reg, v),
           k + Len(w) <= Len(q),
           Embeds(q, k, w), BitsAround(q, k, Len(w)),
           todo' = q, wish'.reg = reg, wish'.to = v, Join(compare'[reg]) = wish'.from,
           wish'.asked => reg = Target' /\ v >= wish'.deadline
    PROVE  Replacing'
<1> USE DEF Embeds, BitsAround
<1>0. Len(q) \in Nat
  BY LenProperties
<1>1. \E p \in 1 .. Len(todo') : WholeAhead(p)' \/ HalvesAhead(p)'
  <2>1. CASE ~InHalves(reg)
    <3>1. Len(w) = 1 /\ w[1] = <<reg, Split(v)>>
      BY <2>1, WritesAre
    <3>2. k + 1 \in 1 .. Len(q) /\ q[k + 1] = <<reg, Split(v)>>
      BY <1>0, <3>1
    <3>3. \A i \in 1 .. Len(q) : i # k + 1 => i <= k \/ i > k + 1
      BY <1>0
    <3>4. \A i \in 1 .. Len(q) : i # k + 1 => ~OnRegister(q[i])
      BY <3>1, <3>3
    <3>5. WholeAhead(k + 1)'
      BY <3>2, <3>4 DEF WholeAhead, IsBit
    <3> QED
      BY <3>2, <3>5
  <2>2. CASE InHalves(reg)
    <3>1. /\ Len(w) = 3
          /\ w[1] = <<reg, [lo |-> Half - 1]>>
          /\ w[2] = <<reg, [hi |-> Split(v).hi]>>
          /\ w[3] = <<reg, [lo |-> Split(v).lo]>>
      BY <2>2, WritesAre
    <3>2. /\ k + 1 \in 1 .. Len(q) /\ k + 1 + 2 <= Len(q)
          /\ q[k + 1] = <<reg, [lo |-> Half - 1]>>
          /\ q[k + 2] = <<reg, [hi |-> Split(v).hi]>> /\ q[k + 3] = <<reg, [lo |-> Split(v).lo]>>
      BY <1>0, <3>1
    <3>3. \A i \in 1 .. Len(q) : i \notin k + 1 .. k + 1 + 2 => i <= k \/ i > k + 3
      BY <1>0
    <3>4. \A i \in 1 .. Len(q) : i \notin k + 1 .. k + 1 + 2 => ~OnRegister(q[i])
      BY <3>1, <3>3
    <3>5. k + 1 + 1 = k + 2 /\ k + 1 + 2 = k + 3
      OBVIOUS
    <3>6. HalvesAhead(k + 1)'
      BY <3>2, <3>4, <3>5 DEF HalvesAhead, IsBit
    <3> QED
      BY <3>2, <3>6
  <2> QED
    BY <2>1, <2>2
<1> QED
  BY <1>1 DEF Replacing

\* The same, of a program followed by accesses to bits.
LEMMA WritesThenBits ==
    ASSUME NEW reg \in Registers, NEW v \in 0 .. Max, NEW post \in Seq(Accesses),
           BitsOnly(post),
           NEW w, w = WriteCompare(reg, v), NEW q, q = w \o post
    PROVE  /\ q \in Seq(Accesses) /\ Len(w) \in Nat /\ Len(post) \in Nat /\ Len(q) = Len(w) + Len(post)
           /\ WritesOnly(w) /\ Embeds(q, 0, w) /\ Embeds(q, Len(w), post) /\ BitsAround(q, 0, Len(w))
<1>1. w \in Seq(Accesses) /\ Len(w) \in Nat /\ Len(post) \in Nat
  BY WritesAre, LenProperties
<1>2. \A i \in 1 .. Len(w) : w[i][1] = reg
  <2>1. CASE InHalves(reg)
    <3>1. \A i \in 1 .. 3 : i = 1 \/ i = 2 \/ i = 3
      OBVIOUS
    <3>2. Len(w) = 3 /\ w[1][1] = reg /\ w[2][1] = reg /\ w[3][1] = reg
      <4>1. /\ Len(w) = 3 /\ w[1] = <<reg, [lo |-> Half - 1]>>
            /\ w[2] = <<reg, [hi |-> Split(v).hi]>> /\ w[3] = <<reg, [lo |-> Split(v).lo]>>
        BY <2>1, WritesAre
      <4> QED
        BY <4>1
    <3> QED
      BY <3>1, <3>2
  <2>2. CASE ~InHalves(reg)
    <3>1. Len(w) = 1 /\ w[1][1] = reg
      <4>1. Len(w) = 1 /\ w[1] = <<reg, Split(v)>>
        BY <2>2, WritesAre
      <4> QED
        BY <4>1
    <3> QED
      BY <3>1
  <2> QED
    BY <2>1, <2>2
<1>3. /\ q \in Seq(Accesses) /\ Len(q) = Len(w) + Len(post)
      /\ \A i \in 1 .. Len(w) + Len(post) : q[i] = IF i <= Len(w) THEN w[i] ELSE post[i - Len(w)]
  BY <1>1, ConcatProperties
<1>4. WritesOnly(w) /\ Embeds(q, 0, w)
  <2>1. \A i \in 1 .. Len(w) : i \in 1 .. Len(w) + Len(post) /\ 0 + i = i
    BY <1>1
  <2> QED
    BY <1>1, <1>2, <1>3, <2>1 DEF WritesOnly, Embeds, OnRegister
<1>5. Embeds(q, Len(w), post)
  <2> SUFFICES ASSUME NEW i \in 1 .. Len(post) PROVE q[Len(w) + i] = post[i]
    BY DEF Embeds
  <2>1. Len(w) + i \in 1 .. Len(w) + Len(post) /\ ~(Len(w) + i <= Len(w)) /\ Len(w) + i - Len(w) = i
    BY <1>1
  <2> QED
    BY <1>3, <2>1
<1>6. BitsAround(q, 0, Len(w))
  <2> SUFFICES ASSUME NEW i \in 1 .. Len(q), i > Len(w) PROVE ~OnRegister(q[i])
    BY <1>1 DEF BitsAround
  <2>1. i - Len(w) \in 1 .. Len(post) /\ i \in 1 .. Len(w) + Len(post) /\ ~(i <= Len(w))
    BY <1>1, <1>3
  <2> QED
    BY <1>3, <2>1 DEF BitsOnly
<1> QED
  BY <1>1, <1>3, <1>4, <1>5, <1>6

\* set_timer: the register is replaced, and where the machine timer is behind
\* it an expiry of the deadline before is taken back before it is unmasked.
LEMMA CallKeeps ==
    ASSUME TimerTypeOK, OneActivity, MaskInv, CallSetTimer
    PROVE  TimerTypeOK' /\ MaskInv' /\ PendingInv' /\ CompareInv'
<1>0. PICK v \in Deadlines :
        /\ Enter(SetTimer(v))
        /\ wish' = [asked |-> TRUE, deadline |-> v, reg |-> Target, from |-> Join(compare[Target]), to |-> v]
  BY DEF CallSetTimer
<1>1. /\ v \in 0 .. Max /\ Target \in Registers /\ Join(compare[Target]) \in 0 .. Max
      /\ board \in Boards /\ mie \in BOOLEAN /\ mip \in BOOLEAN
  <2>1. v \in 0 .. Max
    BY TimerAssumption
  <2>2. Target \in Registers
    BY DEF Target, Registers
  <2>3. compare[Target] \in DoubleWords
    BY <2>2 DEF TimerTypeOK, Registers
  <2> QED
    BY <2>1, <2>2, <2>3, SplitFacts DEF TimerTypeOK
<1>2. /\ traps' = 0 /\ UNCHANGED <<board, now, compare, mie, mip, reader>>
      /\ mode' = "machine" /\ todo' = SetTimer(v)
  BY <1>0 DEF CallSetTimer, Enter
<1>3. Target' = Target /\ v >= v
  BY <1>1, <1>2, SameBoard
<1>4. CASE board.sstc
  <2>1. todo' = WriteCompare("stimecmp", v) /\ Target = "stimecmp"
    BY <1>2, <1>4 DEF SetTimer, Target
  <2>0. PICK w : w = WriteCompare("stimecmp", v)
    OBVIOUS
  <2>2. "stimecmp" \in Registers
    BY DEF Registers
  <2>3. w \in Seq(Accesses) /\ Len(w) \in Nat
    BY <1>1, <2>0, <2>2, WritesAre, LenProperties
  <2>4. WritesOnly(w)
    <3>1. <<>> \in Seq(Accesses) /\ BitsOnly(<<>>)
      BY BitsAre DEF BitsOnly
    <3>2. PICK q : q = w \o <<>>
      OBVIOUS
    <3> QED
      BY <1>1, <2>0, <2>2, <3>1, <3>2, WritesThenBits
  <2>5. Replacing'
    <3>1. Embeds(w, 0, w)
      BY <2>3 DEF Embeds
    <3>2. BitsAround(w, 0, Len(w))
      BY <2>3 DEF BitsAround
    <3>3. /\ wish'.reg = "stimecmp" /\ wish'.to = v /\ wish'.deadline = v
          /\ Join(compare'["stimecmp"]) = wish'.from
      BY <1>0, <1>2, <2>1
    <3>4. 0 + Len(w) <= Len(w)
      BY <2>3
    <3>5. todo' = w
      BY <2>0, <2>1
    <3> QED
      BY <1>1, <1>3, <2>0, <2>1, <2>2, <2>3, <3>1, <3>2, <3>3, <3>4, <3>5, WritesAhead
  <2>6. \A b \in {"set", "clear"} : ~Planned(<<"MTIE", b>>)'
    BY <2>0, <2>1, <2>4 DEF Planned, WritesOnly, OnRegister, Registers
  <2>7. MaskInv'
    BY <1>2, <1>4, <2>6 DEF MaskInv
  <2>8. PendingInv'
    BY <1>2, <1>4 DEF PendingInv
  <2>9. TimerTypeOK'
    BY <1>0, <1>1, <1>2, <2>0, <2>1, <2>3 DEF TimerTypeOK, TimerModes
  <2> QED
    BY <2>5, <2>7, <2>8, <2>9 DEF CompareInv
<1>5. CASE ~board.sstc
  <2> DEFINE post == << <<"STIP", "clear">>, <<"MTIE", "set">> >>
  <2>0. PICK w, q : w = WriteCompare("device", v) /\ q = w \o post
    OBVIOUS
  <2>1. board.device # "sstc"
    BY <1>1, <1>5, TimerAssumption
  <2>2. todo' = q /\ Target = "device"
    BY <1>2, <1>5, <2>0, <2>1 DEF SetTimer, DeviceSetTimer, Target
  <2>3. post \in Seq(Accesses) /\ Len(post) = 2 /\ post[1] = <<"STIP", "clear">> /\ post[2] = <<"MTIE", "set">>
    BY BitsAre
  <2>4. BitsOnly(post)
    <3>1. \A i \in 1 .. 2 : i = 1 \/ i = 2
      OBVIOUS
    <3> QED
      BY <2>3, <3>1 DEF BitsOnly, OnRegister, Registers
  <2> HIDE DEF post
  <2>5. /\ q \in Seq(Accesses) /\ Len(w) \in Nat /\ Len(q) = Len(w) + Len(post)
        /\ WritesOnly(w) /\ Embeds(q, 0, w) /\ Embeds(q, Len(w), post) /\ BitsAround(q, 0, Len(w))
    <3>1. "device" \in Registers
      BY DEF Registers
    <3> QED
      <4>1. v \in 0 .. Max
        BY <1>1
      <4>2. post \in Seq(Accesses)
        BY <2>3
      <4> QED
        BY <2>0, <2>4, <3>1, <4>1, <4>2, WritesThenBits
  <2>6. Len(q) = Len(w) + 2 /\ q[Len(w) + 1] = <<"STIP", "clear">> /\ q[Len(w) + 2] = <<"MTIE", "set">>
    BY <2>3, <2>5 DEF Embeds
  <2>7. Replacing'
    <3>3. 0 + Len(w) <= Len(q)
      BY <2>5, <2>6
    <3>4. /\ wish'.reg = "device" /\ wish'.to = v /\ wish'.deadline = v
          /\ Join(compare'["device"]) = wish'.from
      BY <1>0, <1>2, <2>2
    <3>5. todo' = q /\ "device" \in Registers
      BY <2>2 DEF Registers
    <3> QED
      BY <1>1, <1>3, <2>0, <2>2, <2>5, <3>3, <3>4, <3>5, WritesAhead
  <2>8. Planned(<<"STIP", "clear">>)' /\ ~Planned(<<"STIP", "set">>)'
    <3>1. Len(w) + 1 \in 1 .. Len(q)
      BY <2>5, <2>6
    <3>2. ASSUME NEW i \in 1 .. Len(q) PROVE q[i] # <<"STIP", "set">>
      <4>1. CASE i \in 1 .. Len(w)
        <5>1. 0 + i = i
          OBVIOUS
        <5> QED
          BY <2>5, <4>1, <5>1 DEF WritesOnly, Embeds, OnRegister, Registers
      <4>2. CASE i \notin 1 .. Len(w)
        <5>1. i = Len(w) + 1 \/ i = Len(w) + 2
          BY <2>5, <2>6, <4>2
        <5> QED
          BY <2>6, <5>1
      <4> QED
        BY <4>1, <4>2
    <3> QED
      BY <2>2, <2>6, <3>1, <3>2 DEF Planned
  <2>9. MaskInv'
    BY <1>2, <1>5 DEF MaskInv
  <2>10. PendingInv'
    BY <2>8 DEF PendingInv
  <2>11. TimerTypeOK'
    BY <1>0, <1>1, <1>2, <2>2, <2>5 DEF TimerTypeOK, TimerModes
  <2> QED
    BY <2>7, <2>9, <2>10, <2>11 DEF CompareInv
<1> QED
  BY <1>4, <1>5

\* With no access to make, the register of an asked deadline is not before it.
LEMMA AtRest ==
    ASSUME TimerTypeOK, CompareInv, todo = <<>>
    PROVE  /\ \A a : ~Planned(a)
           /\ wish.asked => CompareSettled /\ Join(compare[Target]) >= wish.deadline
           /\ CompareSettled \/ Booting
<1>1. Len(todo) = 0
  OBVIOUS
<1>2. ~Replacing
  BY <1>1 DEF Replacing, HighAhead, LowAhead
<1> QED
  BY <1>1, <1>2 DEF CompareInv, CompareSettled, Booting, Planned

\* One access put before a program.
LEMMA FirstThen ==
    ASSUME NEW a \in Accesses, NEW r \in Seq(Accesses), NEW q, q = <<a>> \o r
    PROVE  /\ q \in Seq(Accesses) /\ Len(r) \in Nat /\ Len(q) = 1 + Len(r) /\ q[1] = a
           /\ Embeds(q, 1, r)
<1>1. <<a>> \in Seq(Accesses) /\ Len(<<a>>) = 1 /\ <<a>>[1] = a
  OBVIOUS
<1>2. Len(r) \in Nat
  BY LenProperties
<1>3. /\ q \in Seq(Accesses) /\ Len(q) = 1 + Len(r)
      /\ \A i \in 1 .. 1 + Len(r) : q[i] = IF i <= 1 THEN <<a>>[i] ELSE r[i - 1]
  BY <1>1, ConcatProperties
<1>4. q[1] = a
  BY <1>1, <1>2, <1>3
<1>5. ASSUME NEW i \in 1 .. Len(r) PROVE q[1 + i] = r[i]
  <2>1. 1 + i \in 1 .. 1 + Len(r) /\ ~(1 + i <= 1) /\ 1 + i - 1 = i
    BY <1>2
  <2> QED
    BY <1>3, <2>1
<1> QED
  BY <1>2, <1>3, <1>4, <1>5 DEF Embeds

\* The machine timer trap, without Sstc: it masks the timer first, takes the
\* comparator out of the way where the driver does, and injects the expiry.
LEMMA TrapKeeps ==
    ASSUME TimerTypeOK, OneActivity, MaskInv, CompareInv, TimerTrap
    PROVE  TimerTypeOK' /\ MaskInv' /\ PendingInv' /\ CompareInv'
<1>0. /\ todo = <<>> /\ mie /\ Mtip /\ todo' = MachineTimer /\ mode' = "machine"
      /\ wish' = [wish EXCEPT !.reg = "device", !.from = Join(compare.device), !.to = Max]
      /\ traps' = IF traps < 2 THEN traps + 1 ELSE 2
      /\ UNCHANGED <<board, now, compare, mie, mip, reader>>
  BY DEF TimerTrap, OneActivity, Enter
<1>1. /\ board \in Boards /\ compare.device \in DoubleWords /\ now \in Int
      /\ wish \in [asked : BOOLEAN, deadline : 0 .. Max, reg : Registers, from : 0 .. Max, to : 0 .. Max]
      /\ Join(compare.device) \in 0 .. Max /\ Max \in 0 .. Max /\ "device" \in Registers
  <2>1. compare.device \in DoubleWords /\ board \in Boards /\ now \in Int
        /\ wish \in [asked : BOOLEAN, deadline : 0 .. Max, reg : Registers, from : 0 .. Max, to : 0 .. Max]
    BY DEF TimerTypeOK
  <2>2. Max \in 0 .. Max
    BY SplitFacts
  <2> QED
    BY <2>1, <2>2, SplitFacts DEF Registers
<1>2. /\ ~board.sstc /\ traps = 0
  BY <1>0, AtRest DEF MaskInv
<1>3. board.device # "sstc"
  BY <1>1, <1>2, TimerAssumption
<1>4. Target = "device" /\ Target' = "device" /\ (wish.asked => now >= wish.deadline)
  <2>1. Target = "device" /\ Target' = "device"
    BY <1>0, <1>2 DEF Target
  <2>2. wish.asked => Join(compare.device) >= wish.deadline
    BY <1>0, <2>1, AtRest
  <2>3. now >= Join(compare.device)
    BY <1>0 DEF Mtip
  <2> QED
    BY <1>1, <2>1, <2>2, <2>3
<1>5. /\ wish'.asked = wish.asked /\ wish'.deadline = wish.deadline /\ wish'.reg = "device"
      /\ wish'.from = Join(compare.device) /\ wish'.to = Max
      /\ wish' \in [asked : BOOLEAN, deadline : 0 .. Max, reg : Registers, from : 0 .. Max, to : 0 .. Max]
  BY <1>0, <1>1
<1>6. PendingInv'
  BY <1>0, <1>4, <1>5 DEF PendingInv
<1>7. <<"MTIE", "clear">> \in Accesses /\ <<"STIP", "set">> \in Accesses
      /\ <<>> \in Seq(Accesses) /\ << <<"STIP", "set">> >> \in Seq(Accesses)
  BY BitsAre DEF Accesses, BitAccesses
<1>8. traps' = 1
  BY <1>0, <1>2
<1>9. CASE board.device = "plmt"
  <2>1. PICK r, q : r = << <<"STIP", "set">> >> /\ q = << <<"MTIE", "clear">> >> \o r
    OBVIOUS
  <2>2. todo' = q
    <3>1. <<>> \o r = r
      BY <1>7, <2>1, ConcatEmptySeq
    <3> QED
      BY <1>0, <1>2, <1>9, <2>1, <3>1 DEF MachineTimer
  <2>3. /\ q \in Seq(Accesses) /\ Len(q) = 2 /\ q[1] = <<"MTIE", "clear">> /\ q[2] = <<"STIP", "set">>
    <3>1. Len(r) = 1 /\ r[1] = <<"STIP", "set">> /\ r \in Seq(Accesses)
      BY <1>7, <2>1
    <3>2. /\ q \in Seq(Accesses) /\ Len(q) = 1 + Len(r) /\ q[1] = <<"MTIE", "clear">>
          /\ Embeds(q, 1, r)
      BY <1>7, <2>1, <3>1, FirstThen
    <3>3. q[1 + 1] = r[1]
      BY <3>1, <3>2 DEF Embeds
    <3> QED
      BY <3>1, <3>2, <3>3
  <2>4. \A i \in 1 .. Len(q) : i = 1 \/ i = 2
    BY <2>3
  <2>5. ~Planned(<<"MTIE", "set">>)' /\ Planned(<<"MTIE", "clear">>)'
    BY <2>2, <2>3, <2>4 DEF Planned
  <2>6. MaskInv'
    BY <1>0, <1>2, <1>8, <2>5 DEF MaskInv
  <2>7. CompareSettled'
    <3>1. \A i \in 1 .. Len(todo') : IsBit(i)'
      BY <2>2, <2>3, <2>4 DEF IsBit, OnRegister, Registers
    <3>2. Join(compare[wish.reg])' >= wish'.from
      BY <1>0, <1>1, <1>5
    <3>3. wish'.asked => Join(compare[Target])' >= wish'.deadline
      BY <1>0, <1>4, <1>5, AtRest
    <3> QED
      BY <3>1, <3>2, <3>3 DEF CompareSettled
  <2>8. TimerTypeOK'
    BY <1>0, <1>5, <1>8, <2>2, <2>3 DEF TimerTypeOK, TimerModes
  <2> QED
    BY <1>6, <2>6, <2>7, <2>8 DEF CompareInv
<1>10. CASE board.device # "plmt"
  <2>1. PICK w, s, r, q : /\ w = WriteCompare("device", Max) /\ s = << <<"STIP", "set">> >>
                          /\ r = w \o s /\ q = << <<"MTIE", "clear">> >> \o r
    OBVIOUS
  <2>2. todo' = q
    BY <1>0, <1>2, <1>3, <1>10, <2>1 DEF MachineTimer, DeviceSetTimer
  <2>3. s \in Seq(Accesses) /\ Len(s) = 1 /\ s[1] = <<"STIP", "set">>
    BY <1>7, <2>1
  <2>4. BitsOnly(s)
    BY <2>3 DEF BitsOnly, OnRegister, Registers
  <2>5. /\ r \in Seq(Accesses) /\ Len(w) \in Nat /\ Len(r) = Len(w) + Len(s)
        /\ WritesOnly(w) /\ Embeds(r, 0, w) /\ Embeds(r, Len(w), s) /\ BitsAround(r, 0, Len(w))
    <3>1. PICK v \in 0 .. Max : v = Max
      BY <1>1
    <3>2. w = WriteCompare("device", v) /\ r = w \o s /\ s \in Seq(Accesses) /\ "device" \in Registers
      BY <1>1, <2>1, <2>3, <3>1
    <3> QED
      BY ZenonT(40), <2>4, <3>2, WritesThenBits
  <2>6. /\ q \in Seq(Accesses) /\ Len(r) \in Nat /\ Len(q) = 1 + Len(r) /\ q[1] = <<"MTIE", "clear">>
        /\ Embeds(q, 1, r)
    BY <1>7, <2>1, <2>5, FirstThen
  <2>7. Len(q) = Len(w) + 2 /\ q[Len(w) + 2] = <<"STIP", "set">> /\ \A i \in 1 .. Len(w) : q[1 + i] = w[i]
    <3>1. \A i \in 1 .. Len(w) : i \in 1 .. Len(r) /\ 0 + i = i
      BY <2>3, <2>5
    <3>2. Len(w) + 1 \in 1 .. Len(r) /\ 1 + (Len(w) + 1) = Len(w) + 2
      BY <2>3, <2>5
    <3>3. r[Len(w) + 1] = s[1]
      BY <2>3, <2>5 DEF Embeds
    <3>4. q[1 + (Len(w) + 1)] = r[Len(w) + 1]
      BY <2>6, <3>2 DEF Embeds
    <3>5. q[Len(w) + 2] = <<"STIP", "set">>
      BY <2>3, <3>2, <3>3, <3>4
    <3>6. \A i \in 1 .. Len(w) : q[1 + i] = w[i]
      BY <2>5, <2>6, <3>1 DEF Embeds
    <3> QED
      BY <2>3, <2>5, <2>6, <3>5, <3>6
  <2>8. ASSUME NEW i \in 1 .. Len(q)
        PROVE  i = 1 \/ i = Len(w) + 2 \/ (i - 1 \in 1 .. Len(w) /\ OnRegister(q[i]))
    <3>1. CASE i # 1 /\ i # Len(w) + 2
      <4>1. i - 1 \in 1 .. Len(w) /\ 1 + (i - 1) = i
        BY <2>5, <2>7, <3>1
      <4> QED
        BY <2>5, <2>7, <4>1 DEF WritesOnly
    <3> QED
      BY <3>1
  <2>9. ~Planned(<<"MTIE", "set">>)' /\ Planned(<<"MTIE", "clear">>)'
    <3>1. 1 \in 1 .. Len(q)
      BY <2>5, <2>7
    <3>2. \A i \in 1 .. Len(q) : q[i] # <<"MTIE", "set">>
      BY <2>6, <2>7, <2>8 DEF OnRegister, Registers
    <3> QED
      BY <2>2, <2>6, <3>1, <3>2 DEF Planned
  <2>10. MaskInv'
    BY <1>0, <1>2, <1>8, <2>9 DEF MaskInv
  <2>11. Replacing'
    <3>1. Embeds(q, 1, w)
      BY <2>7 DEF Embeds
    <3>2. BitsAround(q, 1, Len(w))
      <4>1. ASSUME NEW i \in 1 .. Len(q), i <= 1 \/ i > 1 + Len(w) PROVE i = 1 \/ i = Len(w) + 2
        BY <2>5, <2>7, <4>1
      <4> QED
        BY <2>6, <2>7, <4>1 DEF BitsAround, OnRegister, Registers
    <3>3. 1 + Len(w) <= Len(q)
      BY <2>5, <2>7
    <3>4. Join(compare'["device"]) = wish'.from /\ (wish'.asked => "device" = Target' /\ Max >= wish'.deadline)
      BY <1>0, <1>1, <1>4, <1>5
    <3> QED
      BY ZenonT(40), <1>1, <1>5, <2>1, <2>2, <2>6, <3>1, <3>2, <3>3, <3>4, WritesAhead
  <2>12. TimerTypeOK'
    BY <1>0, <1>5, <1>8, <2>2, <2>6 DEF TimerTypeOK, TimerModes
  <2> QED
    BY <1>6, <2>10, <2>11, <2>12 DEF CompareInv
<1> QED
  BY <1>9, <1>10

\* Boot writes u64::MAX, and leaves MTIE off where the hart has Sstc.
LEMMA BootKeeps ==
    ASSUME TimerTypeOK, OneActivity, MaskInv, Boot
    PROVE  TimerTypeOK' /\ MaskInv' /\ PendingInv' /\ CompareInv'
<1>0. /\ todo' = DeviceSetTimer(Max) \o StageNextMode /\ mode' = "machine"
      /\ UNCHANGED <<board, now, compare, mie, mip, wish, traps, reader>>
      /\ ~wish.asked /\ wish.from = 0 /\ wish.to = 0 /\ traps = 0
  BY DEF Boot, OneActivity, Enter
<1>1. PICK v \in 0 .. Max : v = Max
  BY SplitFacts
<1>2. "device" \in Registers /\ "stimecmp" \in Registers /\ board \in Boards
  BY DEF Registers, TimerTypeOK
<1>3. StageNextMode \in Seq(Accesses) /\ BitsOnly(StageNextMode)
      /\ (board.sstc => StageNextMode = <<>>)
  <2>1. CASE board.sstc
    BY <2>1, BitsAre DEF StageNextMode, BitsOnly
  <2>2. CASE ~board.sstc
    <3>1. PICK s : s = << <<"MTIE", "set">> >>
      OBVIOUS
    <3>2. s \in Seq(Accesses) /\ Len(s) = 1 /\ s[1] = <<"MTIE", "set">>
      BY <3>1, BitsAre
    <3>3. BitsOnly(s)
      BY <3>2 DEF BitsOnly, OnRegister, Registers
    <3> QED
      BY <2>2, <3>1, <3>2, <3>3 DEF StageNextMode
  <2> QED
    BY <2>1, <2>2
<1>4. PICK g : g = StageNextMode
  OBVIOUS
<1>5. /\ todo' \in Seq(Accesses)
      /\ board.sstc => \A i \in 1 .. Len(todo') : todo'[i] # <<"MTIE", "set">>
  <2>1. CASE board.device = "sstc"
    <3>1. PICK w, s, r : w = WriteCompare("stimecmp", v) /\ s = << <<"STIP", "clear">>, <<"MTIE", "clear">> >> /\ r = w \o s
      OBVIOUS
    <3>2. s \in Seq(Accesses) /\ Len(s) = 2 /\ s[1] = <<"STIP", "clear">> /\ s[2] = <<"MTIE", "clear">>
      BY <3>1, BitsAre
    <3>3. \A i \in 1 .. 2 : i = 1 \/ i = 2
      OBVIOUS
    <3>4. BitsOnly(s)
      BY <3>2, <3>3 DEF BitsOnly, OnRegister, Registers
    <3>5. s \in Seq(Accesses)
      BY <3>2
    <3>6. /\ r \in Seq(Accesses) /\ Len(w) \in Nat /\ Len(r) = Len(w) + Len(s)
          /\ WritesOnly(w) /\ Embeds(r, 0, w) /\ Embeds(r, Len(w), s)
      BY <1>2, <3>1, <3>4, <3>5, WritesThenBits
    <3>7. board.sstc
      BY <1>2, <2>1, TimerAssumption
    <3>8. todo' = r
      <4>1. DeviceSetTimer(Max) = r
        BY <1>1, <2>1, <3>1 DEF DeviceSetTimer
      <4> QED
        BY <1>0, <1>3, <3>6, <3>7, <4>1, ConcatEmptySeq
    <3>9. ASSUME NEW i \in 1 .. Len(r) PROVE r[i] # <<"MTIE", "set">>
      <4>1. CASE i \in 1 .. Len(w)
        <5>1. 0 + i = i
          OBVIOUS
        <5> QED
          BY <3>6, <4>1, <5>1 DEF WritesOnly, Embeds, OnRegister, Registers
      <4>2. CASE i \notin 1 .. Len(w)
        <5>1. i - Len(w) \in 1 .. Len(s) /\ Len(w) + (i - Len(w)) = i
          BY <3>6, <4>2
        <5>2. r[i] = s[i - Len(w)]
          BY <3>6, <5>1 DEF Embeds
        <5>3. i - Len(w) = 1 \/ i - Len(w) = 2
          BY <3>2, <3>3, <5>1
        <5> QED
          BY <3>2, <5>2, <5>3
      <4> QED
        BY <4>1, <4>2
    <3> QED
      BY <3>6, <3>8, <3>9
  <2>2. CASE board.device # "sstc"
    <3>1. PICK w, r : w = WriteCompare("device", v) /\ r = w \o g
      OBVIOUS
    <3>2. g \in Seq(Accesses) /\ BitsOnly(g)
      BY <1>3, <1>4
    <3>3. /\ r \in Seq(Accesses) /\ Len(w) \in Nat /\ Len(r) = Len(w) + Len(g)
          /\ WritesOnly(w) /\ Embeds(r, 0, w)
      BY ZenonT(40), <1>2, <3>1, <3>2, WritesThenBits
    <3>4. todo' = r
      BY <1>0, <1>1, <1>4, <2>2, <3>1 DEF DeviceSetTimer
    <3>5. ASSUME board.sstc, NEW i \in 1 .. Len(r) PROVE r[i] # <<"MTIE", "set">>
      <4>1. Len(g) = 0
        BY <1>3, <1>4, <3>5
      <4>2. i \in 1 .. Len(w) /\ 0 + i = i
        BY <3>3, <4>1
      <4> QED
        BY <3>3, <4>2 DEF WritesOnly, Embeds, OnRegister, Registers
    <3> QED
      BY <3>3, <3>4, <3>5
  <2> QED
    BY <2>1, <2>2
<1>6. MaskInv'
  BY <1>0, <1>5 DEF MaskInv, Planned
<1>7. PendingInv' /\ CompareInv'
  BY <1>0 DEF PendingInv, CompareInv, Booting
<1>8. TimerTypeOK'
  BY <1>0, <1>5 DEF TimerTypeOK, TimerModes
<1> QED
  BY <1>6, <1>7, <1>8

\* A hart that starts again enters its stage with MTIE set, where it has no
\* Sstc.
LEMMA RestartKeeps ==
    ASSUME TimerTypeOK, OneActivity, MaskInv, PendingInv, CompareInv, Restart
    PROVE  TimerTypeOK' /\ MaskInv' /\ PendingInv' /\ CompareInv'
<1>0. /\ todo = <<>> /\ todo' = StageNextMode /\ mode' = "machine" /\ traps' = 0
      /\ UNCHANGED <<board, now, compare, mie, mip, wish, reader>>
  BY DEF Restart, OneActivity, Enter
<1>1. /\ todo' \in Seq(Accesses) /\ \A i \in 1 .. Len(todo') : todo'[i] = <<"MTIE", "set">>
      /\ board.sstc => Len(todo') = 0
  <2>1. CASE board.sstc
    BY <1>0, <2>1, BitsAre DEF StageNextMode
  <2>2. CASE ~board.sstc
    <3>1. PICK s : s = << <<"MTIE", "set">> >>
      OBVIOUS
    <3>2. s \in Seq(Accesses) /\ Len(s) = 1 /\ s[1] = <<"MTIE", "set">>
      BY <3>1, BitsAre
    <3>3. todo' = s
      BY <1>0, <2>2, <3>1 DEF StageNextMode
    <3> QED
      BY <2>2, <3>2, <3>3
  <2> QED
    BY <2>1, <2>2
<1>2. \A b \in {"set", "clear"} : ~Planned(<<"STIP", b>>)' /\ ~Planned(<<"STIP", b>>)
  BY <1>0, <1>1, AtRest DEF Planned
<1>3. MaskInv'
  BY <1>0, <1>1 DEF MaskInv, Planned
<1>4. PendingInv'
  BY <1>0, <1>2 DEF PendingInv
<1>5. CompareInv'
  <2>1. CASE Booting
    BY <1>0, <2>1 DEF Booting, CompareInv
  <2>2. CASE CompareSettled
    <3>1. \A i \in 1 .. Len(todo') : IsBit(i)'
      BY <1>1 DEF IsBit, OnRegister, Registers
    <3>2. Target' = Target
      BY <1>0, SameBoard
    <3> QED
      BY <1>0, <2>2, <3>1, <3>2 DEF CompareSettled, CompareInv
  <2> QED
    BY <1>0, <2>1, <2>2, AtRest
<1>6. TimerTypeOK'
  BY <1>0, <1>1 DEF TimerTypeOK, TimerModes
<1> QED
  BY <1>3, <1>4, <1>5, <1>6

\* The steps that make no access and leave the registers alone.
LEMMA QuietKeeps ==
    ASSUME TimerTypeOK, MaskInv, PendingInv, CompareInv,
           UNCHANGED <<board, todo, compare, mie, mip, wish, traps>>, now' \in 0 .. LastTick, now' >= now,
           mode' \in TimerModes,
           reader' \in [pc : {"idle", "low", "again", "done"}, high : HalfWords, low : HalfWords, since : Nat]
    PROVE  TimerTypeOK' /\ MaskInv' /\ PendingInv' /\ CompareInv'
<1>1. TimerTypeOK'
  BY DEF TimerTypeOK
<1>2. \A a : Planned(a)' <=> Planned(a)
  BY DEF Planned
<1>3. MaskInv'
  BY <1>2 DEF MaskInv
<1>4. PendingInv'
  <2>1. wish.deadline \in Int /\ now \in Int /\ now' \in Int
    BY SplitFacts DEF TimerTypeOK
  <2> QED
    BY <1>2, <2>1 DEF PendingInv
<1>5. CompareInv'
  <2>1. Target' = Target
    BY SameBoard
  <2>2. \A i : IsBit(i)' <=> IsBit(i)
    BY DEF IsBit
  <2>3. CASE CompareSettled
    BY <2>1, <2>2, <2>3 DEF CompareSettled, CompareInv
  <2>4. CASE Booting
    BY <2>4 DEF Booting, CompareInv
  <2>5. CASE Replacing
    <3>1. \A p : (WholeAhead(p) <=> WholeAhead(p)') /\ (HalvesAhead(p) <=> HalvesAhead(p)')
      BY <2>2 DEF WholeAhead, HalvesAhead
    <3>2. (HighAhead <=> HighAhead') /\ (LowAhead <=> LowAhead')
      BY <2>2 DEF HighAhead, LowAhead
    <3> QED
      BY <2>1, <2>5, <3>1, <3>2 DEF Replacing, CompareInv
  <2> QED
    BY <2>3, <2>4, <2>5 DEF CompareInv
<1> QED
  BY <1>1, <1>3, <1>4, <1>5

\* mret: what the handler replaced is settled.
LEMMA LeaveKeeps ==
    ASSUME TimerTypeOK, MaskInv, PendingInv, CompareInv, LeaveMachine
    PROVE  TimerTypeOK' /\ MaskInv' /\ PendingInv' /\ CompareInv'
<1>0. /\ todo = <<>> /\ mode' = "lower" /\ wish' = [wish EXCEPT !.reg = "device", !.from = 0, !.to = 0]
      /\ UNCHANGED <<board, now, todo, compare, mie, mip, traps, reader>>
  BY DEF LeaveMachine
<1>1. /\ wish \in [asked : BOOLEAN, deadline : 0 .. Max, reg : Registers, from : 0 .. Max, to : 0 .. Max]
      /\ 0 \in 0 .. Max /\ "device" \in Registers /\ compare.device \in DoubleWords
  BY SplitFacts DEF TimerTypeOK, Registers
<1>2. /\ wish'.asked = wish.asked /\ wish'.deadline = wish.deadline /\ wish'.reg = "device"
      /\ wish'.from = 0 /\ wish'.to = 0
      /\ wish' \in [asked : BOOLEAN, deadline : 0 .. Max, reg : Registers, from : 0 .. Max, to : 0 .. Max]
  BY <1>0, <1>1
<1>3. \A a : Planned(a)' <=> Planned(a)
  BY <1>0 DEF Planned
<1>4. MaskInv'
  BY <1>0, <1>3 DEF MaskInv
<1>5. PendingInv'
  BY <1>0, <1>2, <1>3 DEF PendingInv
<1>6. CompareInv'
  <2>1. Target' = Target
    BY <1>0, SameBoard
  <2>2. wish'.asked => Join(compare[Target])' >= wish'.deadline
    BY <1>0, <1>2, <2>1, AtRest
  <2>3. Join(compare[wish.reg])' >= wish'.from
    <3>1. Join(compare.device) >= 0
      BY <1>1, SplitFacts
    <3> QED
      BY <1>0, <1>2, <3>1
  <2>4. \A i \in 1 .. Len(todo') : IsBit(i)'
    BY <1>0
  <2> QED
    BY <2>2, <2>3, <2>4 DEF CompareSettled, CompareInv
<1>7. TimerTypeOK'
  BY <1>0, <1>2 DEF TimerTypeOK, TimerModes
<1> QED
  BY <1>4, <1>5, <1>6, <1>7

\* Two readings of the high half that agree bracket the low half.
LEMMA HalvesAgree ==
    ASSUME NEW a \in 0 .. Max, NEW b \in 0 .. Max, NEW c \in 0 .. Max, a <= b, b <= c,
           Split(a).hi = Split(c).hi
    PROVE  Split(a).hi * Half + Split(b).lo = b
<1>1. Half \in Nat /\ Half >= 2 /\ Max \in Nat
  BY SplitFacts
<1>2. a \div Half = c \div Half
  BY DEF Split
<1>3. b \div Half = a \div Half
  BY <1>1, <1>2
<1>4. Split(b).hi = Split(a).hi
  BY <1>3 DEF Split
<1>5. Split(b).hi * Half + Split(b).lo = b
  BY SplitFacts DEF Join
<1> QED
  BY <1>4, <1>5

\* Reading the time keeps the invariant.
LEMMA ReadKeeps ==
    ASSUME TimerTypeOK, OneActivity, MaskInv, PendingInv, CompareInv, ReaderInv,
           ReadHigh \/ ReadLow \/ ReadAgain \/ ReadReturns
    PROVE  TimerTypeOK' /\ OneActivity' /\ MaskInv' /\ PendingInv' /\ CompareInv' /\ ReaderInv'
<1>0. /\ now \in 0 .. LastTick /\ now \in 0 .. Max /\ mode \in TimerModes
      /\ reader \in [pc : {"idle", "low", "again", "done"}, high : HalfWords, low : HalfWords, since : Nat]
      /\ UNCHANGED <<board, now, todo, compare, mie, mip, wish, traps>>
  <2>1. LastTick \in Nat /\ LastTick < Max /\ Max \in Nat
    BY SplitFacts
  <2> QED
    BY <2>1 DEF TimerTypeOK, ReadHigh, ReadLow, ReadAgain, ReadReturns
<1>1. Split(now).hi \in HalfWords /\ Split(now).lo \in HalfWords /\ 0 \in HalfWords /\ now \in Nat
  BY <1>0, SplitFacts DEF DoubleWords, HalfWords
<1>2. /\ mode' \in TimerModes
      /\ reader' \in [pc : {"idle", "low", "again", "done"}, high : HalfWords, low : HalfWords, since : Nat]
      /\ OneActivity' /\ ReaderInv'
  <2>1. CASE ReadHigh
    <3>1. /\ reader' = [pc |-> "low", high |-> Split(now).hi, low |-> 0, since |-> now]
          /\ mode = "lower" /\ mode' = "reading"
      BY <2>1 DEF ReadHigh
    <3>2. now \in now .. now
      BY <1>1
    <3> QED
      BY <1>0, <1>1, <3>1, <3>2 DEF OneActivity, ReaderInv, TimeReadIsCurrent, TimerModes
  <2>2. CASE ReadLow
    <3>1. /\ reader.pc = "low" /\ reader' = [reader EXCEPT !.pc = "again", !.low = Split(now).lo]
          /\ mode' = mode
      BY <2>2 DEF ReadLow
    <3>2. PICK t \in reader.since .. now : reader.high = Split(t).hi
      BY <3>1 DEF ReaderInv
    <3>3. now \in t .. now /\ t \in Int
      BY <1>0, <1>1
    <3> QED
      BY <1>0, <1>1, <3>1, <3>2, <3>3 DEF OneActivity, ReaderInv, TimeReadIsCurrent
  <2>3. CASE ReadAgain
    <3>1. reader.pc = "again" /\ mode' = mode
      BY <2>3 DEF ReadAgain
    <3>2. CASE reader.high = Split(now).hi
      <4>1. reader' = [reader EXCEPT !.pc = "done"]
        BY <2>3, <3>2 DEF ReadAgain
      <4>2. PICK t \in reader.since .. now : \E u \in t .. now : reader.high = Split(t).hi /\ reader.low = Split(u).lo
        BY <3>1 DEF ReaderInv
      <4>3. PICK u \in t .. now : reader.high = Split(t).hi /\ reader.low = Split(u).lo
        BY <4>2
      <4>4. t \in 0 .. Max /\ u \in 0 .. Max /\ t <= u /\ u <= now /\ reader.since <= t
        BY <1>0, SplitFacts
      <4>5. reader.high * Half + reader.low = u
        BY <1>0, <3>2, <4>3, <4>4, HalvesAgree
      <4>6. reader.since <= u
        BY <1>0, <4>4
      <4> QED
        BY <1>0, <3>1, <4>1, <4>4, <4>5, <4>6 DEF OneActivity, ReaderInv, TimeReadIsCurrent
    <3>3. CASE reader.high # Split(now).hi
      <4>1. reader' = [reader EXCEPT !.pc = "low", !.high = Split(now).hi, !.low = 0]
        BY <2>3, <3>3 DEF ReadAgain
      <4>2. now \in reader.since .. now
        <5>1. PICK t \in reader.since .. now : TRUE
          BY <3>1 DEF ReaderInv
        <5> QED
          BY <1>0
      <4> QED
        BY <1>0, <1>1, <3>1, <4>1, <4>2 DEF OneActivity, ReaderInv, TimeReadIsCurrent
    <3> QED
      BY <3>2, <3>3
  <2>4. CASE ReadReturns
    <3>1. reader.pc = "done" /\ reader' = Idle /\ mode' = "lower" /\ mode = "reading"
      BY <2>4 DEF ReadReturns, OneActivity
    <3> QED
      BY <1>0, <1>1, <3>1 DEF OneActivity, ReaderInv, TimeReadIsCurrent, TimerModes, Idle
  <2> QED
    BY <2>1, <2>2, <2>3, <2>4
<1>3. now' \in 0 .. LastTick /\ now' >= now
  BY <1>0, <1>1
<1> QED
  BY <1>0, <1>2, <1>3, QuietKeeps

\* The invariant holds at the start.
LEMMA TimerInvInit == TimerInit => TimerInv
<1> SUFFICES ASSUME TimerInit PROVE TimerInv
  OBVIOUS
<1>1. PICK d \in {0, Max}, e \in {0, Max} : compare = [device |-> Split(d), stimecmp |-> Split(e)]
  BY DEF TimerInit
<1>2. Split(d) \in DoubleWords /\ Split(e) \in DoubleWords /\ 0 \in 0 .. Max /\ 0 \in 0 .. LastTick /\ 0 \in HalfWords
  <2>1. 0 \in 0 .. Max /\ Max \in 0 .. Max
    BY SplitFacts
  <2>2. 0 \in HalfWords /\ 0 \in 0 .. LastTick
    BY SplitFacts DEF HalfWords
  <2> QED
    BY <2>1, <2>2, SplitFacts
<1>3. TimerTypeOK
  <2>1. wish \in [asked : BOOLEAN, deadline : 0 .. Max, reg : Registers, from : 0 .. Max, to : 0 .. Max]
    BY <1>2 DEF TimerInit, Registers
  <2>2. reader \in [pc : {"idle", "low", "again", "done"}, high : HalfWords, low : HalfWords, since : Nat]
    BY <1>2 DEF TimerInit, Idle
  <2>3. todo \in Seq(Accesses)
    BY BitsAre DEF TimerInit
  <2>4. compare \in [device : DoubleWords, stimecmp : DoubleWords]
    BY <1>1, <1>2
  <2>5. board \in Boards /\ now \in 0 .. LastTick /\ mode \in TimerModes /\ traps \in 0 .. 2
    BY <1>2 DEF TimerInit, TimerModes
  <2>6. mie \in BOOLEAN /\ mip \in BOOLEAN
    BY DEF TimerInit
  <2> QED
    BY <2>1, <2>2, <2>3, <2>4, <2>5, <2>6 DEF TimerTypeOK
<1>4. OneActivity /\ ReaderInv
  BY DEF TimerInit, OneActivity, ReaderInv, TimeReadIsCurrent, Idle
<1>5. MaskInv /\ PendingInv /\ CompareInv
  BY DEF TimerInit, MaskInv, PendingInv, CompareInv, Booting, Planned
<1> QED
  BY <1>3, <1>4, <1>5 DEF TimerInv

\* Time goes on.
LEMMA ReaderKept ==
    ASSUME TimerTypeOK, ReaderInv, reader' = reader, now' \in Int, now' >= now PROVE ReaderInv'
<1>1. /\ now \in Int
      /\ reader \in [pc : {"idle", "low", "again", "done"}, high : HalfWords, low : HalfWords, since : Nat]
      /\ reader.since \in Int
  BY DEF TimerTypeOK
<1>2. \A t \in reader.since .. now : t \in reader.since .. now'
  BY <1>1
<1>3. \A t \in reader.since .. now : \A u \in t .. now : u \in t .. now'
  BY <1>1
<1>4. reader.high * Half + reader.low \in Int
  BY <1>1, SplitFacts DEF HalfWords
<1>5. TimeReadIsCurrent'
  BY <1>1, <1>4 DEF ReaderInv, TimeReadIsCurrent
<1> QED
  BY <1>2, <1>3, <1>5 DEF ReaderInv

\* Every step keeps the invariant.
LEMMA TimerInvNext == TimerInv /\ [TimerNext]_timerVars => TimerInv'
<1> SUFFICES ASSUME TimerInv, [TimerNext]_timerVars PROVE TimerInv'
  OBVIOUS
<1>0. /\ TimerTypeOK /\ OneActivity /\ MaskInv /\ PendingInv /\ CompareInv /\ ReaderInv
      /\ mode \in TimerModes
      /\ now \in 0 .. LastTick /\ now \in Int /\ LastTick \in Nat
      /\ reader \in [pc : {"idle", "low", "again", "done"}, high : HalfWords, low : HalfWords, since : Nat]
  BY SplitFacts DEF TimerInv, TimerTypeOK
<1>1. CASE ReadHigh \/ ReadLow \/ ReadAgain \/ ReadReturns
  BY <1>0, <1>1, ReadKeeps DEF TimerInv
<1>2. ASSUME UNCHANGED <<now, reader>> PROVE ReaderInv'
  BY <1>0, <1>2, ReaderKept
<1>3. CASE MakeAccess
  <2>1. UNCHANGED <<now, reader, mode, traps, wish>> /\ mode = "machine"
    BY <1>3 DEF MakeAccess
  <2>2. OneActivity'
    BY <1>0, <2>1 DEF OneActivity
  <2>3. CompareInv'
    BY <1>0, <1>3, BitKeepsCompare, WriteKeepsCompare
  <2> QED
    BY <1>0, <1>2, <1>3, <2>1, <2>2, <2>3, AccessKeepsTypes, AccessKeepsBits DEF TimerInv
<1>4. CASE LeaveMachine
  <2>1. UNCHANGED <<now, reader>> /\ OneActivity'
    BY <1>0, <1>4 DEF LeaveMachine, OneActivity
  <2> QED
    BY <1>0, <1>2, <1>4, <2>1, LeaveKeeps DEF TimerInv
<1>5. CASE CallSetTimer
  <2>1. UNCHANGED <<now, reader>> /\ OneActivity'
    BY <1>0, <1>5 DEF CallSetTimer, OneActivity, Enter
  <2> QED
    BY <1>0, <1>2, <1>5, <2>1, CallKeeps DEF TimerInv
<1>6. CASE TimerTrap
  <2>1. UNCHANGED <<now, reader>> /\ OneActivity'
    BY <1>0, <1>6 DEF TimerTrap, OneActivity, Enter
  <2> QED
    BY <1>0, <1>2, <1>6, <2>1, TrapKeeps DEF TimerInv
<1>7. CASE Boot
  <2>1. UNCHANGED <<now, reader>> /\ OneActivity'
    BY <1>0, <1>7 DEF Boot, OneActivity, Enter
  <2> QED
    BY <1>0, <1>2, <1>7, <2>1, BootKeeps DEF TimerInv
<1>8. CASE Restart
  <2>1. UNCHANGED <<now, reader>> /\ OneActivity'
    BY <1>0, <1>8 DEF Restart, OneActivity, Enter
  <2> QED
    BY <1>0, <1>2, <1>8, <2>1, RestartKeeps DEF TimerInv
<1>9. CASE Tick \/ Stop \/ Suspend \/ WfiReturns \/ IpiWakes \/ UNCHANGED timerVars
  <2>1. /\ UNCHANGED <<board, todo, compare, mie, mip, wish, traps, reader>>
        /\ now' \in 0 .. LastTick /\ now' \in Int /\ now' >= now
    <3>1. CASE Tick
      BY <1>0, <3>1 DEF Tick
    <3>2. CASE Stop \/ Suspend \/ WfiReturns \/ IpiWakes \/ UNCHANGED timerVars
      BY <1>0, <3>2 DEF Stop, Suspend, WfiReturns, IpiWakes, timerVars
    <3> QED
      BY <1>9, <3>1, <3>2
  <2>2. mode' \in TimerModes /\ OneActivity'
    BY <1>0, <1>9 DEF Tick, Stop, Suspend, WfiReturns, IpiWakes, timerVars, OneActivity, TimerModes
  <2>3. ReaderInv'
    BY <1>0, <2>1, ReaderKept
  <2> QED
    BY <1>0, <2>1, <2>2, <2>3, QuietKeeps DEF TimerInv
<1> QED
  BY <1>1, <1>3, <1>4, <1>5, <1>6, <1>7, <1>8, <1>9 DEF TimerNext

\* A register is replaced through values that are not before both its ends.
LEMMA NeverEarly == TimerInv => CompareNeverEarly
<1> SUFFICES ASSUME TimerInv PROVE Join(compare[wish.reg]) >= wish.from \/ Join(compare[wish.reg]) >= wish.to
  BY DEF CompareNeverEarly
<1>0. /\ wish.from \in 0 .. Max /\ wish.to \in 0 .. Max /\ wish.reg \in Registers
      /\ compare[wish.reg] \in DoubleWords
  BY DEF TimerInv, TimerTypeOK, Registers
<1>1. Join(compare[wish.reg]) \in 0 .. Max
  BY <1>0, SplitFacts
<1>2. CASE CompareSettled
  BY <1>2 DEF CompareSettled
<1>3. CASE Booting
  BY <1>0, <1>1, <1>3, SplitFacts DEF Booting
<1>4. CASE Replacing
  <2>1. ASSUME NEW v \in 0 .. Max, compare[wish.reg] = [hi |-> Split(v).hi, lo |-> Half - 1]
        PROVE  Join(compare[wish.reg]) >= v
    <3>1. Split(v) \in DoubleWords /\ Join(Split(v)) = v
      BY SplitFacts
    <3>2. Join(Split(v)) <= Split(v).hi * Half + (Half - 1)
      BY <3>1, SplitFacts
    <3>3. Join(compare[wish.reg]) = Split(v).hi * Half + (Half - 1)
      BY <2>1 DEF Join
    <3> QED
      BY <1>1, <3>1, <3>2, <3>3
  <2>2. CASE HighAhead
    BY <1>0, <2>1, <2>2 DEF HighAhead
  <2>3. CASE LowAhead
    BY <1>0, <2>1, <2>3 DEF LowAhead
  <2>4. CASE \E p \in 1 .. Len(todo) : WholeAhead(p) \/ HalvesAhead(p)
    <3>1. Join(compare[wish.reg]) = wish.from
      BY <2>4 DEF WholeAhead, HalvesAhead
    <3> QED
      BY <1>0, <3>1
  <2> QED
    BY <1>4, <2>2, <2>3, <2>4 DEF Replacing
<1> QED
  BY <1>2, <1>3, <1>4 DEF TimerInv, CompareInv

\* The invariant gives the property.
LEMMA TimerInvExact == TimerInv => TimerIsExact
<1> SUFFICES ASSUME TimerInv PROVE TimerIsExact
  OBVIOUS
<1>1. NoEarlyTimer
  <2> SUFFICES ASSUME mode = "lower", wish.asked, Stip PROVE now >= wish.deadline
    BY DEF NoEarlyTimer
  <2>1. /\ \A a : ~Planned(a)
        /\ Join(compare[Target]) >= wish.deadline
    BY AtRest DEF TimerInv, OneActivity
  <2>2. CASE board.sstc
    <3>1. now >= Join(compare.stimecmp) /\ Join(compare.stimecmp) >= wish.deadline
      BY <2>1, <2>2 DEF Stip, Target
    <3>2. now \in Int /\ wish.deadline \in Int /\ compare.stimecmp \in DoubleWords /\ Join(compare.stimecmp) \in Int
      <4>1. compare.stimecmp \in DoubleWords
        BY DEF TimerInv, TimerTypeOK
      <4> QED
        BY <4>1, SplitFacts DEF TimerInv, TimerTypeOK
    <3> QED
      BY <3>1, <3>2
  <2>3. CASE ~board.sstc
    BY <2>1, <2>3 DEF Stip, TimerInv, PendingInv
  <2> QED
    BY <2>2, <2>3
<1>2. NoTimerStorm
  BY DEF NoTimerStorm, TimerInv, MaskInv
<1> QED
  BY <1>1, <1>2, NeverEarly DEF TimerInv, ReaderInv, TimerIsExact

\* On every board, with words of any size and whatever the deadlines, the
\* supervisor's timer interrupt is never early, one deadline traps at most
\* once, a comparator written in halves never holds a time before both the old
\* and the new one, and a counter read in halves is a time of the read.
\* (SbiTimer::set_timer, machine_timer, and the SiFive, T-Head, PLMT and Sstc
\* drivers' register accesses)
THEOREM TimersAreExact == TimerSpec => []TimerIsExact
  BY TimerInvInit, TimerInvNext, TimerInvExact, PTL DEF TimerSpec
=============================================================================
