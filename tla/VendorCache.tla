------------------------------ MODULE VendorCache ------------------------------
(***************************************************************************)
(* The V821 cache extension (sbi/vendor/allwinner/v821.rs and              *)
(* driver/allwinner/v821.rs): range maintenance of a write-back L1 and L2, *)
(* line by line, L1 through CSRs and L2 through a command register.        *)
(*                                                                         *)
(* The hart stores bytes, a device writes memory, and lines are evicted at *)
(* any time, also between the two halves of the maintenance of a line.     *)
(***************************************************************************)
EXTENDS Integers, FiniteSets

CONSTANTS
    LineSize,    \* CACHE_LINE_SIZE
    LastLine,    \* lines are numbered from 0
    MaxAddress,  \* usize::MAX
    LargeFlush,  \* LARGE_FLUSH_THRESHOLD
    MaxStores,   \* bound on stores of the hart
    MaxDma       \* bound on writes of the device

ASSUME CacheAssumption ==
    /\ LineSize \in Nat \ {0} /\ LastLine \in Nat /\ MaxStores \in Nat /\ MaxDma \in Nat
    /\ MaxAddress >= (LastLine + 1) * LineSize

Lines == 0 .. LastLine
CachedBytes == 0 .. (LastLine + 1) * LineSize - 1
LineOf(a) == a \div LineSize
InLine(l) == l * LineSize .. l * LineSize + LineSize - 1

VARIABLES
    ram,      \* byte -> value
    l1, l2,   \* line -> [state, data]; state is "none", "clean" or "dirty"
    step,     \* what the firmware does next: "smode", "first", "second", "done" or "failed"
    op,       \* the call
    line,     \* the line being maintained
    stored,   \* ghost: what the hart last stored in each byte, "any" if it does not care
    budget    \* stores and device writes still allowed

cacheVars == <<ram, l1, l2, step, op, line, stored, budget>>

NoOp == [fn |-> "none", start |-> 0, end |-> 0]
Missing == [state |-> "none", data |-> [i \in 0 .. LineSize - 1 |-> "old"]]

CacheInit ==
    /\ ram = [a \in CachedBytes |-> "old"]
    /\ l1 = [l \in Lines |-> Missing] /\ l2 = [l \in Lines |-> Missing]
    /\ step = "smode" /\ op = NoOp /\ line = 0
    /\ stored = [a \in CachedBytes |-> "old"]
    /\ budget = [stores |-> MaxStores, dma |-> MaxDma]

-----------------------------------------------------------------------------
(* The caches.                                                             *)

FromRam(l) == [i \in 0 .. LineSize - 1 |-> ram[l * LineSize + i]]
Behind(l) == IF l2[l].state # "none" THEN l2[l].data ELSE FromRam(l)
Seen(l) == IF l1[l].state # "none" THEN l1[l].data ELSE Behind(l)
View(a) == Seen(LineOf(a))[a % LineSize]

\* A dirty line of L1 goes to L2, one of L2 to memory.
WriteL1(l) == l2' = IF l1[l].state = "dirty" THEN [l2 EXCEPT ![l] = [l1[l] EXCEPT !.state = "dirty"]] ELSE l2
WriteL2(l) == ram' = IF l2[l].state = "dirty"
                     THEN [a \in CachedBytes |-> IF a \in InLine(l) THEN l2[l].data[a % LineSize] ELSE ram[a]]
                     ELSE ram

Evict ==
    /\ \E l \in Lines :
        \/ /\ l1[l].state # "none"
           /\ WriteL1(l) /\ l1' = [l1 EXCEPT ![l] = Missing] /\ UNCHANGED ram
        \/ /\ l2[l].state # "none"
           /\ WriteL2(l) /\ l2' = [l2 EXCEPT ![l] = Missing] /\ UNCHANGED l1
    /\ UNCHANGED <<step, op, line, stored, budget>>

\* The hart loads, which may bring the line into both caches.
Load ==
    /\ step = "smode"
    /\ \E l \in Lines :
        /\ l1[l].state = "none"
        /\ l1' = [l1 EXCEPT ![l] = [state |-> "clean", data |-> Behind(l)]]
        /\ l2' = IF l2[l].state = "none" THEN [l2 EXCEPT ![l] = [state |-> "clean", data |-> Behind(l)]] ELSE l2
    /\ UNCHANGED <<ram, step, op, line, stored, budget>>

Store ==
    /\ step = "smode" /\ budget.stores > 0
    /\ \E a \in CachedBytes :
        /\ l1' = [l1 EXCEPT ![LineOf(a)] =
                    [state |-> "dirty", data |-> [Seen(LineOf(a)) EXCEPT ![a % LineSize] = "new"]]]
        /\ stored' = [stored EXCEPT ![a] = "new"]
    /\ budget' = [budget EXCEPT !.stores = @ - 1]
    /\ UNCHANGED <<ram, l2, step, op, line>>

\* The device writes bytes that the hart has given away.
Dma ==
    /\ budget.dma > 0
    /\ \E a \in CachedBytes :
        /\ ram' = [ram EXCEPT ![a] = "dma"]
        /\ stored' = [stored EXCEPT ![a] = "any"]
    /\ budget' = [budget EXCEPT !.dma = @ - 1]
    /\ UNCHANGED <<l1, l2, step, op, line>>

-----------------------------------------------------------------------------
(* Calls.                                                                  *)

RoundDown(a) == a - (a % LineSize)
RoundUp(a) == RoundDown(a + LineSize - 1)

\* maintain_range before the loop: the sums must not overflow, and the rounded
\* range must be supervisor memory.
Granted(start, length) ==
    /\ length > 0
    /\ start + length + LineSize - 1 <= MaxAddress
    /\ RoundDown(start) .. RoundUp(start + length) - 1 \subseteq CachedBytes

\* flush_all, and a write-back of a large range.
Flushes(fn, length) == fn = "flush" \/ (fn = "write_back" /\ length >= LargeFlush)

CallRange ==
    /\ step = "smode"
    /\ \E fn \in {"write_back", "invalidate"}, start \in 0 .. MaxAddress, length \in 1 .. LargeFlush :
        /\ Granted(start, length)
        /\ op' = [fn |-> IF Flushes(fn, length) THEN "flush" ELSE fn, start |-> start, end |-> start + length]
        /\ line' = LineOf(start)
        /\ stored' = IF fn = "invalidate"
                     THEN [a \in CachedBytes |-> IF start <= a /\ a < start + length THEN "any" ELSE stored[a]]
                     ELSE stored
    /\ step' = "first"
    /\ UNCHANGED <<ram, l1, l2, budget>>

CallFlush ==
    /\ step = "smode"
    /\ op' = [NoOp EXCEPT !.fn = "flush"]
    /\ step' = "first"
    /\ UNCHANGED <<ram, l1, l2, line, stored, budget>>

\* Mutant: a line that the end of the range cuts is taken for a whole one.
MPartial == line * LineSize < op.start

\* The line has bytes outside the range.
Partial == line * LineSize < op.start \/ op.end - line * LineSize < LineSize

\* What happens to the line: whether dirty data is written on, and whether the
\* line leaves the cache.
WritesBack == op.fn # "invalidate" \/ Partial
Invalidates == op.fn # "write_back"

\* Mutant: the L2 comes first.
MHalves == <<"l2", "l1">>

\* The maintenance of a line, or of everything.
Halves == <<"l1", "l2">>
Targets == IF op.fn = "flush" THEN Lines ELSE {line}
After(c) == IF Invalidates THEN Missing ELSE IF c.state = "dirty" THEN [c EXCEPT !.state = "clean"] ELSE c
Leaves(c) == WritesBack /\ c.state = "dirty"

\* maintain_a27l2_line and write_back_and_invalidate_l1_all.
MaintainL1 ==
    /\ l2' = [l \in Lines |-> IF l \in Targets /\ Leaves(l1[l]) THEN l1[l] ELSE l2[l]]
    /\ l1' = [l \in Lines |-> IF l \in Targets THEN After(l1[l]) ELSE l1[l]]
    /\ UNCHANGED ram

\* l2_command once the device is idle again.
MaintainL2 ==
    /\ ram' = [a \in CachedBytes |-> IF LineOf(a) \in Targets /\ Leaves(l2[LineOf(a)])
                                  THEN l2[LineOf(a)].data[a % LineSize] ELSE ram[a]]
    /\ l2' = [l \in Lines |-> IF l \in Targets THEN After(l2[l]) ELSE l2[l]]
    /\ UNCHANGED l1

OneHalf(i) == IF Halves[i] = "l1" THEN MaintainL1 ELSE MaintainL2

FirstHalf ==
    /\ step = "first"
    /\ OneHalf(1)
    /\ step' = "second"
    /\ UNCHANGED <<op, line, stored, budget>>

\* Lines of the range are left.
More == (line + 1) * LineSize < op.end

SecondHalf ==
    /\ step = "second"
    /\ OneHalf(2)
    /\ IF op.fn # "flush" /\ More
       THEN step' = "first" /\ line' = line + 1
       ELSE step' = "done" /\ line' = line
    /\ UNCHANGED <<op, stored, budget>>

\* The command times out, or reports an error; it may have had its effect.
CommandFails ==
    /\ \E i \in 1 .. 2 : step = (<<"first", "second">>)[i] /\ Halves[i] = "l2"
    /\ MaintainL2 \/ UNCHANGED <<ram, l1, l2>>
    /\ step' = "failed"
    /\ UNCHANGED <<op, line, stored, budget>>

ReturnToCaller ==
    /\ step \in {"done", "failed"}
    /\ step' = "smode" /\ op' = NoOp /\ line' = 0
    /\ UNCHANGED <<ram, l1, l2, stored, budget>>

CacheNext ==
    Load \/ Store \/ Evict \/ Dma \/ CallRange \/ CallFlush \/ FirstHalf \/ SecondHalf \/ CommandFails \/ ReturnToCaller

CacheSpec == CacheInit /\ [][CacheNext]_cacheVars

-----------------------------------------------------------------------------
(* Properties.                                                             *)

\* No call loses what the hart stored in a byte that it did not ask to
\* invalidate, wherever the range begins and ends and whether or not the call
\* fails on the way.
StoresAreKept == \A a \in CachedBytes : stored[a] # "any" => View(a) = stored[a]

\* After a call that succeeded, what the hart stored in the range is in memory
\* (write-back), or the hart reads memory there (invalidate, flush): no byte is
\* left behind in L1 or L2.
RangeAgrees ==
    step = "done" => \A a \in CachedBytes :
        /\ op.fn = "flush" \/ (op.fn = "invalidate" /\ op.start <= a /\ a < op.end) => ram[a] = View(a)
        /\ op.fn = "write_back" /\ op.start <= a /\ a < op.end /\ stored[a] # "any" => ram[a] = stored[a]

\* Cache maintenance of a range does what it says to the bytes of the range, and
\* loses nothing around it.  (maintain_range, flush_all)
RangeIsCoherent == StoresAreKept /\ RangeAgrees

-----------------------------------------------------------------------------
(* The inductive invariant behind RangeIsCoherent.                         *)

ByteValues == {"old", "new", "dma"}
CacheEntries == [state : {"none", "clean", "dirty"}, data : [0 .. LineSize - 1 -> ByteValues]]

\* Types of the memory, the caches and the call.
CacheTypeOK ==
    /\ ram \in [CachedBytes -> ByteValues]
    /\ l1 \in [Lines -> CacheEntries] /\ l2 \in [Lines -> CacheEntries]
    /\ step \in {"smode", "first", "second", "done", "failed"}
    /\ op \in [fn : {"none", "flush", "write_back", "invalidate"}, start : Nat, end : Nat]
    /\ line \in Nat
    /\ stored \in [CachedBytes -> {"old", "new", "any"}]

\* What the hart stored in byte a is in every copy that a load or an eviction
\* can bring forward: above the topmost dirty copy all copies agree.
ByteKept(a) ==
    LET c1 == l1[LineOf(a)]
        c2 == l2[LineOf(a)]
    IN stored[a] # "any" =>
           /\ c1.state # "none" => c1.data[a % LineSize] = stored[a]
           /\ c2.state # "none" /\ c1.state # "dirty" => c2.data[a % LineSize] = stored[a]
           /\ c1.state # "dirty" /\ c2.state # "dirty" => ram[a] = stored[a]

\* The loop over the range has come past line l with its L1 half, its L2 half.
PastL1(l) == IF op.fn = "flush" THEN step \in {"second", "done"}
             ELSE LineOf(op.start) <= l /\ (l < line \/ (l = line /\ step \in {"second", "done"}))
PastL2(l) == IF op.fn = "flush" THEN step = "done"
             ELSE LineOf(op.start) <= l /\ (l < line \/ (l = line /\ step = "done"))

Maintained(c) == c.state # "dirty" /\ (Invalidates => c.state = "none")

\* What a call in progress may rely on: the hart does not care for bytes it
\* invalidates, and no line the loop has passed becomes dirty again.
CallInv ==
    /\ step = "smode" => op.fn = "none"
    /\ op.fn = "invalidate" =>
           \A a \in CachedBytes : op.start <= a /\ a < op.end => stored[a] = "any"
    /\ step \in {"first", "second", "done"} =>
           \A l \in Lines : /\ PastL1(l) => Maintained(l1[l])
                            /\ PastL2(l) => Maintained(l2[l])
    /\ step = "done" /\ op.fn # "flush" => op.end <= (line + 1) * LineSize

CacheInv == CacheTypeOK /\ (\A a \in CachedBytes : ByteKept(a)) /\ CallInv
==============================================================================
