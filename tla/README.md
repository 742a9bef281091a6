# RustSBI Prototyper: a TLA+ verification project

The repository holds RustSBI, a RISC-V Supervisor Binary Interface
implementation. Its program is the *Prototyper* firmware
(`firmware/prototyper`) on top of the machine-mode *Runtime*
(`firmware/runtime`); the crates under `library/` are bindings, traits and
helper libraries. Every hart of the machine executes the firmware at the same
time, in M-mode with interrupts off, and synchronizes with the others through
atomics, a few plain cells, device locks, and one interrupt-pending bit per
hart. Around that core each hart handles its own traps, timer and counters, and
hands out memory and devices that other harts use too.

Paths below are relative to `src/firmware/` unless they start with `library/`,
which is `src/library/`.

## Inventory

| Component | State | Operations | Interacts by | What makes it correct |
|---|---|---|---|---|
| Hart lifecycle (`runtime/src/hart/lifecycle.rs`, `hart/wakeup.rs`, `prototyper/src/sbi/hsm.rs`) | per hart: an atomic state, a staged handoff, a control transfer | start, stop, suspend, resume, take_local_event | cells written by other harts, doorbell | one starter at a time, no lost start, recorded state true, no "BUG:" exit |
| Boot finisher and software trap (`runtime/src/boot/mod.rs`, `trap/dispatch.rs`) | where the hart is | acknowledge, observe, deliver, act | doorbell, IPI handler | no lost wakeup, entry exactly once |
| Boot election and bring-up (`prototyper/src/entry/start.S`, `relocation.S`, `main.rs`, `platform/`) | two words, BSS, READY, flags | elect, relocate, clear, publish, wait | memory words before memory is prepared | one boot hart, nothing used before it is written |
| SBI IPI (`sbi/ipi.rs`, `driver/ipi/`) | pending types per hart | send_ipi, deliver_current | atomic bits, doorbell | pending work is announced, IPIs arrive |
| Remote fence (`sbi/rfence.rs`, `sbi/rfence/queue.rs`) | queue and count per hart | submit, poll, drain, cancel, acknowledge | queues, counts, doorbell | a returned fence is complete, no deadlock |
| System suspend (`sbi/suspend.rs`) | none of its own | scan, suspend | reads all cells | alone when it suspends |
| Timer (`sbi/timer.rs`, `driver/timer/`) | mtimecmp, stimecmp, STIP, MTIE | set_timer, machine_timer, time reads | CSRs and a device, while time goes on | no early, lost or endless interrupt |
| Traps (`runtime/src/trap/`) | mtvec, mscratch, mstatus, frame, record | entry, emulation, guarded access, redirect | CSRs and supervisor memory that may fault | the lower context sees what hardware would have done |
| PMU (`sbi/pmu.rs`) | counters and events | config, start, stop, count | CSRs, firmware events | a counter has one event |
| FWFT (`sbi/fwft.rs`, `features.rs`) | menvcfg, medeleg | get, set | CSRs with WARL fields | a feature keeps the value it was set to |
| Memory registry (`runtime/src/memory/`), STA, MPXY, DBTR | regions, windows, shared areas | register, acquire, set_shmem | lock; supervisor addresses | no overlap; only supervisor RAM is written for it |
| Console (`sbi/console.rs`, `driver/console/`) | device lock, FIFOs | write, read, write_byte, print | one device for all harts | no byte lost, doubled or reordered |
| Reset (`sbi/reset.rs`, `driver/reset/`) | backend, PMIC and watchdog registers | probe, bind, reset | one device, I2C bus that fails | the machine does what was asked, or the call answers |
| Vendor cache (`sbi/vendor/allwinner/`, `driver/allwinner/`) | L1, L2 lines | flush, clean, invalidate | beside DMA and evictions | the range agrees with memory, stores are kept |
| SBI call path (`library/sbi-rt`, `library/rustsbi`, `library/macros`) | none | encode, dispatch, default, forward | ecall registers | a call arrives as it was made |
| Secure memory (`library/smm`, `library/pmpm`) | regions, PMP slots | extend, reclaim, alloc, free | tables | enclaves apart, protected and cleaned |
| Hart masks (`library/sbi-spec/src/binary/`) | mask and base, unvisited bits | insert, remove, iterate from both ends | none | a mask names the harts that were asked for |
| Device-tree patch (`runtime/src/device_tree.rs`, `device_tree/patch/`) | the retained blob | validate, plan, hide, reserve, rebuild | the stages before and after | the change asked for and no other, a valid blob |
| Discovery, RPMI, AIA, CoVE, Penglai, kernels, tools | no protocol state | | | see "Not modelled" |

What is hard here: harts that race before memory is prepared; two starters of
one hart; a doorbell that is cleared while a start or an IPI is being published;
harts that stop, suspend or start between the moment a sender selects them and
the moment it rings; harts that wait for each other's fences in M-mode; sends
that fail half way and have to be taken back while the target may have seen
them; a scan of all harts that is stale by the time it is used; a fault inside
the trap handler's own access to supervisor memory; a clock that goes on between
the two halves of a compare register; a bus transfer that times out after it
arrived; an eviction between the two halves of a cache operation; addresses and
masks at the limits of their width. `PROJECT.json` lists these hazards line by
line, with the properties that cover each.

## Modules

    HsmAbstract <- refined by - HartLifecycle <- extended by, and refined by - RemoteFence
                                      ^                                   <- extended by - SystemSuspend
                                      |
       HartLifecycleProofs (with SystemSuspend) <- RemoteFenceProofs

    MCMachine  = BootElection, PhysicalMemory (MemoryProofs), TrapHandling (TrapProofs),
                 SystemReset, VendorCache, Timer (DeviceProofs), Console (ConsoleProofs)
    MCServices = Pmu, Fwft, HartMasks, SecureMemory (ServiceProofs),
                 SbiCalls (SbiRt, SbiTraits, SbiCallsProofs), DeviceTreePatch (MCDeviceTree)

**HartLifecycle** has one variable per shared location and one per hart for
where it executes. Each access to a location that another hart can see is a
step; code between two such accesses is folded into one of them.

| Variable | Code |
|---|---|
| `ready`, `checked` | `READY`, `HART_PRIVILEGE_CHECKED` (`platform/state.rs`) |
| `state`, `stage`, `transfer` | the fields of `HartStateCell` (`hart/lifecycle.rs`) |
| `doorbell` | the machine software (or IMSIC) interrupt pending at the hart |
| `pc`, `caller`, `call`, `event` | the hart's position, the routine a shared tail returns into, its arguments and its `HartEvent` |
| `running` | ghost: the stage the hart's lower modes execute |

The steps follow `boot_hart`/`secondary_hart` (`InitBoard` to
`EnableServices`), `hart::start` (`HartStart`, the wake steps, `WriteStage`,
`StorePending`), the acknowledge-observe-deliver-act sequence that
`finish_boot_rust` and `machine_soft` share (`ClearCurrent`, `TakeLocalEvent`,
`TakeStage`, `DeliverCurrent`, `DispatchEvent`, `WfiReturns`), `stop_current`,
`suspend_current`, the two resumes and the resume ticket. `FlakyHarts` are the
harts an IPI send may fail to reach; `ResetHarts` may be held in reset until the
platform's `HartWake` device releases them. The two such devices differ in when
they take the wake on themselves (`K1Releases`, `V861Releases`), and either may be
the one that is there. `wfi` may return at any time, as
the architecture allows. A wake that fails may leave the doorbell unrung or,
after an earlier ring, rung.

**HsmAbstract** is what the HSM extension promises: five states, one accepted
handoff per hart, entered once. `HsmRefinement` maps STARTING to START_PENDING
as `status()` does, and finds the accepted handoff wherever it is: in the
starter's call, the cell, the event, the ticket or the transfer.

**RemoteFence** extends the lifecycle with `ipi.rs`, `rfence.rs` and
`rfence/queue.rs`. `work` is the position of a hart inside a call or a
delivery; the lifecycle's `DeliverCurrent` step is where `deliver_current`
swaps the pending bits and drains the queue. A queue entry is its source:
every source has one call at a time and sends one operation. `stale` is a
ghost: for each source, the harts of its mask that have not executed a fence
since the call began. A hart leaves it by executing the fence, or by the
fence.i with which it enters a stage; an address-translation fence is treated
alike, because the entry also clears satp. `LifecycleRefinement` says that all
this is still a behaviour of HartLifecycle.

**SystemSuspend** extends the lifecycle with `system_suspend`: one step for the
map of checked harts, one per status read, one for the suspend.

**BootElection** is the way from reset to the policy. `raceWord` and `bssWord`
are the two words of `start.S`; `mem` is the state of relocated pointers, BSS
words and the published platform; `buffer` holds the stores of a hart that have
not reached memory. With `Ordered` stores arrive in order; without it, in any
order until the next release, which is all that RISC-V promises for plain
stores and an `amoadd` without `.rl`. The election picks who prepares memory,
and `DynamicInfo` picks who leads the boot: these may be different harts. Every
hart is given the same `DynamicInfo`, and a hart that it names does enter.

**Timer** follows `set_timer`, `machine_timer` and the four timer drivers one
register access at a time (`todo`), with `now` advancing in between; RV32
writes and reads a double word in halves. Boot, stop, restart and suspend of
the hart are actions too.

**TrapHandling** follows one hart through `trap/`: the entry with its stack
sentinel, classification, the fast path, the emulation of misaligned accesses
and of time reads, the access dispatcher, redirection, and the guarded accesses
of `recovery.rs` instruction by instruction, because which handler takes the
next fault depends on `mtvec`, `mscratch` and `mstatus` at that instruction.
Memory bytes and registers are digits in a small base, so that width, byte
order and sign extension keep their shape. An address may fault, or lie on a page
that can be executed and not read (`XonlySets`), which answers a load only under
MXR; `OwnMxr` are the values that the trapped context's own MXR may have. `trap` is
a ghost: what hardware that does the access itself would have left behind.

**Console** is `sbi/console.rs` over the UART drivers: slices of supervisor
memory, the transfer limit, the device lock, a status poll and a data access as
two steps, the line on the other side, receive errors, and the baud-rate set-up
with its integer width, one register write a step (`Configure`, `made`), from the
clearing of the PL011's status on. Of the drivers, XScale stands for the 16550 family and PL011 for AXI Lite.

**SystemReset** probes the reset nodes in device-tree order, binds one backend,
and runs SRST calls of several harts. A node has a register window (a word of its
provider for a syscon); a window that is in RAM, reserved or acquired already
(`Taken`), or that the same bind acquires twice, and a second GPRCM gate, fail the
boot. A backend is a program of register accesses and I2C transfers under the
device lock; a transfer may be refused, or time out with the byte delivered or
not. A backend that fails returns to the supervisor from an SRST call, and stops
the hart when `fail()` called it.

**VendorCache** is the V821 range maintenance over a write-back L1 and L2, line
by line, with hart stores, DMA writes and evictions at any time.

**Pmu** is one hart's performance counters (`sbi/pmu.rs`). Harts share no
counter state, and calls and traps of one hart do not interleave, so a call is
one step.

| Variable | Code |
|---|---|
| `active`, `fwStarted`, `fwValue` | `active_event`, `fw_counter_state`, `fw_counter` of `PmuState` |
| `inhibit`, `selector` | `mcountinhibit` and the `mhpmevent` CSRs |
| `halted` | an `unwrap` failed and the firmware panicked |
| `granted` | ghost: the event the supervisor was last told the counter counts |
| `reset` | ghost: the counter that the last effective call stopped alone with RESET |

The actions are the outcomes of `counter_config_matching` (`ConfigFirmware`,
`ConfigProgrammable`, `ConfigFixed`, `ConfigSkipMatch`), `counter_start`,
`counter_stop`, `pmu_firmware_counter_increment` and `pmu_state_reset`. Counters
are numbered as the code numbers them, by their position among the implemented
CSRs, so that a mask with gaps has numbers that differ from offsets; `time`, at
offset 1, is a counter that can neither start nor stop. What `from_node` reads
from the device tree is the constant `CounterMap`. Left out: the values of the
hardware counters, and calls that are refused before they have an effect.
SKIP_MATCH with a firmware event on a hardware counter subtracts below zero and
is refused by the range check that follows (the arithmetic wraps in the release
build; a build with overflow checks would panic there).

**Fwft** is `set` and `get` of every feature over `menvcfg` as the set of its
one bits, after `configure_hart_environment`. Fields are WARL: a hart keeps only
the bits and tag lengths it has. Every hart has S-mode.

**PhysicalMemory** is the registration of RAM, reservations and firmware
(`runtime/src/memory/`), what is left for the supervisor, exclusive register
windows, the PMP entries of `set_pmp`, and the services that take addresses from
the supervisor (STA, MPXY, DBTR, and the console's buffers), with their checks of
alignment (`WordSize`) and range. MPXY has an area for each hart, DBTR one for
all. The loops of the
registration run one range a step: `regStep` is the loop, `ahead` the ranges it
has not come to, `cursor` how far the free parts of a `bank` are found. A sort
by start leaves the order of equal starts open, so any of them may come next. The
properties compare the interval algebra of the code with sets of bytes.

**SbiRt**, **SbiTraits** and **SbiCalls** follow an SBI call from a function of
`sbi-rt` through the ecall registers, the structure that derives `RustSBI`, the
`_rustsbi_*` dispatch functions and the trait method, and back; a field may be
`Forward`, which makes the same call one level below. SbiRt is the table of the
caller's functions (number, registers, widths), SbiTraits the table of the
callee's; they were translated separately, each from its own crate, and SbiCalls
says that they agree. How many values a byte and 32 bits have (`Byte`, `Half`) and
which arguments are tried (`Sampled`) are constants: TLC takes a few digits, the
proofs any. RV32 and RV64 are kept apart.

**SecureMemory** is the enclave memory manager of `library/smm` over the PMP
slots of `library/pmpm`: `init` and `deinit`, `extend`, `reclaim`, `alloc_em` and
`free_em` of the runtime and application allocators, slot allocation, and the
NAPOT encoding. The slots of the monitor, of temporary grants and of the default
grant are the numbers that `init` passes to the protector: 1, 2 and 2^(N-1).
The buddy heap is external: an allocation takes any aligned free block.

**HartMasks** is the hart mask of `library/sbi-spec`: the mask word as the set of
its one bits, a base, and the iterator that gives out the harts from both ends,
with arithmetic at the width of `usize`. `chosen` is a ghost: the harts that were
inserted and not removed.

**DeviceTreePatch** follows the blob of the previous stage through `from_raw`
and `prepare_next_stage`. The structure block is a sequence of tokens with their
sizes in bytes, so that offsets, block sizes and the header keep their meaning;
a value is a sequence of words, names are strings. `validate_structure` and
`plan_edits` are folds over the tokens, as the code's loops are, with the node
stack as the accumulator. The next stage may start the firmware again with the
tree it was given.

| Variable | Code |
|---|---|
| `blob` | the tree at `PlatformDescription::address` |
| `edit` | the arguments of `prepare_next_stage` |
| `output` | the address returned: the same blob, or the rewritten one |

The components of MCMachine share no variable with each other, and neither do
those of MCServices. Their product would say nothing that the parts do not say,
so a behaviour runs one of them, chosen at the start (`part`), while the others
stay in one state in which nothing of theirs is enabled under fairness.

`MC*` modules give the constants their values for TLC. Operators whose names
start with `M` and whose comments start with "Mutant:" are faulty variants of
the definition below them; each property is violated when its mutant replaces
the definition, and nothing in the specifications uses them.

## Runs

| Run | Instance | Shows |
|---|---|---|
| `lifecycle_suspend` | 3 harts, hart 2 maybe in reset, hart 1 unreliable, 1 handoff, system suspends | `NoPanic`, `StageHasOneUser`, `RecordedStateIsTrue`, `OneSystemSuspend`, `OnlyTheHartItselfMovesOn` |
| `lifecycle_liveness` | 2 harts, hart 1 maybe in reset, hart 0 unreliable, 2 handoffs, IPIs from hart 0 to hart 1 | `HsmRefinement`; no accepted start, reservation, wakeup or software IPI is lost (`StartsSettle`, `SuspendEndsWithIpi`, `SoftIpiArrives`) |
| `fence_lifecycle` | 2 harts that both fence, IPIs from hart 0, hart 1 unreliable, broadcasts, queues of 2 | `SyncCountIsExact`, `FenceIsComplete`, `WorkIsAnnounced`, `LifecycleRefinement` |
| `fence_liveness` | 3 running harts: harts 1 and 2 fence hart 0, which fences hart 1; hart 0 unreliable, queues of 1 | `CallsReturn` |
| `machine` | the seven parts of MCMachine | their thirteen safety properties |
| `machine_progress` | boot, timer, console and reset | `EveryHartBoots`, `DeadlineInterrupts`, `ConsoleCallsReturn`, `ResetOrAnswer` |
| `services` | the six parts of MCServices | their nine safety properties |
| `suspend_scan_race` | 3 harts | violated: see Findings |
| `boot_weak_order` | 3 entering harts and a held one, stores in any order | violated: see Findings |
| `sbi_trigger_masks` | one environment | violated: see Findings |
| `pmu_reset` | one programmable and one firmware counter | violated: see Findings |
| `secure_slots` | five PMP slots | violated: see Findings |

The larger properties are conjunctions of named
parts, one for each thing that can go wrong separately:

- boot: `OneBootHart` (one hart is elected and one leads), `MemoryIsPrepared`
  (nothing is read that is not relocated or cleared), `PublishedBeforeUse`;
- traps: `TrapsAreTransparent` (a returned trap left what hardware would have),
  `StopsForStraysOnly` (nothing the lower modes do stops the hart, and a fault of
  the firmware's own does), `PrivilegeIsKept` (a guarded access is made with the
  mode and translation of the trapped context and with MXR added to its rights, no
  other access is, and the CSRs are the context's own again at the return);
- `TimerIsExact`: no interrupt and no compare value before the deadline, no
  second trap for one expiry, no torn read of the time;
- `StartsSettle` of the lifecycle: an accepted start enters its handoff
  (`StartCompletes`), a reservation is published or rolled back
  (`ReservationEnds`);
- console: `BytesAreKept` (output and input in order, none lost that was
  reported, harts do not mix inside a slice, the line configured);
- reset: `ResetIsAsAsked` (the kind that was asked, by the backend of highest
  priority), `TransactionsAreWhole` (no watchdog half set, no bit of a PMIC
  register lost between its read and its write);
- `RangeIsCoherent`: stores are kept, and after the call the range agrees with
  memory;
- SBI calls: `CallsAreFaithful` (arguments, answers and forwarded calls intact,
  nothing cut to a narrower type), `ServedAsAnnounced` (what is not
  announced is refused; what is announced is served by the first field that is
  there, save a static None and a reference to None; standard extensions are not
  shadowed);
- PMU: `EventsFitCounters`, `GrantsAreKept`, `GrantsAreExclusive`; FWFT:
  `FeatureKeeps`;
- memory: `RegistryIsExact` (exactly the free RAM is granted, windows once; the
  PMP opens what is granted and, of the firmware, what `set_pmp` lists: text to
  read, read-only data not at all, the rest to read and write),
  `NamedMemoryIsGranted` (what the supervisor names is checked when it is named
  and used; a hart's MPXY area is its own);
- `MasksAreExact`: a mask names what was inserted, its iterator gives out each
  hart once, in order from both ends, and counts what is left;
- `PatchIsExact`: the next stage reads the tree without the hidden nodes and with
  the reservation in the right cells, the new blob is one that a
  firmware started with it would retain, and a retained tree is rejected exactly
  if it has two `/reserved-memory` nodes, even when nodes are only hidden, or no
  room for the reservation, which includes that it is there already;
- `EnclavesAreApart`: blocks protected and disjoint, a slot from 2 to N - 2 for
  each region, no data left behind, also after `deinit`, regions encodable.

Bounds of the lifecycle and fence runs. Two harts suffice for every pairwise
race: starter against target, sender against target, mutual fences. Three are
used where a third party matters: two starters of one hart, a hart that starts
another behind a scan, a queue that is full when a second source pushes.
`QueueCap` is 16 in the code and the firmware supports 8 harts; since every source
has at most one request in a queue (part of `SyncCountIsExact`), the shipped queue
never fills. A queue of 1 with two sources, as in `fence_liveness`, is full at a
push; with two harts a queue never is, and the queues of 2 in `fence_lifecycle`
would show a second entry of a source. `fence_liveness` starts with all harts
running and has no HSM calls; harts that stop and suspend while they are fenced
are in `fence_lifecycle`. What more harts, masks and queue lengths could add to
the safety properties is left to the proofs, which hold for all of them. One
handoff is enough except where handoffs have to be told apart
(`lifecycle_liveness`). These state spaces are finite without further bounds: a
count is at most the number of outstanding requests.

Bounds of `machine`. Boot: three harts enter and one is released later, with
every choice of leader; three are needed to have an elected hart, a leader and a
bystander. Traps: one-bit bytes, nine data bytes (a double word at every
alignment), four platforms (no time source, the CSR, a slow counter, all), fault
sets at page ends so that an access fails in its middle, execute-only pages under
the instruction and under the data, user code with MXR and supervisor code without. Timer: a double word is
two digits below 3, so that halves carry, the clock runs to 7, deadlines are in
the past, now, later, across a carry, and `u64::MAX` (never); all four devices,
RV32 and RV64, with and without Sstc. Console: two harts, messages longer than
the transfer limit and FIFO of 2, two arriving bytes, all 6-bit clock
frequencies. Reset: two callers with two calls each, node lists that contain
each driver first, second and broken, gates and windows twice and a window that is
taken, seven requests. Cache: two lines of two
bytes, one store and one DMA write, ranges that start and end inside a line and
one above the large-flush threshold. Memory: addresses 0..15, descriptions whose
banks and reservations touch, overlap, nest and cross the firmware, one with an
alias and one with controllers. `machine_progress` uses the same parts with fewer
inputs.

Bounds of `services`. SBI: every function of every extension plus raw function
numbers, RV32 and RV64, environments with present, absent, optional, vendor and
forwarded fields up to two levels. PMU: one programmable and one firmware
counter beside the fixed ones, sets of one, all of a kind and all counters;
firmware counters stop at `MaxValue`. Harts without `mcountinhibit` and other
counter sets are left to the proofs. FWFT: four calls on 37 kinds of hart.
Secure memory: five PMP slots, of which the library
reserves three, addresses up to 8, four regions ever made. Masks: a 4-bit
`usize`, every mask and base. Device tree: about 300 trees, with every kind of
usable and unusable `/reserved-memory`, devices to hide at the root and below a
bus, root cells of 1, 2 and 3 words, 18 malformed structures, headers with gaps,
overlaps and misalignment; a word is a digit below 4, so that values need one
cell or two; nodes nest up to `MaxDepth` 4 (63 in the code); one restart.

Deadlock is checked in every passing run. A part that has used up its inputs, a hart that
has stopped and a machine that went down stay as they are through explicit
steps (such as `ServicesEnd`).

## Fairness

Lifecycle, IPI and fence (`Fairness`, `FenceFairness`): a hart that is inside
the firmware keeps executing (weak fairness; M-mode is not preempted); a `wfi`
with a pending IPI returns; a pending machine interrupt is taken by a hart that
is in its lower modes again and again (strong fairness, since supervisor calls
may come between). Nothing obliges a supervisor to make or not to make a call.
The loops of the fences get no more than that: they keep running while they have
something to do, and nothing obliges the other harts to leave them alone. So
`CallsReturn` has a premise about the supervisors, `FencesEnd`: from some time on
none calls for another fence. Without it the property is false, and TLC's
counterexample is real: a hart whose queue is refilled every time before it looks
drains for ever (`rfence_handler` has no bound), and `remote.set` may find the
queue full at each try. With it, harts that fence each other over full queues
with sends that fail do not wait for each other for ever.

Boot: weak fairness of every hart's steps and of the stores' arrival. Timer:
time goes on, M-mode keeps executing, and a timer trap that is pending again and
again is taken (strong, because calls come between). Console: a hart in a call
goes on and the line takes bytes, both weakly fair; a waiter for the device lock
gets it in the end because the other harts' inputs are bounded, where unbounded
callers would rely on the timing of a spin lock. Reset: a caller goes on, and a
commanded takedown happens (weak).

## Proofs

Checked by TLAPS for every value of the constants, under the named assumptions
of the modules.

`HartLifecycleProofs`, for any finite set of harts and any set of handoffs:
`TypeCorrect`, `LifecycleInvariant`, and from it `NeverPanics`,
`StageIsExclusive`, `RecordedState`, and the action property `OthersOnlyStart`.
None of the safety properties is inductive by itself. `LifecycleInv` adds what
they rest on: STARTING is a lock with exactly one holder (`StarterInv`,
`ReservationHeld`); a handoff is in the cell exactly from the starter's write to
the hart's take (`StageInv`); the place a hart executes at fixes what its cell,
event, call and transfer hold (`ContextInv`); and until the boot hart has
reserved its own cell, every cell is STOPPED, so no hart can call HSM
(`BootInv`). The proof has one step per action and under it one per conjunct.

`RemoteFenceProofs`: `FenceTypes`, `SyncCountExact`, and
`FenceImplementsLifecycle`, that every step of the extended system is a step of
HartLifecycle or leaves its variables alone. Through that step the lifecycle's
invariants hold in RemoteFence too, without a second proof. The inductive
`FenceInv` says: at each place of a call, which window of the mask is current
and what is still to come (`CallInv`); a request is in one place, the queue or
the hand of the hart that drains it, and no hart asks itself (`HolderInv`); only
a call that is sending or waiting has asked anyone, and none of the harts still
to come (`AskedInv`); and the count is the number of harts asked that have not
acknowledged (`CountInv`).

In the same module, `FencesComplete` (a fence that returns has been
executed, or overtaken by a stage entry, on every hart it named) and
`WorkAnnounced` (pending work of a hart never waits without its doorbell or a
sender about to ring). For the first, a stale hart of a waiting call either has
the request in hand or in its queue, or will fence on its way into its stage
(`CompleteInv`); harts that are not yet checked cannot be stale in a way that
matters (`UncheckedInv`). For the second, the hart will swap its pending bits
before it sleeps or returns, or the doorbell is rung, or a sender has yet to
ring (`AnnouncedInv`).

Also in `HartLifecycleProofs`: `SuspendTypes`, `SuspendInvariant` and
`OneSystemSuspendAtATime`, the mutual exclusion of system suspends. Its
strengthening says that of two harts inside `system_suspend` at least one has
still to read the other, and that a hart that sleeps has been passed by none.

`MemoryProofs`, of the boot election: `OneLeader` for any harts and either memory order;
`MemoryPrepared` and `PublishedFirst` for `Ordered` memory, which is the
assumption that the finding `boot_weak_order` is about.

`ServiceProofs`, of the counters: `PmuTypeCorrect`, `EventsFit`, `GrantsKept` and `GrantsExclusive`
for every set of implemented counters, number of firmware counters, event set
and device-tree map. The invariant is the conjunction of the three properties,
which need each other: a free counter has no grant because grants are kept, and
a fixed counter is granted again only for its own event because records fit
their counters. Underneath are facts about `get_mhpm_csr_offset` (different
counters have different CSRs) and `CounterMask` (a non-empty set has a lowest
counter, from the well-foundedness of the naturals). That every counter number
has an offset, whatever the gaps of the mask, is by the least number without one:
the number before it has an offset, and the least implemented offset above that
one is the next counter's.

`HartsKeepThePromise` (in `HartLifecycleProofs`): the lifecycle implements
HsmAbstract. The initial states map to initial states, and every step is a step
of the abstract hart or leaves it where it is. `LifecycleInv` is what makes the
mapping well defined: the accepted handoff is in one place at a time, so a step
that moves it from the starter's call to the cell, or from the cell to the event,
is a stutter.

`TrapProofs`: `TrapInvariant`, `TrapsNeverShow`, `StraysAloneStop` and
`PrivilegeNeverLeaks`, for every even number of values of a byte, every memory,
register file, platform and family of fault sets, and any exceptions of the
firmware. The properties speak of a few places of a behaviour, and `TrapInv` says
what holds at all the others, in parts:

- the place the hart executes at fixes `mtvec`, `mscratch` and `mstatus`, and
  what the window will put back (`ControlHolds`);
- what is accessed under guard on the way to each place, and with which mask, so
  that the fault of the access is always one that `recovery_entry` accepts
  (`GuardHolds`); whether it faulted and how is in the record (`RecordHolds`);
- the facts captured at the entry are those of the trap (`FactsHold`);
- the bytes of the access that are done: `HoldsHighest` for a load, which
  collects from the top, and `LowestStored` for a store (`DataHolds`);
- what the emulation ends with (`OutcomeHolds`).

This holds as long as no exception of the firmware's own has occurred; after one
the hart can only stop, because the address or the cause is not the expected
one. Underneath are facts about digits: `AppendDigit` (a byte joins the bytes
read so far), and `ExtendDigits` (what `ValueKind::extend` leaves in each byte
of a register). `TrapAssumption` states what a power is, which the provers do not
know, and that the data of the accesses exist.

`DeviceProofs`:

- `CacheCallsAreCoherent`, for any number of lines of any size, with stores, DMA
  and evictions at any time. A byte that the hart cares for is in the highest
  place that holds it (`ByteKept`), and no line that the loop has passed becomes
  dirty again (`CallInv`);
- `ResetsAreWhole` and `ResetsAreAsAsked`, for any harts, node lists and
  requests. Only the hart that holds the device runs a program, and where it is
  in the program fixes what the watchdog, the PMIC and the syscon hold
  (`ProgramInv`); what the drivers keep while the nodes are probed one by one is
  the first node of the highest priority among those seen (`ProbeInv`);
- `TimersAreExact`, for words of any size, all boards and deadlines. While a
  double word is replaced in halves, the comparator is later than the old and the
  new value or is one of them (`CompareInv`); a trap masks MTIE and only a call
  sets it again (`MaskInv`); STIP is set for a deadline that came or is about to
  be cleared (`PendingInv`); a reader has seen a high half that was true since it
  began (`ReaderInv`).

`ConsoleProofs`: `BytesKept`, for any harts, messages, transfer limit, queue
depth, clocks and arriving bytes. Where a call is fixes who holds the device
(`CallShape`); a slice that is being written is a suffix of the output up to the
byte the call is at, and nothing of another hart can come into it because only
the holder puts bytes (`WriteShape`); the bytes delivered to all harts, those a
call has taken and those in the queue are together the bytes that arrived, each
once and in order, up to the ones a receive error dropped (`ReadShape`,
`RxShape`). The line is followed through every register write of `bind`
(`LineInv`): the divisor latch is open exactly between its two writes, so that no
write goes to the register behind it.

`MemoryProofs`, of the registry: `RegistryExact` and `NamedMemoryGranted`, for every description
of the platform, every size of the address space, any number of harts and any
sizes of the areas. `RegistryInv` follows the loops of the registration:

- the ranges made so far are in order with a byte between each and the next, have
  exactly the bytes of the ranges that the loop has come to, and begin no later
  than the ranges ahead (`Normalized`), so that looking at the last one only is
  enough;
- the free parts found so far have exactly the bytes up to the cursor that are not
  withheld, and every exclusion already passed ends at or before the cursor
  (`FreeInv`);
- no free part could go on: its end is no free byte.

The last two are why `check_range`, which looks for one free part that contains
the range, is exact (`RangeInOne`). `ServedInv` says the rest, that areas and
writes stay in what is granted. The PMP tables are read entry by entry: the first
that matches decides (`FirstHit`), and the entries of each of the three layouts
end at addresses in order.

`SbiCallsProofs`: `CallsFaithful` and `ServesAnnounced`, for any environments of any
depth, any structures that compile, any width of a byte and of a half word, and any
arguments of the functions' types. The two tables are compared entry by entry: a
function and the method of its name have the same number, widths and registers
(`Agrees`; the debug trigger masks are the exception, which is the finding
`sbi_trigger_masks`), no two methods of an extension share a number, and Forward
overrides every method. For any two entries that agree and whose double word comes
last, as it does in every entry (`Sound`), decoding undoes encoding on both word
sizes (`RoundTrip`), and decoded raw registers encode to themselves (`RawExact`).
`SbiInv` then follows a call:

- at every level the registers hold the caller's function and arguments (`RegsInv`),
  so what a method is given is again what was called (`Delivered`), and a Forward
  may encode it anew;
- what ran is what the call was delivered to, and the answer on its way is what
  the method's type keeps of it, which a second Forward does not change
  (`ServedInv`, `ReturnedTwice`);
- a call that every level above the lowest forwards, and whose extension the lowest
  implements, is answered by no default on the way (`ReachInv`); and a dynamic
  structure's only environment answers as its prober, which is generated apart
  from its dispatch, announces (`ProbeInv`).

`ServiceProofs`, of the other services:

- `FeaturesKeep`, for every kind of hart. That a feature keeps its value needs
  that the fields of `menvcfg` are legal and that no field shares a bit with
  another feature's (`FwftInv`);
- `MasksStayExact`, for every width of `usize`. The iterator's state is the rest
  of a partition of the mask into what the front gave out, what is unvisited and
  what the back gave out, in this order (`Iterated`);
- `EnclavesStayApart`, for any number of slots and any memory, over `init`,
  `deinit` and all calls between. Regions are
  disjoint, behind a slot each and encodable; every block lies in one region, and
  a region's count of used bytes is that of its blocks (`SecureInv`).

The assumptions on constants are named in the modules, and TLC evaluates them in
the runs: the sets that the constants range over (`HartsAssumption`,
`StagesAssumption`, `FenceAssumption`, `BootAssumption`, `TimerAssumption`,
`CacheAssumption`, `ResetAssumption`, `EventAssumption`, `FwftAssumption`,
`SecureAssumption`, `ConsoleAssumption`, `MemoryAssumption`, `WordAssumption`,
`CounterAssumption`), what the compiler accepts as a field of a structure, and that the lowest environment has
none to forward to (`EnvironmentsAssumption`), what the linker
script and the boards ensure of the image, the machine-level controllers and the
alias of the firmware (`LayoutAssumption`: they are in the order in which
`set_pmp` writes them, and neither the controllers nor the alias are RAM, which
no code checks), and what a power is, which the
provers do not evaluate (`WidthAssumption`: it is positive; `PowerAssumption` and
`TrapAssumption`: the next power is the base times this one; that powers of two
are positive, ascend and divide the greater ones is proved from it).

Only model-checked: liveness and everything about fairness. Of the safety
properties, `PatchIsExact`: validation and planning are folds over the tokens of
a tree with the node stack as the accumulator, and what a fold computes for every
input is an induction over data.

## Findings

Shown by a run:

- `sbi/suspend.rs:32` says the check establishes that all other harts are
  stopped. The harts are read one by one from a map taken once, so with three
  harts a hart can be started behind the scan by a hart that then stops
  (`suspend_scan_race`). Two system suspends never overlap all the same.
- `entry/start.S:24` says that the elected hart zeroes BSS and releases the
  bss-ready signal. The `amoadd.w` has no `.rl` and no fence before it, and the
  waiters' `lw` no acquire: on a hart that may delay stores, a secondary hart can
  read READY from before the clearing and run before the platform is published
  (`boot_weak_order`). On ordered memory the boot is proved safe.
- `debug_uninstall_triggers`, `debug_enable_triggers` and
  `debug_disable_triggers` of `library/sbi-rt/src/dbtr.rs` pass the base in a0
  and the mask in a1; `library/rustsbi/src/traits.rs:437` reads a0 as the mask
  (`sbi_trigger_masks`).
- `library/sbi-spec/src/pmu.rs:271` documents RESET as resetting the counter's
  event mapping. `stop_fw_counter` returns "already stopped" before it looks at
  the flag, so a firmware counter that is not counting keeps its event and is not
  free for a later configuration (`pmu_reset`). Hardware counters are unmapped
  first.
- `library/smm/src/manager.rs:15` says that three PMP slots are reserved and not
  used for enclave memory. Their constants are masks (`1 << 0`, `1 << 1`,
  `1 << (N - 1)`), which `init` passes to the protector as slot numbers, 1, 2 and
  32768, while the allocator reads them as bits and hands out slot 2 first: the
  first region has the slot that `init` uses for temporary grants
  (`secure_slots`). The protector of the library programs nothing, so nothing
  shows yet.

Observed while modelling, and modelled as the code does it:

- When the wake IPI of a non-retentive resume fails, the hart returns to its
  supervisor and runs on while it is recorded as SUSPENDED
  (`lifecycle.rs:329`; the state is documented at `lifecycle.rs:51`).
  `RecordedStateIsTrue` excepts exactly this.
- `send_ipi` that fails part way leaves later targets of its window marked and
  not signalled, and says so (`ipi.rs:45`); `WorkIsAnnounced` therefore speaks of
  harts that sends reach, and of software IPIs only where no send fails.
- `configure_counter` unwraps the CSR offset of the counter it configures
  (`pmu.rs:738`); with SKIP_MATCH and a hardware event that may be a firmware
  counter, which has none.
- FWFT: the mask of PTE_AD_HW_UPDATING is bit 5, which is part of CBIE
  (`fwft.rs:13`, `csr.rs:56`); setting a feature the hart lacks to 0 succeeds.
- Timer: `stimecmp` is not cleared when a hart with Sstc restarts beside a CLINT;
  a stopped hart whose deadline has expired with MTIE set wakes from every `wfi`.
- Console: a PL011 receive error drops the bytes that were read before it in the
  same slice. Reset: a panic inside a backend would reset through the same lock.
- Traps: the guard sets MXR beside MPRV for every access (`recovery.rs:129`,
  `139`), which a fetch of the trapped instruction needs. Data bytes are read with
  it too, so a misaligned load that is emulated reads execute-only pages which the
  same load, aligned, may not; the doc at `recovery.rs:91-94` says only that the
  access uses the trapped context's privilege. `TrapsAreTransparent` and
  `PrivilegeIsKept` state this as the code does it.
- Memory: `set_pmp` is documented as isolating the firmware from S-mode
  (`prototyper/src/firmware/mod.rs:211`), but leaves the text readable and data,
  bss and stacks readable and writable, the latter with a FIXME (line 319: the
  device tree is there). `RegistryIsExact` states the permissions as they are.
- Memory: an MPXY area at address 0 means none. DBTR keeps one area and one
  trigger count for all harts (`dbtr.rs:38`), where `library/sbi-spec/src/dbtr.rs:15`
  speaks of the calling hart: one hart replaces or withdraws the area of another.
- Reset: poweroff and reboot actions of a syscon on the same word are refused,
  because each acquires its word and a window is acquired once (`registry.rs:72`).
- Secure memory: `extend` compares with the regions of enclave memory and not with
  the reserved one, so a region may overlap the monitor's own memory; the mask of
  reserved slots names the TEMP slot twice, and the default slot is spared only
  because the capacity is smaller (`manager.rs:23`); the mask of managed slots
  (`manager.rs:25`) is an intersection that leaves the default slot alone; `extend` reports success when it found no slot; freeing a
  shorter length than was allocated leaves the rest.
- Hart masks: the iterator of all harts never reaches `usize::MAX` from the front
  and begins with it from the back, where `next_back` returns the excluded end of
  its range (`hart_mask.rs:220`) and then never comes to 0; a mask whose bits lie
  beyond `usize::MAX` names no hart there (`has_bit`) but wraps when it is
  iterated. No firmware code iterates either kind.
- Device tree: a tree that already holds the reservation of this firmware is
  rejected (`patch.rs:107`; `tests.rs:47` expects it), so a firmware that is
  started again at the same address with its own output retains the tree but
  stops in its hand-off. A tree with two `/reserved-memory` nodes, say one with a
  unit address, is rejected for every edit, hiding a device included
  (`plan.rs:179-193`), though it was retained at the entry. Hiding
  `/reserved-memory` itself while adding a reservation would leave the reservation
  under the root; no caller asks for it.
- SBI: MPXY attribute calls of `sbi-rt` do not set the registers (a3, a4) from
  which the callee builds its pointers; the impls of the traits for `&T` forward
  every method but `_rustsbi_probe`, so a reference to None is announced and takes
  the extension's calls from the fields after it, and a static structure announces
  every field it declares, None or not. `ProbeIsTruthful` says that these two cases
  (`Hollow`) are the only ones in which what is announced is not served.

## Not modelled, and why

Weak memory beyond the boot: elsewhere steps are sequentially consistent. The
code pairs its plain accesses with Acquire/Release operations and IO fences, and
`StageHasOneUser` shows that the plain accesses are ordered by them. Clearing
the IPI device cannot fail (no backend in the tree fails for the current hart),
and an IPI device is present. A fence's operands and hart masks beyond the
enabled harts (the call is refused as a whole) do not influence the state of
these modules. Harts that lack the requested privilege mode halt and are not in
`Harts`. Traps: guest-page faults of the H extension and the Park event are left
out, and the guarded CSR writes and swaps have the window of the guarded reads.
Timer: the lock of the device only delays. Boot: relocation is one store.
Secure memory: `grant_access` and `retrive_access`, which only reach a
protector that does nothing in the library.

Device tree: names and strings are not cut from bytes (a name without its NUL,
text that is not UTF-8, a property that runs over the block end), and integer
overflow of 32-bit offsets is left out; magic and total size are as the caller's
contract says.

Parts without state that outlives a call, whose correctness is about layout and
not about order: discovery (one hart, once, over the tree), the RPMI messages, the register layouts of AIA, the call numbers of CoVE
and Penglai, the return-value helpers of `sbi-spec` and its counter and trigger
masks (the same word and base as a hart mask, without an iterator), and the vendor calls that are one
register write. Test and bench kernels and the build tools are not part of the
running firmware.

## Plan

1. Done: HsmAbstract, HartLifecycle, RemoteFence, SystemSuspend, Pmu; the parts
   of MCMachine and MCServices; the proofs listed above.
2. Proofs that are in reach of the same method: a device-tree patch whose folds
   are steps, as the loops of the registration are.
3. Models to extend: the operands of a fence and the full-flush decision of
   `rfence_local_handler` with its integer widths; store buffers in
   HartLifecycle; guest-page faults in TrapHandling; the buddy heap of
   SecureMemory.
