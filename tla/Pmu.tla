--------------------------------- MODULE Pmu ---------------------------------
(****************************************************************************)
(* The performance counters of one hart (prototyper sbi/pmu.rs, with the    *)
(* reset in sbi/hart_local.rs): finding and configuring a counter, starting *)
(* and stopping sets of counters, firmware events, and the reset before a   *)
(* non-retentive resume.                                                    *)
(*                                                                          *)
(* A hart's counters are only touched by its own calls and traps, with      *)
(* interrupts off, so each call is one step.  The values of the hardware    *)
(* counters are the hardware's and are left out; the calls' writes to them  *)
(* have no other effect.                                                    *)
(****************************************************************************)
EXTENDS Naturals, FiniteSets

CONSTANTS
    Offsets,      \* mhpm_mask: implemented counters, by offset from mcycle
    FwMax,        \* PMU_FIRMWARE_COUNTER_MAX
    HasInhibit,   \* privileged version 1.11 or later: mcountinhibit exists
    HwEvents,     \* hardware events: general, cache and raw ones
    RawEvents,    \* the raw ones; they share one event index
    FwEvents,     \* firmware events
    CpuCycles, Instructions, RawIndex, NoEvent,
    CounterMap,   \* the device tree's counters for each hardware event
    Selectable,   \* events whose mhpmevent value is known
    CounterSets,  \* the sets of counters the supervisor names
    MaxValue      \* bound on firmware counter values (2^64 - 1 in the code)

HwNum == Cardinality(Offsets)
HwCounters == 0 .. (HwNum - 1)
FwCounters == HwNum .. (HwNum + FwMax - 1)
Counters == HwCounters \cup FwCounters

\* The offset of hardware counter c in the order of the offsets.
HasOffset(c, o) == Cardinality({p \in Offsets : p < o}) = c

ASSUME CounterAssumption ==
    /\ IsFiniteSet(Offsets) /\ {0, 1, 2} \subseteq Offsets /\ Offsets \subseteq 0 .. 31
    /\ FwMax \in Nat
    /\ HasInhibit \in BOOLEAN
    /\ MaxValue \in Nat
    /\ CounterSets \subseteq (SUBSET Counters) \ {{}}

ASSUME EventAssumption ==
    /\ CpuCycles \in HwEvents \ RawEvents
    /\ Instructions \in HwEvents \ RawEvents
    /\ CpuCycles # Instructions
    /\ RawEvents \subseteq HwEvents
    /\ HwEvents \cap FwEvents = {}
    /\ RawIndex \notin HwEvents \cup FwEvents
    /\ NoEvent \notin HwEvents \cup FwEvents \cup {RawIndex}
    /\ CounterMap \in [HwEvents -> SUBSET (0 .. 31)]
    /\ RawEvents \subseteq Selectable /\ Selectable \subseteq HwEvents

VARIABLES
    active,     \* active_event, NoEvent for PMU_EVENT_IDX_INVALID
    fwStarted,  \* fw_counter_state
    fwValue,    \* fw_counter
    inhibit,    \* the bits set in mcountinhibit
    selector,   \* the mhpmevent CSRs
    halted,     \* the firmware panicked
    granted,    \* the event the last successful configuration gave the counter
    reset       \* counter a stop with RESET named alone, if that was the last effect

pmuVars == <<active, fwStarted, fwValue, inhibit, selector, halted, granted, reset>>
fwVars == <<fwStarted, fwValue>>

Events == HwEvents \cup FwEvents
EventIndices == (Events \ RawEvents) \cup {RawIndex}
Programmable == Offsets \ {0, 1, 2}
NoCounter == HwNum + FwMax

\* The event index of an event: raw events differ only in their event data.
Index(e) == IF e \in RawEvents THEN RawIndex ELSE e

\* get_mhpm_csr_offset, as a table.
OffsetTable == [c \in HwCounters |-> CHOOSE o \in Offsets : HasOffset(c, o)]

Offset(c) == OffsetTable[c]

\* CounterMask yields a set's counters in ascending order.
Lowest(S) == CHOOSE c \in S : \A d \in S : c <= d

\* Type correctness of the hart's counter state.
PmuTypeOK ==
    /\ active \in [Counters -> EventIndices \cup {NoEvent}]
    /\ fwStarted \in SUBSET FwCounters
    /\ fwValue \in [FwCounters -> 0 .. MaxValue]
    /\ inhibit \in SUBSET (Offsets \ {1})
    /\ selector \in [Programmable -> HwEvents \cup {NoEvent}]
    /\ halted \in BOOLEAN
    /\ granted \in [Counters -> Events \cup {NoEvent}]
    /\ reset \in Counters \cup {NoCounter}

\* PmuState::new: mcycle and minstret have their events from the start.
NewActive ==
    [c \in Counters |-> IF c = 0 THEN CpuCycles
                        ELSE IF c = 2 THEN Instructions ELSE NoEvent]

\* mcountinhibit::write_raw(!0b111).
NewInhibit == IF HasInhibit THEN Programmable ELSE {}

PmuInit ==
    /\ active = NewActive
    /\ fwStarted = {}
    /\ fwValue = [c \in FwCounters |-> 0]
    /\ inhibit = NewInhibit
    /\ selector = [o \in Programmable |-> NoEvent]
    /\ halted = FALSE
    /\ granted = [c \in Counters |-> NoEvent]
    /\ reset = NoCounter

------------------------------------------------------------------------------
(* counter_config_matching.  A call whose counter set or event is invalid   *)
(* returns INVALID_PARAM without effect and is not modelled.                *)

Grant(c, e) ==
    /\ granted' = [granted EXCEPT ![c] = e]
    /\ reset' = NoCounter

NoGrant == UNCHANGED granted /\ reset' = NoCounter

\* configure_counter for a firmware counter.
ConfigureFw(c, clear, auto) ==
    /\ fwValue' = IF clear THEN [fwValue EXCEPT ![c] = 0] ELSE fwValue
    /\ fwStarted' = IF auto THEN fwStarted \cup {c} ELSE fwStarted

\* Mutant: a counter is free if it is not started.
MFreeFw(S) == {c \in S \cap FwCounters : c \notin fwStarted}

\* find_firmware_counter.
FreeFw(S) == {c \in S \cap FwCounters : active[c] = NoEvent}

ConfigFirmware(S, e, clear, auto) ==
    /\ FreeFw(S) # {}
    /\ LET c == Lowest(FreeFw(S)) IN
           /\ active' = [active EXCEPT ![c] = Index(e)]
           /\ ConfigureFw(c, clear, auto)
           /\ Grant(c, e)
    /\ UNCHANGED <<inhibit, selector, halted>>

\* Mutant: mcycle and minstret may count any event.
MFreeHw(S, e) ==
    {c \in S \cap HwCounters :
        /\ Offset(c) \in CounterMap[e] \ {1}
        /\ active[c] = NoEvent
        /\ HasInhibit => Offset(c) \in inhibit}

\* find_hardware_counter: the free counters that may count the event.
FreeHw(S, e) ==
    {c \in S \cap HwCounters :
        /\ Offset(c) \in CounterMap[e]
        /\ active[c] = NoEvent
        /\ Offset(c) = 0 => e = CpuCycles
        /\ Offset(c) = 2 => e = Instructions
        /\ HasInhibit => Offset(c) \in inhibit}

\* Its counter with the event's architectural assignment, running or not.
FixedHw(S, e) ==
    {c \in S \cap HwCounters : \/ e = CpuCycles /\ Offset(c) = 0
                               \/ e = Instructions /\ Offset(c) = 2}

\* start_hardware_counter fails: time has no start, or the counter runs.
StartRefused(o) == o = 1 \/ (HasInhibit /\ o \notin inhibit)

\* configure_counter for a hardware counter whose event is already recorded.
\* If AUTO_START finds it running the call fails, and the record stays.
ConfigureHw(c, e, auto) ==
    /\ active' = [active EXCEPT ![c] = Index(e)]
    /\ IF auto /\ StartRefused(Offset(c))
       THEN NoGrant /\ UNCHANGED inhibit
       ELSE Grant(c, e) /\ inhibit' = IF auto THEN inhibit \ {Offset(c)} ELSE inhibit
    /\ UNCHANGED <<fwVars, halted>>

\* The first free counter is selected.  If its mhpmevent value is not known
\* the call fails, whatever the other counters could do.
ConfigProgrammable(S, e, auto) ==
    /\ FreeHw(S, e) # {}
    /\ LET c == Lowest(FreeHw(S, e)) IN
           /\ Offset(c) \in Programmable => e \in Selectable
           /\ Offset(c) # 1
           /\ selector' = [o \in Programmable |-> IF o = Offset(c) THEN e ELSE selector[o]]
           /\ ConfigureHw(c, e, auto)

ConfigFixed(S, e, auto) ==
    /\ FreeHw(S, e) = {}
    /\ FixedHw(S, e) # {}
    /\ ConfigureHw(Lowest(FixedHw(S, e)), e, auto)
    /\ UNCHANGED selector

\* Mutant: the new event is recorded although matching is skipped.
MConfigSkipMatch(S, e, clear, auto) ==
    LET c == Lowest(S) IN
    /\ active[c] # NoEvent
    /\ e \in HwEvents /\ c \in HwCounters
    /\ inhibit' = IF auto THEN inhibit \ {Offset(c)} ELSE inhibit
    /\ active' = [active EXCEPT ![c] = Index(e)]
    /\ NoGrant
    /\ UNCHANGED <<fwVars, halted, selector>>

\* SKIP_MATCH takes the first counter of the set, which must have an event,
\* and does not record the new one.  A firmware event for a hardware counter
\* is refused.
ConfigSkipMatch(S, e, clear, auto) ==
    LET c == Lowest(S) IN
    /\ active[c] # NoEvent
    /\ \/ /\ e \in FwEvents /\ c \in FwCounters
          /\ ConfigureFw(c, clear, auto)
          /\ UNCHANGED <<inhibit, halted>>
       \/ /\ e \in HwEvents /\ c \in HwCounters
          /\ inhibit' = IF auto THEN inhibit \ {Offset(c)} ELSE inhibit
          /\ UNCHANGED <<fwVars, halted>>
       \/ \* get_mhpm_csr_offset has no answer, and it is unwrapped.
          /\ e \in HwEvents /\ c \in FwCounters
          /\ halted' = TRUE
          /\ UNCHANGED <<fwVars, inhibit>>
    /\ NoGrant
    /\ UNCHANGED <<active, selector>>

------------------------------------------------------------------------------
(* counter_start and counter_stop go through the set in ascending order and *)
(* return at the first counter that refuses.                                *)

Reached(S, refused) == {c \in S : \A d \in S : d < c => d \notin refused}

\* The counters of a set that do not start: the running ones and time.
StartRefusals(S) ==
    {c \in S : IF c \in FwCounters THEN c \in fwStarted ELSE StartRefused(Offset(c))}

\* counter_start.
CounterStart(S, update, v) ==
    LET done == Reached(S, StartRefusals(S)) \ StartRefusals(S) IN
    /\ fwStarted' = fwStarted \cup (done \cap FwCounters)
    /\ fwValue' = [c \in FwCounters |-> IF update /\ c \in done THEN v ELSE fwValue[c]]
    /\ inhibit' = inhibit \ {Offset(c) : c \in done \cap HwCounters}
    /\ NoGrant
    /\ UNCHANGED <<active, selector, halted>>

\* The counters of a set that are already stopped.  Time is passed over.
StopRefusals(S) ==
    {c \in S : IF c \in FwCounters THEN c \notin fwStarted
               ELSE HasInhibit /\ Offset(c) \in inhibit}

\* The counters that the call stops.
Stopped(S) ==
    {c \in Reached(S, StopRefusals(S)) \ StopRefusals(S) : c \in HwCounters => Offset(c) # 1}

\* What RESET unmaps: a hardware counter before it is known to be stopped
\* already, a firmware counter after.
Unmapped(S, unmap) ==
    {c \in Reached(S, StopRefusals(S)) :
        /\ unmap
        /\ IF c \in FwCounters THEN c \notin StopRefusals(S) ELSE Offset(c) # 1}

\* counter_stop.
CounterStop(S, unmap) ==
    /\ fwStarted' = fwStarted \ Stopped(S)
    /\ inhibit' = IF HasInhibit
                  THEN inhibit \cup {Offset(c) : c \in Stopped(S) \cap HwCounters}
                  ELSE inhibit
    /\ active' = [c \in Counters |-> IF c \in Unmapped(S, unmap) THEN NoEvent ELSE active[c]]
    /\ selector' = [o \in Programmable |->
                       IF \E c \in Unmapped(S, unmap) \cap HwCounters : Offset(c) = o
                       THEN NoEvent ELSE selector[o]]
    /\ granted' = [c \in Counters |-> IF unmap /\ c \in S THEN NoEvent ELSE granted[c]]
    /\ reset' = IF unmap /\ S = {Lowest(S)} THEN Lowest(S) ELSE NoCounter
    /\ UNCHANGED <<fwValue, halted>>

------------------------------------------------------------------------------

\* pmu_firmware_counter_increment, up to the bound.
FirmwareEvent(e) ==
    LET hit == {c \in fwStarted : active[c] = Index(e)} IN
    /\ hit # {}
    /\ \A c \in hit : fwValue[c] < MaxValue
    /\ fwValue' = [c \in FwCounters |-> IF c \in hit THEN fwValue[c] + 1 ELSE fwValue[c]]
    /\ UNCHANGED <<active, fwStarted, inhibit, selector, halted, granted, reset>>

\* pmu_state_reset, before a non-retentive resume.
PmuReset ==
    /\ active' = NewActive
    /\ fwStarted' = {}
    /\ fwValue' = [c \in FwCounters |-> 0]
    /\ inhibit' = NewInhibit
    /\ granted' = [c \in Counters |-> NoEvent]
    /\ reset' = NoCounter
    /\ UNCHANGED <<selector, halted>>

ConfigMatching(S) ==
    \/ \E e \in FwEvents, clear, auto \in BOOLEAN : ConfigFirmware(S, e, clear, auto)
    \/ \E e \in HwEvents, auto \in BOOLEAN :
           ConfigProgrammable(S, e, auto) \/ ConfigFixed(S, e, auto)
    \/ \E e \in Events, clear, auto \in BOOLEAN : ConfigSkipMatch(S, e, clear, auto)

PmuNext ==
    /\ ~halted
    /\ \/ \E S \in CounterSets :
              \/ ConfigMatching(S)
              \/ \E update \in BOOLEAN, v \in 0 .. MaxValue : CounterStart(S, update, v)
              \/ \E unmap \in BOOLEAN : CounterStop(S, unmap)
       \/ \E e \in FwEvents : FirmwareEvent(e)
       \/ PmuReset

PmuSpec == PmuInit /\ [][PmuNext]_pmuVars

------------------------------------------------------------------------------
(* Properties. *)

\* Counter c can count what the event index x stands for.
Fits(c, x) ==
    \/ c \in FwCounters /\ x \in FwEvents
    \/ /\ c \in HwCounters
       /\ \/ Offset(c) = 0 /\ x = CpuCycles
          \/ Offset(c) = 2 /\ x = Instructions
          \/ /\ Offset(c) \in Programmable
             /\ \E e \in Selectable : Index(e) = x /\ Offset(c) \in CounterMap[e]

\* No counter is recorded for an event it cannot count: firmware counters have
\* firmware events, mcycle and minstret their own, time none, and a
\* programmable counter one that the device tree allows it.
EventsFitCounters == \A c \in Counters : active[c] # NoEvent => Fits(c, active[c])

\* A counter that a configuration granted for an event stays recorded for it,
\* and its mhpmevent CSR stays programmed for it, until the supervisor names
\* the counter in a stop with RESET: no other call takes the counter away.
GrantsAreKept ==
    \A c \in Counters : granted[c] # NoEvent =>
        /\ active[c] = Index(granted[c])
        /\ c \in HwCounters /\ Offset(c) \in Programmable
               => selector[Offset(c)] = granted[c]

\* A granted counter is not granted again for another event: the supervisor's
\* counters are never shared between two of its events.
GrantsAreExclusive ==
    [][\A c \in Counters :
           granted[c] # NoEvent => granted'[c] \in {granted[c], NoEvent}]_pmuVars

\* The documentation of StopFlags::RESET: the call resets the counter to event
\* mapping, so a counter stopped alone with it has no event.
ResetUnmaps == reset \in Counters => active[reset] = NoEvent

==============================================================================
