------------------------------ MODULE MCMachine ------------------------------
(****************************************************************************)
(* The parts of the firmware next to the hardware, for TLC: boot election,  *)
(* trap handling, the timer, the console, system reset, a vendor's cache    *)
(* calls, and the memory that a supervisor may name. They share no          *)
(* variable, so their product says nothing that the parts do not say: a     *)
(* behaviour runs one of them, `part`, while the others stay in one state   *)
(* of theirs in which they have nothing to do.                              *)
(****************************************************************************)
EXTENDS MCBoot, TrapHandling, Timer, Console, SystemReset, VendorCache, PhysicalMemory

CONSTANT Parts   \* the parts that a run looks at

VARIABLE part

-----------------------------------------------------------------------------
\* Trap handling: a one-bit byte is enough for order, width and sign.
Bits == 2
NineBytes == 0 .. 8
OneMemory == {[a \in NineBytes |-> IF a \in {1, 3, 4, 7} THEN 1 ELSE 0]}
OneRegFile == {[r \in Regs |-> CASE r = 0 -> 0 [] r = 5 -> 150 [] r = 8 -> 105 [] OTHER -> r]}

\* No platform time at all, only the CSR, only a slow counter, and everything.
FourPlatforms ==
    {[timeCsr |-> c, directTime |-> FALSE, deviceTime |-> d, dispatcher |-> FALSE, stimecmp |-> c] :
        <<c, d>> \in {<<FALSE, FALSE>>, <<TRUE, FALSE>>, <<FALSE, TRUE>>}}
    \cup {[timeCsr |-> TRUE, directTime |-> TRUE, deviceTime |-> TRUE, dispatcher |-> TRUE, stimecmp |-> FALSE]}

\* One address, or everything from one on, as at the end of a page.
PageEnds == {{}, {Pc}, {Pc + 2}, {1}, {2}, 4 .. 8}
XonlyPages == {{}, {Pc, Pc + 2}, 2 .. 8}
UserMxr(o) == {o = "U"}
BadFirmware == {ILLEGAL_INSTRUCTION, LOAD_FAULT}

\* Timer: deadlines before and after a carry into the high half, and u64::MAX.
Three == 3
FiveDeadlines == {0, 2, 3, 5, 8}
ThreeDeadlines == {2, 5, 8}
AllBoards == {b \in [device : {"sifive", "thead", "plmt", "sstc"}, rv32 : BOOLEAN, sstc : BOOLEAN] :
                b.device = "sstc" => b.sstc}

\* Console: XScale stands for the 16550s, and Pl011, which also has errors, for AxiLite.
TwoConsoleHarts == {"a", "b"}
Words2(h) == IF h = "a" THEN <<"a1", "a2">> ELSE <<"b1">>
FourKinds == {"XScale", "Bl808", "SiFive", "Pl011"}
SixBits == 0 .. 63
OneWordEach(h) == IF h = "a" THEN <<"a1">> ELSE <<"b1">>
TwoKinds == {"XScale", "Pl011"}
OneClock == {16}

\* System reset: boards with none, one or several reset nodes.
Node(d, w) == [driver |-> d, action |-> "none", priority |-> 0, window |-> w, malformed |-> FALSE]
Syscon(a, p, w) == [driver |-> "syscon", action |-> a, priority |-> p, window |-> w, malformed |-> FALSE]
V105 == <<Node("v105", 1), Node("gprcm", 2)>>
SomeNodes ==
    {<<>>, <<Node("sifive", 1)>>, <<Node("sifive", 8)>>, <<Node("p1", 1)>>, <<Node("v104", 3)>> \o V105,
     <<Node("v104", 1)>>, <<Node("v105", 1), Node("v105", 2)>>, V105 \o <<Node("gprcm", 3)>>,
     <<[Node("p1", 1) EXCEPT !.malformed = TRUE]>>,
     <<Syscon("poweroff", 1, 1), Syscon("reboot", 1, 2), Syscon("poweroff", 0, 3), Syscon("reboot", 2, 4)>>,
     <<Syscon("poweroff", 1, 1), Syscon("reboot", 1, 1)>>,
     <<Syscon("reboot", 1, 1), Node("sifive", 1)>>, <<Syscon("reboot", 1, 1), Syscon("reboot", 1, 2)>>}
TwoCallers == {"a", "b"}
FewNodes == {<<Node("p1", 1)>>, V105 \o <<Node("gprcm", 3)>>, <<Syscon("reboot", 1, 1), Node("sifive", 1)>>}
FewRequests == {<<"shutdown", "no_reason">>, <<"warm", "system_failure">>}
SomeRequests ==
    {<<"shutdown", "no_reason">>, <<"cold", "no_reason">>, <<"warm", "system_failure">>, <<"cold", "vendor">>,
     <<"vendor", "no_reason">>, <<"reserved", "no_reason">>, <<"cold", "reserved">>}

\* Memory: banks and reservations that touch, overlap, nest and cross the firmware.
SomeRanges == {<<0, 3>>, <<2, 4>>, <<3, 8>>, <<4, 8>>, <<5, 6>>, <<6, 9>>}
Lists == {<<>>} \cup {<<r>> : r \in SomeRanges} \cup {<<r, s>> : r, s \in SomeRanges}
Banks == {l \in Lists : l # <<>>} \cup {<<<<0, 8>>>>, <<<<4, 9>>, <<0, 4>>>>, <<<<2, 9>>, <<10, 12>>>>}
Description(banks, reserved, calls) ==
    [ram |-> banks, reserved |-> reserved, firmware |-> <<4, 7>>, rodata |-> <<5, 6>>, ramRange |-> <<0, 12>>,
     controllers |-> <<>>, alias |-> 0, served |-> calls]
WithAlias ==
    [Description(<<<<0, 8>>>>, <<>>, FALSE) EXCEPT !.ramRange = <<0, 8>>, !.alias = 8]
WithControllers ==
    [ram |-> <<<<6, 12>>>>, reserved |-> <<>>, firmware |-> <<7, 10>>, rodata |-> <<8, 9>>, ramRange |-> <<6, 12>>,
     controllers |-> <<<<0, 1>>, <<2, 3>>, <<4, 5>>>>, alias |-> 0, served |-> FALSE]
AllDescriptions ==
    {Description(banks, reserved, FALSE) : banks \in Banks, reserved \in Lists}
    \cup {Description(<<<<0, 9>>>>, <<<<5, 7>>, <<12, 13>>>>, TRUE), WithAlias, WithControllers}
FewWindows == {<<9, 11>>, <<10, 13>>, <<8, 10>>}
TwoServiceHarts == {"a", "b"}

-----------------------------------------------------------------------------
\* Parts at rest. Boot is over, the timer has ticked its last tick before it
\* was set up, the console is not bound and the reset nodes are not probed.
TrapsAtRest ==
    /\ plat = CHOOSE p \in Platforms : TRUE
    /\ TrapInit
BootAtRest ==
    /\ info = "any" /\ pc = [h \in AllHarts |-> "booted"]
    /\ raceWord = 1 /\ bssWord = 1 /\ clearing = BssEnd + 1
    /\ mem = [w \in Words |-> "set"]
    /\ buffer = [h \in AllHarts |-> {}]
    /\ bootHart = "h1" /\ led = {"h1"}
TimerAtRest ==
    /\ board = CHOOSE b \in Boards : TRUE
    /\ now = LastTick
    /\ compare = [device |-> Split(0), stimecmp |-> Split(0)]
    /\ mode = "boot" /\ mie = FALSE /\ mip = FALSE /\ todo = <<>> /\ traps = 0
    /\ wish = [asked |-> FALSE, deadline |-> 0, reg |-> "device", from |-> 0, to |-> 0]
    /\ reader = Idle
ConsoleAtRest ==
    /\ kind = (CHOOSE k \in ConsoleKinds : TRUE) /\ clock = NoClock
    /\ uart = CHOOSE u \in Leftover : TRUE
    /\ ConsoleInit
ResetAtRest ==
    /\ nodes = (CHOOSE n \in NodeLists : TRUE) /\ timebase = TRUE
    /\ ResetInit

MemoryAtRest ==
    /\ description = CHOOSE d \in Descriptions : TRUE
    /\ MemoryInit

MachineInit ==
    /\ part \in Parts
    /\ IF part = "boot" THEN BootInit ELSE BootAtRest
    /\ IF part = "traps" THEN TrapInit ELSE TrapsAtRest
    /\ IF part = "timer" THEN TimerInit ELSE TimerAtRest
    /\ IF part = "console" THEN ConsoleInit ELSE ConsoleAtRest
    /\ IF part = "reset" THEN ResetInit ELSE ResetAtRest
    /\ IF part = "memory" THEN MemoryInit ELSE MemoryAtRest
    /\ CacheInit

MachineNext ==
    /\ UNCHANGED part
    /\ \/ part = "boot" /\ BootNext /\ UNCHANGED <<trapVars, timerVars, consoleVars, resetVars, cacheVars, memoryVars>>
       \/ part = "traps" /\ TrapNext /\ UNCHANGED <<bootVars, timerVars, consoleVars, resetVars, cacheVars, memoryVars>>
       \/ part = "timer" /\ TimerNext /\ UNCHANGED <<bootVars, trapVars, consoleVars, resetVars, cacheVars, memoryVars>>
       \/ part = "console" /\ ConsoleNext /\ UNCHANGED <<bootVars, trapVars, timerVars, resetVars, cacheVars, memoryVars>>
       \/ part = "reset" /\ ResetNext /\ UNCHANGED <<bootVars, trapVars, timerVars, consoleVars, cacheVars, memoryVars>>
       \/ part = "cache" /\ CacheNext /\ UNCHANGED <<bootVars, trapVars, timerVars, consoleVars, resetVars, memoryVars>>
       \/ part = "memory" /\ MemoryNext /\ UNCHANGED <<bootVars, trapVars, timerVars, consoleVars, resetVars, cacheVars>>

machineVars == <<part, bootVars, trapVars, timerVars, consoleVars, resetVars, cacheVars, memoryVars>>

MachineSpec == MachineInit /\ [][MachineNext]_machineVars

\* At rest none of the fair actions is enabled, so each part's fairness
\* constrains the behaviours of that part only.
FairMachineSpec == MachineSpec /\ BootFairness /\ TimerFairness /\ ConsoleFairness /\ ResetFairness
==============================================================================
