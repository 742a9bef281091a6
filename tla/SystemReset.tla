----------------------------- MODULE SystemReset -----------------------------
(***************************************************************************)
(* System reset: discovery of the reset devices (driver/reset), the choice *)
(* of one backend, and SRST calls (sbi/reset.rs) that several harts may    *)
(* make at once.  A backend is a program of register accesses and bus      *)
(* transfers run under the lock of the device.  A transfer on the I2C bus  *)
(* of the PMIC may be refused or time out, and the byte that timed out may *)
(* have arrived all the same.                                              *)
(*                                                                         *)
(* A register is the set of its bits.                                      *)
(***************************************************************************)
EXTENDS Integers, Sequences, FiniteSets

CONSTANTS
    ResetCallers,  \* harts that call SRST
    NodeLists,     \* the reset nodes of the device tree, in its order
    Timebases,     \* whether timebase-frequency is known
    Taken,         \* register windows in RAM, in reserved memory or acquired by other drivers
    Requests,      \* pairs of a reset type and a reason
    MaxResets      \* calls of one hart that reach the device

Actions == {"poweroff", "reboot"}
Drivers == <<"sifive", "p1", "v105", "v104", "syscon">>

\* A node a driver or the GPRCM gate matches, with its register window, a word of
\* the provider for a syscon; only a syscon node has an action and a priority, a
\* u32.
ResetNodes ==
    {n \in [driver : {"sifive", "p1", "v105", "v104", "syscon", "gprcm"}, action : Actions \cup {"none"},
            priority : Nat, window : Nat, malformed : BOOLEAN] :
        n.driver = "syscon" <=> n.action # "none"}

ASSUME ResetAssumption ==
    /\ "free" \notin ResetCallers
    /\ NodeLists \subseteq Seq(ResetNodes)
    /\ Timebases \subseteq BOOLEAN /\ Taken \subseteq Nat

VARIABLES
    nodes,     \* the reset nodes of this board
    probed,    \* how many of them were probed
    timebase,
    found,     \* what each driver keeps of the nodes
    rphase,    \* "probing", "serving", "failed"
    backend,   \* the bound driver, or "none"
    rlock,     \* the hart that has the backend, or "free"
    rpc, ask, prog, failed,  \* of each hart: place, request and where it returns to, accesses to make, outcome
    resets,    \* its calls so far
    dev,       \* registers of the device
    value,     \* the byte read from the PMIC, or the word from the syscon
    machine,   \* "on", "off", "reboot"
    asked      \* ghost: the kinds of reset asked for

boardState == <<nodes, probed, timebase, found, rphase, backend>>
resetVars == <<boardState, resets, rlock, rpc, ask, prog, failed, dev, value, machine, asked>>

NoRequest == <<"none", "none", "smode">>
Absent == [priority |-> -1, window |-> 0]

ResetInit ==
    /\ nodes \in NodeLists /\ probed = 0
    /\ timebase \in Timebases
    /\ found = [once |-> {}, poweroff |-> Absent, reboot |-> Absent, gate |-> FALSE]
    /\ rphase = "probing" /\ backend = "none" /\ rlock = "free"
    /\ rpc = [h \in ResetCallers |-> "smode"]
    /\ ask = [h \in ResetCallers |-> NoRequest]
    /\ prog = [h \in ResetCallers |-> <<>>]
    /\ resets = [h \in ResetCallers |-> 0]
    /\ failed = [h \in ResetCallers |-> FALSE]
    /\ dev = [mode |-> {}, config |-> {"enable"}, gate |-> {}, power |-> {"other"},
              sysoff |-> {"other", "stale"}, sysreboot |-> {"other", "stale"}, finish |-> {}]
    /\ value = {} /\ machine = "on" /\ asked = {}

-----------------------------------------------------------------------------
(* Discovery.                                                              *)

\* Mutant: of two nodes with the same action the last one is kept.
MConsider(selected, n) == [priority |-> n.priority, window |-> n.window]

\* SysconDriver::consider: the higher priority, and the first of equals.
Consider(selected, n) ==
    IF n.priority > selected.priority THEN [priority |-> n.priority, window |-> n.window] ELSE selected

\* Registry::probe: every driver looks at the node.  A second device of a driver
\* that takes one, a second GPRCM gate, or a malformed node, fails the boot.
ProbeNode ==
    /\ rphase = "probing" /\ probed < Len(nodes)
    /\ LET n == nodes[probed + 1]
           bad == n.malformed \/ n.driver \in found.once \/ (n.driver = "gprcm" /\ found.gate)
       IN  /\ rphase' = IF bad THEN "failed" ELSE rphase
           /\ found' =
                IF bad THEN found
                ELSE CASE n.driver = "syscon" -> [found EXCEPT ![n.action] = Consider(@, n)]
                       [] n.driver = "gprcm" -> [found EXCEPT !.gate = TRUE]
                       [] OTHER -> [found EXCEPT !.once = @ \cup {n.driver}]
    /\ probed' = probed + 1
    /\ UNCHANGED <<resets, nodes, timebase, backend, rlock, rpc, ask, prog, failed, dev, value, machine, asked>>

HasDevice(d) ==
    IF d = "syscon" THEN found.poweroff # Absent \/ found.reboot # Absent ELSE d \in found.once

\* The register windows that the bind of a driver acquires, by their use.
Claims(d) ==
    IF d = "syscon" THEN {<<a, found[a].window>> : a \in {x \in Actions : found[x] # Absent}}
    ELSE {<<nodes[i].driver, nodes[i].window>> :
            i \in {j \in 1 .. Len(nodes) : nodes[j].driver \in {d} \cup (IF d = "v105" THEN {"gprcm"} ELSE {})}}

\* MemoryRegistry::acquire_mmio: a window is acquired once.
Denied(d) == \E c \in Claims(d) : c[2] \in Taken \/ \E e \in Claims(d) : e # c /\ e[2] = c[2]

\* Registry::bind_first and the bind of each driver: the I2C controller and the
\* V104 watchdog need the timebase for their delays.
BindReset ==
    /\ rphase = "probing" /\ probed = Len(nodes)
    /\ LET matched == {i \in DOMAIN Drivers : HasDevice(Drivers[i])}
           chosen == IF matched = {} THEN "none"
                     ELSE Drivers[CHOOSE i \in matched : \A j \in matched : i <= j]
       IN  /\ backend' = chosen
           /\ rphase' = IF Denied(chosen) \/ (chosen \in {"p1", "v104"} /\ ~timebase) THEN "failed" ELSE "serving"
    /\ UNCHANGED <<resets, nodes, probed, timebase, found, rlock, rpc, ask, prog, failed, dev, value, machine, asked>>

-----------------------------------------------------------------------------
(* Requests.                                                               *)

KnownReasons == {"no_reason", "system_failure"}

\* parse_request: reserved types and reasons are refused before the backend.
ValidRequest(r) ==
    /\ r[1] \in {"shutdown", "cold", "warm", "vendor"}
    /\ r[2] \in KnownReasons \cup {"sbi", "vendor"}

Kind(r) == IF r[1] = "shutdown" THEN "off" ELSE "reboot"

\* Mutant: a watchdog takes a shutdown for a reboot.
MSupports(r) ==
    CASE backend \in {"v104", "v105"} -> r[1] # "vendor"
      [] backend = "syscon" -> r[1] # "vendor" /\ found[IF Kind(r) = "off" THEN "poweroff" ELSE "reboot"] # Absent
      [] OTHER -> r[1] # "vendor" /\ r[2] \in KnownReasons

\* What system_reset of the backend accepts: FinishCommand::for_request,
\* PowerControl::for_request and the matches of the watchdogs and the syscon.
Supports(r) ==
    CASE backend \in {"v104", "v105"} -> r[1] \in {"cold", "warm"}
      [] backend = "syscon" -> r[1] # "vendor" /\ found[IF Kind(r) = "off" THEN "poweroff" ELSE "reboot"] # Absent
      [] OTHER -> r[1] # "vendor" /\ r[2] \in KnownReasons

\* V104Watchdog::start_reset.
WatchdogV104 == <<"mode_off", "config_off", "delay", "config_on", "mode_on">>

\* V105Watchdog::start_reset, with the gate of a GPRCM if there is one.
WatchdogV105 ==
    IF found.gate THEN <<"gate_on", "mode_off", "trigger">> ELSE <<"mode_off", "trigger">>

\* Mutant: the power control register is written without being read.
MPowerTransaction == <<"prepare", "start", "send_register", "send_value", "disable">>

\* P1Pmic::set_power_control: read_register, then write_register.
PowerTransaction ==
    <<"prepare", "start", "send_register", "start", "receive", "stop", "disable",
      "prepare", "start", "send_register", "send_value", "disable">>

Program(r) ==
    CASE backend = "sifive" -> <<"finish">>
      [] backend = "v105" -> WatchdogV105
      [] backend = "v104" -> WatchdogV104
      [] backend = "p1" -> PowerTransaction
      [] backend = "syscon" -> <<"sys_read", "sys_write">>

Continue(h, label) == rpc' = [rpc EXCEPT ![h] = label]

\* system_reset, which returns to the supervisor, and fail(), which stops the hart
\* whatever it returns, up to the backend.
CallReset(h, r, then) ==
    /\ rpc[h] = "smode" /\ machine = "on" /\ resets[h] < MaxResets
    /\ resets' = [resets EXCEPT ![h] = @ + 1]
    /\ IF ValidRequest(r) /\ backend # "none"
       THEN Continue(h, "lock") /\ ask' = [ask EXCEPT ![h] = <<r[1], r[2], then>>] /\ asked' = asked \cup {Kind(r)}
       ELSE Continue(h, then) /\ UNCHANGED <<ask, asked>>
    /\ UNCHANGED <<rlock, prog, failed, dev, value, machine>>

\* Mutant: two harts may use the backend at once.
MTakeBackend(h) ==
    /\ rpc[h] = "lock"
    /\ IF Supports(ask[h])
       THEN /\ prog' = [prog EXCEPT ![h] = Program(ask[h])]
            /\ Continue(h, "run")
       ELSE Continue(h, ask[h][3]) /\ UNCHANGED prog
    /\ UNCHANGED <<resets, rlock, ask, failed, dev, value, machine, asked>>

\* ResetDevice::reset.  What the backend does not support it refuses before it
\* touches anything.
TakeBackend(h) ==
    /\ rpc[h] = "lock" /\ rlock = "free"
    /\ IF Supports(ask[h])
       THEN /\ prog' = [prog EXCEPT ![h] = Program(ask[h])]
            /\ Continue(h, "run") /\ rlock' = h
       ELSE Continue(h, ask[h][3]) /\ UNCHANGED <<prog, rlock>>
    /\ UNCHANGED <<resets, ask, failed, dev, value, machine, asked>>

-----------------------------------------------------------------------------
(* Accesses.                                                               *)

PowerBit(r) == IF Kind(r) = "off" THEN "shutdown" ELSE "reset"
\* The word of a SysconAction, and the bits its mask leaves to it.
SysconWord(r) == IF Kind(r) = "off" THEN "sysoff" ELSE "sysreboot"
SysconMask == {"stale", "off", "reboot"}
SetReg(r, v) == dev' = [dev EXCEPT ![r] = v]

\* What the next access does to the device when it succeeds.
Access(h, op) ==
    CASE op = "mode_off" -> SetReg("mode", dev.mode \ {"enable"}) /\ UNCHANGED value
      [] op = "config_off" -> SetReg("config", dev.config \ {"enable"}) /\ UNCHANGED value
      [] op = "config_on" -> SetReg("config", {"enable"}) /\ UNCHANGED value
      [] op = "mode_on" -> SetReg("mode", dev.mode \cup {"enable"}) /\ UNCHANGED value
      [] op = "gate_on" -> SetReg("gate", {"enable"}) /\ UNCHANGED value
      [] op = "trigger" -> SetReg("finish", {"reboot"}) /\ UNCHANGED value
      [] op = "finish" -> SetReg("finish", {Kind(ask[h])}) /\ UNCHANGED value
      [] op \in {"receive"} -> value' = dev.power /\ UNCHANGED dev
      [] op = "send_value" -> SetReg("power", value \cup {PowerBit(ask[h])}) /\ UNCHANGED value
      [] op = "sys_read" -> value' = dev[SysconWord(ask[h])] /\ UNCHANGED dev
      [] op = "sys_write" -> SetReg(SysconWord(ask[h]), (value \ SysconMask) \cup {Kind(ask[h])}) /\ UNCHANGED value
      [] OTHER -> UNCHANGED <<dev, value>>

OnBus == {"prepare", "start", "send_register", "receive", "stop", "send_value"}

Step(h) ==
    /\ rpc[h] = "run" /\ prog[h] # <<>> /\ machine = "on"
    /\ Access(h, Head(prog[h]))
    /\ prog' = [prog EXCEPT ![h] = Tail(@)]
    /\ UNCHANGED <<resets, rlock, rpc, ask, failed, machine, asked>>

\* wait_for_status ends with an error, a NAK or a timeout: the controller is
\* reset, and disabled unless the transfer had not begun.
StepFails(h) ==
    /\ rpc[h] = "run" /\ prog[h] # <<>> /\ Head(prog[h]) \in OnBus /\ machine = "on"
    /\ \/ UNCHANGED <<dev, value>>
       \/ Head(prog[h]) = "send_value" /\ Access(h, "send_value")
    /\ prog' = [prog EXCEPT ![h] = IF Head(@) = "prepare" THEN <<>> ELSE <<"disable">>]
    /\ failed' = [failed EXCEPT ![h] = TRUE]
    /\ UNCHANGED <<resets, rlock, rpc, ask, machine, asked>>

\* Mutant: a hart that could not command the reset waits for it.
MFinish(h) ==
    /\ rpc[h] = "run" /\ prog[h] = <<>> /\ machine = "on"
    /\ IF backend = "syscon"
       THEN Continue(h, ask[h][3]) /\ rlock' = "free" /\ ask' = [ask EXCEPT ![h] = NoRequest]
       ELSE Continue(h, "parked") /\ UNCHANGED <<rlock, ask>>
    /\ failed' = [failed EXCEPT ![h] = FALSE]
    /\ value' = {}
    /\ UNCHANGED <<resets, prog, dev, machine, asked>>

\* The backend gives up, and the lock with it, or waits for the reset with the
\* lock held; a syscon always returns.
Finish(h) ==
    /\ rpc[h] = "run" /\ prog[h] = <<>> /\ machine = "on"
    /\ IF failed[h] \/ backend = "syscon"
       THEN Continue(h, ask[h][3]) /\ rlock' = "free" /\ ask' = [ask EXCEPT ![h] = NoRequest]
       ELSE Continue(h, "parked") /\ UNCHANGED <<rlock, ask>>
    /\ failed' = [failed EXCEPT ![h] = FALSE]
    /\ value' = {}
    /\ UNCHANGED <<resets, prog, dev, machine, asked>>

\* The hardware: the watchdog resets the system only when it is configured to,
\* a gated V105 only through its gate, and the others as commanded.
Takes(outcome) ==
    \/ outcome \in dev.finish /\ (backend = "v105" /\ found.gate => "enable" \in dev.gate)
    \/ outcome = "reboot" /\ "enable" \in dev.mode /\ "enable" \in dev.config
    \/ outcome = "off" /\ "shutdown" \in dev.power
    \/ outcome = "reboot" /\ "reset" \in dev.power
    \/ outcome = "off" /\ "off" \in dev.sysoff
    \/ outcome = "reboot" /\ "reboot" \in dev.sysreboot

Takedown ==
    /\ machine = "on"
    /\ \E outcome \in {"off", "reboot"} : Takes(outcome) /\ machine' = outcome
    /\ UNCHANGED <<resets, rlock, rpc, ask, prog, failed, dev, value, asked>>

CallerStep(h) == TakeBackend(h) \/ Step(h) \/ StepFails(h) \/ Finish(h)
Callable == rphase = "serving" /\ UNCHANGED boardState

\* fail() asks for a shutdown for a system failure, and stops the hart when that
\* returns.
FailReset(h) == CallReset(h, <<"shutdown", "system_failure">>, "stopped")

ResetNext ==
    \/ ProbeNode \/ BindReset
    \/ Callable /\ \E h \in ResetCallers :
        CallerStep(h) \/ FailReset(h) \/ \E r \in Requests : CallReset(h, r, "smode")
    \/ Callable /\ Takedown
    \/ /\ \/ rphase = "failed" \/ machine # "on"
          \/ \A h \in ResetCallers : rpc[h] = "stopped" \/ (rpc[h] = "smode" /\ resets[h] = MaxResets)
       /\ UNCHANGED resetVars

\* A hart in firmware runs on, and the hardware does what it is commanded.
ResetFairness ==
    /\ \A h \in ResetCallers : WF_resetVars(Callable /\ CallerStep(h))
    /\ WF_resetVars(Callable /\ Takedown)

ResetSpec == ResetInit /\ [][ResetNext]_resetVars /\ ResetFairness

-----------------------------------------------------------------------------
(* Properties.                                                             *)

\* The system goes down only the way a hart asked for: no backend takes one
\* kind of reset for another.
GoesDownAsAsked == machine # "on" => machine \in asked

\* The V104 watchdog counts only once it is set to reset the whole system, also
\* when several harts ask at once.
WatchdogIsWhole == "enable" \in dev.mode => "enable" \in dev.config

\* A read-modify-write keeps the bits of the register that are not its own.
OtherBitsAreKept ==
    /\ "other" \in dev.power
    /\ "other" \in dev.sysoff /\ "other" \in dev.sysreboot

\* The nodes of an action that no other node has precedence over.
Preferred(a) ==
    {i \in 1 .. Len(nodes) : nodes[i].action = a
        /\ \A j \in 1 .. Len(nodes) : nodes[j].action = a /\ j # i =>
                \/ nodes[j].priority < nodes[i].priority
                \/ nodes[j].priority = nodes[i].priority /\ i < j}

\* Whatever the order of the nodes, each syscon action is the first of those
\* with the highest priority, and a syscon is bound only when there is no
\* device that does not depend on one.
HighestPriorityWins ==
    rphase = "serving" =>
        /\ \A a \in Actions :
            IF Preferred(a) = {} THEN found[a] = Absent ELSE found[a].window \in {nodes[i].window : i \in Preferred(a)}
        /\ backend = "syscon" => \A i \in 1 .. Len(nodes) : nodes[i].driver \in {"syscon", "gprcm"}

\* Every SRST call ends: the system goes down or the caller gets an answer, and
\* no caller waits for a reset that was not commanded or for a lock that is
\* never released.
ResetOrAnswer ==
    \A h \in ResetCallers :
        (rpc[h] \notin {"smode", "stopped"}) ~> (rpc[h] \in {"smode", "stopped"} \/ machine # "on")

\* The reset that a hart asks for is the reset that happens, through the backend
\* and the nodes that take precedence.  (probe, bind, Supports)
ResetIsAsAsked == GoesDownAsAsked /\ HighestPriorityWins

\* Sequences of register accesses take effect as a whole, when harts reset at
\* once and when a transfer fails or completes late.
\* (SystemResetDevice::reset's lock and the backends' read-modify-writes)
TransactionsAreWhole == WatchdogIsWhole /\ OtherBitsAreKept

-----------------------------------------------------------------------------
(* The inductive invariant behind ResetIsAsAsked and TransactionsAreWhole. *)

DriverNames == {"sifive", "p1", "v105", "v104", "syscon"}
RegisterBits == {"enable", "other", "stale", "shutdown", "reset", "off", "reboot"}
ResetCalls == Requests \cup {<<"shutdown", "system_failure">>}
AllRequests == {<<r[1], r[2], then>> : r \in ResetCalls, then \in {"smode", "stopped"}} \cup {NoRequest}
Selections == [priority : Int, window : Nat]
AccessNames ==
    {"finish", "gate_on", "mode_off", "trigger", "config_off", "delay", "config_on", "mode_on", "prepare", "start",
     "send_register", "receive", "stop", "send_value", "disable", "sys_read", "sys_write"}

\* Types of the device, of what was found and of the calls.
ResetTypeOK ==
    /\ nodes \in NodeLists /\ probed \in 0 .. Len(nodes) /\ timebase \in BOOLEAN
    /\ found \in [once : SUBSET {"sifive", "p1", "v105", "v104"}, poweroff : Selections, reboot : Selections,
                  gate : BOOLEAN]
    /\ rphase \in {"probing", "serving", "failed"}
    /\ backend \in DriverNames \cup {"none"}
    /\ rpc \in [ResetCallers -> {"smode", "stopped", "lock", "run", "parked"}]
    /\ ask \in [ResetCallers -> AllRequests]
    /\ prog \in [ResetCallers -> Seq(AccessNames)]
    /\ failed \in [ResetCallers -> BOOLEAN]
    /\ dev \in [mode : SUBSET RegisterBits, config : SUBSET RegisterBits, gate : SUBSET RegisterBits,
                power : SUBSET RegisterBits, sysoff : SUBSET RegisterBits, sysreboot : SUBSET RegisterBits,
                finish : SUBSET RegisterBits]
    /\ value \in SUBSET RegisterBits
    /\ asked \subseteq {"off", "reboot"}

\* The device has one user, and none before a backend is bound.
OneUser ==
    \A h \in ResetCallers :
        /\ rpc[h] \in {"run", "parked"} => rlock = h
        /\ rpc[h] \in {"lock", "run", "parked"} => rphase = "serving" /\ backend # "none"

\* What is left of a program from its n-th access on.
Rest(p, n) == SubSeq(p, n, Len(p))

\* What has been done to the device when access n of the program comes next.
\* The watchdog is off while its configuration is, and the byte or word that
\* is written back was read.
Halfway(n) ==
    /\ backend = "v104" => /\ n \in 2 .. 5 => "enable" \notin dev.mode
                           /\ n \in {5, 6} => "enable" \in dev.config
    /\ backend = "p1" /\ n \in 6 .. 11 => "other" \in value
    /\ backend = "syscon" /\ n = 2 => "other" \in value

\* A program runs on or, on the bus, was given up.
ProgramInv ==
    \A h \in ResetCallers : rpc[h] = "run" =>
        \/ backend = "p1" /\ prog[h] \in {<<>>, <<"disable">>}
        \/ \E n \in 1 .. Len(Program(ask[h])) + 1 : prog[h] = Rest(Program(ask[h]), n) /\ Halfway(n)

\* A hart at the backend asked for the reset it is about to command, and a
\* watchdog is given reboots only.
AskedCalls ==
    \A h \in ResetCallers :
        /\ rpc[h] \in {"lock", "run"} => Kind(ask[h]) \in asked
        /\ rpc[h] = "run" /\ backend \in {"v104", "v105"} => Kind(ask[h]) = "reboot"

\* Every bit that takes the system down was asked for.
AskedBits ==
    /\ dev.finish \subseteq asked
    /\ "enable" \in dev.mode => "reboot" \in asked
    /\ \A v \in {dev.sysoff, dev.sysreboot} : v \cap {"off", "reboot"} \subseteq asked
    /\ \A v \in {dev.power, dev.sysoff, dev.sysreboot, value} :
            ("shutdown" \in v => "off" \in asked) /\ ("reset" \in v => "reboot" \in asked)

\* Node i is the first of those with the highest priority for action a among
\* the first n nodes.
FirstHighest(a, i, n) ==
    /\ nodes[i].action = a
    /\ \A j \in 1 .. n : nodes[j].action = a /\ j # i =>
            \/ nodes[j].priority < nodes[i].priority
            \/ nodes[j].priority = nodes[i].priority /\ i < j

\* The driver keeps for action a the one that is, or none when there is none.
Kept(a, n) ==
    \/ found[a] = Absent /\ \A i \in 1 .. n : nodes[i].action # a
    \/ \E i \in 1 .. n : /\ FirstHighest(a, i, n)
                         /\ found[a] = [priority |-> nodes[i].priority, window |-> nodes[i].window]

\* What the drivers keep of the nodes probed so far.
ProbeInv ==
    /\ rphase # "failed" =>
        /\ \A a \in Actions : Kept(a, probed)
        /\ \A i \in 1 .. probed : nodes[i].driver \in found.once \cup {"syscon", "gprcm"}
    /\ rphase = "serving" =>
        probed = Len(nodes) /\ (backend = "syscon" => found.once = {})

ResetInv ==
    /\ ResetTypeOK /\ OneUser /\ ProgramInv /\ AskedCalls /\ AskedBits /\ ProbeInv
    /\ GoesDownAsAsked /\ TransactionsAreWhole
=============================================================================
