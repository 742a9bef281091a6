-------------------------------- MODULE Timer --------------------------------
(***************************************************************************)
(* The timer of one hart: SBI set_timer, the machine timer trap that turns *)
(* an expiry into a supervisor interrupt, and the compare registers of the *)
(* platform's timer, while time goes on.  A double word is two digits      *)
(* below Half, because the 32-bit backends write and read it in halves.    *)
(*                                                                         *)
(* M-mode runs with interrupts off, one CSR or device access at a time:    *)
(* "todo" is what is left of the handler.  The mutex around the device is  *)
(* held by other harts for a few accesses to registers of their own, so it *)
(* only delays and is left out.                                            *)
(***************************************************************************)
EXTENDS Integers, Sequences

CONSTANTS
    Half,      \* values of a 32-bit word
    LastTick,  \* the time at which the model's clock stops
    Deadlines, \* the deadlines a supervisor asks for
    Boards     \* the boards: device, word size, and whether the hart has Sstc

Max == Half * Half - 1   \* u64::MAX
Split(v) == [hi |-> v \div Half, lo |-> v % Half]
Join(w) == w.hi * Half + w.lo

ASSUME TimerAssumption ==
    /\ Half \in Nat \ {0, 1}
    /\ LastTick \in 0 .. Max - 1
    /\ Deadlines \subseteq 0 .. Max
    /\ Boards \subseteq {b \in [device : {"sifive", "thead", "plmt", "sstc"}, rv32 : BOOLEAN, sstc : BOOLEAN] :
                            b.device = "sstc" => b.sstc}

VARIABLES
    board,
    now,      \* mtime
    mode,     \* "boot", "lower", "machine", "reading", "stopped" or "wfi"
    todo,     \* M-mode accesses still to make
    compare,  \* the device's mtimecmp and the hart's stimecmp
    mie,      \* MTIE
    mip,      \* STIP as the firmware sets it
    wish,     \* ghost: the last deadline asked for, if there was one, and the
              \* register the current handler replaces, from and to which value
    traps,    \* ghost: timer traps since the last call or stage entry, up to 2
    reader    \* a read of the device's counter

timerVars == <<board, now, mode, todo, compare, mie, mip, wish, traps, reader>>

Idle == [pc |-> "idle", high |-> 0, low |-> 0, since |-> 0]

TimerInit ==
    /\ board \in Boards
    /\ now = 0
    /\ mode = "boot"
    /\ \E d, s \in {0, Max} : compare = [device |-> Split(d), stimecmp |-> Split(s)]
    /\ mie = FALSE /\ mip = FALSE /\ todo = <<>> /\ traps = 0
    /\ wish = [asked |-> FALSE, deadline |-> 0, reg |-> "device", from |-> 0, to |-> 0]
    /\ reader = Idle

(* ----------------------------- the registers ---------------------------- *)

\* The register is written as two 32-bit words.
InHalves(reg) == board.rv32 \/ (reg = "device" /\ board.device \in {"thead", "plmt"})

\* Mutant: the high half is replaced first.
MWriteCompare(reg, v) ==
    LET w == Split(v) IN
    IF InHalves(reg)
    THEN << <<reg, [hi |-> w.hi]>>, <<reg, [lo |-> w.lo]>> >>
    ELSE << <<reg, w>> >>

\* SiFiveTimer::write_mtimecmp, THeadTimer::set_mtimecmp, Plmt::set_timer,
\* stimecmp::set: in halves, the low one out of the way first.
WriteCompare(reg, v) ==
    LET w == Split(v) IN
    IF InHalves(reg)
    THEN << <<reg, [lo |-> Half - 1]>>, <<reg, [hi |-> w.hi]>>, <<reg, [lo |-> w.lo]>> >>
    ELSE << <<reg, w>> >>

\* TimerDevice::set_timer; the Sstc backend cancels for u64::MAX.
DeviceSetTimer(v) ==
    IF board.device = "sstc"
    THEN WriteCompare("stimecmp", v) \o (IF v = Max THEN << <<"STIP", "clear">>, <<"MTIE", "clear">> >> ELSE <<>>)
    ELSE WriteCompare("device", v)

Mtip == board.device # "sstc" /\ now >= Join(compare.device)
Stip == IF board.sstc THEN now >= Join(compare.stimecmp) ELSE mip

\* M-mode makes its next access.
MakeAccess ==
    LET reg == todo[1][1]
        val == todo[1][2]
    IN
    /\ mode = "machine" /\ todo # <<>>
    /\ todo' = Tail(todo)
    /\ compare' = IF reg \in {"device", "stimecmp"}
                  THEN [compare EXCEPT ![reg] = [x \in DOMAIN @ |-> IF x \in DOMAIN val THEN val[x] ELSE @[x]]]
                  ELSE compare
    /\ mie' = IF reg = "MTIE" THEN val = "set" ELSE mie
    /\ mip' = IF reg = "STIP" THEN val = "set" ELSE mip
    /\ UNCHANGED <<board, now, mode, wish, traps, reader>>

\* mret
LeaveMachine ==
    /\ mode = "machine" /\ todo = <<>>
    /\ mode' = "lower"
    /\ wish' = [wish EXCEPT !.reg = "device", !.from = 0, !.to = 0]
    /\ UNCHANGED <<board, now, todo, compare, mie, mip, traps, reader>>

Tick ==
    /\ now < LastTick
    /\ now' = now + 1
    /\ UNCHANGED <<board, mode, todo, compare, mie, mip, wish, traps, reader>>

(* ------------------------------ the handlers ---------------------------- *)

\* The register a call of set_timer writes, and what it holds now.
Target == IF board.sstc THEN "stimecmp" ELSE "device"

\* Mutant: an expiry that was injected for the last deadline stays pending.
MSetTimer(v) ==
    IF board.sstc THEN WriteCompare("stimecmp", v)
    ELSE DeviceSetTimer(v) \o << <<"MTIE", "set">> >>

\* Mutant: the machine timer stays masked.
MSetTimerMasked(v) ==
    IF board.sstc THEN WriteCompare("stimecmp", v)
    ELSE DeviceSetTimer(v) \o << <<"STIP", "clear">> >>

\* SbiTimer::set_timer
SetTimer(v) ==
    IF board.sstc THEN WriteCompare("stimecmp", v)
    ELSE DeviceSetTimer(v) \o << <<"STIP", "clear">>, <<"MTIE", "set">> >>

Enter(program) == mode' = "machine" /\ todo' = program

CallSetTimer ==
    /\ mode = "lower"
    /\ \E v \in Deadlines :
        /\ Enter(SetTimer(v))
        /\ wish' = [asked |-> TRUE, deadline |-> v, reg |-> Target, from |-> Join(compare[Target]), to |-> v]
    /\ traps' = 0
    /\ UNCHANGED <<board, now, compare, mie, mip, reader>>

\* Mutant: MTIE is left on for the device to cancel.
MMachineTimer ==
    IF board.sstc THEN << <<"MTIE", "clear">> >>
    ELSE (IF board.device # "plmt" THEN DeviceSetTimer(Max) ELSE <<>>) \o << <<"STIP", "set">> >>

\* machine_timer, acknowledge_current
MachineTimer ==
    << <<"MTIE", "clear">> >> \o
    (IF board.sstc THEN <<>>
     ELSE (IF board.device # "plmt" THEN DeviceSetTimer(Max) ELSE <<>>) \o << <<"STIP", "set">> >>)

TimerTrap ==
    /\ mode = "lower"
    /\ mie /\ Mtip
    /\ Enter(MachineTimer)
    /\ wish' = [wish EXCEPT !.reg = "device", !.from = Join(compare.device), !.to = Max]
    /\ traps' = IF traps < 2 THEN traps + 1 ELSE 2
    /\ UNCHANGED <<board, now, compare, mie, mip, reader>>

\* stage_next_mode
StageNextMode == IF board.sstc THEN <<>> ELSE << <<"MTIE", "set">> >>

\* enable_supervisor_services cancels what an earlier firmware left.
Boot ==
    /\ mode = "boot"
    /\ Enter(DeviceSetTimer(Max) \o StageNextMode)
    /\ UNCHANGED <<board, now, compare, mie, mip, wish, traps, reader>>

\* The hart stops, and is started again with a next stage.
Stop ==
    /\ mode = "lower"
    /\ mode' = "stopped"
    /\ UNCHANGED <<board, now, todo, compare, mie, mip, wish, traps, reader>>

Restart ==
    /\ mode = "stopped"
    /\ Enter(StageNextMode)
    /\ traps' = 0
    /\ UNCHANGED <<board, now, compare, mie, mip, wish, reader>>

\* A retentive suspend waits with the interrupt enables as they are.
Suspend ==
    /\ mode = "lower"
    /\ mode' = "wfi"
    /\ UNCHANGED <<board, now, todo, compare, mie, mip, wish, traps, reader>>

\* wfi returns for an enabled interrupt; the supervisor has STIE set.
WfiReturns ==
    /\ mode = "wfi"
    /\ (mie /\ Mtip) \/ Stip
    /\ mode' = "lower"
    /\ UNCHANGED <<board, now, todo, compare, mie, mip, wish, traps, reader>>

\* An IPI ends the wait as well.
IpiWakes ==
    /\ mode = "wfi"
    /\ mode' = "lower"
    /\ UNCHANGED <<board, now, todo, compare, mie, mip, wish, traps, reader>>

(* ----------------------------- reading mtime ---------------------------- *)

\* The trap handler reads the time for the supervisor.  SiFiveTimer::read on
\* RV32, Plmt::read_time: high, low, high again.
ReadHigh ==
    /\ mode = "lower"
    /\ board.device = "plmt" \/ (board.device = "sifive" /\ board.rv32)
    /\ mode' = "reading"
    /\ reader' = [pc |-> "low", high |-> Split(now).hi, low |-> 0, since |-> now]
    /\ UNCHANGED <<board, now, todo, compare, mie, mip, wish, traps>>

ReadLow ==
    /\ reader.pc = "low"
    /\ reader' = [reader EXCEPT !.pc = "again", !.low = Split(now).lo]
    /\ UNCHANGED <<board, now, mode, todo, compare, mie, mip, wish, traps>>

\* Mutant: the high half is not read a second time.
MReadAgain ==
    /\ reader.pc = "again"
    /\ reader' = [reader EXCEPT !.pc = "done"]
    /\ UNCHANGED <<board, now, mode, todo, compare, mie, mip, wish, traps>>

ReadAgain ==
    /\ reader.pc = "again"
    /\ reader' = IF reader.high = Split(now).hi THEN [reader EXCEPT !.pc = "done"]
                 ELSE [reader EXCEPT !.pc = "low", !.high = Split(now).hi, !.low = 0]
    /\ UNCHANGED <<board, now, mode, todo, compare, mie, mip, wish, traps>>

ReadReturns ==
    /\ reader.pc = "done"
    /\ mode' = "lower"
    /\ reader' = Idle
    /\ UNCHANGED <<board, now, todo, compare, mie, mip, wish, traps>>

TimerNext ==
    \/ MakeAccess \/ LeaveMachine \/ Tick \/ CallSetTimer \/ TimerTrap \/ Boot \/ Stop \/ Restart
    \/ Suspend \/ WfiReturns \/ IpiWakes \/ ReadHigh \/ ReadLow \/ ReadAgain \/ ReadReturns

\* Time passes, M-mode runs on, and a pending enabled interrupt is taken, even
\* if the supervisor keeps calling: strong fairness for the trap.
TimerFairness ==
    /\ WF_timerVars(Tick) /\ WF_timerVars(MakeAccess) /\ WF_timerVars(LeaveMachine)
    /\ WF_timerVars(WfiReturns) /\ WF_timerVars(ReadLow \/ ReadAgain \/ ReadReturns)
    /\ SF_timerVars(TimerTrap)

TimerSpec == TimerInit /\ [][TimerNext]_timerVars /\ TimerFairness

(* ------------------------------ properties ------------------------------ *)

\* The supervisor never sees its timer interrupt pending before the deadline
\* of its last call, whatever was pending when it made the call.
\* (set_timer's clear of STIP against machine_timer's injection)
NoEarlyTimer == mode = "lower" /\ wish.asked /\ Stip => now >= wish.deadline

\* While a compare register is replaced in halves it never holds a time
\* earlier than both the old and the new one.  (the write order in
\* write_mtimecmp, set_mtimecmp, Plmt::set_timer and stimecmp::set)
CompareNeverEarly ==
    LET value == Join(compare[wish.reg]) IN
    mode = "machine" => value >= wish.from \/ value >= wish.to

\* One deadline traps to M-mode at most once: the expiry is masked or
\* cancelled before the supervisor runs again.  (machine_timer; a PLMT keeps
\* the expired comparator)
NoTimerStorm == wish.asked => traps < 2

\* A read of the counter in halves is a time between its start and its end.
\* (SiFiveTimer::read, Plmt::read_time)
TimeReadIsCurrent ==
    LET value == reader.high * Half + reader.low IN
    reader.pc = "done" => reader.since <= value /\ value <= now

\* Every deadline that comes is shown to the supervisor, running or
\* suspended, unless it asks for another one or stops.  (set_timer's
\* MTIE, machine_timer's STIP)
DeadlineInterrupts ==
    \A d \in {d \in Deadlines : d <= LastTick} :
        (wish.asked /\ wish.deadline = d /\ mode # "stopped")
            ~> ((mode = "lower" /\ Stip) \/ wish.deadline # d \/ mode = "stopped")

\* What the supervisor sees of time is exact while time goes on between any two
\* register accesses: no early interrupt, no second trap for one deadline, no
\* intermediate compare value in the past and no torn counter.
\* (set_timer, machine_timer and the register accesses of the four drivers)
TimerIsExact == NoEarlyTimer /\ CompareNeverEarly /\ NoTimerStorm /\ TimeReadIsCurrent

(* ------------------- the inductive invariant behind it ------------------ *)

TimerModes == {"boot", "lower", "machine", "reading", "stopped", "wfi"}
Registers == {"device", "stimecmp"}
HalfWords == 0 .. Half - 1
DoubleWords == [hi : HalfWords, lo : HalfWords]

\* An access to an enable or pending bit, or a write of a register or of half
\* of it.
BitAccesses == {"MTIE", "STIP"} \X {"set", "clear"}
RegisterWrites == Registers \X (DoubleWords \cup [hi : HalfWords] \cup [lo : HalfWords])
Accesses == BitAccesses \cup RegisterWrites

TimerTypeOK ==
    /\ board \in Boards /\ now \in 0 .. LastTick /\ mode \in TimerModes
    /\ todo \in Seq(Accesses)
    /\ compare \in [device : DoubleWords, stimecmp : DoubleWords]
    /\ mie \in BOOLEAN /\ mip \in BOOLEAN /\ traps \in 0 .. 2
    /\ wish \in [asked : BOOLEAN, deadline : 0 .. Max, reg : Registers, from : 0 .. Max, to : 0 .. Max]
    /\ reader \in [pc : {"idle", "low", "again", "done"}, high : HalfWords, low : HalfWords, since : Nat]

\* Only M-mode has accesses to make, only a reading hart a reader, and a
\* booting hart has neither asked for anything nor trapped.
OneActivity ==
    /\ mode # "machine" => todo = <<>>
    /\ reader.pc # "idle" <=> mode = "reading"
    /\ mode = "boot" => ~wish.asked /\ wish.from = 0 /\ wish.to = 0 /\ traps = 0

Planned(a) == \E i \in 1 .. Len(todo) : todo[i] = a

\* A trap masks MTIE, and nothing but a call or a stage entry sets it again.
MaskInv ==
    /\ board.sstc => ~mie /\ ~Planned(<<"MTIE", "set">>)
    /\ traps # 0 => /\ traps = 1 /\ ~Planned(<<"MTIE", "set">>)
                    /\ mie => Planned(<<"MTIE", "clear">>)

\* STIP is set for a deadline that came, or about to be cleared.
PendingInv ==
    wish.asked /\ ~board.sstc =>
        /\ mip /\ ~Planned(<<"STIP", "clear">>) => now >= wish.deadline
        /\ Planned(<<"STIP", "set">>) => now >= wish.deadline

\* Access i is not a write of a register.
OnRegister(a) == a[1] \in Registers
IsBit(i) == ~OnRegister(todo[i])

\* No register is about to be written.
CompareSettled ==
    LET value == Join(compare[wish.reg]) IN
    /\ \A i \in 1 .. Len(todo) : IsBit(i)
    /\ value >= wish.from \/ value >= wish.to
    /\ wish.asked => Join(compare[Target]) >= wish.deadline

\* The writes of wish.to that are left, from access p on, and what the register
\* holds before them.
WholeAhead(p) ==
    /\ todo[p] = <<wish.reg, Split(wish.to)>> /\ \A i \in 1 .. Len(todo) : i # p => IsBit(i)
    /\ Join(compare[wish.reg]) = wish.from

HalvesAhead(p) ==
    /\ p + 2 <= Len(todo) /\ \A i \in 1 .. Len(todo) : i \notin p .. p + 2 => IsBit(i)
    /\ todo[p] = <<wish.reg, [lo |-> Half - 1]>>
    /\ todo[p + 1] = <<wish.reg, [hi |-> Split(wish.to).hi]>>
    /\ todo[p + 2] = <<wish.reg, [lo |-> Split(wish.to).lo]>>
    /\ Join(compare[wish.reg]) = wish.from

HighAhead ==
    /\ 2 <= Len(todo) /\ \A i \in 3 .. Len(todo) : IsBit(i)
    /\ todo[1] = <<wish.reg, [hi |-> Split(wish.to).hi]>> /\ todo[2] = <<wish.reg, [lo |-> Split(wish.to).lo]>>
    /\ compare[wish.reg] = [hi |-> Split(wish.from).hi, lo |-> Half - 1]

LowAhead ==
    /\ 1 <= Len(todo) /\ \A i \in 2 .. Len(todo) : IsBit(i)
    /\ todo[1] = <<wish.reg, [lo |-> Split(wish.to).lo]>>
    /\ compare[wish.reg] = [hi |-> Split(wish.to).hi, lo |-> Half - 1]

Replacing ==
    /\ wish.asked => wish.reg = Target /\ wish.to >= wish.deadline
    /\ \/ \E p \in 1 .. Len(todo) : WholeAhead(p) \/ HalvesAhead(p)
       \/ HighAhead \/ LowAhead

\* Nothing was asked for before the first call; boot writes what it likes.
Booting == ~wish.asked /\ wish.from = 0 /\ wish.to = 0

CompareInv == CompareSettled \/ Replacing \/ Booting

\* The half read first is of a time since the read began, the second of a
\* later time.
ReaderInv ==
    /\ reader.pc = "low" => \E t \in reader.since .. now : reader.high = Split(t).hi
    /\ reader.pc = "again" =>
        \E t \in reader.since .. now : \E u \in t .. now : reader.high = Split(t).hi /\ reader.low = Split(u).lo
    /\ TimeReadIsCurrent

TimerInv ==
    /\ TimerTypeOK /\ OneActivity /\ MaskInv /\ PendingInv /\ CompareInv /\ ReaderInv
==============================================================================
