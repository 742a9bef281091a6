------------------------------- MODULE Console -------------------------------
(***************************************************************************)
(* The debug console (sbi/console.rs) over its UART drivers                *)
(* (driver/console).  Harts write and read slices of supervisor memory     *)
(* through one device behind a lock, and firmware prints through the same  *)
(* device, while the line takes bytes from the transmit queue and puts     *)
(* others in the receive queue at any time.  A driver polls the status and *)
(* moves a byte in two accesses.                                           *)
(*                                                                         *)
(* A buffer is the name of where it lies; what the lookup in registered    *)
(* memory does is in PhysicalMemory.                                         *)
(***************************************************************************)
EXTENDS Integers, Sequences, FiniteSets
LOCAL INSTANCE SequencesExt

CONSTANTS
    ConsoleHarts,  \* harts that use the console
    Message(_),    \* the bytes that each of them has to write, all different
    ConsoleKinds,  \* ConsoleKind, the driver
    FifoDepth,     \* of the transmit and the receive queue
    Arriving,      \* bytes that arrive on the line are 1 .. Arriving
    MaxReads,      \* read calls of one hart
    MaxTransfer,   \* MAX_TRANSFER_BYTES
    Clocks,        \* clock-frequency values of the device tree
    ClockWidth,    \* u32::MAX + 1
    BaudClock,     \* BAUD_RATE * UART_CLOCK_OVERSAMPLING
    ByteSize,      \* values of a byte; a divisor is two of them
    Fractions      \* FRACTIONAL_SCALE

ASSUME ConsoleAssumption ==
    /\ FifoDepth \in Nat \ {0} /\ MaxTransfer \in Nat \ {0} /\ Arriving \in Nat
    /\ "free" \notin ConsoleHarts
    /\ \A h \in ConsoleHarts : Message(h) \in Seq(ToSet(Message(h))) /\ IsInjective(Message(h))
    /\ \A h, g \in ConsoleHarts : h # g =>
            ToSet(Message(h)) \cap ToSet(Message(g)) = {}
    /\ Clocks \subseteq Nat /\ ClockWidth \in Nat
    /\ {BaudClock, ByteSize, Fractions} \subseteq Nat \ {0}

VARIABLES
    kind,      \* the driver bound to the console
    clock,     \* clock-frequency of its node, or NoClock
    phase,     \* "found", "binding", "bound", "failed", "serving"
    uart,      \* the configuration registers
    made,      \* writes made to them by bind
    lock,      \* the hart that holds the device, or "free"
    cpc,       \* where each hart is in a console call
    call,      \* locals of the call
    left,      \* bytes the hart has not seen accepted
    reads,     \* read calls made
    tx, wire,  \* the transmit queue, and what went out
    rx,        \* the receive queue: bytes and whether the line had an error
    arrived,   \* bytes received so far
    delivered, \* bytes each hart got
    lost       \* bytes taken from the queue by a call that failed

consoleVars == <<kind, clock, phase, uart, made, lock, cpc, call, left, reads, tx, wire, rx, arrived,
                 delivered, lost>>

Pl011 == "Pl011"
NoClock == -1
Enabled == "enabled"

-----------------------------------------------------------------------------
(* Configuration at bind.                                                  *)

\* uart_divisor, 0 for None.
UartDivisor(c) ==
    LET d == (c + BaudClock \div 2) \div BaudClock
    IN  IF c + BaudClock \div 2 >= ClockWidth \/ d < 1 \/ d >= ByteSize * ByteSize THEN 0 ELSE d

\* BaudDivisors::from_clock_hz, <<0, 0>> for None.
Pl011Divisors(c) ==
    LET f == ((c % BaudClock) * Fractions + BaudClock \div 2) \div BaudClock
        carry == f = Fractions
        i == (c \div BaudClock) + (IF carry THEN 1 ELSE 0)
    IN  IF i < 1 \/ i >= ByteSize * ByteSize THEN <<0, 0>> ELSE <<i, IF carry THEN 0 ELSE f>>

\* A write to a register.  In an XScale UART, the divisor latch shares its
\* address with the data and the interrupt registers; in a PL011 a write of
\* the line control takes the divisors over.
WriteReg(u, w) ==
    LET r == w[1]  v == w[2]
    IN  CASE kind = "XScale" /\ r = "data" /\ u.line = "latch" -> [u EXCEPT !.low = v]
          [] kind = "XScale" /\ r = "data" /\ u.line # "latch" -> [u EXCEPT !.sent = TRUE]
          [] kind = "XScale" /\ r = "interrupt" /\ u.line = "latch" -> [u EXCEPT !.high = v]
          [] kind = Pl011 /\ r = "line" -> [u EXCEPT !.line = v, !.low = u.nextLow, !.high = u.nextHigh]
          [] kind = Pl011 /\ r \in {"nextLow", "nextHigh"} /\ u.control = Enabled -> [u EXCEPT !.torn = TRUE]
          [] OTHER -> [u EXCEPT ![r] = v]

\* Mutant: the line control is not reset before the unit is enabled.
MXScaleWrites(d) ==
    IF d = 0 THEN <<<<"interrupt", Enabled>>, <<"fifo", "reset">>, <<"interrupt", Enabled>>>>
    ELSE <<<<"interrupt", Enabled>>, <<"line", "latch">>, <<"data", d % ByteSize>>,
           <<"interrupt", d \div ByteSize>>, <<"line", "8n1">>, <<"fifo", "reset">>, <<"interrupt", Enabled>>>>

\* UartXScale::configure and program_baud; 0 preserves the divisor.
XScaleWrites(d) ==
    IF d = 0 THEN <<<<"line", "8n1">>, <<"interrupt", Enabled>>, <<"fifo", "reset">>, <<"interrupt", Enabled>>>>
    ELSE <<<<"line", "8n1">>, <<"interrupt", Enabled>>, <<"line", "latch">>, <<"data", d % ByteSize>>,
           <<"interrupt", d \div ByteSize>>, <<"line", "8n1">>, <<"fifo", "reset">>, <<"interrupt", Enabled>>>>

\* UartPl011::new.
Pl011Writes(d) ==
    <<<<"status", "clear">>, <<"control", "off">>, <<"nextHigh", d[1]>>, <<"nextLow", d[2]>>, <<"line", "8n1">>,
      <<"control", Enabled>>>>

\* UartSiFive::new: interrupts off, then each direction on.
SiFiveWrites == <<<<"interrupt", "off">>, <<"control", Enabled>>>>

\* The writes that bind makes; other drivers keep what the previous stage set.
BindWrites ==
    CASE kind = "XScale" -> XScaleWrites(IF clock = NoClock THEN 0 ELSE UartDivisor(clock))
      [] kind = Pl011 -> Pl011Writes(Pl011Divisors(clock))
      [] kind = "SiFive" -> SiFiveWrites
      [] OTHER -> <<>>

\* A clock that cannot give the rate fails the boot.
BindFails ==
    \/ kind = Pl011 /\ clock = NoClock
    \/ kind = Pl011 /\ clock # NoClock /\ Pl011Divisors(clock) = <<0, 0>>
    \/ kind = "XScale" /\ clock # NoClock /\ UartDivisor(clock) = 0

\* What the previous stage may leave.
Leftover ==
    [line : {"8n1", "latch"}, interrupt : {"off", Enabled}, control : {"off", Enabled}, fifo : {"used"},
     status : {"errors"}, low : {1}, high : {0}, nextLow : {1}, nextHigh : {0}, sent : {FALSE}, torn : {FALSE}]
Settled == [line |-> "8n1", interrupt |-> Enabled, control |-> Enabled, fifo |-> "reset",
            status |-> "clear", low |-> 1, high |-> 0, nextLow |-> 1, nextHigh |-> 0, sent |-> FALSE, torn |-> FALSE]

NoCall == [fn |-> "none", chunk |-> <<>>, want |-> 0, count |-> 0, failed |-> FALSE]

ConsoleInit ==
    /\ kind \in ConsoleKinds
    /\ clock \in Clocks \cup {NoClock}
    /\ phase = "found"
    /\ uart \in Leftover /\ made = 0
    /\ lock = "free"
    /\ cpc = [h \in ConsoleHarts |-> "smode"]
    /\ call = [h \in ConsoleHarts |-> NoCall]
    /\ left = [h \in ConsoleHarts |-> Message(h)]
    /\ reads = [h \in ConsoleHarts |-> 0]
    /\ tx = <<>> /\ wire = <<>> /\ rx = <<>> /\ arrived = 0
    /\ delivered = [h \in ConsoleHarts |-> <<>>]
    /\ lost = {}

serveVars == <<lock, cpc, call, left, reads, tx, wire, rx, arrived, delivered, lost>>
boardVars == <<kind, clock, phase, uart, made>>

\* console::bind, up to the first write.
BindConsole ==
    /\ phase = "found"
    /\ phase' = IF BindFails THEN "failed" ELSE "binding"
    /\ UNCHANGED <<kind, clock, uart, made, serveVars>>

\* One register write of bind, and its end after the last one.
Configure ==
    /\ phase = "binding"
    /\ IF made < Len(BindWrites)
       THEN uart' = WriteReg(uart, BindWrites[made + 1]) /\ made' = made + 1 /\ UNCHANGED phase
       ELSE phase' = "bound" /\ UNCHANGED <<uart, made>>
    /\ UNCHANGED <<kind, clock, serveVars>>

\* The configuration is not read again.
PublishConsole ==
    /\ phase = "bound"
    /\ phase' = "serving" /\ uart' = Settled /\ clock' = NoClock /\ made' = 0
    /\ UNCHANGED <<kind, serveVars>>

-----------------------------------------------------------------------------
(* Status of the device.                                                   *)

Kinds16550 == {"Uart16550U8", "Uart16550U32", "XScale"}

\* A 16550 tells only that its transmit queue is empty.
TxReady == IF kind \in Kinds16550 THEN tx = <<>> ELSE Len(tx) < FifoDepth

\* A byte stored in a full queue is dropped by the device.
PutByte(b) == tx' = IF Len(tx) < FifoDepth THEN Append(tx, b) ELSE tx

-----------------------------------------------------------------------------
(* Calls.                                                                  *)

Proceed(h, label) == cpc' = [cpc EXCEPT ![h] = label]
Begin(h, c) == call' = [call EXCEPT ![h] = c]
Buffers == {"ram", "high", "wraps", "outside"}

\* validate_buffer: a buffer of no bytes is accepted wherever it lies.
Accepts(buffer, n) == n = 0 \/ buffer = "ram"

\* SbiConsole::write up to the device: the first MAX_TRANSFER_BYTES are copied.
CallWrite(h) ==
    /\ cpc[h] = "smode"
    /\ \E n \in 0 .. Len(left[h]), buffer \in Buffers :
        IF n = 0 \/ ~Accepts(buffer, n)
        THEN UNCHANGED <<cpc, call>>
        ELSE /\ Begin(h, [NoCall EXCEPT !.fn = "write",
                            !.chunk = SubSeq(left[h], 1, IF n < MaxTransfer THEN n ELSE MaxTransfer)])
             /\ Proceed(h, "lock")
    /\ UNCHANGED <<left, reads, lock, tx, wire, rx, arrived, delivered, lost>>

\* write_byte.
CallWriteByte(h) ==
    /\ cpc[h] = "smode" /\ left[h] # <<>>
    /\ Begin(h, [NoCall EXCEPT !.fn = "write_byte", !.chunk = <<Head(left[h])>>])
    /\ Proceed(h, "lock")
    /\ UNCHANGED <<left, reads, lock, tx, wire, rx, arrived, delivered, lost>>

\* _print, from firmware.
FirmwarePrint(h) ==
    /\ cpc[h] = "smode" /\ left[h] # <<>>
    /\ Begin(h, [NoCall EXCEPT !.fn = "print", !.chunk = left[h]])
    /\ Proceed(h, "lock")
    /\ UNCHANGED <<left, reads, lock, tx, wire, rx, arrived, delivered, lost>>

\* SbiConsole::read up to the device.
CallRead(h) ==
    /\ cpc[h] = "smode" /\ reads[h] < MaxReads
    /\ reads' = [reads EXCEPT ![h] = @ + 1]
    /\ \E n \in 0 .. MaxTransfer + 1, buffer \in Buffers :
        IF n = 0 \/ ~Accepts(buffer, n)
        THEN UNCHANGED <<cpc, call>>
        ELSE /\ Begin(h, [NoCall EXCEPT !.fn = "read", !.want = IF n < MaxTransfer THEN n ELSE MaxTransfer])
             /\ Proceed(h, "lock")
    /\ UNCHANGED <<left, lock, tx, wire, rx, arrived, delivered, lost>>

\* Mutant: the device is used without its lock.
MLock(h) ==
    /\ cpc[h] = "lock"
    /\ UNCHANGED lock
    /\ Proceed(h, IF call[h].fn = "read" THEN (IF kind = "Bl808" THEN "count" ELSE "poll_rx") ELSE "poll_tx")
    /\ UNCHANGED <<call, left, reads, tx, wire, rx, arrived, delivered, lost>>

\* The device lock is taken for one slice.
Lock(h) ==
    /\ cpc[h] = "lock" /\ lock = "free"
    /\ lock' = h
    /\ Proceed(h, IF call[h].fn = "read" THEN (IF kind = "Bl808" THEN "count" ELSE "poll_rx") ELSE "poll_tx")
    /\ UNCHANGED <<call, left, reads, tx, wire, rx, arrived, delivered, lost>>

\* Mutant: the lock is kept when no byte could be moved.
MRelease(h) == lock' = (IF call[h].count = 0 THEN lock ELSE "free") /\ Proceed(h, "return")

\* The guard of the lock is dropped at the end of the slice.
Release(h) == lock' = "free" /\ Proceed(h, "return")

\* write_slice ends at a byte for which there is no room.
PollTx(h) ==
    /\ cpc[h] = "poll_tx"
    /\ IF call[h].count < Len(call[h].chunk) /\ TxReady
       THEN Proceed(h, "put") /\ UNCHANGED lock
       ELSE Release(h)
    /\ UNCHANGED <<call, left, reads, tx, wire, rx, arrived, delivered, lost>>

Put(h) ==
    /\ cpc[h] = "put"
    /\ PutByte(call[h].chunk[call[h].count + 1])
    /\ call' = [call EXCEPT ![h].count = @ + 1]
    /\ Proceed(h, "poll_tx")
    /\ UNCHANGED <<left, reads, lock, wire, rx, arrived, delivered, lost>>

\* UartBl808::read_slice reads the number of bytes once.
CountRx(h) ==
    /\ cpc[h] = "count"
    /\ LET n == IF Len(rx) < call[h].want THEN Len(rx) ELSE call[h].want
       IN  /\ call' = [call EXCEPT ![h].want = n]
           /\ IF n = 0 THEN Release(h) ELSE Proceed(h, "get") /\ UNCHANGED lock
    /\ UNCHANGED <<left, reads, tx, wire, rx, arrived, delivered, lost>>

\* Takes the head of the queue.  A PL011 byte with a line error ends the slice
\* with an error, whatever was read before it.
TakeByte(h, next) ==
    LET b == Head(rx)
        c == [call[h] EXCEPT !.chunk = Append(@, b.byte), !.count = @ + 1, !.failed = b.error]
    IN  /\ rx' = Tail(rx)
        /\ call' = [call EXCEPT ![h] = c]
        /\ IF c.failed \/ (kind = "Bl808" /\ c.count = c.want)
           THEN Release(h)
           ELSE Proceed(h, next) /\ UNCHANGED lock

\* read_slice polls before each byte; a SiFive register says whether there was
\* a byte and takes it in one access.
PollRx(h) ==
    /\ cpc[h] = "poll_rx"
    /\ IF call[h].count = call[h].want \/ rx = <<>>
       THEN Release(h) /\ UNCHANGED <<call, rx>>
       ELSE IF kind = "SiFive"
            THEN TakeByte(h, "poll_rx")
            ELSE Proceed(h, "get") /\ UNCHANGED <<call, rx, lock>>
    /\ UNCHANGED <<left, reads, tx, wire, arrived, delivered, lost>>

Get(h) ==
    /\ cpc[h] = "get" /\ rx # <<>>
    /\ TakeByte(h, IF kind = "Bl808" THEN "get" ELSE "poll_rx")
    /\ UNCHANGED <<left, reads, tx, wire, arrived, delivered, lost>>

\* Mutant: a partial write is reported as complete.
MReturnWrite(h) ==
    /\ cpc[h] = "return" /\ call[h].fn # "read"
    /\ LET c == call[h]  rest == SubSeq(c.chunk, c.count + 1, Len(c.chunk))
       IN  /\ left' = [left EXCEPT ![h] = SubSeq(@, Len(c.chunk) + 1, Len(@))]
           /\ IF c.fn = "write" \/ rest = <<>>
              THEN Proceed(h, "smode") /\ Begin(h, NoCall)
              ELSE Proceed(h, "lock") /\ Begin(h, [c EXCEPT !.chunk = rest, !.count = 0])
    /\ UNCHANGED <<lock, reads, tx, wire, rx, arrived, delivered, lost>>

\* write answers with the number of bytes accepted; write_byte and _print try
\* again with the rest.
ReturnWrite(h) ==
    /\ cpc[h] = "return" /\ call[h].fn # "read"
    /\ LET c == call[h]  rest == SubSeq(c.chunk, c.count + 1, Len(c.chunk))
       IN  /\ left' = [left EXCEPT ![h] = SubSeq(@, c.count + 1, Len(@))]
           /\ IF c.fn = "write" \/ rest = <<>>
              THEN Proceed(h, "smode") /\ Begin(h, NoCall)
              ELSE Proceed(h, "lock") /\ Begin(h, [c EXCEPT !.chunk = rest, !.count = 0])
    /\ UNCHANGED <<lock, reads, tx, wire, rx, arrived, delivered, lost>>

\* dbcn_error, or the bytes are copied to the buffer and counted.
ReturnRead(h) ==
    /\ cpc[h] = "return" /\ call[h].fn = "read"
    /\ IF call[h].failed
       THEN lost' = lost \cup ToSet(call[h].chunk) /\ UNCHANGED delivered
       ELSE delivered' = [delivered EXCEPT ![h] = @ \o call[h].chunk] /\ UNCHANGED lost
    /\ Proceed(h, "smode") /\ Begin(h, NoCall)
    /\ UNCHANGED <<left, lock, reads, tx, wire, rx, arrived>>

\* The line.
Transmit ==
    /\ tx # <<>>
    /\ wire' = Append(wire, Head(tx)) /\ tx' = Tail(tx)
    /\ UNCHANGED <<lock, cpc, call, left, reads, rx, arrived, delivered, lost>>

Arrive ==
    /\ arrived < Arriving /\ Len(rx) < FifoDepth
    /\ \E e \in (IF kind = Pl011 THEN BOOLEAN ELSE {FALSE}) : rx' = Append(rx, [byte |-> arrived + 1, error |-> e])
    /\ arrived' = arrived + 1
    /\ UNCHANGED <<lock, cpc, call, left, reads, tx, wire, delivered, lost>>

Calls(h) == CallWrite(h) \/ CallWriteByte(h) \/ FirmwarePrint(h) \/ CallRead(h)
ConsoleStep(h) ==
    \/ Lock(h) \/ PollTx(h) \/ Put(h) \/ CountRx(h) \/ PollRx(h) \/ Get(h) \/ ReturnWrite(h) \/ ReturnRead(h)
Serving == phase = "serving" /\ UNCHANGED boardVars

ConsoleNext ==
    \/ BindConsole \/ Configure \/ PublishConsole
    \/ Serving /\ (Transmit \/ Arrive \/ \E h \in ConsoleHarts : Calls(h) \/ ConsoleStep(h))
    \/ phase = "failed" /\ UNCHANGED consoleVars

\* A hart in firmware runs on, and the line takes what it is given.
ConsoleFairness ==
    /\ \A h \in ConsoleHarts : WF_consoleVars(Serving /\ ConsoleStep(h))
    /\ WF_consoleVars(Serving /\ Transmit)

ConsoleSpec == ConsoleInit /\ [][ConsoleNext]_consoleVars /\ ConsoleFairness

-----------------------------------------------------------------------------
(* Properties.                                                             *)

Accepted(h) ==
    Len(Message(h)) - Len(left[h]) + (IF call[h].fn \in {"write", "write_byte", "print"} THEN call[h].count ELSE 0)

\* Every byte that the firmware counts as accepted goes out once and in order,
\* whatever mix of write, write_byte and print sends it and however the queue
\* fills and drains between the poll and the store.
OutputIsKept ==
    LET out == wire \o tx
    IN  /\ \A h \in ConsoleHarts : \A k \in DOMAIN Message(h) :
                (\E i \in DOMAIN out : out[i] = Message(h)[k]) <=> k <= Accepted(h)
        /\ \A h \in ConsoleHarts : \A k, l \in DOMAIN Message(h) : \A i, j \in DOMAIN out :
                out[i] = Message(h)[k] /\ out[j] = Message(h)[l] => (i < j <=> k < l)

\* The bytes of one slice are not mixed with those of another hart.
SlicesAreWhole ==
    \A h \in ConsoleHarts :
        cpc[h] \in {"poll_tx", "put"} =>
            IsSuffix(SubSeq(call[h].chunk, 1, call[h].count), wire \o tx)

ReadBytes(h) == IF call[h].fn = "read" THEN call[h].chunk ELSE <<>>

\* Every byte that arrived is in the queue, with one reader, or was lost in a
\* call that answered an error; each slice holds consecutive bytes, each reader
\* gets them in order, and only a line error loses any.
InputIsKept ==
    LET held == [h \in ConsoleHarts |-> delivered[h] \o ReadBytes(h)]
        waiting == {rx[i].byte : i \in DOMAIN rx}
        taken == UNION {ToSet(held[h]) : h \in ConsoleHarts}
    IN  /\ 1 .. arrived = waiting \cup taken \cup lost
        /\ waiting \cap (taken \cup lost) = {} /\ taken \cap lost = {}
        /\ \A h, g \in ConsoleHarts : h # g => ToSet(held[h]) \cap ToSet(held[g]) = {}
        /\ \A h \in ConsoleHarts : \A i, j \in DOMAIN held[h] : i < j => held[h][i] < held[h][j]
        /\ \A h \in ConsoleHarts : \A i \in 2 .. Len(ReadBytes(h)) :
                ReadBytes(h)[i] = ReadBytes(h)[i - 1] + 1
        /\ \A h \in ConsoleHarts : cpc[h] = "get" => rx # <<>>

\* After bind the line is 8N1 and on, without errors of before, no byte was sent by the configuration
\* itself, and the divisor is the nearest one to the clock, or the one of the
\* previous stage when no clock is known, whatever that stage left behind.
LineIsConfigured ==
    phase = "bound" =>
        /\ kind = "XScale" =>
            LET d == uart.high * ByteSize + uart.low
            IN  /\ uart.line = "8n1" /\ uart.interrupt = Enabled /\ ~uart.sent
                /\ IF clock = NoClock THEN d = 1
                   ELSE 2 * (clock - d * BaudClock) \in -BaudClock .. BaudClock
        /\ kind = Pl011 =>
            /\ uart.line = "8n1" /\ uart.control = Enabled /\ uart.status = "clear" /\ ~uart.torn
            /\ 2 * (Fractions * clock - (Fractions * uart.high + uart.low) * BaudClock) \in -BaudClock .. BaudClock

\* Every console call of a hart comes to an end: the device lock is always
\* given back, and a blocking write goes on as the line drains.
ConsoleCallsReturn == \A h \in ConsoleHarts : (cpc[h] # "smode") ~> (cpc[h] = "smode")

\* What goes through the console is kept: the line runs at the rate asked for,
\* output goes out once and in order, the slices of two harts are not mixed, and
\* input is delivered once and in order or reported as an error.  (SbiConsole and
\* the drivers' slices and bind)
BytesAreKept == LineIsConfigured /\ OutputIsKept /\ SlicesAreWhole /\ InputIsKept
=============================================================================
