---------------------------- MODULE ConsoleProofs ----------------------------
(***************************************************************************)
(* Proof that what goes through the console is kept, for any harts,        *)
(* messages, clocks and queue depth: the line at every write of bind, who  *)
(* holds the device, where a slice is in the output, and where each byte   *)
(* of the input is.                                                        *)
(***************************************************************************)
EXTENDS Console, TLAPS
LOCAL INSTANCE SequencesExt

-----------------------------------------------------------------------------
(* The inductive invariant of the calls.                                   *)

\* What went out or is on its way.
Output == wire \o tx
\* Bytes that calls took from the receive queue.
Taken == arrived - Len(rx)
OutputBytes == UNION {ToSet(Message(h)) : h \in ConsoleHarts}
WriteFns == {"write", "write_byte", "print"}
DeviceSteps == {"poll_tx", "put", "count", "poll_rx", "get"}
ConsoleLabels == DeviceSteps \cup {"smode", "lock", "return"}
ConsoleCalls ==
    [fn : WriteFns \cup {"read", "none"}, chunk : Seq(OutputBytes \cup Nat), want : Nat, count : Nat,
     failed : BOOLEAN]
RxEntries == [byte : Nat, error : BOOLEAN]

ConsoleTypeOK ==
    /\ clock \in Nat \cup {NoClock}
    /\ lock \in ConsoleHarts \cup {"free"}
    /\ cpc \in [ConsoleHarts -> ConsoleLabels]
    /\ call \in [ConsoleHarts -> ConsoleCalls]
    /\ left \in [ConsoleHarts -> Seq(OutputBytes)]
    /\ tx \in Seq(OutputBytes) /\ wire \in Seq(OutputBytes)
    /\ rx \in Seq(RxEntries) /\ arrived \in Nat /\ Len(rx) <= arrived
    /\ delivered \in [ConsoleHarts -> Seq(Nat)] /\ lost \in SUBSET Nat

\* Where a hart is in a call, what the call is, and who holds the device.
CallShape(h) ==
    /\ cpc[h] \in DeviceSteps <=> lock = h
    /\ cpc[h] = "smode" <=> call[h].fn = "none"
    /\ cpc[h] \in {"poll_tx", "put"} => call[h].fn \in WriteFns
    /\ cpc[h] \in {"count", "poll_rx", "get"} => call[h].fn = "read"
    /\ cpc[h] \in {"smode", "lock", "count"} => call[h].count = 0
    /\ cpc[h] = "count" => kind = "Bl808"
    /\ cpc[h] = "poll_rx" => kind # "Bl808"

\* A slice is the beginning of what the hart has left to write, and that is the
\* end of its message.
WriteShape(h) ==
    /\ Len(left[h]) <= Len(Message(h))
    /\ \A i \in 1 .. Len(left[h]) : left[h][i] = Message(h)[Len(Message(h)) - Len(left[h]) + i]
    /\ call[h].fn \in WriteFns =>
        /\ Len(call[h].chunk) <= Len(left[h])
        /\ \A i \in 1 .. Len(call[h].chunk) : call[h].chunk[i] = left[h][i]
        /\ call[h].count <= Len(call[h].chunk)
    /\ cpc[h] = "put" => call[h].count < Len(call[h].chunk) /\ Len(tx) < FifoDepth
    /\ cpc[h] \in {"poll_tx", "put"} =>
        /\ call[h].count <= Len(Output)
        /\ \A i \in 1 .. call[h].count : Output[Len(Output) - call[h].count + i] = call[h].chunk[i]

\* What a read call has taken so far, and that the bytes it goes on to take are
\* there.
ReadShape(h) ==
    /\ call[h].fn = "read" =>
        /\ call[h].chunk \in Seq(Nat)
        /\ call[h].count = Len(call[h].chunk)
        /\ \A i \in 2 .. Len(call[h].chunk) : call[h].chunk[i] = call[h].chunk[i - 1] + 1
    /\ cpc[h] = "get" => rx # <<>>
    /\ cpc[h] = "get" /\ kind = "Bl808" => call[h].count < call[h].want /\ call[h].want - call[h].count <= Len(rx)
    /\ cpc[h] \in {"poll_rx", "get"} /\ call[h].count > 0 => call[h].chunk[call[h].count] = Taken

Held(h) == delivered[h] \o ReadBytes(h)

RxShape ==
    /\ \A i \in 1 .. Len(rx) : rx[i].byte = Taken + i
    /\ \A h \in ConsoleHarts : ToSet(Held(h)) \subseteq 1 .. Taken
    /\ lost \subseteq 1 .. Taken
    /\ 1 .. Taken \subseteq lost \cup UNION {ToSet(Held(h)) : h \in ConsoleHarts}
    /\ \A h \in ConsoleHarts : ToSet(Held(h)) \cap lost = {}
    /\ \A h, g \in ConsoleHarts : h # g => ToSet(Held(h)) \cap ToSet(Held(g)) = {}
    /\ \A h \in ConsoleHarts : \A i, j \in 1 .. Len(Held(h)) : i < j => Held(h)[i] < Held(h)[j]

ConsoleInv ==
    /\ ConsoleTypeOK
    /\ \A h \in ConsoleHarts : CallShape(h) /\ WriteShape(h) /\ ReadShape(h)
    /\ RxShape
    /\ OutputIsKept

-----------------------------------------------------------------------------
(* Sequences.                                                              *)

\* A byte that moves from the head of one queue to the end of another is still
\* at its place in the two together.
LEMMA MoveHead ==
    ASSUME NEW S, NEW s \in Seq(S), NEW t \in Seq(S), t # <<>>
    PROVE  /\ Append(s, Head(t)) \in Seq(S) /\ Tail(t) \in Seq(S)
           /\ Append(s, Head(t)) \o Tail(t) = s \o t
<1>1. Head(t) \in S /\ Tail(t) \in Seq(S) /\ Len(Tail(t)) = Len(t) - 1
  OBVIOUS
<1>2. Append(s, Head(t)) \in Seq(S)
  BY <1>1
<1>3. Len(Append(s, Head(t)) \o Tail(t)) = Len(s \o t)
  BY <1>1, <1>2
<1>4. \A i \in 1 .. Len(s \o t) : (Append(s, Head(t)) \o Tail(t))[i] = (s \o t)[i]
  BY <1>1, <1>2
<1>5. Append(s, Head(t)) \o Tail(t) \in Seq(S) /\ s \o t \in Seq(S)
  BY <1>1, <1>2
<1> QED BY <1>1, <1>2, <1>3, <1>4, <1>5

\* A byte stored at the end of the second of two queues is the last of both.
LEMMA AppendToConcat ==
    ASSUME NEW S, NEW s \in Seq(S), NEW t \in Seq(S), NEW b \in S
    PROVE  s \o Append(t, b) = Append(s \o t, b)
<1>1. Len(s \o Append(t, b)) = Len(Append(s \o t, b))
  OBVIOUS
<1>2. \A i \in 1 .. Len(s \o Append(t, b)) : (s \o Append(t, b))[i] = Append(s \o t, b)[i]
  OBVIOUS
<1>3. s \o Append(t, b) \in Seq(S) /\ Append(s \o t, b) \in Seq(S)
  OBVIOUS
<1> QED BY <1>1, <1>2, <1>3

\* The elements of a sequence as values at positions.
LEMMA ElementsAt ==
    ASSUME NEW S, NEW s \in Seq(S)
    PROVE  /\ ToSet(s) = {s[i] : i \in 1 .. Len(s)} /\ ToSet(s) \subseteq S
           /\ \A x : x \in ToSet(s) <=> \E i \in 1 .. Len(s) : s[i] = x
BY DEF ToSet

\* The elements of a sequence with one more.
LEMMA ElementsOfAppend ==
    ASSUME NEW S, NEW s \in Seq(S), NEW b \in S
    PROVE  ToSet(Append(s, b)) = ToSet(s) \cup {b}
<1>1. Append(s, b) \in Seq(S) /\ Len(Append(s, b)) = Len(s) + 1 /\ Append(s, b)[Len(s) + 1] = b
      /\ \A i \in 1 .. Len(s) : Append(s, b)[i] = s[i]
  OBVIOUS
<1>2. \A x : x \in ToSet(Append(s, b)) <=> \E i \in 1 .. Len(s) + 1 : Append(s, b)[i] = x
  <2> DEFINE u == Append(s, b)
  <2>1. u \in Seq(S) /\ Len(u) = Len(s) + 1
    BY <1>1
  <2> HIDE DEF u
  <2>2. \A x : x \in ToSet(u) <=> \E i \in 1 .. Len(s) + 1 : u[i] = x
    BY <2>1, ElementsAt
  <2> QED BY <2>2 DEF u
<1>3. \A x : x \in ToSet(s) <=> \E i \in 1 .. Len(s) : s[i] = x
  BY ElementsAt
<1>4. ASSUME NEW x PROVE x \in ToSet(Append(s, b)) <=> x \in ToSet(s) \cup {b}
  BY <1>1, <1>2, <1>3
<1> QED BY <1>4

\* The elements of two sequences together.
LEMMA ElementsOfConcat ==
    ASSUME NEW S, NEW s \in Seq(S), NEW t \in Seq(S)
    PROVE  ToSet(s \o t) = ToSet(s) \cup ToSet(t)
<1>1. s \o t \in Seq(S) /\ Len(s \o t) = Len(s) + Len(t)
      /\ (\A i \in 1 .. Len(s) : (s \o t)[i] = s[i])
      /\ (\A i \in 1 .. Len(t) : (s \o t)[Len(s) + i] = t[i])
  OBVIOUS
<1>2. \A x : x \in ToSet(s \o t) <=> \E i \in 1 .. Len(s) + Len(t) : (s \o t)[i] = x
  <2> DEFINE u == s \o t
  <2>1. u \in Seq(S) /\ Len(u) = Len(s) + Len(t)
    BY <1>1
  <2> HIDE DEF u
  <2>2. \A x : x \in ToSet(u) <=> \E i \in 1 .. Len(s) + Len(t) : u[i] = x
    BY <2>1, ElementsAt
  <2> QED BY <2>2 DEF u
<1>3. \A x : x \in ToSet(s) <=> \E i \in 1 .. Len(s) : s[i] = x
  BY ElementsAt
<1>4. \A x : x \in ToSet(t) <=> \E i \in 1 .. Len(t) : t[i] = x
  BY ElementsAt
<1>5. ASSUME NEW x, x \in ToSet(s \o t) PROVE x \in ToSet(s) \cup ToSet(t)
  <2>1. PICK i \in 1 .. Len(s) + Len(t) : (s \o t)[i] = x
    BY <1>2, <1>5
  <2>2. CASE i <= Len(s)
    BY <1>1, <1>3, <2>1, <2>2
  <2>3. CASE i > Len(s)
    <3>1. i - Len(s) \in 1 .. Len(t) /\ Len(s) + (i - Len(s)) = i
      BY <2>3
    <3> QED BY <1>1, <1>4, <2>1, <3>1
  <2> QED BY <2>2, <2>3
<1>6. ASSUME NEW x \in ToSet(s) PROVE x \in ToSet(s \o t)
  BY <1>1, <1>2, <1>3
<1>7. ASSUME NEW x \in ToSet(t) PROVE x \in ToSet(s \o t)
  <2>1. PICK i \in 1 .. Len(t) : t[i] = x
    BY <1>4
  <2>2. Len(s) + i \in 1 .. Len(s) + Len(t)
    OBVIOUS
  <2> QED BY <1>1, <1>2, <2>1, <2>2
<1> QED BY <1>5, <1>6, <1>7

-----------------------------------------------------------------------------
(* Messages.                                                               *)

\* A message is a sequence of bytes of its own, all different.
LEMMA MessageFacts ==
    ASSUME NEW h \in ConsoleHarts
    PROVE  /\ Message(h) \in Seq(OutputBytes)
           /\ \A k, l \in 1 .. Len(Message(h)) : Message(h)[k] = Message(h)[l] => k = l
           /\ \A g \in ConsoleHarts : g # h =>
                \A k \in 1 .. Len(Message(h)), l \in 1 .. Len(Message(g)) : Message(h)[k] # Message(g)[l]
<1>1. \A g \in ConsoleHarts : Message(g) \in Seq(ToSet(Message(g))) /\ IsInjective(Message(g))
  BY ConsoleAssumption
<1>2. ToSet(Message(h)) \subseteq OutputBytes
  BY DEF OutputBytes
<1>3. \A k, l \in 1 .. Len(Message(h)) : Message(h)[k] = Message(h)[l] => k = l
  BY <1>1 DEF IsInjective
<1>4. ASSUME NEW g \in ConsoleHarts, g # h,
             NEW k \in 1 .. Len(Message(h)), NEW l \in 1 .. Len(Message(g))
      PROVE  Message(h)[k] # Message(g)[l]
  <2>1. ToSet(Message(h)) \cap ToSet(Message(g)) = {}
    BY <1>4, ConsoleAssumption
  <2>2. Message(h)[k] \in ToSet(Message(h)) /\ Message(g)[l] \in ToSet(Message(g))
    BY <1>1, ElementsAt
  <2> QED BY <2>1, <2>2
<1>5. Message(h) \in Seq(OutputBytes)
  BY <1>1, <1>2
<1> QED BY <1>3, <1>4, <1>5

-----------------------------------------------------------------------------
(* Types.                                                                  *)

\* The kinds of call that a hart makes are records of the right shape.
LEMMA CallRecords ==
    ASSUME NEW s \in Seq(OutputBytes), NEW n \in Nat
    PROVE  /\ NoCall \in ConsoleCalls
           /\ \A f \in WriteFns : [NoCall EXCEPT !.fn = f, !.chunk = s] \in ConsoleCalls
           /\ [NoCall EXCEPT !.fn = "read", !.want = n] \in ConsoleCalls
<1>1. s \in Seq(OutputBytes \cup Nat) /\ <<>> \in Seq(OutputBytes \cup Nat)
  OBVIOUS
<1>2. NoCall \in ConsoleCalls
  BY <1>1 DEF NoCall, ConsoleCalls
<1>3. \A f \in WriteFns : [NoCall EXCEPT !.fn = f, !.chunk = s] \in ConsoleCalls
  BY <1>1 DEF NoCall, ConsoleCalls, WriteFns
<1>4. [NoCall EXCEPT !.fn = "read", !.want = n] \in ConsoleCalls
  BY <1>1 DEF NoCall, ConsoleCalls
<1> QED BY <1>2, <1>3, <1>4

\* The first bytes of what is left.
LEMMA SliceType ==
    ASSUME NEW s \in Seq(OutputBytes), NEW n \in 0 .. Len(s)
    PROVE  /\ SubSeq(s, 1, IF n < MaxTransfer THEN n ELSE MaxTransfer) \in Seq(OutputBytes)
           /\ Len(SubSeq(s, 1, IF n < MaxTransfer THEN n ELSE MaxTransfer)) <= Len(s)
           /\ \A i \in 1 .. Len(SubSeq(s, 1, IF n < MaxTransfer THEN n ELSE MaxTransfer)) :
                SubSeq(s, 1, IF n < MaxTransfer THEN n ELSE MaxTransfer)[i] = s[i]
<1> DEFINE m == IF n < MaxTransfer THEN n ELSE MaxTransfer
<1>1. m \in 0 .. Len(s)
  BY ConsoleAssumption
<1> HIDE DEF m
<1>2. SubSeq(s, 1, m) \in Seq(OutputBytes) /\ Len(SubSeq(s, 1, m)) = m
      /\ \A i \in 1 .. m : SubSeq(s, 1, m)[i] = s[i]
  BY <1>1
<1>3. Len(SubSeq(s, 1, m)) <= Len(s) /\ \A i \in 1 .. Len(SubSeq(s, 1, m)) : SubSeq(s, 1, m)[i] = s[i]
  BY <1>1, <1>2
<1> QED BY <1>2, <1>3 DEF m

\* The rest of a sequence after its first n elements.
LEMMA RestType ==
    ASSUME NEW S, NEW s \in Seq(S), NEW n \in 0 .. Len(s)
    PROVE  /\ SubSeq(s, n + 1, Len(s)) \in Seq(S)
           /\ Len(SubSeq(s, n + 1, Len(s))) = Len(s) - n
           /\ \A i \in 1 .. Len(s) - n : SubSeq(s, n + 1, Len(s))[i] = s[n + i]
OBVIOUS

\* Taking a byte from the receive queue.
LEMMA TakeByteTypes ==
    ASSUME ConsoleTypeOK, NEW h \in ConsoleHarts, rx # <<>>,
           NEW label \in ConsoleLabels, TakeByte(h, label)
    PROVE  /\ call' \in [ConsoleHarts -> ConsoleCalls] /\ rx' \in Seq(RxEntries) /\ Len(rx') = Len(rx) - 1
           /\ cpc' \in [ConsoleHarts -> ConsoleLabels] /\ lock' \in ConsoleHarts \cup {"free"}
<1> DEFINE b == Head(rx)
           c == [call[h] EXCEPT !.chunk = Append(@, b.byte), !.count = @ + 1, !.failed = b.error]
<1>1. b \in RxEntries /\ rx' \in Seq(RxEntries) /\ Len(rx') = Len(rx) - 1
  BY DEF ConsoleTypeOK, TakeByte
<1>2. call[h] \in ConsoleCalls
  BY DEF ConsoleTypeOK
<1>3. b.byte \in Nat /\ b.error \in BOOLEAN
  BY <1>1 DEF RxEntries
<1>4. Append(call[h].chunk, b.byte) \in Seq(OutputBytes \cup Nat) /\ call[h].count + 1 \in Nat
  BY <1>2, <1>3 DEF ConsoleCalls
<1> HIDE DEF b
<1>5. c \in ConsoleCalls
  BY <1>2, <1>3, <1>4 DEF ConsoleCalls
<1>6. call' = [call EXCEPT ![h] = c]
  BY DEF TakeByte, b
<1> HIDE DEF c
<1>7. call' \in [ConsoleHarts -> ConsoleCalls]
  BY <1>5, <1>6 DEF ConsoleTypeOK
<1>8. cpc' = [cpc EXCEPT ![h] = "return"] \/ cpc' = [cpc EXCEPT ![h] = label]
  BY DEF TakeByte, Release, Proceed
<1>9. lock' = "free" \/ lock' = lock
  BY DEF TakeByte, Release
<1> QED BY <1>1, <1>7, <1>8, <1>9 DEF ConsoleTypeOK, ConsoleLabels, DeviceSteps

\* A step of a console call keeps the types.
LEMMA CallTypes ==
    ASSUME ConsoleTypeOK, NEW h \in ConsoleHarts, WriteShape(h), ReadShape(h), CallShape(h),
           Calls(h) \/ ConsoleStep(h), UNCHANGED clock
    PROVE  ConsoleTypeOK'
<1> USE DEF ConsoleTypeOK
<1> DEFINE Typed == /\ cpc' \in [ConsoleHarts -> ConsoleLabels]
                    /\ call' \in [ConsoleHarts -> ConsoleCalls]
<1>1. \A label \in ConsoleLabels : Proceed(h, label) => cpc' \in [ConsoleHarts -> ConsoleLabels]
  BY DEF Proceed
<1>2. \A c \in ConsoleCalls : Begin(h, c) => call' \in [ConsoleHarts -> ConsoleCalls]
  BY DEF Begin
<1>3. \A label \in ConsoleLabels : label \in ConsoleLabels
  OBVIOUS
<1>4. {"lock", "smode", "return", "put", "get", "poll_tx", "poll_rx", "count"} \subseteq ConsoleLabels
  BY DEF ConsoleLabels, DeviceSteps
<1>5. call[h] \in ConsoleCalls /\ left[h] \in Seq(OutputBytes) /\ delivered[h] \in Seq(Nat)
  OBVIOUS
<1>6. NoCall \in ConsoleCalls
  BY CallRecords
<1>7. Release(h) => cpc' \in [ConsoleHarts -> ConsoleLabels] /\ lock' \in ConsoleHarts \cup {"free"}
  BY <1>1, <1>4 DEF Release
<1>10. CASE CallWrite(h)
  <2>1. Typed
    <3>1. PICK n \in 0 .. Len(left[h]), buffer \in Buffers :
            IF n = 0 \/ ~Accepts(buffer, n)
            THEN UNCHANGED <<cpc, call>>
            ELSE /\ Begin(h, [NoCall EXCEPT !.fn = "write",
                              !.chunk = SubSeq(left[h], 1, IF n < MaxTransfer THEN n ELSE MaxTransfer)])
                 /\ Proceed(h, "lock")
      BY <1>10 DEF CallWrite
    <3>2. SubSeq(left[h], 1, IF n < MaxTransfer THEN n ELSE MaxTransfer) \in Seq(OutputBytes)
      BY <1>5, SliceType
    <3>3. [NoCall EXCEPT !.fn = "write",
                         !.chunk = SubSeq(left[h], 1, IF n < MaxTransfer THEN n ELSE MaxTransfer)] \in ConsoleCalls
      BY <3>2, CallRecords DEF WriteFns
    <3> QED BY <1>1, <1>2, <1>4, <3>1, <3>3
  <2> QED BY <1>10, <2>1 DEF CallWrite
<1>11. CASE CallWriteByte(h)
  <2>1. <<Head(left[h])>> \in Seq(OutputBytes)
    BY <1>5, <1>11 DEF CallWriteByte
  <2>2. [NoCall EXCEPT !.fn = "write_byte", !.chunk = <<Head(left[h])>>] \in ConsoleCalls
    BY <2>1, CallRecords DEF WriteFns
  <2>3. Typed
    BY <1>1, <1>2, <1>4, <1>11, <2>2 DEF CallWriteByte
  <2> QED BY <1>11, <2>3 DEF CallWriteByte
<1>12. CASE FirmwarePrint(h)
  <2>2. [NoCall EXCEPT !.fn = "print", !.chunk = left[h]] \in ConsoleCalls
    BY <1>5, CallRecords DEF WriteFns
  <2>3. Typed
    BY <1>1, <1>2, <1>4, <1>12, <2>2 DEF FirmwarePrint
  <2> QED BY <1>12, <2>3 DEF FirmwarePrint
<1>13. CASE CallRead(h)
  <2>1. Typed
    <3>1. PICK n \in 0 .. MaxTransfer + 1, buffer \in Buffers :
            IF n = 0 \/ ~Accepts(buffer, n)
            THEN UNCHANGED <<cpc, call>>
            ELSE /\ Begin(h, [NoCall EXCEPT !.fn = "read", !.want = IF n < MaxTransfer THEN n ELSE MaxTransfer])
                 /\ Proceed(h, "lock")
      BY <1>13 DEF CallRead
    <3>2. (IF n < MaxTransfer THEN n ELSE MaxTransfer) \in Nat
      BY ConsoleAssumption
    <3>3. [NoCall EXCEPT !.fn = "read", !.want = IF n < MaxTransfer THEN n ELSE MaxTransfer] \in ConsoleCalls
      BY <1>5, <3>2, CallRecords
    <3> QED BY <1>1, <1>2, <1>4, <3>1, <3>3
  <2> QED BY <1>13, <2>1 DEF CallRead
<1>14. CASE Lock(h)
  <2>1. cpc' \in [ConsoleHarts -> ConsoleLabels]
    BY <1>1, <1>4, <1>14 DEF Lock
  <2> QED BY <1>14, <2>1 DEF Lock
<1>15. CASE PollTx(h)
  <2>1. cpc' \in [ConsoleHarts -> ConsoleLabels] /\ lock' \in ConsoleHarts \cup {"free"}
    BY <1>1, <1>4, <1>7, <1>15 DEF PollTx
  <2> QED BY <1>15, <2>1 DEF PollTx
<1>16. CASE Put(h)
  <2>1. call[h].chunk[call[h].count + 1] \in OutputBytes
    <3>1. call[h].fn \in WriteFns /\ call[h].count < Len(call[h].chunk)
      BY <1>16 DEF Put, WriteShape, CallShape
    <3>4. call[h].count \in Nat /\ Len(call[h].chunk) \in Nat /\ Len(left[h]) \in Nat
      BY <1>5 DEF ConsoleCalls
    <3>5. Len(call[h].chunk) <= Len(left[h])
      BY <3>1 DEF WriteShape
    <3>2. call[h].count + 1 \in 1 .. Len(call[h].chunk) /\ call[h].count + 1 \in 1 .. Len(left[h])
      BY ONLY <3>1, <3>4, <3>5
    <3>3. call[h].chunk[call[h].count + 1] = left[h][call[h].count + 1]
      BY <3>1, <3>2 DEF WriteShape
    <3> QED BY <1>5, <3>2, <3>3
  <2>2. tx' \in Seq(OutputBytes)
    BY <1>16, <2>1 DEF Put, PutByte
  <2>6. call[h].count + 1 \in Nat
    BY <1>5 DEF ConsoleCalls
  <2>3. [call[h] EXCEPT !.count = call[h].count + 1] \in ConsoleCalls
    BY <1>5, <2>6 DEF ConsoleCalls
  <2>4. call' = [call EXCEPT ![h] = [call[h] EXCEPT !.count = call[h].count + 1]]
    BY <1>16 DEF Put
  <2>5. Typed
    BY <1>1, <1>4, <1>16, <2>3, <2>4 DEF Put
  <2> QED BY <1>16, <2>2, <2>5 DEF Put
<1>17. CASE CountRx(h)
  <2> DEFINE n == IF Len(rx) < call[h].want THEN Len(rx) ELSE call[h].want
  <2>1. n \in Nat
    BY <1>5 DEF ConsoleCalls
  <2>2. call' = [call EXCEPT ![h] = [call[h] EXCEPT !.want = n]]
    BY <1>17 DEF CountRx
  <2> HIDE DEF n
  <2>3. [call[h] EXCEPT !.want = n] \in ConsoleCalls
    BY <1>5, <2>1 DEF ConsoleCalls
  <2>4. cpc' \in [ConsoleHarts -> ConsoleLabels] /\ lock' \in ConsoleHarts \cup {"free"}
    BY <1>1, <1>4, <1>7, <1>17 DEF CountRx
  <2>5. Typed
    BY <2>2, <2>3, <2>4
  <2> QED BY <1>17, <2>4, <2>5 DEF CountRx
<1>18. CASE PollRx(h)
  <2>1. CASE call[h].count = call[h].want \/ rx = <<>>
    <3>1. Release(h) /\ UNCHANGED <<call, rx>>
      BY <1>18, <2>1 DEF PollRx
    <3> QED BY <1>7, <1>18, <3>1 DEF PollRx
  <2>2. CASE ~(call[h].count = call[h].want \/ rx = <<>>) /\ kind = "SiFive"
    <3>1. TakeByte(h, "poll_rx") /\ rx # <<>>
      BY <1>18, <2>2 DEF PollRx
    <3>2. /\ call' \in [ConsoleHarts -> ConsoleCalls] /\ rx' \in Seq(RxEntries) /\ Len(rx') = Len(rx) - 1
          /\ cpc' \in [ConsoleHarts -> ConsoleLabels] /\ lock' \in ConsoleHarts \cup {"free"}
      BY <1>4, <3>1, TakeByteTypes
    <3> QED BY <1>18, <3>2, SMTT(30) DEF PollRx
  <2>3. CASE ~(call[h].count = call[h].want \/ rx = <<>>) /\ kind # "SiFive"
    <3>1. Proceed(h, "get") /\ UNCHANGED <<call, rx, lock>>
      BY <1>18, <2>3 DEF PollRx
    <3> QED BY <1>1, <1>4, <1>18, <3>1 DEF PollRx
  <2> QED BY <2>1, <2>2, <2>3
<1>19. CASE Get(h)
  <2>1. PICK label \in ConsoleLabels : TakeByte(h, label)
    BY <1>4, <1>19 DEF Get
  <2>2. /\ call' \in [ConsoleHarts -> ConsoleCalls] /\ rx' \in Seq(RxEntries) /\ Len(rx') = Len(rx) - 1
        /\ cpc' \in [ConsoleHarts -> ConsoleLabels] /\ lock' \in ConsoleHarts \cup {"free"}
    BY <1>19, <2>1, TakeByteTypes DEF Get
  <2> QED BY <1>19, <2>2 DEF Get
<1>20. CASE ReturnWrite(h)
  <2> DEFINE c == call[h]
             rest == SubSeq(c.chunk, c.count + 1, Len(c.chunk))
  <2>0. c.fn \in WriteFns
    BY <1>5, <1>20 DEF ReturnWrite, CallShape, ConsoleCalls
  <2>1. c.count \in 0 .. Len(c.chunk) /\ c.count \in 0 .. Len(left[h])
    BY <1>5, <2>0 DEF ConsoleCalls, WriteShape
  <2>2. SubSeq(left[h], c.count + 1, Len(left[h])) \in Seq(OutputBytes)
    BY <1>5, <2>1, RestType
  <2>3. rest \in Seq(OutputBytes \cup Nat)
    BY <1>5, <2>1, RestType DEF ConsoleCalls
  <2>4. left' \in [ConsoleHarts -> Seq(OutputBytes)]
    BY <1>20, <2>2 DEF ReturnWrite
  <2> HIDE DEF rest
  <2>5. [c EXCEPT !.chunk = rest, !.count = 0] \in ConsoleCalls
    BY <1>5, <2>3 DEF ConsoleCalls
  <2>6. Typed
    <3>1. \/ Proceed(h, "smode") /\ Begin(h, NoCall)
          \/ Proceed(h, "lock") /\ Begin(h, [c EXCEPT !.chunk = rest, !.count = 0])
      BY <1>20 DEF ReturnWrite, rest
    <3> HIDE DEF c
    <3> QED BY <1>1, <1>2, <1>4, <1>6, <2>5, <3>1
  <2> QED BY <1>20, <2>4, <2>6 DEF ReturnWrite
<1>21. CASE ReturnRead(h)
  <2>1. Typed
    BY <1>1, <1>2, <1>4, <1>6, <1>21 DEF ReturnRead
  <2>2. call[h].chunk \in Seq(Nat)
    BY <1>21 DEF ReturnRead, ReadShape
  <2>3. ToSet(call[h].chunk) \subseteq Nat /\ delivered[h] \o call[h].chunk \in Seq(Nat)
    BY <1>5, <2>2, ElementsAt, SMTT(30)
  <2>4. delivered' \in [ConsoleHarts -> Seq(Nat)] /\ lost' \in SUBSET Nat
    BY <1>21, <2>3 DEF ReturnRead
  <2> QED BY <1>21, <2>1, <2>4 DEF ReturnRead
<1> QED BY <1>10, <1>11, <1>12, <1>13, <1>14, <1>15, <1>16, <1>17, <1>18, <1>19, <1>20, <1>21
        DEF Calls, ConsoleStep

\* The line keeps the types.
LEMMA LineTypes ==
    ASSUME ConsoleTypeOK, Transmit \/ Arrive, UNCHANGED clock
    PROVE  ConsoleTypeOK'
<1> USE DEF ConsoleTypeOK
<1>1. CASE Transmit
  <2>1. tx' \in Seq(OutputBytes) /\ wire' \in Seq(OutputBytes)
    BY <1>1, MoveHead DEF Transmit
  <2> QED BY <1>1, <2>1 DEF Transmit
<1>2. CASE Arrive
  <2>1. PICK e \in BOOLEAN : rx' = Append(rx, [byte |-> arrived + 1, error |-> e])
    BY <1>2 DEF Arrive
  <2>2. [byte |-> arrived + 1, error |-> e] \in RxEntries
    BY DEF RxEntries
  <2>3. rx' \in Seq(RxEntries) /\ Len(rx') = Len(rx) + 1
    BY <2>1, <2>2
  <2> QED BY <1>2, <2>3 DEF Arrive
<1> QED BY <1>1, <1>2

-----------------------------------------------------------------------------
(* What each step does.                                                  *)

\* A new call: a write takes the beginning of what is left, a read nothing yet.
LEMMA CallsEffect ==
    ASSUME ConsoleTypeOK, NEW h \in ConsoleHarts, Calls(h)
    PROVE  /\ UNCHANGED <<left, lock, tx, wire, rx, arrived, delivered, lost>>
           /\ cpc[h] = "smode"
           /\ \/ UNCHANGED <<cpc, call>>
              \/ /\ cpc' = [cpc EXCEPT ![h] = "lock"]
                 /\ call' = [call EXCEPT ![h] = call'[h]]
                 /\ call'[h].count = 0
                 /\ \/ call'[h].fn = "read" /\ call'[h].chunk = <<>>
                    \/ /\ call'[h].fn \in WriteFns
                       /\ Len(call'[h].chunk) <= Len(left[h])
                       /\ \A i \in 1 .. Len(call'[h].chunk) : call'[h].chunk[i] = left[h][i]
<1>0. left[h] \in Seq(OutputBytes) /\ call \in [ConsoleHarts -> ConsoleCalls]
  BY DEF ConsoleTypeOK
<1> DEFINE Slice(c) == /\ c.fn \in WriteFns /\ c.count = 0
                       /\ Len(c.chunk) <= Len(left[h])
                       /\ \A i \in 1 .. Len(c.chunk) : c.chunk[i] = left[h][i]
           Goal == /\ UNCHANGED <<left, lock, tx, wire, rx, arrived, delivered, lost>>
                   /\ cpc[h] = "smode"
                   /\ \/ UNCHANGED <<cpc, call>>
                      \/ /\ cpc' = [cpc EXCEPT ![h] = "lock"]
                         /\ call' = [call EXCEPT ![h] = call'[h]]
                         /\ call'[h].count = 0
                         /\ \/ call'[h].fn = "read" /\ call'[h].chunk = <<>>
                            \/ Slice(call'[h])
<1>1. \A f \in WriteFns, s \in Seq(OutputBytes) :
        Len(s) <= Len(left[h]) /\ (\A i \in 1 .. Len(s) : s[i] = left[h][i])
        => Slice([NoCall EXCEPT !.fn = f, !.chunk = s])
  BY DEF NoCall
<1>2. \A c : Begin(h, c) => call' = [call EXCEPT ![h] = call'[h]] /\ call'[h] = c
  BY <1>0 DEF Begin
<1>3. CASE CallWrite(h)
  <2>1. PICK n \in 0 .. Len(left[h]), buffer \in Buffers :
          IF n = 0 \/ ~Accepts(buffer, n)
          THEN UNCHANGED <<cpc, call>>
          ELSE /\ Begin(h, [NoCall EXCEPT !.fn = "write",
                            !.chunk = SubSeq(left[h], 1, IF n < MaxTransfer THEN n ELSE MaxTransfer)])
               /\ Proceed(h, "lock")
    BY <1>3 DEF CallWrite
  <2> DEFINE s == SubSeq(left[h], 1, IF n < MaxTransfer THEN n ELSE MaxTransfer)
  <2>2. s \in Seq(OutputBytes) /\ Len(s) <= Len(left[h]) /\ \A i \in 1 .. Len(s) : s[i] = left[h][i]
    BY <1>0, SliceType
  <2>3. \/ UNCHANGED <<cpc, call>>
        \/ Begin(h, [NoCall EXCEPT !.fn = "write", !.chunk = s]) /\ Proceed(h, "lock")
    BY <2>1
  <2> HIDE DEF s
  <2>4. Slice([NoCall EXCEPT !.fn = "write", !.chunk = s])
    BY <1>1, <2>2 DEF WriteFns
  <2> HIDE DEF Slice
  <2>5. \/ UNCHANGED <<cpc, call>>
        \/ /\ call' = [call EXCEPT ![h] = call'[h]] /\ Slice(call'[h])
           /\ cpc' = [cpc EXCEPT ![h] = "lock"]
    BY <1>2, <2>3, <2>4 DEF Proceed
  <2>6. Slice(call'[h]) => call'[h].count = 0
    BY DEF Slice
  <2>7. Goal
    BY <1>3, <2>5, <2>6 DEF CallWrite
  <2> QED BY <2>7 DEF Slice
<1>4. CASE CallWriteByte(h)
  <2> DEFINE s == <<Head(left[h])>>
  <2>2. s \in Seq(OutputBytes) /\ Len(s) <= Len(left[h]) /\ \A i \in 1 .. Len(s) : s[i] = left[h][i]
    BY <1>0, <1>4 DEF CallWriteByte
  <2>3. Begin(h, [NoCall EXCEPT !.fn = "write_byte", !.chunk = s]) /\ Proceed(h, "lock")
    BY <1>4 DEF CallWriteByte
  <2> HIDE DEF s
  <2>4. Slice([NoCall EXCEPT !.fn = "write_byte", !.chunk = s])
    BY <1>1, <2>2 DEF WriteFns
  <2> HIDE DEF Slice
  <2>5. /\ call' = [call EXCEPT ![h] = call'[h]] /\ Slice(call'[h])
        /\ cpc' = [cpc EXCEPT ![h] = "lock"]
    BY <1>2, <2>3, <2>4 DEF Proceed
  <2>6. Slice(call'[h]) => call'[h].count = 0
    BY DEF Slice
  <2>7. Goal
    BY <1>4, <2>5, <2>6 DEF CallWriteByte
  <2> QED BY <2>7 DEF Slice
<1>5. CASE FirmwarePrint(h)
  <2> DEFINE s == left[h]
  <2>2. s \in Seq(OutputBytes) /\ Len(s) <= Len(left[h]) /\ \A i \in 1 .. Len(s) : s[i] = left[h][i]
    BY <1>0
  <2>3. Begin(h, [NoCall EXCEPT !.fn = "print", !.chunk = s]) /\ Proceed(h, "lock")
    BY <1>5 DEF FirmwarePrint
  <2> HIDE DEF s
  <2>4. Slice([NoCall EXCEPT !.fn = "print", !.chunk = s])
    BY <1>1, <2>2 DEF WriteFns
  <2> HIDE DEF Slice
  <2>5. /\ call' = [call EXCEPT ![h] = call'[h]] /\ Slice(call'[h])
        /\ cpc' = [cpc EXCEPT ![h] = "lock"]
    BY <1>2, <2>3, <2>4 DEF Proceed
  <2>6. Slice(call'[h]) => call'[h].count = 0
    BY DEF Slice
  <2>7. Goal
    BY <1>5, <2>5, <2>6 DEF FirmwarePrint
  <2> QED BY <2>7 DEF Slice
<1>6. CASE CallRead(h)
  <2>1. PICK n \in 0 .. MaxTransfer + 1, buffer \in Buffers :
          IF n = 0 \/ ~Accepts(buffer, n)
          THEN UNCHANGED <<cpc, call>>
          ELSE /\ Begin(h, [NoCall EXCEPT !.fn = "read", !.want = IF n < MaxTransfer THEN n ELSE MaxTransfer])
               /\ Proceed(h, "lock")
    BY <1>6 DEF CallRead
  <2> DEFINE m == IF n < MaxTransfer THEN n ELSE MaxTransfer
  <2>2. \/ UNCHANGED <<cpc, call>>
        \/ Begin(h, [NoCall EXCEPT !.fn = "read", !.want = m]) /\ Proceed(h, "lock")
    BY <2>1
  <2> HIDE DEF m
  <2>3. LET c == [NoCall EXCEPT !.fn = "read", !.want = m]
        IN  c.fn = "read" /\ c.count = 0 /\ c.chunk = <<>>
    BY DEF NoCall
  <2>4. \/ UNCHANGED <<cpc, call>>
        \/ /\ call' = [call EXCEPT ![h] = call'[h]]
           /\ call'[h].fn = "read" /\ call'[h].count = 0 /\ call'[h].chunk = <<>>
           /\ cpc' = [cpc EXCEPT ![h] = "lock"]
    BY <1>2, <2>2, <2>3 DEF Proceed
  <2> HIDE DEF Slice
  <2>5. Goal
    BY <1>6, <2>4 DEF CallRead
  <2> QED BY <2>5 DEF Slice
<1> QED BY <1>3, <1>4, <1>5, <1>6 DEF Calls

\* The step of the lock.
LEMMA LockEffect ==
    ASSUME ConsoleTypeOK, NEW h \in ConsoleHarts, Lock(h)
    PROVE  /\ UNCHANGED <<call, left, tx, wire, rx, arrived, delivered, lost>>
           /\ cpc[h] = "lock" /\ lock = "free" /\ lock' = h
           /\ cpc' = [cpc EXCEPT ![h] = cpc'[h]]
           /\ \/ cpc'[h] = "poll_tx" /\ call[h].fn # "read"
              \/ cpc'[h] = "poll_rx" /\ call[h].fn = "read" /\ kind # "Bl808"
              \/ cpc'[h] = "count" /\ call[h].fn = "read" /\ kind = "Bl808"
BY DEF Lock, Proceed, ConsoleTypeOK

\* A poll of the transmit queue.
LEMMA PollTxEffect ==
    ASSUME ConsoleTypeOK, NEW h \in ConsoleHarts, PollTx(h)
    PROVE  /\ UNCHANGED <<call, left, tx, wire, rx, arrived, delivered, lost>>
           /\ cpc[h] = "poll_tx"
           /\ cpc' = [cpc EXCEPT ![h] = cpc'[h]]
           /\ \/ cpc'[h] = "put" /\ lock' = lock /\ call[h].count < Len(call[h].chunk) /\ Len(tx) < FifoDepth
              \/ cpc'[h] = "return" /\ lock' = "free"
<1>1. TxReady => Len(tx) < FifoDepth
  BY ConsoleAssumption DEF TxReady
<1> QED BY <1>1 DEF PollTx, Proceed, Release, ConsoleTypeOK

\* A store to the transmit queue.
LEMMA PutEffect ==
    ASSUME ConsoleTypeOK, NEW h \in ConsoleHarts, Put(h)
    PROVE  /\ UNCHANGED <<left, lock, wire, rx, arrived, delivered, lost>>
           /\ cpc[h] = "put" /\ cpc' = [cpc EXCEPT ![h] = "poll_tx"]
           /\ call' = [call EXCEPT ![h] = call'[h]]
           /\ call'[h].fn = call[h].fn /\ call'[h].chunk = call[h].chunk /\ call'[h].count = call[h].count + 1
           /\ Len(tx) < FifoDepth => tx' = Append(tx, call[h].chunk[call[h].count + 1])
<1>1. call \in [ConsoleHarts -> ConsoleCalls] /\ cpc \in [ConsoleHarts -> ConsoleLabels]
  BY DEF ConsoleTypeOK
<1>2. call'[h] = [call[h] EXCEPT !.count = call[h].count + 1] /\ call' = [call EXCEPT ![h] = call'[h]]
  BY <1>1 DEF Put
<1>3. call[h] \in ConsoleCalls
  BY <1>1
<1>4. call'[h].fn = call[h].fn /\ call'[h].chunk = call[h].chunk /\ call'[h].count = call[h].count + 1
  BY <1>2, <1>3 DEF ConsoleCalls
<1> QED BY <1>2, <1>4 DEF Put, PutByte, Proceed

\* The count of a Bl808.
LEMMA CountRxEffect ==
    ASSUME ConsoleTypeOK, NEW h \in ConsoleHarts, CountRx(h)
    PROVE  /\ UNCHANGED <<left, tx, wire, rx, arrived, delivered, lost>>
           /\ cpc[h] = "count" /\ cpc' = [cpc EXCEPT ![h] = cpc'[h]]
           /\ call' = [call EXCEPT ![h] = call'[h]]
           /\ call'[h].fn = call[h].fn /\ call'[h].chunk = call[h].chunk /\ call'[h].count = call[h].count
           /\ call'[h].want <= Len(rx) /\ call'[h].want \in Nat
           /\ \/ cpc'[h] = "return" /\ lock' = "free"
              \/ cpc'[h] = "get" /\ lock' = lock /\ call'[h].want > 0
<1> DEFINE n == IF Len(rx) < call[h].want THEN Len(rx) ELSE call[h].want
<1>1. call \in [ConsoleHarts -> ConsoleCalls] /\ cpc \in [ConsoleHarts -> ConsoleLabels] /\ Len(rx) \in Nat
  BY DEF ConsoleTypeOK
<1>2. call[h] \in ConsoleCalls
  BY <1>1
<1>3. n \in Nat /\ n <= Len(rx)
  BY <1>1, <1>2 DEF ConsoleCalls
<1>4. /\ call' = [call EXCEPT ![h].want = n]
      /\ IF n = 0 THEN Release(h) ELSE Proceed(h, "get") /\ UNCHANGED lock
  BY DEF CountRx
<1> HIDE DEF n
<1>5. call'[h] = [call[h] EXCEPT !.want = n] /\ call' = [call EXCEPT ![h] = call'[h]]
  BY <1>1, <1>4
<1>6. call'[h].fn = call[h].fn /\ call'[h].chunk = call[h].chunk /\ call'[h].count = call[h].count
      /\ call'[h].want = n
  BY <1>2, <1>5 DEF ConsoleCalls
<1>7. /\ cpc' = [cpc EXCEPT ![h] = cpc'[h]]
      /\ \/ cpc'[h] = "return" /\ lock' = "free"
         \/ cpc'[h] = "get" /\ lock' = lock /\ n > 0
  BY <1>1, <1>3, <1>4 DEF Release, Proceed
<1> QED BY <1>3, <1>5, <1>6, <1>7 DEF CountRx

\* The head of the receive queue goes to the end of the slice.
LEMMA TakeByteEffect ==
    ASSUME ConsoleTypeOK, NEW h \in ConsoleHarts, rx # <<>>, NEW label, TakeByte(h, label)
    PROVE  /\ rx' = Tail(rx)
           /\ call' = [call EXCEPT ![h] = call'[h]] /\ cpc' = [cpc EXCEPT ![h] = cpc'[h]]
           /\ call'[h].fn = call[h].fn /\ call'[h].count = call[h].count + 1 /\ call'[h].want = call[h].want
           /\ call'[h].chunk = Append(call[h].chunk, rx[1].byte) /\ rx[1].byte \in Nat
           /\ \/ cpc'[h] = "return" /\ lock' = "free"
              \/ cpc'[h] = label /\ lock' = lock /\ ~(kind = "Bl808" /\ call'[h].count = call'[h].want)
<1> DEFINE b == Head(rx)
           c == [call[h] EXCEPT !.chunk = Append(@, b.byte), !.count = @ + 1, !.failed = b.error]
<1>1. call \in [ConsoleHarts -> ConsoleCalls] /\ cpc \in [ConsoleHarts -> ConsoleLabels] /\ rx \in Seq(RxEntries)
  BY DEF ConsoleTypeOK
<1>2. call[h] \in ConsoleCalls
  BY <1>1
<1>3. b \in RxEntries /\ b = rx[1]
  BY <1>1
<1>4. b.byte \in Nat /\ b.error \in BOOLEAN
  BY <1>3 DEF RxEntries
<1>5. /\ rx' = Tail(rx)
      /\ call' = [call EXCEPT ![h] = c]
      /\ IF c.failed \/ (kind = "Bl808" /\ c.count = c.want)
         THEN Release(h)
         ELSE Proceed(h, label) /\ UNCHANGED lock
  BY DEF TakeByte
<1> HIDE DEF b
<1>6. c.fn = call[h].fn /\ c.count = call[h].count + 1 /\ c.want = call[h].want
      /\ c.chunk = Append(call[h].chunk, b.byte)
  BY <1>2 DEF ConsoleCalls
<1> HIDE DEF c
<1>7. call'[h] = c /\ call' = [call EXCEPT ![h] = call'[h]]
  BY <1>1, <1>5
<1>8. /\ cpc' = [cpc EXCEPT ![h] = cpc'[h]]
      /\ \/ cpc'[h] = "return" /\ lock' = "free"
         \/ cpc'[h] = label /\ lock' = lock /\ ~(kind = "Bl808" /\ c.count = c.want)
  BY <1>1, <1>5 DEF Release, Proceed
<1> QED BY <1>3, <1>4, <1>5, <1>6, <1>7, <1>8

\* A poll of the receive queue.
LEMMA PollRxEffect ==
    ASSUME ConsoleTypeOK, NEW h \in ConsoleHarts, PollRx(h)
    PROVE  /\ UNCHANGED <<left, tx, wire, arrived, delivered, lost>>
           /\ cpc[h] = "poll_rx"
           /\ \/ /\ UNCHANGED <<call, rx>>
                 /\ cpc' = [cpc EXCEPT ![h] = cpc'[h]]
                 /\ \/ cpc'[h] = "return" /\ lock' = "free"
                    \/ cpc'[h] = "get" /\ lock' = lock /\ rx # <<>>
              \/ rx # <<>> /\ TakeByte(h, "poll_rx")
<1>0. cpc \in [ConsoleHarts -> ConsoleLabels]
  BY DEF ConsoleTypeOK
<1>1. CASE call[h].count = call[h].want \/ rx = <<>>
  <2>1. Release(h) /\ UNCHANGED <<call, rx>>
    BY <1>1 DEF PollRx
  <2> QED BY <1>0, <2>1 DEF PollRx, Release, Proceed
<1>2. CASE ~(call[h].count = call[h].want \/ rx = <<>>) /\ kind = "SiFive"
  <2>1. TakeByte(h, "poll_rx") /\ rx # <<>>
    BY <1>2 DEF PollRx
  <2> QED BY <2>1 DEF PollRx
<1>3. CASE ~(call[h].count = call[h].want \/ rx = <<>>) /\ kind # "SiFive"
  <2>1. Proceed(h, "get") /\ UNCHANGED <<call, rx, lock>> /\ rx # <<>>
    BY <1>3 DEF PollRx
  <2> QED BY <1>0, <2>1 DEF PollRx, Proceed
<1> QED BY <1>1, <1>2, <1>3

\* The end of a write.
LEMMA ReturnWriteEffect ==
    ASSUME ConsoleTypeOK, NEW h \in ConsoleHarts, CallShape(h), WriteShape(h), ReturnWrite(h)
    PROVE  /\ UNCHANGED <<lock, tx, wire, rx, arrived, delivered, lost>>
           /\ cpc[h] = "return" /\ cpc' = [cpc EXCEPT ![h] = cpc'[h]]
           /\ call' = [call EXCEPT ![h] = call'[h]]
           /\ left' = [left EXCEPT ![h] = SubSeq(left[h], call[h].count + 1, Len(left[h]))]
           /\ call[h].fn \in WriteFns
           /\ call[h].count \in 0 .. Len(call[h].chunk) /\ call[h].count \in 0 .. Len(left[h])
           /\ call'[h].count = 0
           /\ \/ cpc'[h] = "smode" /\ call'[h].fn = "none"
              \/ /\ cpc'[h] = "lock" /\ call'[h].fn = call[h].fn
                 /\ call'[h].chunk = SubSeq(call[h].chunk, call[h].count + 1, Len(call[h].chunk))
<1> DEFINE c == call[h]
           rest == SubSeq(c.chunk, c.count + 1, Len(c.chunk))
<1>1. call \in [ConsoleHarts -> ConsoleCalls] /\ cpc \in [ConsoleHarts -> ConsoleLabels] /\ left[h] \in Seq(OutputBytes)
  BY DEF ConsoleTypeOK
<1>2. c \in ConsoleCalls
  BY <1>1
<1>3. c.fn \in WriteFns
  BY <1>2 DEF ReturnWrite, CallShape, ConsoleCalls
<1>4. c.count \in 0 .. Len(c.chunk) /\ c.count \in 0 .. Len(left[h])
  BY <1>1, <1>2, <1>3 DEF ConsoleCalls, WriteShape
<1>5. \/ Proceed(h, "smode") /\ Begin(h, NoCall)
      \/ Proceed(h, "lock") /\ Begin(h, [c EXCEPT !.chunk = rest, !.count = 0])
  BY DEF ReturnWrite
<1>6. cpc[h] = "return" /\ UNCHANGED <<lock, tx, wire, rx, arrived, delivered, lost>>
      /\ left' = [left EXCEPT ![h] = SubSeq(left[h], c.count + 1, Len(left[h]))]
  BY DEF ReturnWrite
<1> HIDE DEF rest
<1>7. [c EXCEPT !.chunk = rest, !.count = 0].fn = c.fn /\ [c EXCEPT !.chunk = rest, !.count = 0].count = 0
      /\ [c EXCEPT !.chunk = rest, !.count = 0].chunk = rest
  BY <1>2 DEF ConsoleCalls
<1>8. NoCall.fn = "none" /\ NoCall.count = 0
  BY DEF NoCall
<1>9. \/ cpc' = [cpc EXCEPT ![h] = "smode"] /\ call' = [call EXCEPT ![h] = NoCall]
      \/ cpc' = [cpc EXCEPT ![h] = "lock"] /\ call' = [call EXCEPT ![h] = [c EXCEPT !.chunk = rest, !.count = 0]]
  BY <1>5 DEF Proceed, Begin
<1>10. CASE cpc' = [cpc EXCEPT ![h] = "smode"] /\ call' = [call EXCEPT ![h] = NoCall]
  <2>1. cpc'[h] = "smode" /\ call'[h] = NoCall
    BY <1>1, <1>10
  <2> HIDE DEF c
  <2> QED BY <1>3, <1>4, <1>6, <1>8, <1>10, <2>1 DEF c
<1>11. CASE cpc' = [cpc EXCEPT ![h] = "lock"] /\ call' = [call EXCEPT ![h] = [c EXCEPT !.chunk = rest, !.count = 0]]
  <2>1. cpc'[h] = "lock" /\ call'[h] = [c EXCEPT !.chunk = rest, !.count = 0]
    BY <1>1, <1>11
  <2> QED BY <1>3, <1>4, <1>6, <1>7, <1>11, <2>1 DEF rest
<1> QED BY <1>9, <1>10, <1>11

\* The end of a read.
LEMMA ReturnReadEffect ==
    ASSUME ConsoleTypeOK, NEW h \in ConsoleHarts, ReturnRead(h)
    PROVE  /\ UNCHANGED <<left, lock, tx, wire, rx, arrived>>
           /\ cpc[h] = "return" /\ cpc' = [cpc EXCEPT ![h] = "smode"]
           /\ call' = [call EXCEPT ![h] = call'[h]]
           /\ call[h].fn = "read" /\ call'[h].fn = "none" /\ call'[h].count = 0
           /\ \/ lost' = lost \cup ToSet(call[h].chunk) /\ delivered' = delivered
              \/ lost' = lost /\ delivered' = [delivered EXCEPT ![h] = delivered[h] \o call[h].chunk]
<1>1. call \in [ConsoleHarts -> ConsoleCalls]
  BY DEF ConsoleTypeOK
<1>2. call' = [call EXCEPT ![h] = NoCall]
  BY DEF ReturnRead, Begin
<1>3. NoCall.fn = "none" /\ NoCall.count = 0
  BY DEF NoCall
<1>4. call'[h] = NoCall
  BY <1>1, <1>2
<1>5. call' = [call EXCEPT ![h] = call'[h]] /\ call'[h].fn = "none" /\ call'[h].count = 0
  BY <1>2, <1>3, <1>4
<1>6. UNCHANGED <<left, lock, tx, wire, rx, arrived>> /\ cpc[h] = "return" /\ cpc' = [cpc EXCEPT ![h] = "smode"]
      /\ call[h].fn = "read"
  BY DEF ReturnRead, Proceed
<1>7. \/ lost' = lost \cup ToSet(call[h].chunk) /\ delivered' = delivered
      \/ lost' = lost /\ delivered' = [delivered EXCEPT ![h] = delivered[h] \o call[h].chunk]
  BY DEF ReturnRead
<1> QED BY <1>5, <1>6, <1>7

-----------------------------------------------------------------------------
(* Control.                                                              *)

\* A step of a hart leaves the locals of the others alone, and the lock goes
\* from free to the hart or back.
LEMMA HartFrame ==
    ASSUME ConsoleTypeOK, NEW h \in ConsoleHarts, CallShape(h), WriteShape(h),
           Calls(h) \/ ConsoleStep(h)
    PROVE  /\ \A g \in ConsoleHarts : g # h =>
                cpc'[g] = cpc[g] /\ call'[g] = call[g] /\ left'[g] = left[g] /\ delivered'[g] = delivered[g]
           /\ lock' = lock \/ (lock = h /\ lock' = "free") \/ (lock = "free" /\ lock' = h)
<1> DEFINE Apart == \A g \in ConsoleHarts : g # h =>
                cpc'[g] = cpc[g] /\ call'[g] = call[g] /\ left'[g] = left[g] /\ delivered'[g] = delivered[g]
           LockMoves == lock' = lock \/ (lock = h /\ lock' = "free") \/ (lock = "free" /\ lock' = h)
<1>1. /\ cpc \in [ConsoleHarts -> ConsoleLabels] /\ call \in [ConsoleHarts -> ConsoleCalls]
      /\ left \in [ConsoleHarts -> Seq(OutputBytes)] /\ delivered \in [ConsoleHarts -> Seq(Nat)]
  BY DEF ConsoleTypeOK
<1>2. \A g \in ConsoleHarts : \A x : g # h =>
        /\ cpc' = [cpc EXCEPT ![h] = x] => cpc'[g] = cpc[g]
        /\ call' = [call EXCEPT ![h] = x] => call'[g] = call[g]
        /\ left' = [left EXCEPT ![h] = x] => left'[g] = left[g]
        /\ delivered' = [delivered EXCEPT ![h] = x] => delivered'[g] = delivered[g]
  BY <1>1
<1>3. cpc[h] \in DeviceSteps <=> lock = h
  BY DEF CallShape
<1>4. {"poll_tx", "put", "count", "poll_rx", "get"} \subseteq DeviceSteps
  BY DEF DeviceSteps
<1>5. CASE Calls(h)
  <2>1. /\ UNCHANGED <<left, lock, delivered>>
        /\ \/ UNCHANGED <<cpc, call>>
           \/ cpc' = [cpc EXCEPT ![h] = "lock"] /\ call' = [call EXCEPT ![h] = call'[h]]
    BY <1>5, CallsEffect
  <2> QED BY <1>2, <2>1
<1>6. CASE Lock(h)
  <2>1. /\ UNCHANGED <<call, left, delivered>> /\ lock = "free" /\ lock' = h
        /\ cpc' = [cpc EXCEPT ![h] = cpc'[h]]
    BY <1>6, LockEffect
  <2> QED BY <1>2, <2>1
<1>7. CASE PollTx(h)
  <2>1. /\ UNCHANGED <<call, left, delivered>> /\ cpc[h] = "poll_tx" /\ cpc' = [cpc EXCEPT ![h] = cpc'[h]]
        /\ lock' = lock \/ lock' = "free"
    BY <1>7, PollTxEffect
  <2> QED BY <1>2, <1>3, <1>4, <2>1
<1>8. CASE Put(h)
  <2>1. /\ UNCHANGED <<left, lock, delivered>> /\ cpc' = [cpc EXCEPT ![h] = "poll_tx"]
        /\ call' = [call EXCEPT ![h] = call'[h]]
    BY <1>8, PutEffect
  <2> QED BY <1>2, <2>1
<1>9. CASE CountRx(h)
  <2>1. /\ UNCHANGED <<left, delivered>> /\ cpc[h] = "count" /\ cpc' = [cpc EXCEPT ![h] = cpc'[h]]
        /\ call' = [call EXCEPT ![h] = call'[h]]
        /\ lock' = lock \/ lock' = "free"
    BY <1>9, CountRxEffect
  <2> QED BY <1>2, <1>3, <1>4, <2>1
<1>10. ASSUME NEW label, rx # <<>>, TakeByte(h, label), UNCHANGED <<left, delivered>>, cpc[h] \in {"poll_rx", "get"}
       PROVE  Apart /\ LockMoves
  <2>1. /\ cpc' = [cpc EXCEPT ![h] = cpc'[h]] /\ call' = [call EXCEPT ![h] = call'[h]]
        /\ lock' = lock \/ lock' = "free"
    BY <1>10, TakeByteEffect
  <2> QED BY <1>2, <1>3, <1>4, <1>10, <2>1
<1>11. CASE PollRx(h)
  <2>1. /\ UNCHANGED <<left, delivered>> /\ cpc[h] = "poll_rx"
        /\ \/ /\ UNCHANGED <<call, rx>> /\ cpc' = [cpc EXCEPT ![h] = cpc'[h]]
              /\ lock' = lock \/ lock' = "free"
           \/ rx # <<>> /\ TakeByte(h, "poll_rx")
    BY <1>11, PollRxEffect
  <2>2. CASE rx # <<>> /\ TakeByte(h, "poll_rx")
    BY <1>10, <2>1, <2>2
  <2>3. CASE /\ UNCHANGED <<call, rx>> /\ cpc' = [cpc EXCEPT ![h] = cpc'[h]]
             /\ lock' = lock \/ lock' = "free"
    BY <1>2, <1>3, <1>4, <2>1, <2>3
  <2> QED BY <2>1, <2>2, <2>3
<1>12. CASE Get(h)
  <2>1. UNCHANGED <<left, delivered>> /\ cpc[h] = "get" /\ rx # <<>> /\ \E label : TakeByte(h, label)
    BY <1>12 DEF Get
  <2> QED BY <1>10, <2>1
<1>13. CASE ReturnWrite(h)
  <2>1. /\ UNCHANGED <<lock, delivered>> /\ cpc' = [cpc EXCEPT ![h] = cpc'[h]]
        /\ call' = [call EXCEPT ![h] = call'[h]]
        /\ left' = [left EXCEPT ![h] = SubSeq(left[h], call[h].count + 1, Len(left[h]))]
    BY <1>13, ReturnWriteEffect
  <2> QED BY <1>2, <2>1
<1>14. CASE ReturnRead(h)
  <2>1. /\ UNCHANGED <<lock, left>> /\ cpc' = [cpc EXCEPT ![h] = "smode"]
        /\ call' = [call EXCEPT ![h] = call'[h]]
        /\ \/ delivered' = delivered
           \/ delivered' = [delivered EXCEPT ![h] = delivered[h] \o call[h].chunk]
    BY <1>14, ReturnReadEffect
  <2> QED BY <1>2, <2>1
<1> QED BY <1>5, <1>6, <1>7, <1>8, <1>9, <1>11, <1>12, <1>13, <1>14 DEF ConsoleStep

\* The control of every hart is kept by a step of one of them.
LEMMA CallShapeStep ==
    ASSUME ConsoleTypeOK, NEW h \in ConsoleHarts, \A g \in ConsoleHarts : CallShape(g), WriteShape(h),
           ReadShape(h), Calls(h) \/ ConsoleStep(h), UNCHANGED kind
    PROVE  \A g \in ConsoleHarts : CallShape(g)'
<1>1. ASSUME NEW g \in ConsoleHarts, g # h PROVE CallShape(g)'
  <2>1. /\ cpc'[g] = cpc[g] /\ call'[g] = call[g]
        /\ lock' = lock \/ (lock = h /\ lock' = "free") \/ (lock = "free" /\ lock' = h)
    BY <1>1, HartFrame
  <2>2. lock' = g <=> lock = g
    BY <1>1, <2>1, ConsoleAssumption
  <2> QED BY <2>1, <2>2 DEF CallShape
<1>2. CallShape(h)'
  <2>0. /\ cpc \in [ConsoleHarts -> ConsoleLabels] /\ call \in [ConsoleHarts -> ConsoleCalls]
        /\ CallShape(h) /\ "free" # h
    BY ConsoleAssumption DEF ConsoleTypeOK
  <2>1. \A x : cpc' = [cpc EXCEPT ![h] = x] => cpc'[h] = x
    BY <2>0
  <2>2. CASE Calls(h)
    <3>1. /\ UNCHANGED lock /\ cpc[h] = "smode"
          /\ \/ UNCHANGED <<cpc, call>>
             \/ /\ cpc'[h] = "lock" /\ call'[h].count = 0
                /\ call'[h].fn = "read" \/ call'[h].fn \in WriteFns
      BY <2>1, <2>2, CallsEffect
    <3> QED BY <2>0, <3>1 DEF CallShape, DeviceSteps, WriteFns
  <2>3. CASE Lock(h)
    <3>1. /\ UNCHANGED call /\ cpc[h] = "lock" /\ lock' = h
          /\ \/ cpc'[h] = "poll_tx" /\ call[h].fn # "read"
             \/ cpc'[h] = "poll_rx" /\ call[h].fn = "read" /\ kind # "Bl808"
             \/ cpc'[h] = "count" /\ call[h].fn = "read" /\ kind = "Bl808"
      BY <2>3, LockEffect
    <3>2. call[h].fn \in WriteFns \cup {"read", "none"}
      BY <2>0 DEF ConsoleCalls
    <3> QED BY <2>0, <3>1, <3>2 DEF CallShape, DeviceSteps, WriteFns
  <2>4. CASE PollTx(h)
    <3>1. /\ UNCHANGED call /\ cpc[h] = "poll_tx"
          /\ \/ cpc'[h] = "put" /\ lock' = lock
             \/ cpc'[h] = "return" /\ lock' = "free"
      BY <2>4, PollTxEffect
    <3> QED BY <2>0, <3>1 DEF CallShape, DeviceSteps, WriteFns
  <2>5. CASE Put(h)
    <3>1. UNCHANGED lock /\ cpc[h] = "put" /\ cpc'[h] = "poll_tx" /\ call'[h].fn = call[h].fn
      BY <2>1, <2>5, PutEffect
    <3> QED BY <2>0, <3>1 DEF CallShape, DeviceSteps, WriteFns
  <2>6. CASE CountRx(h)
    <3>1. /\ cpc[h] = "count" /\ call'[h].fn = call[h].fn
          /\ \/ cpc'[h] = "return" /\ lock' = "free"
             \/ cpc'[h] = "get" /\ lock' = lock
      BY <2>6, CountRxEffect
    <3> QED BY <2>0, <3>1 DEF CallShape, DeviceSteps, WriteFns
  <2>7. ASSUME NEW label, rx # <<>>, TakeByte(h, label), cpc[h] \in {"poll_rx", "get"}, label \in {"poll_rx", "get"},
               label = "poll_rx" => kind # "Bl808"
        PROVE  CallShape(h)'
    <3>1. /\ call'[h].fn = call[h].fn
          /\ \/ cpc'[h] = "return" /\ lock' = "free"
             \/ cpc'[h] = label /\ lock' = lock
      BY <2>7, TakeByteEffect
    <3> QED BY <2>0, <2>7, <3>1 DEF CallShape, DeviceSteps, WriteFns
  <2>8. CASE PollRx(h)
    <3>1. /\ cpc[h] = "poll_rx"
          /\ \/ /\ UNCHANGED <<call, rx>>
                /\ \/ cpc'[h] = "return" /\ lock' = "free"
                   \/ cpc'[h] = "get" /\ lock' = lock
             \/ rx # <<>> /\ TakeByte(h, "poll_rx")
      BY <2>8, PollRxEffect
    <3>2. kind # "Bl808"
      BY <2>0, <3>1 DEF CallShape
    <3>3. CASE rx # <<>> /\ TakeByte(h, "poll_rx")
      BY <2>7, <3>1, <3>2, <3>3
    <3>4. CASE /\ UNCHANGED <<call, rx>>
               /\ \/ cpc'[h] = "return" /\ lock' = "free"
                  \/ cpc'[h] = "get" /\ lock' = lock
      BY <2>0, <3>1, <3>4 DEF CallShape, DeviceSteps, WriteFns
    <3> QED BY <3>1, <3>3, <3>4
  <2>9. CASE Get(h)
    <3>1. cpc[h] = "get" /\ rx # <<>> /\ TakeByte(h, IF kind = "Bl808" THEN "get" ELSE "poll_rx")
      BY <2>9 DEF Get
    <3> QED BY <2>7, <3>1
  <2>10. CASE ReturnWrite(h)
    <3>1. /\ UNCHANGED lock /\ cpc[h] = "return" /\ call[h].fn \in WriteFns /\ call'[h].count = 0
          /\ \/ cpc'[h] = "smode" /\ call'[h].fn = "none"
             \/ cpc'[h] = "lock" /\ call'[h].fn = call[h].fn
      BY <2>0, <2>10, ReturnWriteEffect
    <3> QED BY <2>0, <3>1 DEF CallShape, DeviceSteps, WriteFns
  <2>11. CASE ReturnRead(h)
    <3>1. /\ UNCHANGED lock /\ cpc[h] = "return" /\ call'[h].count = 0
          /\ cpc'[h] = "smode" /\ call'[h].fn = "none"
      BY <2>1, <2>11, ReturnReadEffect
    <3> QED BY <2>0, <3>1 DEF CallShape, DeviceSteps, WriteFns
  <2> QED BY <2>2, <2>3, <2>4, <2>5, <2>6, <2>8, <2>9, <2>10, <2>11 DEF ConsoleStep
<1> QED BY <1>1, <1>2

-----------------------------------------------------------------------------
(* Output.                                                               *)

\* A store appends the next byte of the slice to the output; nothing is lost,
\* since the queue still has the room that the poll saw.
LEMMA PutOutput ==
    ASSUME ConsoleTypeOK, NEW h \in ConsoleHarts, CallShape(h), WriteShape(h), Put(h)
    PROVE  /\ Output' = Append(Output, call[h].chunk[call[h].count + 1])
           /\ call[h].fn \in WriteFns /\ call[h].count + 1 \in 1 .. Len(call[h].chunk)
           /\ call[h].count + 1 \in 1 .. Len(left[h])
           /\ call[h].chunk[call[h].count + 1] = left[h][call[h].count + 1]
           /\ call[h].chunk[call[h].count + 1] \in OutputBytes
<1>1. cpc[h] = "put" /\ (Len(tx) < FifoDepth => tx' = Append(tx, call[h].chunk[call[h].count + 1])) /\ wire' = wire
  BY PutEffect
<1>2. call[h].fn \in WriteFns /\ call[h].count < Len(call[h].chunk) /\ Len(tx) < FifoDepth
  BY <1>1 DEF CallShape, WriteShape
<1>3. call[h].count \in Nat /\ Len(call[h].chunk) \in Nat /\ Len(left[h]) \in Nat /\ left[h] \in Seq(OutputBytes)
      /\ tx \in Seq(OutputBytes) /\ wire \in Seq(OutputBytes)
  BY SMTT(30) DEF ConsoleTypeOK, ConsoleCalls
<1>4. Len(call[h].chunk) <= Len(left[h]) /\ \A i \in 1 .. Len(call[h].chunk) : call[h].chunk[i] = left[h][i]
  BY <1>2 DEF WriteShape
<1>5. call[h].count + 1 \in 1 .. Len(call[h].chunk) /\ call[h].count + 1 \in 1 .. Len(left[h])
  BY ONLY <1>2, <1>3, <1>4, SMTT(30)
<1>6. call[h].chunk[call[h].count + 1] = left[h][call[h].count + 1]
  BY <1>4, <1>5
<1>7. call[h].chunk[call[h].count + 1] \in OutputBytes
  BY <1>3, <1>5, <1>6
<1>8. wire \o Append(tx, call[h].chunk[call[h].count + 1]) = Append(wire \o tx, call[h].chunk[call[h].count + 1])
  BY <1>3, <1>7, AppendToConcat
<1>9. Output' = Append(Output, call[h].chunk[call[h].count + 1])
  BY <1>1, <1>2, <1>8 DEF Output
<1> QED BY <1>2, <1>5, <1>6, <1>7, <1>9

\* Any other step of a hart leaves the queue and the output alone.
LEMMA OtherOutput ==
    ASSUME ConsoleTypeOK, NEW h \in ConsoleHarts, CallShape(h), WriteShape(h),
           Calls(h) \/ ConsoleStep(h), ~Put(h)
    PROVE  tx' = tx /\ wire' = wire /\ Output' = Output
<1>1. CASE Calls(h)
  BY <1>1, CallsEffect DEF Output
<1>2. CASE Lock(h) \/ PollTx(h) \/ CountRx(h) \/ PollRx(h)
  BY <1>2, LockEffect, PollTxEffect, CountRxEffect, PollRxEffect DEF Output
<1>3. CASE Get(h)
  BY <1>3 DEF Get, Output
<1>4. CASE ReturnWrite(h) \/ ReturnRead(h)
  BY <1>4, ReturnWriteEffect, ReturnReadEffect DEF Output
<1> QED BY <1>1, <1>2, <1>3, <1>4 DEF ConsoleStep

\* The bytes that a call counts as accepted do not change except in a store.
LEMMA AcceptedStep ==
    ASSUME ConsoleTypeOK, NEW h \in ConsoleHarts, CallShape(h), WriteShape(h), ReadShape(h),
           Calls(h) \/ ConsoleStep(h)
    PROVE  /\ \A g \in ConsoleHarts : g # h => Accepted(g)' = Accepted(g)
           /\ Put(h) => Accepted(h)' = Accepted(h) + 1
           /\ ~Put(h) => Accepted(h)' = Accepted(h)
<1>0. /\ cpc \in [ConsoleHarts -> ConsoleLabels] /\ call \in [ConsoleHarts -> ConsoleCalls]
      /\ left[h] \in Seq(OutputBytes) /\ call[h].count \in Nat /\ Len(left[h]) \in Nat
      /\ left \in [ConsoleHarts -> Seq(OutputBytes)]
  <2>1. /\ cpc \in [ConsoleHarts -> ConsoleLabels] /\ call \in [ConsoleHarts -> ConsoleCalls]
        /\ left \in [ConsoleHarts -> Seq(OutputBytes)]
    BY DEF ConsoleTypeOK
  <2>2. left[h] \in Seq(OutputBytes) /\ call[h] \in ConsoleCalls
    BY <2>1
  <2>3. call[h].count \in Nat /\ Len(left[h]) \in Nat
    BY <2>2 DEF ConsoleCalls
  <2> QED BY <2>1, <2>2, <2>3
<1>1. \A g \in ConsoleHarts : g # h => Accepted(g)' = Accepted(g)
  BY HartFrame DEF Accepted
<1>2. Len(Message(h)) \in Nat
  BY MessageFacts
<1> DEFINE Same == Accepted(h)' = Accepted(h)
<1>3. ASSUME left'[h] = left[h], call'[h].fn \in WriteFns <=> call[h].fn \in WriteFns, call'[h].count = call[h].count
      PROVE  Same
  BY <1>3 DEF Accepted, WriteFns
<1>4. ASSUME left'[h] = left[h], ~(call'[h].fn \in WriteFns), ~(call[h].fn \in WriteFns)
      PROVE  Same
  BY <1>4 DEF Accepted, WriteFns
<1>5. CASE Calls(h)
  <2>1. /\ left'[h] = left[h] /\ cpc[h] = "smode"
        /\ \/ call' = call
           \/ call'[h].count = 0
    BY <1>5, CallsEffect
  <2>2. call[h].fn = "none" /\ call[h].count = 0
    BY <2>1 DEF CallShape
  <2>3. call' = call => Same
    BY <1>3, <2>1
  <2>4. call'[h].count = 0 => Same
    BY <1>2, <1>0, <2>1, <2>2 DEF Accepted
  <2>5. Same
    BY <2>1, <2>3, <2>4
  <2>6. ~Put(h)
    BY <2>1 DEF Put
  <2> QED BY <1>1, <2>5, <2>6
<1>6. CASE Lock(h) \/ PollTx(h)
  <2>1. left'[h] = left[h] /\ call' = call /\ cpc[h] # "put"
    BY <1>6, LockEffect, PollTxEffect
  <2>2. Same
    BY <1>3, <2>1
  <2> QED BY <1>1, <2>1, <2>2 DEF Put
<1>7. CASE Put(h)
  <2>1. left'[h] = left[h] /\ call'[h].fn = call[h].fn /\ call'[h].count = call[h].count + 1
    BY <1>7, PutEffect
  <2>2. call[h].fn \in WriteFns
    BY <1>7, PutOutput
  <2>3. Accepted(h)' = Accepted(h) + 1
    BY <1>0, <1>2, <2>1, <2>2 DEF Accepted, WriteFns
  <2> QED BY <1>1, <1>7, <2>3
<1>8. CASE CountRx(h)
  <2>1. left'[h] = left[h] /\ call'[h].fn = call[h].fn /\ call'[h].count = call[h].count /\ cpc[h] # "put"
    BY <1>8, CountRxEffect
  <2>2. Same
    BY <1>3, <2>1
  <2> QED BY <1>1, <2>1, <2>2 DEF Put
<1>9. ASSUME NEW label, rx # <<>>, TakeByte(h, label), left' = left, cpc[h] \in {"poll_rx", "get"}
      PROVE  Same /\ ~Put(h)
  <2>1. call'[h].fn = call[h].fn
    BY <1>9, TakeByteEffect
  <2>2. call[h].fn = "read"
    BY <1>9 DEF CallShape
  <2>3. Same
    BY <1>4, <1>9, <2>1, <2>2 DEF WriteFns
  <2> QED BY <1>9, <2>3 DEF Put
<1>10. CASE PollRx(h)
  <2>1. left' = left /\ cpc[h] = "poll_rx" /\ (call' = call \/ (rx # <<>> /\ TakeByte(h, "poll_rx")))
    BY <1>10, PollRxEffect
  <2>2. Same /\ ~Put(h)
    <3>1. CASE call' = call
      <4>1. Same
        BY <1>3, <2>1, <3>1
      <4> QED BY <2>1, <4>1 DEF Put
    <3>2. CASE rx # <<>> /\ TakeByte(h, "poll_rx")
      BY <1>9, <2>1, <3>2
    <3> QED BY <2>1, <3>1, <3>2
  <2> QED BY <1>1, <2>2
<1>11. CASE Get(h)
  <2>1. left' = left /\ cpc[h] = "get" /\ rx # <<>> /\ \E label : TakeByte(h, label)
    BY <1>11 DEF Get
  <2>2. Same /\ ~Put(h)
    BY <1>9, <2>1
  <2> QED BY <1>1, <2>2
<1>12. CASE ReturnWrite(h)
  <2>1. /\ left' = [left EXCEPT ![h] = SubSeq(left[h], call[h].count + 1, Len(left[h]))]
        /\ call[h].fn \in WriteFns /\ call[h].count \in 0 .. Len(left[h]) /\ call'[h].count = 0
        /\ cpc[h] = "return"
    BY <1>12, ReturnWriteEffect
  <2>2. left'[h] = SubSeq(left[h], call[h].count + 1, Len(left[h]))
    BY <1>0, <2>1
  <2>3. Len(left'[h]) = Len(left[h]) - call[h].count
    BY <1>0, <2>1, <2>2, RestType
  <2>4. Accepted(h) = Len(Message(h)) - Len(left[h]) + call[h].count
    BY <2>1 DEF Accepted, WriteFns
  <2>5. Accepted(h)' = Len(Message(h)) - Len(left'[h]) + 0
    BY <2>1 DEF Accepted
  <2>6. Same
    BY <1>0, <1>2, <2>3, <2>4, <2>5
  <2> QED BY <1>1, <2>1, <2>6 DEF Put
<1>13. CASE ReturnRead(h)
  <2>1. left'[h] = left[h] /\ call[h].fn = "read" /\ call'[h].fn = "none" /\ cpc[h] = "return"
    BY <1>13, ReturnReadEffect
  <2>2. Same
    BY <1>4, <2>1 DEF WriteFns
  <2> QED BY <1>1, <2>1, <2>2 DEF Put
<1> QED BY <1>5, <1>6, <1>7, <1>8, <1>10, <1>11, <1>12, <1>13 DEF ConsoleStep

\* A store keeps the slice at the end of the output.
LEMMA PutWriteShape ==
    ASSUME ConsoleTypeOK, NEW h \in ConsoleHarts, CallShape(h), WriteShape(h), Put(h)
    PROVE  WriteShape(h)'
<1> DEFINE b == call[h].chunk[call[h].count + 1]
           n == call[h].count
<1>1. /\ left'[h] = left[h] /\ cpc[h] = "put" /\ cpc'[h] = "poll_tx"
      /\ call'[h].fn = call[h].fn /\ call'[h].chunk = call[h].chunk /\ call'[h].count = n + 1
  <2>1. cpc \in [ConsoleHarts -> ConsoleLabels]
    BY DEF ConsoleTypeOK
  <2> QED BY <2>1, PutEffect
<1>2. /\ Output' = Append(Output, b) /\ call[h].fn \in WriteFns /\ n + 1 \in 1 .. Len(call[h].chunk)
      /\ b \in OutputBytes
  BY PutOutput
<1>3. Output \in Seq(OutputBytes) /\ n \in Nat
  BY DEF ConsoleTypeOK, ConsoleCalls, Output
<1>4. n <= Len(Output) /\ \A i \in 1 .. n : Output[Len(Output) - n + i] = call[h].chunk[i]
  BY <1>1 DEF WriteShape
<1> HIDE DEF b, n
<1>5. /\ Len(Output') = Len(Output) + 1 /\ Output'[Len(Output) + 1] = b
      /\ \A j \in 1 .. Len(Output) : Output'[j] = Output[j]
  BY <1>2, <1>3
<1>6. n + 1 <= Len(Output')
  BY <1>3, <1>4, <1>5
<1>7. ASSUME NEW i \in 1 .. n + 1 PROVE Output'[Len(Output') - (n + 1) + i] = call[h].chunk[i]
  <2>1. Len(Output') - (n + 1) + i = Len(Output) - n + i
    BY <1>3, <1>5
  <2>2. CASE i = n + 1
    <3>1. Len(Output) - n + i = Len(Output) + 1
      BY <1>3, <2>2
    <3> QED BY <1>5, <2>1, <2>2, <3>1 DEF b, n
  <2>3. CASE i # n + 1
    <3>1. i \in 1 .. n /\ Len(Output) - n + i \in 1 .. Len(Output)
      BY <1>3, <1>4, <2>3
    <3> QED BY <1>4, <1>5, <2>1, <3>1
  <2> QED BY <2>2, <2>3
<1>8. /\ n + 1 <= Len(Output')
      /\ \A i \in 1 .. n + 1 : Output'[Len(Output') - (n + 1) + i] = call[h].chunk[i]
  BY <1>6, <1>7
<1>9. n + 1 <= Len(call[h].chunk)
  BY <1>2
<1>10. /\ Len(left[h]) <= Len(Message(h))
       /\ \A i \in 1 .. Len(left[h]) : left[h][i] = Message(h)[Len(Message(h)) - Len(left[h]) + i]
       /\ Len(call[h].chunk) <= Len(left[h])
       /\ \A i \in 1 .. Len(call[h].chunk) : call[h].chunk[i] = left[h][i]
  BY <1>2 DEF WriteShape
<1> QED BY ONLY <1>1, <1>8, <1>9, <1>10 DEF WriteShape

\* What is left after a write is still the end of the message.
LEMMA ReturnWriteShape ==
    ASSUME ConsoleTypeOK, NEW h \in ConsoleHarts, CallShape(h), WriteShape(h), ReturnWrite(h)
    PROVE  WriteShape(h)'
<1> DEFINE n == call[h].count
           s == left[h]
           c == call[h].chunk
<1>1. /\ left' = [left EXCEPT ![h] = SubSeq(s, n + 1, Len(s))]
      /\ call[h].fn \in WriteFns /\ n \in 0 .. Len(c) /\ n \in 0 .. Len(s)
      /\ call'[h].count = 0
      /\ \/ cpc'[h] = "smode" /\ call'[h].fn = "none"
         \/ /\ cpc'[h] = "lock" /\ call'[h].fn = call[h].fn
            /\ call'[h].chunk = SubSeq(c, n + 1, Len(c))
  BY ReturnWriteEffect
<1>2. left \in [ConsoleHarts -> Seq(OutputBytes)] /\ s \in Seq(OutputBytes) /\ c \in Seq(OutputBytes \cup Nat)
  BY DEF ConsoleTypeOK, ConsoleCalls
<1>3. left'[h] = SubSeq(s, n + 1, Len(s))
  BY <1>1, <1>2
<1>4. Message(h) \in Seq(OutputBytes)
  BY MessageFacts
<1>5. /\ Len(s) <= Len(Message(h))
      /\ \A i \in 1 .. Len(s) : s[i] = Message(h)[Len(Message(h)) - Len(s) + i]
      /\ Len(c) <= Len(s)
      /\ \A i \in 1 .. Len(c) : c[i] = s[i]
  BY <1>1 DEF WriteShape
<1> HIDE DEF n, s, c
<1>6. Len(left'[h]) = Len(s) - n /\ \A i \in 1 .. Len(s) - n : left'[h][i] = s[n + i]
  BY <1>1, <1>2, <1>3, RestType
<1>7. Len(SubSeq(c, n + 1, Len(c))) = Len(c) - n /\ \A i \in 1 .. Len(c) - n : SubSeq(c, n + 1, Len(c))[i] = c[n + i]
  BY <1>1, <1>2, RestType
<1>8. n \in Nat /\ Len(s) \in Nat /\ Len(c) \in Nat /\ Len(Message(h)) \in Nat
  BY <1>1, <1>2, <1>4
<1>9. Len(left'[h]) <= Len(Message(h))
  BY <1>1, <1>5, <1>6, <1>8
<1>10. ASSUME NEW i \in 1 .. Len(left'[h])
       PROVE  left'[h][i] = Message(h)[Len(Message(h)) - Len(left'[h]) + i]
  <2>1. i \in 1 .. Len(s) - n /\ n + i \in 1 .. Len(s)
    BY <1>1, <1>6, <1>8, SMTT(30)
  <2>2. Len(Message(h)) - Len(s) + (n + i) = Len(Message(h)) - Len(left'[h]) + i
    BY <1>6, <1>8, <2>1
  <2> QED BY <1>5, <1>6, <2>1, <2>2
<1>11. Len(SubSeq(c, n + 1, Len(c))) <= Len(left'[h])
  BY <1>5, <1>6, <1>7, <1>8
<1>12. ASSUME NEW i \in 1 .. Len(SubSeq(c, n + 1, Len(c)))
       PROVE  SubSeq(c, n + 1, Len(c))[i] = left'[h][i]
  <2>1. i \in 1 .. Len(c) - n /\ i \in 1 .. Len(s) - n /\ n + i \in 1 .. Len(c)
    BY <1>1, <1>5, <1>7, <1>8
  <2> QED BY <1>5, <1>6, <1>7, <2>1
<1>13. 0 <= Len(SubSeq(c, n + 1, Len(c)))
  BY <1>1, <1>7, <1>8
<1>14. "none" \notin WriteFns
  BY DEF WriteFns
<1>15. CASE cpc'[h] = "smode" /\ call'[h].fn = "none"
  BY <1>9, <1>10, <1>14, <1>15 DEF WriteShape
<1>16. CASE /\ cpc'[h] = "lock" /\ call'[h].fn = call[h].fn
            /\ call'[h].chunk = SubSeq(c, n + 1, Len(c))
  BY <1>1, <1>9, <1>10, <1>11, <1>12, <1>13, <1>16 DEF WriteShape
<1> QED BY <1>1, <1>15, <1>16

\* Every hart's slice and rest are kept by a step of one of them.
LEMMA WriteShapeStep ==
    ASSUME ConsoleTypeOK, NEW h \in ConsoleHarts, \A g \in ConsoleHarts : CallShape(g) /\ WriteShape(g),
           ReadShape(h), Calls(h) \/ ConsoleStep(h), UNCHANGED clock
    PROVE  \A g \in ConsoleHarts : WriteShape(g)'
<1>0. CallShape(h) /\ WriteShape(h)
  OBVIOUS
<1>1. ASSUME NEW g \in ConsoleHarts, g # h PROVE WriteShape(g)'
  <2>1. cpc'[g] = cpc[g] /\ call'[g] = call[g] /\ left'[g] = left[g]
    BY <1>0, <1>1, HartFrame
  <2>2. CASE Put(h)
    <3>1. cpc[h] = "put" /\ lock = h
      BY <1>0, <2>2, PutEffect DEF CallShape, DeviceSteps
    <3>2. cpc[g] \notin DeviceSteps
      BY <1>1, <3>1 DEF CallShape
    <3>3. cpc[g] # "put" /\ cpc[g] # "poll_tx"
      BY <3>2 DEF DeviceSteps
    <3>4. WriteShape(g)
      OBVIOUS
    <3> QED BY ONLY <2>1, <3>3, <3>4 DEF WriteShape
  <2>3. CASE ~Put(h)
    <3>1. tx' = tx /\ Output' = Output
      BY <1>0, <2>3, OtherOutput
    <3>2. WriteShape(g)
      OBVIOUS
    <3> QED BY ONLY <2>1, <3>1, <3>2 DEF WriteShape
  <2> QED BY <2>2, <2>3
<1>2. WriteShape(h)'
  <2>0. cpc \in [ConsoleHarts -> ConsoleLabels] /\ call \in [ConsoleHarts -> ConsoleCalls] /\ call[h] \in ConsoleCalls
        /\ left[h] \in Seq(OutputBytes) /\ Output \in Seq(OutputBytes)
    BY DEF ConsoleTypeOK, Output
  <2>1. \A x : cpc' = [cpc EXCEPT ![h] = x] => cpc'[h] = x
    BY <2>0
  <2>2. ~Put(h) => tx' = tx /\ Output' = Output
    BY <1>0, OtherOutput
  <2>3. ASSUME left'[h] = left[h], call'[h].fn \notin WriteFns, cpc'[h] \notin {"put", "poll_tx"}
        PROVE  WriteShape(h)'
    BY <1>0, <2>3 DEF WriteShape
  <2>4. CASE Calls(h)
    <3>1. /\ left' = left /\ cpc[h] = "smode"
          /\ \/ UNCHANGED <<cpc, call>>
             \/ /\ cpc'[h] = "lock" /\ call'[h].count = 0
                /\ \/ call'[h].fn = "read"
                   \/ /\ Len(call'[h].chunk) <= Len(left[h])
                      /\ \A i \in 1 .. Len(call'[h].chunk) : call'[h].chunk[i] = left[h][i]
      BY <2>1, <2>4, CallsEffect
    <3>2. tx' = tx /\ Output' = Output
      BY <2>2, <3>1 DEF Put
    <3>3. CASE UNCHANGED <<cpc, call>>
      BY <1>0, <3>1, <3>2, <3>3 DEF WriteShape
    <3>4. CASE cpc'[h] = "lock" /\ call'[h].fn = "read"
      BY <2>3, <3>1, <3>4 DEF WriteFns
    <3>5. CASE /\ cpc'[h] = "lock" /\ call'[h].count = 0
               /\ Len(call'[h].chunk) <= Len(left[h])
               /\ \A i \in 1 .. Len(call'[h].chunk) : call'[h].chunk[i] = left[h][i]
      <4>2. call' \in [ConsoleHarts -> ConsoleCalls] => 0 <= Len(call'[h].chunk)
        BY DEF ConsoleCalls
      <4>3. call'[h].fn \in WriteFns => call'[h].count <= Len(call'[h].chunk)
        <5>1. call' \in [ConsoleHarts -> ConsoleCalls]
          BY <1>0, <2>4, CallTypes DEF ConsoleTypeOK
        <5> QED BY <3>5, <4>2, <5>1
      <4> QED BY <1>0, <3>1, <3>5, <4>3 DEF WriteShape
    <3> QED BY <3>1, <3>3, <3>4, <3>5
  <2>5. CASE Lock(h)
    <3>1. left' = left /\ call' = call /\ cpc[h] = "lock" /\ cpc'[h] # "put"
      BY <2>5, LockEffect
    <3>2. tx' = tx /\ Output' = Output
      BY <2>2, <3>1 DEF Put
    <3>3. call[h].count = 0
      BY <1>0, <3>1 DEF CallShape
    <3>4. Len(Output) \in Nat
      BY <2>0
    <3>5. call[h].count <= Len(Output)
          /\ \A i \in 1 .. call[h].count : Output[Len(Output) - call[h].count + i] = call[h].chunk[i]
      BY ONLY <3>3, <3>4
    <3> QED BY ONLY <1>0, <3>1, <3>2, <3>5 DEF WriteShape
  <2>6. CASE PollTx(h)
    <3>1. /\ left' = left /\ call' = call /\ cpc[h] = "poll_tx"
          /\ \/ cpc'[h] = "put" /\ call[h].count < Len(call[h].chunk) /\ Len(tx) < FifoDepth
             \/ cpc'[h] = "return"
      BY <2>6, PollTxEffect
    <3>2. tx' = tx /\ Output' = Output
      BY <2>2, <3>1 DEF Put
    <3> QED BY <1>0, <3>1, <3>2 DEF WriteShape
  <2>7. CASE Put(h)
    BY <1>0, <2>7, PutWriteShape
  <2>8. CASE CountRx(h)
    <3>1. /\ left' = left /\ cpc[h] = "count" /\ call'[h].fn = call[h].fn /\ cpc'[h] \in {"return", "get"}
      BY <2>8, CountRxEffect
    <3>2. call[h].fn = "read"
      BY <1>0, <3>1 DEF CallShape
    <3> QED BY <2>3, <3>1, <3>2 DEF WriteFns
  <2>9. ASSUME NEW label, rx # <<>>, TakeByte(h, label), cpc[h] \in {"poll_rx", "get"}, label \in {"poll_rx", "get"},
               left' = left
        PROVE  WriteShape(h)'
    <3>1. call'[h].fn = call[h].fn /\ cpc'[h] \in {"return", label}
      BY <2>9, TakeByteEffect
    <3>2. call[h].fn = "read"
      BY <1>0, <2>9 DEF CallShape
    <3> QED BY <2>3, <2>9, <3>1, <3>2 DEF WriteFns
  <2>10. CASE PollRx(h)
    <3>1. /\ left' = left /\ cpc[h] = "poll_rx"
          /\ \/ call' = call /\ cpc'[h] \in {"return", "get"}
             \/ rx # <<>> /\ TakeByte(h, "poll_rx")
      BY <2>10, PollRxEffect
    <3>2. call[h].fn = "read"
      BY <1>0, <3>1 DEF CallShape
    <3>3. CASE call' = call /\ cpc'[h] \in {"return", "get"}
      BY <2>3, <3>1, <3>2, <3>3 DEF WriteFns
    <3>4. CASE rx # <<>> /\ TakeByte(h, "poll_rx")
      BY <2>9, <3>1, <3>4
    <3> QED BY <3>1, <3>3, <3>4
  <2>11. CASE Get(h)
    <3>1. left' = left /\ cpc[h] = "get" /\ rx # <<>> /\ TakeByte(h, IF kind = "Bl808" THEN "get" ELSE "poll_rx")
      BY <2>11 DEF Get
    <3> QED BY <2>9, <3>1
  <2>12. CASE ReturnWrite(h)
    BY <1>0, <2>12, ReturnWriteShape
  <2>13. CASE ReturnRead(h)
    <3>1. left' = left /\ call'[h].fn = "none" /\ cpc'[h] = "smode"
      BY <2>1, <2>13, ReturnReadEffect
    <3> QED BY <2>3, <3>1 DEF WriteFns
  <2> QED BY <2>4, <2>5, <2>6, <2>7, <2>8, <2>10, <2>11, <2>12, <2>13 DEF ConsoleStep
<1> QED BY <1>1, <1>2

\* A step of a hart keeps the output: a store adds the next byte of its message.
LEMMA OutputStep ==
    ASSUME ConsoleTypeOK, NEW h \in ConsoleHarts, CallShape(h), WriteShape(h), ReadShape(h), OutputIsKept,
           Calls(h) \/ ConsoleStep(h)
    PROVE  OutputIsKept'
<1>1. CASE ~Put(h)
  <2>1. Output' = Output /\ \A g \in ConsoleHarts : Accepted(g)' = Accepted(g)
    BY <1>1, OtherOutput, AcceptedStep
  <2>2. (wire \o tx)' = wire \o tx
    BY <2>1 DEF Output
  <2> QED BY <2>1, <2>2 DEF OutputIsKept
<1>2. CASE Put(h)
  <2> DEFINE b == call[h].chunk[call[h].count + 1]
             a == Accepted(h)
  <2>1. /\ Output' = Append(Output, b) /\ b = left[h][call[h].count + 1] /\ b \in OutputBytes
        /\ call[h].fn \in WriteFns /\ call[h].count + 1 \in 1 .. Len(left[h])
    BY <1>2, PutOutput
  <2>2. Accepted(h)' = a + 1 /\ \A g \in ConsoleHarts : g # h => Accepted(g)' = Accepted(g)
    BY <1>2, AcceptedStep
  <2>3. Output \in Seq(OutputBytes) /\ left[h] \in Seq(OutputBytes) /\ call[h].count \in Nat
    BY DEF ConsoleTypeOK, Output, ConsoleCalls
  <2>4. a = Len(Message(h)) - Len(left[h]) + call[h].count
    BY <2>1 DEF Accepted, WriteFns
  <2>5. Len(left[h]) <= Len(Message(h))
        /\ \A i \in 1 .. Len(left[h]) : left[h][i] = Message(h)[Len(Message(h)) - Len(left[h]) + i]
    BY DEF WriteShape
  <2>6. Message(h) \in Seq(OutputBytes) /\ Len(Message(h)) \in Nat
    BY MessageFacts
  <2>7. a + 1 = Len(Message(h)) - Len(left[h]) + (call[h].count + 1) /\ a \in Nat /\ a + 1 \in 1 .. Len(Message(h))
    <3>1. Len(left[h]) \in Nat
      BY <2>3
    <3>2. \A m, s, n \in Nat : s <= m /\ n + 1 \in 1 .. s =>
            m - s + n + 1 = m - s + (n + 1) /\ m - s + n \in Nat /\ m - s + n + 1 \in 1 .. m
      OBVIOUS
    <3>3. Len(left[h]) <= Len(Message(h)) /\ call[h].count + 1 \in 1 .. Len(left[h])
      BY <2>1, <2>5
    <3> HIDE DEF a
    <3> QED BY ONLY <2>3, <2>4, <2>6, <3>1, <3>2, <3>3
  <2>8. b = Message(h)[a + 1]
    BY <2>1, <2>5, <2>7
  <2> HIDE DEF a, b
  <2> DEFINE out == Output
             new == Output'
  <2>9. /\ Len(new) = Len(out) + 1 /\ new[Len(out) + 1] = b /\ \A j \in 1 .. Len(out) : new[j] = out[j]
        /\ DOMAIN new = 1 .. Len(out) + 1 /\ DOMAIN out = 1 .. Len(out) /\ Len(out) \in Nat
    BY <2>1, <2>3
  <2>10. \A g \in ConsoleHarts : DOMAIN Message(g) = 1 .. Len(Message(g))
    BY MessageFacts
  <2>20. wire \o tx = out
    BY DEF Output
  <2> HIDE DEF out, new
  <2>11. \A g \in ConsoleHarts : \A k \in 1 .. Len(Message(g)) :
                (\E i \in 1 .. Len(out) : out[i] = Message(g)[k]) <=> k <= Accepted(g)
    <3>1. \A g \in ConsoleHarts : \A k \in DOMAIN Message(g) :
                (\E i \in DOMAIN out : out[i] = Message(g)[k]) <=> k <= Accepted(g)
      BY <2>20 DEF OutputIsKept
    <3> QED BY ONLY <2>9, <2>10, <3>1
  <2>21. \A g \in ConsoleHarts : \A k, l \in 1 .. Len(Message(g)) : \A i, j \in 1 .. Len(out) :
                out[i] = Message(g)[k] /\ out[j] = Message(g)[l] => (i < j <=> k < l)
    <3>1. \A g \in ConsoleHarts : \A k, l \in DOMAIN Message(g) : \A i, j \in DOMAIN out :
                out[i] = Message(g)[k] /\ out[j] = Message(g)[l] => (i < j <=> k < l)
      BY <2>20 DEF OutputIsKept
    <3> QED BY ONLY <2>9, <2>10, <3>1, SMTT(30)
  <2>12. \A k \in 1 .. Len(Message(h)) : b = Message(h)[k] => k = a + 1
    BY <2>7, <2>8, MessageFacts
  <2>13. \A g \in ConsoleHarts : g # h => \A k \in 1 .. Len(Message(g)) : b # Message(g)[k]
    BY <2>7, <2>8, MessageFacts
  <2>14. \A k \in 1 .. Len(Message(h)) : (\E i \in 1 .. Len(out) : out[i] = Message(h)[k]) <=> k <= a
    BY <2>11 DEF a
  <2>15. \A k \in 1 .. Len(Message(h)) : (\E i \in 1 .. Len(out) + 1 : new[i] = Message(h)[k]) <=> k <= a + 1
    <3>1. ASSUME NEW k \in 1 .. Len(Message(h)), k <= a + 1
          PROVE  \E i \in 1 .. Len(out) + 1 : new[i] = Message(h)[k]
      <4>1. CASE k = a + 1
        BY <2>8, <2>9, <4>1
      <4>2. CASE k # a + 1
        <5>1. PICK i \in 1 .. Len(out) : out[i] = Message(h)[k]
          BY <2>7, <2>14, <3>1, <4>2
        <5>2. i \in 1 .. Len(out) + 1 /\ new[i] = Message(h)[k]
          BY <2>9, <5>1
        <5> QED BY <5>2
      <4> QED BY <4>1, <4>2
    <3>2. ASSUME NEW k \in 1 .. Len(Message(h)), NEW i \in 1 .. Len(out) + 1, new[i] = Message(h)[k]
          PROVE  k <= a + 1
      <4>1. CASE i = Len(out) + 1
        BY <2>7, <2>9, <2>12, <3>2, <4>1
      <4>2. CASE i # Len(out) + 1
        <5>1. i \in 1 .. Len(out)
          BY <2>9, <4>2
        <5>2. k <= a
          BY <2>9, <2>14, <3>2, <5>1
        <5> QED BY <2>7, <5>2
      <4> QED BY <4>1, <4>2
    <3> QED BY <3>1, <3>2
  <2>16. ASSUME NEW g \in ConsoleHarts, g # h, NEW k \in 1 .. Len(Message(g))
         PROVE  (\E i \in 1 .. Len(out) + 1 : new[i] = Message(g)[k]) <=> k <= Accepted(g)
    <3>1. (\E i \in 1 .. Len(out) + 1 : new[i] = Message(g)[k]) <=> \E i \in 1 .. Len(out) : out[i] = Message(g)[k]
      BY <2>9, <2>13, <2>16
    <3> QED BY <2>11, <3>1
  <2>17. \A g \in ConsoleHarts : \A k \in 1 .. Len(Message(g)) :
                (\E i \in 1 .. Len(out) + 1 : new[i] = Message(g)[k]) <=> k <= Accepted(g)'
    <3>1. ASSUME NEW g \in ConsoleHarts, g # h, NEW k \in 1 .. Len(Message(g))
          PROVE  (\E i \in 1 .. Len(out) + 1 : new[i] = Message(g)[k]) <=> k <= Accepted(g)'
      BY <2>2, <2>16, <3>1
    <3>2. ASSUME NEW k \in 1 .. Len(Message(h))
          PROVE  (\E i \in 1 .. Len(out) + 1 : new[i] = Message(h)[k]) <=> k <= Accepted(h)'
      BY <2>2, <2>15
    <3> QED BY <3>1, <3>2
  <2>18. ASSUME NEW g \in ConsoleHarts, NEW k \in 1 .. Len(Message(g)), NEW l \in 1 .. Len(Message(g)),
                NEW i \in 1 .. Len(out) + 1, NEW j \in 1 .. Len(out) + 1,
                new[i] = Message(g)[k], new[j] = Message(g)[l]
         PROVE  i < j <=> k < l
    <3>1. CASE i # Len(out) + 1 /\ j # Len(out) + 1
      <4>1. i \in 1 .. Len(out) /\ j \in 1 .. Len(out) /\ new[i] = out[i] /\ new[j] = out[j]
        BY <2>9, <3>1
      <4>2. out[i] = Message(g)[k] /\ out[j] = Message(g)[l]
        BY <2>18, <4>1
      <4> QED BY ONLY <2>18, <2>21, <4>1, <4>2
    <3>2. CASE g # h
      <4>1. new[i] # b /\ new[j] # b
        BY <2>13, <2>18, <3>2
      <4> QED BY <2>9, <3>1, <4>1
    <3>3. CASE g = h /\ i = Len(out) + 1 /\ j = Len(out) + 1
      <4>1. k = a + 1 /\ l = a + 1
        BY <2>9, <2>12, <2>18, <3>3
      <4> QED BY <2>7, <2>9, <3>3, <4>1
    <3>4. CASE g = h /\ i = Len(out) + 1 /\ j # Len(out) + 1
      <4>1. k = a + 1
        BY <2>9, <2>12, <2>18, <3>4
      <4>2. j \in 1 .. Len(out) /\ out[j] = Message(h)[l]
        BY <2>9, <2>18, <3>4
      <4>3. l <= a
        BY <2>14, <2>18, <3>4, <4>2
      <4> QED BY <2>7, <2>9, <3>4, <4>1, <4>2, <4>3
    <3>5. CASE g = h /\ i # Len(out) + 1 /\ j = Len(out) + 1
      <4>1. l = a + 1
        BY <2>9, <2>12, <2>18, <3>5
      <4>2. i \in 1 .. Len(out) /\ out[i] = Message(h)[k]
        BY <2>9, <2>18, <3>5
      <4>3. k <= a
        BY <2>14, <2>18, <3>5, <4>2
      <4> QED BY <2>7, <2>9, <3>5, <4>1, <4>2, <4>3
    <3> QED BY <3>1, <3>2, <3>3, <3>4, <3>5
  <2>19. (wire \o tx)' = new /\ DOMAIN new = 1 .. Len(out) + 1
    BY <2>9 DEF new, Output
  <2>22. \A g \in ConsoleHarts : \A k \in DOMAIN Message(g) :
                (\E i \in DOMAIN new : new[i] = Message(g)[k]) <=> k <= Accepted(g)'
    BY ONLY <2>10, <2>17, <2>19
  <2>23. \A g \in ConsoleHarts : \A k, l \in DOMAIN Message(g) : \A i, j \in DOMAIN new :
                new[i] = Message(g)[k] /\ new[j] = Message(g)[l] => (i < j <=> k < l)
    BY ONLY <2>10, <2>18, <2>19
  <2> QED BY ONLY <2>19, <2>22, <2>23 DEF OutputIsKept
<1> QED BY <1>1, <1>2

\* The line moves bytes from the queue to the wire.
LEMMA LineOutput ==
    ASSUME ConsoleTypeOK, Transmit \/ Arrive
    PROVE  Output' = Output /\ Len(tx') <= Len(tx) /\ UNCHANGED <<lock, cpc, call, left>>
<1>1. CASE Transmit
  <2>1. tx \in Seq(OutputBytes) /\ wire \in Seq(OutputBytes)
    BY DEF ConsoleTypeOK
  <2>2. tx # <<>> /\ wire' = Append(wire, Head(tx)) /\ tx' = Tail(tx) /\ UNCHANGED <<lock, cpc, call, left>>
    BY <1>1 DEF Transmit
  <2>3. Output' = Output
    BY <2>1, <2>2, MoveHead DEF Output
  <2>4. Len(tx') <= Len(tx)
    BY <2>1, <2>2
  <2> QED BY <2>2, <2>3, <2>4
<1>2. CASE Arrive
  <2>1. tx' = tx /\ wire' = wire /\ UNCHANGED <<lock, cpc, call, left>>
    BY <1>2 DEF Arrive
  <2>2. Len(tx) \in Nat
    BY DEF ConsoleTypeOK
  <2> QED BY <2>1, <2>2 DEF Output
<1> QED BY <1>1, <1>2

\* The line keeps what harts know about their slices, and the output.
LEMMA LineWrites ==
    ASSUME ConsoleTypeOK, Transmit \/ Arrive, OutputIsKept,
           \A h \in ConsoleHarts : WriteShape(h)
    PROVE  OutputIsKept' /\ \A h \in ConsoleHarts : WriteShape(h)'
<1>1. Output' = Output /\ Len(tx') <= Len(tx) /\ UNCHANGED <<lock, cpc, call, left>>
  BY LineOutput
<1>2. \A h \in ConsoleHarts : Accepted(h)' = Accepted(h)
  BY <1>1 DEF Accepted
<1>3. (wire \o tx)' = wire \o tx
  BY <1>1 DEF Output
<1>4. OutputIsKept'
  BY <1>2, <1>3 DEF OutputIsKept
<1>5. Len(tx) \in Nat /\ Len(tx') \in Nat /\ FifoDepth \in Nat
  <2>1. tx \in Seq(OutputBytes)
    BY DEF ConsoleTypeOK
  <2>2. tx' = tx \/ (tx # <<>> /\ tx' = Tail(tx))
    BY DEF Transmit, Arrive
  <2>3. tx' \in Seq(OutputBytes)
    BY <2>1, <2>2
  <2> QED BY <2>1, <2>3, ConsoleAssumption
<1>6. ASSUME NEW h \in ConsoleHarts PROVE WriteShape(h)'
  <2>1. WriteShape(h)
    OBVIOUS
  <2>2. Len(tx) < FifoDepth => Len(tx') < FifoDepth
    BY <1>1, <1>5
  <2> QED BY ONLY <1>1, <2>1, <2>2 DEF WriteShape
<1> QED BY <1>4, <1>6

-----------------------------------------------------------------------------
(* Input.                                                                *)

\* Types of what readers hold.
LEMMA HeldType ==
    ASSUME ConsoleTypeOK, NEW h \in ConsoleHarts, ReadShape(h)
    PROVE  /\ delivered[h] \in Seq(Nat) /\ ReadBytes(h) \in Seq(Nat) /\ Held(h) \in Seq(Nat)
           /\ Taken \in Nat /\ Len(rx) \in Nat /\ arrived \in Nat
           /\ ToSet(Held(h)) = ToSet(delivered[h]) \cup ToSet(ReadBytes(h))
<1>1. delivered[h] \in Seq(Nat) /\ Len(rx) \in Nat /\ arrived \in Nat /\ Len(rx) <= arrived
  BY DEF ConsoleTypeOK
<1>2. ReadBytes(h) \in Seq(Nat)
  BY DEF ReadBytes, ReadShape
<1>3. Held(h) \in Seq(Nat)
  BY <1>1, <1>2 DEF Held
<1>4. ToSet(Held(h)) = ToSet(delivered[h]) \cup ToSet(ReadBytes(h))
  BY <1>1, <1>2, ElementsOfConcat DEF Held
<1> QED BY <1>1, <1>2, <1>3, <1>4 DEF Taken

\* A byte taken from the queue is the one after all those taken before.
LEMMA TakeByteInput ==
    ASSUME ConsoleTypeOK, NEW h \in ConsoleHarts, CallShape(h), ReadShape(h), RxShape,
           rx # <<>>, cpc[h] \in {"poll_rx", "get"}, arrived' = arrived,
           NEW label, TakeByte(h, label)
    PROVE  /\ call[h].fn = "read" /\ call'[h].fn = "read"
           /\ call'[h].chunk = Append(call[h].chunk, Taken + 1)
           /\ call[h].chunk \in Seq(Nat) /\ call[h].count = Len(call[h].chunk)
           /\ call'[h].count = call[h].count + 1
           /\ rx' = Tail(rx) /\ Len(rx') = Len(rx) - 1 /\ Taken' = Taken + 1
           /\ \A i \in 1 .. Len(rx') : rx'[i] = rx[i + 1]
<1>1. rx \in Seq(RxEntries) /\ arrived \in Nat /\ Len(rx) <= arrived
  BY DEF ConsoleTypeOK
<1>2. /\ rx' = Tail(rx) /\ call'[h].fn = call[h].fn /\ call'[h].count = call[h].count + 1
      /\ call'[h].chunk = Append(call[h].chunk, rx[1].byte)
  BY TakeByteEffect
<1>3. call[h].fn = "read"
  BY DEF CallShape
<1>4. 1 \in 1 .. Len(rx)
  BY <1>1
<1>5. rx[1].byte = Taken + 1
  BY <1>4 DEF RxShape
<1>6. Len(rx') = Len(rx) - 1 /\ \A i \in 1 .. Len(rx') : rx'[i] = rx[i + 1]
  BY <1>1, <1>2
<1>7. Taken' = Taken + 1
  BY <1>1, <1>6 DEF Taken
<1>8. call[h].chunk \in Seq(Nat) /\ call[h].count = Len(call[h].chunk)
  BY <1>3 DEF ReadShape
<1> QED BY <1>2, <1>3, <1>5, <1>6, <1>7, <1>8

\* Taking a byte keeps the slice consecutive, and a Bl808 the bytes it counted.
LEMMA TakeByteReadShape ==
    ASSUME ConsoleTypeOK, NEW h \in ConsoleHarts, CallShape(h), ReadShape(h), RxShape,
           rx # <<>>, cpc[h] \in {"poll_rx", "get"}, arrived' = arrived, UNCHANGED kind,
           NEW label \in {"poll_rx", "get"}, TakeByte(h, label),
           label = "get" => kind = "Bl808" /\ cpc[h] = "get"
    PROVE  ReadShape(h)'
<1> DEFINE s == call[h].chunk
<1>1. /\ call'[h].fn = "read" /\ call'[h].chunk = Append(s, Taken + 1)
      /\ s \in Seq(Nat) /\ call[h].count = Len(s) /\ call'[h].count = Len(s) + 1
      /\ Len(rx') = Len(rx) - 1 /\ Taken' = Taken + 1 /\ call[h].fn = "read"
  BY TakeByteInput
<1>2. /\ \A i \in 2 .. Len(s) : s[i] = s[i - 1] + 1
      /\ Len(s) > 0 => s[Len(s)] = Taken
      /\ cpc[h] = "get" /\ kind = "Bl808" => call[h].count < call[h].want /\ call[h].want - call[h].count <= Len(rx)
  BY <1>1 DEF ReadShape
<1>3. /\ call'[h].want = call[h].want
      /\ \/ cpc'[h] = "return" /\ lock' = "free"
         \/ cpc'[h] = label /\ lock' = lock /\ ~(kind = "Bl808" /\ call'[h].count = call'[h].want)
  BY TakeByteEffect
<1>4. Taken \in Nat /\ Len(rx) \in Nat /\ rx' \in Seq(RxEntries) /\ call[h].want \in Nat
  <2>1. call[h] \in ConsoleCalls /\ rx \in Seq(RxEntries)
    BY DEF ConsoleTypeOK
  <2>2. rx' = Tail(rx)
    BY TakeByteInput
  <2>3. rx' \in Seq(RxEntries)
    BY <2>1, <2>2
  <2> QED BY <2>1, <2>3, HeldType DEF ConsoleCalls
<1> HIDE DEF s
<1> DEFINE t == call'[h].chunk
<1>5. /\ t \in Seq(Nat) /\ Len(t) = Len(s) + 1 /\ t[Len(s) + 1] = Taken + 1
      /\ \A i \in 1 .. Len(s) : t[i] = s[i]
  BY <1>1, <1>4
<1> HIDE DEF t
<1>6. ASSUME NEW i \in 2 .. Len(t) PROVE t[i] = t[i - 1] + 1
  <2>0. Len(s) \in Nat
    BY <1>1
  <2>1. CASE i = Len(s) + 1
    <3>1. i - 1 = Len(s) /\ Len(s) > 0 /\ i - 1 \in 1 .. Len(s)
      BY <1>6, <2>0, <2>1
    <3> QED BY <1>2, <1>5, <2>1, <3>1
  <2>2. CASE i # Len(s) + 1
    <3>1. i \in 2 .. Len(s) /\ i \in 1 .. Len(s) /\ i - 1 \in 1 .. Len(s)
      BY <1>5, <1>6, <2>0, <2>2
    <3> QED BY <1>2, <1>5, <3>1
  <2> QED BY <2>1, <2>2
<1>7. cpc'[h] = "get" => rx' # <<>> /\ (kind = "Bl808" => call'[h].count < call'[h].want /\ call'[h].want - call'[h].count <= Len(rx'))
  <2> SUFFICES ASSUME cpc'[h] = "get"
      PROVE  rx' # <<>> /\ call'[h].count < call'[h].want /\ call'[h].want - call'[h].count <= Len(rx')
    OBVIOUS
  <2>1. label = "get" /\ kind = "Bl808" /\ call'[h].count # call'[h].want
    BY <1>3
  <2>2. call[h].count < call[h].want /\ call[h].want - call[h].count <= Len(rx)
    BY <1>2, <2>1
  <2>3. Len(s) \in Nat
    BY <1>1
  <2>4. call'[h].count < call'[h].want /\ call'[h].want - call'[h].count <= Len(rx')
    BY <1>1, <1>3, <1>4, <2>1, <2>2, <2>3
  <2>6. call'[h].count \in Nat /\ call'[h].want \in Nat /\ Len(rx') \in Nat
    BY <1>1, <1>3, <1>4, <2>3
  <2>5. Len(rx') # 0
    BY ONLY <2>4, <2>6
  <2> QED BY <1>4, <2>4, <2>5
<1>8. call'[h].chunk[call'[h].count] = Taken'
  BY <1>1, <1>5 DEF t
<1>9. call'[h].chunk \in Seq(Nat) /\ call'[h].count = Len(call'[h].chunk)
      /\ \A i \in 2 .. Len(call'[h].chunk) : call'[h].chunk[i] = call'[h].chunk[i - 1] + 1
  BY <1>1, <1>5, <1>6 DEF t
<1> QED BY ONLY <1>7, <1>8, <1>9, UNCHANGED kind DEF ReadShape

\* What every read call has taken is kept by a step of one hart.
LEMMA ReadShapeStep ==
    ASSUME ConsoleTypeOK, NEW h \in ConsoleHarts, \A g \in ConsoleHarts : CallShape(g) /\ ReadShape(g),
           WriteShape(h), RxShape, Calls(h) \/ ConsoleStep(h), UNCHANGED kind
    PROVE  \A g \in ConsoleHarts : ReadShape(g)'
<1>0. CallShape(h) /\ ReadShape(h)
  OBVIOUS
<1>00. cpc \in [ConsoleHarts -> ConsoleLabels] /\ rx \in Seq(RxEntries)
  BY DEF ConsoleTypeOK
<1>01. \A x : cpc' = [cpc EXCEPT ![h] = x] => cpc'[h] = x
  BY <1>00
\* Of the other harts, the one in a read loop would hold the lock.
<1>1. ASSUME NEW g \in ConsoleHarts, g # h,
             (rx' = rx /\ arrived' = arrived) \/ cpc[h] \in {"poll_rx", "get"}
      PROVE  ReadShape(g)'
  <2>1. cpc'[g] = cpc[g] /\ call'[g] = call[g]
    BY <1>0, <1>1, HartFrame
  <2>2. ReadShape(g) /\ CallShape(g)
    OBVIOUS
  <2>3. CASE rx' = rx /\ arrived' = arrived
    <3>1. Taken' = Taken
      BY <2>3 DEF Taken
    <3> QED BY ONLY <2>1, <2>2, <2>3, <3>1, UNCHANGED kind DEF ReadShape
  <2>4. CASE cpc[h] \in {"poll_rx", "get"}
    <3>1. lock = h
      BY <1>0, <2>4 DEF CallShape, DeviceSteps
    <3>2. cpc[g] \notin DeviceSteps
      BY <1>1, <2>2, <3>1 DEF CallShape
    <3>3. cpc[g] \notin {"poll_rx", "get"}
      BY <3>2 DEF DeviceSteps
    <3> QED BY ONLY <2>1, <2>2, <3>3 DEF ReadShape
  <2> QED BY <1>1, <2>3, <2>4
<1>2. ASSUME call'[h].fn # "read", cpc'[h] \notin {"poll_rx", "get"} PROVE ReadShape(h)'
  BY <1>2 DEF ReadShape
<1> DEFINE Goal == \A g \in ConsoleHarts : ReadShape(g)'
<1>3. CASE Calls(h)
  <2>1. /\ UNCHANGED <<rx, arrived>> /\ cpc[h] = "smode"
        /\ \/ UNCHANGED <<cpc, call>>
           \/ /\ cpc'[h] = "lock" /\ call'[h].count = 0
              /\ \/ call'[h].fn = "read" /\ call'[h].chunk = <<>>
                 \/ call'[h].fn \in WriteFns
    BY <1>01, <1>3, CallsEffect
  <2>2. Taken' = Taken
    BY <2>1 DEF Taken
  <2>3. ReadShape(h)'
    <3>1. CASE UNCHANGED <<cpc, call>>
      BY ONLY <1>0, <2>1, <2>2, <3>1, UNCHANGED kind DEF ReadShape
    <3>2. CASE cpc'[h] = "lock" /\ call'[h].fn \in WriteFns
      BY <1>2, <3>2 DEF WriteFns
    <3>3. CASE cpc'[h] = "lock" /\ call'[h].count = 0 /\ call'[h].fn = "read" /\ call'[h].chunk = <<>>
      BY <3>3 DEF ReadShape
    <3> QED BY <2>1, <3>1, <3>2, <3>3
  <2> QED BY <1>1, <2>1, <2>3
<1>4. CASE Lock(h)
  <2>1. /\ UNCHANGED <<rx, arrived, call>> /\ cpc[h] = "lock" /\ cpc'[h] \in {"poll_tx", "poll_rx", "count"}
    BY <1>4, LockEffect
  <2>2. call[h].count = 0
    BY <1>0, <2>1 DEF CallShape
  <2>3. ReadShape(h)'
    BY ONLY <1>0, <2>1, <2>2 DEF ReadShape
  <2> QED BY <1>1, <2>1, <2>3
<1>5. CASE PollTx(h) \/ Put(h)
  <2>1. /\ UNCHANGED <<rx, arrived>> /\ cpc[h] \in {"poll_tx", "put"} /\ cpc'[h] \in {"poll_tx", "put", "return"}
        /\ call'[h].fn = call[h].fn
    BY <1>01, <1>5, PollTxEffect, PutEffect
  <2>2. call[h].fn \in WriteFns
    BY <1>0, <2>1 DEF CallShape
  <2>3. ReadShape(h)'
    BY <1>2, <2>1, <2>2 DEF WriteFns
  <2> QED BY <1>1, <2>1, <2>3
<1>6. CASE CountRx(h)
  <2>1. /\ UNCHANGED <<rx, arrived>> /\ cpc[h] = "count"
        /\ call'[h].fn = call[h].fn /\ call'[h].chunk = call[h].chunk /\ call'[h].count = call[h].count
        /\ call'[h].want <= Len(rx) /\ call'[h].want \in Nat
        /\ cpc'[h] = "return" \/ (cpc'[h] = "get" /\ call'[h].want > 0)
    BY <1>6, CountRxEffect
  <2>2. call[h].count = 0 /\ call[h].fn = "read"
    BY <1>0, <2>1 DEF CallShape
  <2>3. cpc'[h] = "get" => rx # <<>> /\ 0 < call'[h].want /\ call'[h].want - 0 <= Len(rx)
    BY <1>00, <2>1
  <2>4. ReadShape(h)'
    BY ONLY <1>0, <2>1, <2>2, <2>3 DEF ReadShape
  <2> QED BY <1>1, <2>1, <2>4
<1>7. CASE PollRx(h)
  <2>1. /\ UNCHANGED arrived /\ cpc[h] = "poll_rx"
        /\ \/ /\ UNCHANGED <<call, rx>>
              /\ cpc'[h] = "return" \/ (cpc'[h] = "get" /\ rx # <<>>)
           \/ rx # <<>> /\ TakeByte(h, "poll_rx")
    BY <1>7, PollRxEffect
  <2>2. kind # "Bl808"
    BY <1>0, <2>1 DEF CallShape
  <2>3. ReadShape(h)'
    <3>1. CASE rx # <<>> /\ TakeByte(h, "poll_rx")
      BY <1>0, <2>1, <3>1, TakeByteReadShape
    <3>2. CASE /\ UNCHANGED <<call, rx>>
               /\ cpc'[h] = "return" \/ (cpc'[h] = "get" /\ rx # <<>>)
      <4>1. Taken' = Taken
        BY <2>1, <3>2 DEF Taken
      <4> QED BY ONLY <1>0, <2>1, <2>2, <3>2, <4>1, UNCHANGED kind DEF ReadShape
    <3> QED BY <2>1, <3>1, <3>2
  <2> QED BY <1>1, <2>1, <2>3
<1>8. CASE Get(h)
  <2>1. UNCHANGED arrived /\ cpc[h] = "get" /\ rx # <<>> /\ TakeByte(h, IF kind = "Bl808" THEN "get" ELSE "poll_rx")
    BY <1>8 DEF Get
  <2>2. ReadShape(h)'
    BY <1>0, <2>1, TakeByteReadShape
  <2> QED BY <1>1, <2>1, <2>2
<1>9. CASE ReturnWrite(h)
  <2>1. /\ UNCHANGED <<rx, arrived>> /\ call[h].fn \in WriteFns /\ cpc'[h] \in {"smode", "lock"}
        /\ call'[h].fn = "none" \/ call'[h].fn = call[h].fn
    BY <1>0, <1>9, ReturnWriteEffect
  <2>2. ReadShape(h)'
    BY <1>2, <2>1 DEF WriteFns
  <2> QED BY <1>1, <2>1, <2>2
<1>10. CASE ReturnRead(h)
  <2>1. UNCHANGED <<rx, arrived>> /\ call'[h].fn = "none" /\ cpc'[h] = "smode"
    BY <1>01, <1>10, ReturnReadEffect
  <2>2. ReadShape(h)'
    BY <1>2, <2>1
  <2> QED BY <1>1, <2>1, <2>2
<1> QED BY <1>3, <1>4, <1>5, <1>6, <1>7, <1>8, <1>9, <1>10 DEF ConsoleStep

\* What readers hold, when neither the queue nor they change.
LEMMA InputSame ==
    ASSUME RxShape, rx' = rx, arrived' = arrived, lost' = lost,
           \A g \in ConsoleHarts : Held(g)' = Held(g)
    PROVE  RxShape'
<1>1. Taken' = Taken
  BY DEF Taken
<1>2. {ToSet(Held(h)) : h \in ConsoleHarts}' = {ToSet(Held(h)) : h \in ConsoleHarts}
  OBVIOUS
<1>3. \A g \in ConsoleHarts : ToSet(Held(g))' = ToSet(Held(g)) /\ Len(Held(g))' = Len(Held(g))
  OBVIOUS
<1> QED BY <1>1, <1>2, <1>3 DEF RxShape

\* A byte that is taken is held by its reader, and is the greatest of all.
LEMMA InputTaken ==
    ASSUME ConsoleTypeOK, NEW h \in ConsoleHarts, \A g \in ConsoleHarts : CallShape(g) /\ ReadShape(g),
           RxShape, rx # <<>>, cpc[h] \in {"poll_rx", "get"}, arrived' = arrived, lost' = lost, delivered' = delivered,
           \A g \in ConsoleHarts : g # h => call'[g] = call[g],
           NEW label, TakeByte(h, label)
    PROVE  RxShape'
<1> DEFINE n == Taken
<1>1. /\ call[h].fn = "read" /\ call'[h].fn = "read" /\ call[h].chunk \in Seq(Nat)
      /\ call'[h].chunk = Append(call[h].chunk, n + 1) /\ Taken' = n + 1
      /\ Len(rx') = Len(rx) - 1 /\ \A i \in 1 .. Len(rx') : rx'[i] = rx[i + 1]
  BY TakeByteInput
<1>2. delivered[h] \in Seq(Nat) /\ n \in Nat /\ Len(rx) \in Nat /\ Held(h) \in Seq(Nat)
  BY HeldType
<1>3. Held(h)' = Append(Held(h), n + 1)
  <2>1. ReadBytes(h)' = Append(call[h].chunk, n + 1) /\ ReadBytes(h) = call[h].chunk
    BY <1>1 DEF ReadBytes
  <2>2. delivered[h] \o Append(call[h].chunk, n + 1) = Append(delivered[h] \o call[h].chunk, n + 1)
    <3>1. n + 1 \in Nat
      BY <1>2
    <3>2. call[h].chunk \in Seq(Nat) /\ delivered[h] \in Seq(Nat)
      BY <1>1, <1>2
    <3>3. \A s, t \in Seq(Nat), b \in Nat : s \o Append(t, b) = Append(s \o t, b)
      BY AppendToConcat
    <3> HIDE DEF n
    <3> QED BY ONLY <3>1, <3>2, <3>3
  <2> QED BY <2>1, <2>2 DEF Held
<1>4. \A g \in ConsoleHarts : g # h => Held(g)' = Held(g)
  BY DEF Held, ReadBytes
<1>5. ToSet(Held(h)') = ToSet(Held(h)) \cup {n + 1}
  BY <1>2, <1>3, ElementsOfAppend
<1>6. \A g \in ConsoleHarts : g # h => ToSet(Held(g)') = ToSet(Held(g))
  BY <1>4
<1>7. /\ \A g \in ConsoleHarts : ToSet(Held(g)) \subseteq 1 .. n
      /\ lost \subseteq 1 .. n
      /\ 1 .. n \subseteq lost \cup UNION {ToSet(Held(g)) : g \in ConsoleHarts}
      /\ \A g \in ConsoleHarts : ToSet(Held(g)) \cap lost = {}
      /\ \A f, g \in ConsoleHarts : f # g => ToSet(Held(f)) \cap ToSet(Held(g)) = {}
      /\ \A i, j \in 1 .. Len(Held(h)) : i < j => Held(h)[i] < Held(h)[j]
      /\ \A g \in ConsoleHarts : \A i, j \in 1 .. Len(Held(g)) : i < j => Held(g)[i] < Held(g)[j]
      /\ \A i \in 1 .. Len(rx) : rx[i].byte = n + i
  BY DEF RxShape
<1> HIDE DEF n
<1>8. n + 1 \notin 1 .. n /\ 1 .. n \subseteq 1 .. n + 1 /\ n + 1 \in 1 .. n + 1 /\ 1 .. n + 1 = 1 .. n \cup {n + 1}
  BY <1>2
<1>9. \A i \in 1 .. Len(rx') : rx'[i].byte = Taken' + i
  <2>1. ASSUME NEW i \in 1 .. Len(rx') PROVE rx'[i].byte = Taken' + i
    <3>2. Len(rx') = Len(rx) - 1 /\ Len(rx) \in Nat /\ n \in Nat
      BY <1>1, <1>2
    <3>1. i + 1 \in 1 .. Len(rx) /\ n + (i + 1) = n + 1 + i
      BY ONLY <2>1, <3>2
    <3> QED BY <1>1, <1>7, <3>1
  <2> QED BY <2>1
<1>10. \A g \in ConsoleHarts : ToSet(Held(g)') \subseteq 1 .. Taken'
  BY <1>1, <1>5, <1>6, <1>7, <1>8
<1>11. lost' \subseteq 1 .. Taken'
  BY <1>1, <1>7, <1>8
<1>12. 1 .. Taken' \subseteq lost' \cup UNION {ToSet(Held(g)') : g \in ConsoleHarts}
  <2>1. ASSUME NEW x \in 1 .. n + 1 PROVE x \in lost \cup UNION {ToSet(Held(g)') : g \in ConsoleHarts}
    <3>1. CASE x = n + 1
      BY <1>5, <3>1
    <3>2. CASE x # n + 1
      <4>1. x \in lost \/ \E g \in ConsoleHarts : x \in ToSet(Held(g))
        BY <1>7, <1>8, <3>2
      <4>2. \A g \in ConsoleHarts : ToSet(Held(g)) \subseteq ToSet(Held(g)')
        BY <1>5, <1>6
      <4> QED BY <4>1, <4>2
    <3> QED BY <3>1, <3>2
  <2> QED BY <1>1, <2>1
<1>13. \A g \in ConsoleHarts : ToSet(Held(g)') \cap lost' = {}
  BY <1>5, <1>6, <1>7, <1>8
<1>14. ASSUME NEW f \in ConsoleHarts, NEW g \in ConsoleHarts, f # g
       PROVE  ToSet(Held(f)') \cap ToSet(Held(g)') = {}
  <2>1. \A k \in ConsoleHarts : n + 1 \notin ToSet(Held(k))
    BY <1>7, <1>8
  <2>2. ToSet(Held(f)) \cap ToSet(Held(g)) = {}
    BY <1>7, <1>14
  <2>3. CASE f = h
    BY <1>5, <1>6, <1>14, <2>1, <2>2, <2>3
  <2>4. CASE g = h
    BY <1>5, <1>6, <1>14, <2>1, <2>2, <2>4
  <2>5. CASE f # h /\ g # h
    BY <1>6, <2>2, <2>5
  <2> QED BY <2>3, <2>4, <2>5
<1>15. ASSUME NEW i \in 1 .. Len(Held(h)'), NEW j \in 1 .. Len(Held(h)'), i < j
       PROVE  Held(h)'[i] < Held(h)'[j]
  <2> DEFINE s == Held(h)
             t == Held(h)'
  <2>1. s \in Seq(Nat) /\ t = Append(s, n + 1)
    BY <1>2, <1>3
  <2>2. \A k \in 1 .. Len(s) : s[k] \in 1 .. n
    BY <1>2, <1>7, ElementsAt
  <2>3. \A k, l \in 1 .. Len(s) : k < l => s[k] < s[l]
    BY <1>7
  <2>4. i \in 1 .. Len(t) /\ j \in 1 .. Len(t) /\ i < j
    BY <1>15
  <2> HIDE DEF s, t
  <2>5. Len(t) = Len(s) + 1 /\ Len(s) \in Nat /\ t[Len(s) + 1] = n + 1 /\ \A k \in 1 .. Len(s) : t[k] = s[k]
    BY <1>2, <2>1
  <2>6. i \in 1 .. Len(s) /\ t[i] = s[i]
    BY <2>4, <2>5
  <2>7. CASE j = Len(s) + 1
    BY <1>2, <2>2, <2>5, <2>6, <2>7 DEF t
  <2>8. CASE j # Len(s) + 1
    <3>1. j \in 1 .. Len(s) /\ t[j] = s[j]
      BY <2>4, <2>5, <2>8
    <3> QED BY <2>3, <2>4, <2>6, <3>1 DEF t
  <2> QED BY <2>7, <2>8
<1>16. ASSUME NEW g \in ConsoleHarts
       PROVE  \A i, j \in 1 .. Len(Held(g)') : i < j => Held(g)'[i] < Held(g)'[j]
  <2>1. CASE g = h
    BY <1>15, <2>1
  <2>2. CASE g # h
    BY <1>4, <1>7, <2>2
  <2> QED BY <2>1, <2>2
<1> QED BY <1>9, <1>10, <1>11, <1>12, <1>13, <1>14, <1>16 DEF RxShape

\* Bytes of a slice with a line error are lost, and no reader holds them.
LEMMA InputLost ==
    ASSUME ConsoleTypeOK, NEW h \in ConsoleHarts, \A g \in ConsoleHarts : ReadShape(g),
           RxShape, rx' = rx, arrived' = arrived, delivered' = delivered,
           \A g \in ConsoleHarts : g # h => call'[g] = call[g],
           call[h].fn = "read", call'[h].fn # "read", lost' = lost \cup ToSet(call[h].chunk)
    PROVE  RxShape'
<1> DEFINE d == delivered[h]
           c == call[h].chunk
<1>1. d \in Seq(Nat) /\ c \in Seq(Nat) /\ ReadBytes(h) = c /\ Held(h) = d \o c
  <2>1. ReadBytes(h) = c
    BY DEF ReadBytes
  <2> QED BY <2>1, HeldType DEF Held
<1>2. Held(h)' = d
  <2>1. ReadBytes(h)' = <<>>
    BY DEF ReadBytes
  <2>2. Held(h)' = d \o <<>>
    BY <2>1 DEF Held
  <2> QED BY <1>1, <2>2
<1>3. \A g \in ConsoleHarts : g # h => Held(g)' = Held(g)
  BY DEF Held, ReadBytes
<1>4. ToSet(Held(h)) = ToSet(d) \cup ToSet(c)
  BY <1>1, ElementsOfConcat
<1>5. Taken' = Taken
  BY DEF Taken
<1>6. ToSet(d) \cap ToSet(c) = {}
  <2> HIDE DEF d, c
  <2>1. ASSUME NEW x \in ToSet(d), x \in ToSet(c) PROVE FALSE
    <3>1. PICK i \in 1 .. Len(d) : d[i] = x
      BY <1>1, <2>1, ElementsAt
    <3>2. PICK j \in 1 .. Len(c) : c[j] = x
      BY <1>1, <2>1, ElementsAt
    <3>3. i \in 1 .. Len(d \o c) /\ Len(d) + j \in 1 .. Len(d \o c) /\ i < Len(d) + j
          /\ (d \o c)[i] = d[i] /\ (d \o c)[Len(d) + j] = c[j]
      BY ONLY <1>1
    <3>4. \A k, l \in 1 .. Len(d \o c) : k < l => (d \o c)[k] < (d \o c)[l]
      BY <1>1 DEF RxShape
    <3>6. (d \o c)[i] < (d \o c)[Len(d) + j]
      BY ONLY <3>3, <3>4
    <3>5. x < x /\ x \in Nat
      BY ONLY <1>1, <3>1, <3>2, <3>3, <3>6
    <3> QED BY <3>5
  <2> QED BY <2>1
<1>7. /\ \A g \in ConsoleHarts : ToSet(Held(g)) \subseteq 1 .. Taken
      /\ lost \subseteq 1 .. Taken
      /\ 1 .. Taken \subseteq lost \cup UNION {ToSet(Held(g)) : g \in ConsoleHarts}
      /\ \A g \in ConsoleHarts : ToSet(Held(g)) \cap lost = {}
      /\ \A f, g \in ConsoleHarts : f # g => ToSet(Held(f)) \cap ToSet(Held(g)) = {}
      /\ \A g \in ConsoleHarts : \A i, j \in 1 .. Len(Held(g)) : i < j => Held(g)[i] < Held(g)[j]
      /\ \A i \in 1 .. Len(rx) : rx[i].byte = Taken + i
  BY DEF RxShape
<1>8. ToSet(Held(h)') = ToSet(d) /\ \A g \in ConsoleHarts : g # h => ToSet(Held(g)') = ToSet(Held(g))
  BY <1>2, <1>3
<1> HIDE DEF d, c
<1>9. lost' = lost \cup ToSet(c)
  BY DEF c
<1>10. \A g \in ConsoleHarts : ToSet(Held(g)') \subseteq 1 .. Taken'
  BY <1>4, <1>5, <1>7, <1>8
<1>11. lost' \subseteq 1 .. Taken'
  BY <1>4, <1>5, <1>7, <1>9
<1>12. 1 .. Taken' \subseteq lost' \cup UNION {ToSet(Held(g)') : g \in ConsoleHarts}
  <2>1. ASSUME NEW x \in 1 .. Taken PROVE x \in lost' \cup UNION {ToSet(Held(g)') : g \in ConsoleHarts}
    <3>1. x \in lost \/ \E g \in ConsoleHarts : x \in ToSet(Held(g))
      BY <1>7
    <3>2. ASSUME NEW g \in ConsoleHarts, x \in ToSet(Held(g)) PROVE x \in lost' \/ x \in ToSet(Held(g)')
      BY <1>4, <1>8, <1>9, <3>2
    <3> QED BY <1>9, <3>1, <3>2
  <2> QED BY <1>5, <2>1
<1>13. \A g \in ConsoleHarts : ToSet(Held(g)') \cap lost' = {}
  <2>1. ToSet(Held(h)') \cap lost' = {}
    BY <1>4, <1>6, <1>7, <1>8, <1>9
  <2>2. ASSUME NEW g \in ConsoleHarts, g # h PROVE ToSet(Held(g)') \cap lost' = {}
    <3>1. ToSet(Held(g)) \cap ToSet(Held(h)) = {} /\ ToSet(Held(g)) \cap lost = {}
      BY <1>7, <2>2
    <3> QED BY <1>4, <1>8, <1>9, <2>2, <3>1
  <2> QED BY <2>1, <2>2
<1>14. \A f, g \in ConsoleHarts : f # g => ToSet(Held(f)') \cap ToSet(Held(g)') = {}
  <2>1. \A g \in ConsoleHarts : ToSet(Held(g)') \subseteq ToSet(Held(g))
    BY <1>4, <1>8
  <2> QED BY <1>7, <2>1
<1>15. ASSUME NEW g \in ConsoleHarts
       PROVE  \A i, j \in 1 .. Len(Held(g)') : i < j => Held(g)'[i] < Held(g)'[j]
  <2>1. CASE g = h
    <3>1. ASSUME NEW i \in 1 .. Len(d), NEW j \in 1 .. Len(d), i < j PROVE d[i] < d[j]
      <4>1. i \in 1 .. Len(d \o c) /\ j \in 1 .. Len(d \o c) /\ (d \o c)[i] = d[i] /\ (d \o c)[j] = d[j]
        BY <1>1
      <4>2. \A k, l \in 1 .. Len(d \o c) : k < l => (d \o c)[k] < (d \o c)[l]
        BY <1>1, <1>7
      <4> QED BY <3>1, <4>1, <4>2
    <3> QED BY <1>2, <2>1, <3>1
  <2>2. CASE g # h
    BY <1>3, <1>7, <2>2
  <2> QED BY <2>1, <2>2
<1>16. \A i \in 1 .. Len(rx') : rx'[i].byte = Taken' + i
  BY <1>5, <1>7
<1> QED BY <1>10, <1>11, <1>12, <1>13, <1>14, <1>15, <1>16 DEF RxShape

\* A step of a hart keeps what is known of the input.
LEMMA InputStep ==
    ASSUME ConsoleTypeOK, NEW h \in ConsoleHarts, \A g \in ConsoleHarts : CallShape(g) /\ ReadShape(g),
           WriteShape(h), RxShape, Calls(h) \/ ConsoleStep(h)
    PROVE  RxShape'
<1>0. CallShape(h) /\ ReadShape(h)
  OBVIOUS
<1>1. \A g \in ConsoleHarts : g # h => call'[g] = call[g] /\ delivered'[g] = delivered[g]
  BY <1>0, HartFrame
<1>2. \A g \in ConsoleHarts : g # h => Held(g)' = Held(g)
  BY <1>1 DEF Held, ReadBytes
<1>3. ASSUME UNCHANGED <<rx, arrived, lost, delivered>>, ReadBytes(h)' = ReadBytes(h)
      PROVE  RxShape'
  <2>1. Held(h)' = Held(h)
    BY <1>3 DEF Held
  <2> QED BY <1>2, <1>3, <2>1, InputSame
<1>4. CASE Calls(h)
  <2>1. /\ UNCHANGED <<rx, arrived, lost, delivered>> /\ cpc[h] = "smode"
        /\ \/ UNCHANGED call
           \/ call'[h].fn = "read" /\ call'[h].chunk = <<>>
           \/ call'[h].fn \in WriteFns
    BY <1>4, CallsEffect
  <2>2. call[h].fn = "none"
    BY <1>0, <2>1 DEF CallShape
  <2>3. ReadBytes(h)' = ReadBytes(h)
    BY <2>1, <2>2 DEF ReadBytes, WriteFns
  <2> QED BY <1>3, <2>1, <2>3
<1>5. CASE Lock(h) \/ PollTx(h) \/ Put(h) \/ CountRx(h)
  <2>1. UNCHANGED <<rx, arrived, lost, delivered>> /\ call'[h].fn = call[h].fn /\ call'[h].chunk = call[h].chunk
    BY <1>5, LockEffect, PollTxEffect, PutEffect, CountRxEffect
  <2>2. ReadBytes(h)' = ReadBytes(h)
    BY <2>1 DEF ReadBytes
  <2> QED BY <1>3, <2>1, <2>2
<1>6. ASSUME NEW label, rx # <<>>, TakeByte(h, label), cpc[h] \in {"poll_rx", "get"},
             UNCHANGED <<arrived, lost, delivered>>
      PROVE  RxShape'
  BY <1>1, <1>6, InputTaken
<1>7. CASE PollRx(h)
  <2>1. /\ UNCHANGED <<arrived, lost, delivered>> /\ cpc[h] = "poll_rx"
        /\ UNCHANGED <<call, rx>> \/ (rx # <<>> /\ TakeByte(h, "poll_rx"))
    BY <1>7, PollRxEffect
  <2>2. CASE UNCHANGED <<call, rx>>
    <3>1. ReadBytes(h)' = ReadBytes(h)
      BY <2>2 DEF ReadBytes
    <3> QED BY <1>3, <2>1, <2>2, <3>1
  <2>3. CASE rx # <<>> /\ TakeByte(h, "poll_rx")
    BY <1>6, <2>1, <2>3
  <2> QED BY <2>1, <2>2, <2>3
<1>8. CASE Get(h)
  <2>1. UNCHANGED <<arrived, lost, delivered>> /\ cpc[h] = "get" /\ rx # <<>> /\ \E label : TakeByte(h, label)
    BY <1>8 DEF Get
  <2> QED BY <1>6, <2>1
<1>9. CASE ReturnWrite(h)
  <2>1. /\ UNCHANGED <<rx, arrived, lost, delivered>> /\ call[h].fn \in WriteFns
        /\ call'[h].fn = "none" \/ call'[h].fn = call[h].fn
    BY <1>0, <1>9, ReturnWriteEffect
  <2>2. ReadBytes(h)' = ReadBytes(h)
    BY <2>1 DEF ReadBytes, WriteFns
  <2> QED BY <1>3, <2>1, <2>2
<1>10. CASE ReturnRead(h)
  <2>1. /\ UNCHANGED <<rx, arrived>> /\ call[h].fn = "read" /\ call'[h].fn = "none"
        /\ \/ lost' = lost \cup ToSet(call[h].chunk) /\ delivered' = delivered
           \/ lost' = lost /\ delivered' = [delivered EXCEPT ![h] = delivered[h] \o call[h].chunk]
    BY <1>10, ReturnReadEffect
  <2>2. CASE lost' = lost \cup ToSet(call[h].chunk) /\ delivered' = delivered
    <3>1. "none" # "read"
      OBVIOUS
    <3> QED BY <1>1, <2>1, <2>2, <3>1, InputLost
  <2>3. CASE lost' = lost /\ delivered' = [delivered EXCEPT ![h] = delivered[h] \o call[h].chunk]
    <3>1. delivered \in [ConsoleHarts -> Seq(Nat)] /\ ReadBytes(h) = call[h].chunk /\ ReadBytes(h)' = <<>>
      BY <2>1 DEF ConsoleTypeOK, ReadBytes
    <3>2. Held(h) \in Seq(Nat)
      BY <1>0, HeldType
    <3>3. Held(h)' = Held(h) \o <<>>
      BY <2>3, <3>1 DEF Held
    <3>4. Held(h)' = Held(h)
      BY <3>2, <3>3
    <3> QED BY <1>2, <2>1, <2>3, <3>4, InputSame
  <2> QED BY <2>1, <2>2, <2>3
<1> QED BY <1>4, <1>5, <1>7, <1>8, <1>9, <1>10 DEF ConsoleStep

\* The line keeps it too: a byte that arrives is the next one.
LEMMA LineInput ==
    ASSUME ConsoleTypeOK, \A g \in ConsoleHarts : CallShape(g) /\ ReadShape(g), RxShape,
           Transmit \/ Arrive, UNCHANGED kind
    PROVE  RxShape' /\ \A g \in ConsoleHarts : CallShape(g)' /\ ReadShape(g)'
<1>1. UNCHANGED <<lock, cpc, call, delivered, lost>>
  BY DEF Transmit, Arrive
<1>2. \A g \in ConsoleHarts : Held(g)' = Held(g)
  BY <1>1 DEF Held, ReadBytes
<1>3. \A g \in ConsoleHarts : CallShape(g)'
  BY <1>1 DEF CallShape
<1>4. rx \in Seq(RxEntries) /\ arrived \in Nat /\ Len(rx) \in Nat
  BY DEF ConsoleTypeOK
<1>5. CASE Transmit
  <2>1. UNCHANGED <<rx, arrived>>
    BY <1>5 DEF Transmit
  <2>2. RxShape'
    BY <1>1, <1>2, <2>1, InputSame
  <2>3. Taken' = Taken
    BY <2>1 DEF Taken
  <2>4. \A g \in ConsoleHarts : ReadShape(g)'
    BY <1>1, <2>1, <2>3 DEF ReadShape
  <2> QED BY <1>3, <2>2, <2>4
<1>6. CASE Arrive
  <2>1. PICK e \in BOOLEAN : rx' = Append(rx, [byte |-> arrived + 1, error |-> e])
    BY <1>6 DEF Arrive
  <2>2. arrived' = arrived + 1
    BY <1>6 DEF Arrive
  <2>3. [byte |-> arrived + 1, error |-> e] \in RxEntries /\ [byte |-> arrived + 1, error |-> e].byte = arrived + 1
    BY <1>4 DEF RxEntries
  <2> DEFINE b == [byte |-> arrived + 1, error |-> e]
  <2> HIDE DEF b
  <2>4. /\ Len(rx') = Len(rx) + 1 /\ rx'[Len(rx) + 1] = b /\ \A i \in 1 .. Len(rx) : rx'[i] = rx[i]
        /\ rx' # <<>>
    BY <1>4, <2>1, <2>3 DEF b
  <2>5. Taken' = Taken
    BY <1>4, <2>2, <2>4 DEF Taken
  <2>6. ASSUME NEW i \in 1 .. Len(rx') PROVE rx'[i].byte = Taken' + i
    <3>1. CASE i = Len(rx) + 1
      <4>1. rx'[i].byte = arrived + 1
        BY <2>3, <2>4, <3>1 DEF b
      <4> QED BY <1>4, <2>5, <3>1, <4>1 DEF Taken
    <3>2. CASE i # Len(rx) + 1
      <4>1. i \in 1 .. Len(rx)
        BY <1>4, <2>4, <3>2
      <4> QED BY <2>4, <2>5, <4>1 DEF RxShape
    <3> QED BY <3>1, <3>2
  <2>7. RxShape'
    <3>1. \A g \in ConsoleHarts : ToSet(Held(g))' = ToSet(Held(g)) /\ Len(Held(g))' = Len(Held(g))
      BY <1>2
    <3>2. {ToSet(Held(g)) : g \in ConsoleHarts}' = {ToSet(Held(g)) : g \in ConsoleHarts}
      BY <3>1
    <3> QED BY <1>1, <1>2, <2>5, <2>6, <3>1, <3>2 DEF RxShape
  <2>8. ASSUME NEW g \in ConsoleHarts PROVE ReadShape(g)'
    <3>1. ReadShape(g) /\ call[g] \in ConsoleCalls
      BY DEF ConsoleTypeOK
    <3>2. call[g].want \in Nat /\ call[g].count \in Nat
      BY <3>1 DEF ConsoleCalls
    <3>3. call[g].want - call[g].count <= Len(rx) => call[g].want - call[g].count <= Len(rx')
      BY <1>4, <2>4, <3>2
    <3> QED BY ONLY <1>1, <2>4, <2>5, <3>1, <3>3, UNCHANGED kind DEF ReadShape
  <2> QED BY <1>3, <2>7, <2>8
<1> QED BY <1>5, <1>6

-----------------------------------------------------------------------------
(* Configuration of the line.                                            *)

UartRegs ==
    [line : {"8n1", "latch"}, interrupt : {"off", Enabled}, control : {"off", Enabled}, fifo : {"used", "reset"},
     status : {"errors", "clear"}, low : Nat, high : Nat, nextLow : Nat, nextHigh : Nat, sent : BOOLEAN, torn : BOOLEAN]

\* What a write does to an XScale UART.
LEMMA XScaleWrite ==
    ASSUME kind = "XScale", NEW u \in UartRegs, NEW v \in Nat
    PROVE  /\ WriteReg(u, <<"line", "8n1">>) = [u EXCEPT !.line = "8n1"]
           /\ WriteReg(u, <<"line", "latch">>) = [u EXCEPT !.line = "latch"]
           /\ WriteReg(u, <<"fifo", "reset">>) = [u EXCEPT !.fifo = "reset"]
           /\ u.line = "8n1" => WriteReg(u, <<"interrupt", Enabled>>) = [u EXCEPT !.interrupt = Enabled]
           /\ u.line = "latch" => WriteReg(u, <<"interrupt", v>>) = [u EXCEPT !.high = v]
           /\ u.line = "latch" => WriteReg(u, <<"data", v>>) = [u EXCEPT !.low = v]
<1>0. kind # Pl011
  BY DEF Pl011
<1>1. WriteReg(u, <<"line", "8n1">>) = [u EXCEPT !.line = "8n1"]
  BY <1>0 DEF WriteReg
<1>2. WriteReg(u, <<"line", "latch">>) = [u EXCEPT !.line = "latch"]
  BY <1>0 DEF WriteReg
<1>3. WriteReg(u, <<"fifo", "reset">>) = [u EXCEPT !.fifo = "reset"]
  BY <1>0 DEF WriteReg
<1>4. u.line = "8n1" => WriteReg(u, <<"interrupt", Enabled>>) = [u EXCEPT !.interrupt = Enabled]
  BY <1>0 DEF WriteReg
<1>5. u.line = "latch" => WriteReg(u, <<"interrupt", v>>) = [u EXCEPT !.high = v]
  BY <1>0 DEF WriteReg
<1>6. u.line = "latch" => WriteReg(u, <<"data", v>>) = [u EXCEPT !.low = v]
  BY <1>0 DEF WriteReg
<1> QED BY <1>1, <1>2, <1>3, <1>4, <1>5, <1>6

\* What a write does to a PL011.
LEMMA Pl011Write ==
    ASSUME kind = Pl011, NEW u \in UartRegs, NEW v \in Nat
    PROVE  /\ WriteReg(u, <<"status", "clear">>) = [u EXCEPT !.status = "clear"]
           /\ WriteReg(u, <<"control", "off">>) = [u EXCEPT !.control = "off"]
           /\ WriteReg(u, <<"control", Enabled>>) = [u EXCEPT !.control = Enabled]
           /\ u.control = "off" => WriteReg(u, <<"nextHigh", v>>) = [u EXCEPT !.nextHigh = v]
           /\ u.control = "off" => WriteReg(u, <<"nextLow", v>>) = [u EXCEPT !.nextLow = v]
           /\ WriteReg(u, <<"line", "8n1">>) = [u EXCEPT !.line = "8n1", !.low = u.nextLow, !.high = u.nextHigh]
<1>0. kind # "XScale" /\ "off" # Enabled
  BY DEF Pl011, Enabled
<1>1. WriteReg(u, <<"control", "off">>) = [u EXCEPT !.control = "off"]
  BY <1>0 DEF WriteReg
<1>2. WriteReg(u, <<"control", Enabled>>) = [u EXCEPT !.control = Enabled]
  BY <1>0 DEF WriteReg
<1>3. u.control = "off" => WriteReg(u, <<"nextHigh", v>>) = [u EXCEPT !.nextHigh = v]
  BY <1>0 DEF WriteReg
<1>4. u.control = "off" => WriteReg(u, <<"nextLow", v>>) = [u EXCEPT !.nextLow = v]
  BY <1>0 DEF WriteReg
<1>5. WriteReg(u, <<"line", "8n1">>) = [u EXCEPT !.line = "8n1", !.low = u.nextLow, !.high = u.nextHigh]
  BY <1>0 DEF WriteReg
<1>6. WriteReg(u, <<"status", "clear">>) = [u EXCEPT !.status = "clear"]
  BY <1>0 DEF WriteReg
<1> QED BY <1>1, <1>2, <1>3, <1>4, <1>5, <1>6

\* The nearest divisor of a 16550.
LEMMA NearestDivisor ==
    ASSUME NEW c \in Nat
    PROVE  /\ UartDivisor(c) \in Nat
           /\ UartDivisor(c) # 0 => 2 * (c - UartDivisor(c) * BaudClock) \in -BaudClock .. BaudClock
<1>0. BaudClock \in Nat \ {0} /\ ByteSize \in Nat \ {0} /\ ClockWidth \in Nat
  BY ConsoleAssumption
<1> DEFINE half == BaudClock \div 2
           d == (c + half) \div BaudClock
<1>1. half \in Nat /\ 2 * half <= BaudClock /\ BaudClock <= 2 * half + 1
  BY <1>0
<1> HIDE DEF half
<1>2. d \in Nat /\ d * BaudClock <= c + half /\ c + half < d * BaudClock + BaudClock
  <2>1. \A x \in Nat, y \in Nat \ {0} : x \div y \in Nat /\ (x \div y) * y <= x /\ x < (x \div y) * y + y
    OBVIOUS
  <2>2. c + half \in Nat
    BY <1>1
  <2> QED BY ONLY <1>0, <2>1, <2>2
<1>3. UartDivisor(c) = 0 \/ UartDivisor(c) = d
  BY DEF UartDivisor, half
<1> HIDE DEF d
<1> DEFINE p == d * BaudClock
<1>4. p \in Nat /\ p <= c + half /\ c + half < p + BaudClock
  BY <1>0, <1>2
<1> HIDE DEF p
<1>5. 2 * (c - p) \in -BaudClock .. BaudClock
  BY <1>0, <1>1, <1>4
<1> QED BY <1>2, <1>3, <1>5 DEF p

\* The nearest divisors of a PL011, in units of a fraction.
LEMMA NearestDivisors ==
    ASSUME NEW c \in Nat, Pl011Divisors(c) # <<0, 0>>
    PROVE  /\ Pl011Divisors(c)[1] \in Nat /\ Pl011Divisors(c)[2] \in Nat
           /\ 2 * (Fractions * c - (Fractions * Pl011Divisors(c)[1] + Pl011Divisors(c)[2]) * BaudClock)
                \in -BaudClock .. BaudClock
<1>0. BaudClock \in Nat \ {0} /\ Fractions \in Nat \ {0} /\ ByteSize \in Nat \ {0}
  BY ConsoleAssumption
<1> DEFINE half == BaudClock \div 2
           m == c % BaudClock
           q == c \div BaudClock
           f == (m * Fractions + half) \div BaudClock
           i == q + (IF f = Fractions THEN 1 ELSE 0)
           g == IF f = Fractions THEN 0 ELSE f
<1>1. half \in Nat /\ 2 * half <= BaudClock /\ BaudClock <= 2 * half + 1
  BY <1>0
<1>2. m \in Nat /\ q \in Nat /\ c = q * BaudClock + m
  <2>1. \A x \in Nat, y \in Nat \ {0} : x \div y \in Nat /\ x % y \in Nat /\ x = (x \div y) * y + (x % y)
    OBVIOUS
  <2> QED BY ONLY <1>0, <2>1
<1>3. Pl011Divisors(c) = <<i, g>>
  BY DEF Pl011Divisors
<1> HIDE DEF half, m, q
<1>4. f \in Nat /\ f * BaudClock <= m * Fractions + half /\ m * Fractions + half < f * BaudClock + BaudClock
  <2>1. \A x \in Nat, y \in Nat \ {0} : x \div y \in Nat /\ (x \div y) * y <= x /\ x < (x \div y) * y + y
    OBVIOUS
  <2>2. m * Fractions + half \in Nat
    BY <1>0, <1>1, <1>2
  <2> QED BY ONLY <1>0, <2>1, <2>2
<1> HIDE DEF f
<1>5. i \in Nat /\ g \in Nat
  BY <1>2, <1>4
<1>6. Fractions * i + g = Fractions * q + f
  <2>1. CASE f = Fractions
    <3>1. i = q + 1 /\ g = 0
      BY <2>1
    <3>2. Fractions * (q + 1) = Fractions * q + Fractions
      BY <1>0, <1>2
    <3> QED BY <1>0, <1>2, <2>1, <3>1, <3>2
  <2>2. CASE f # Fractions
    <3>1. i = q /\ g = f
      BY <1>2, <2>2
    <3> QED BY <3>1
  <2> QED BY <2>1, <2>2
<1> HIDE DEF i, g
<1>7. Fractions * c - (Fractions * q + f) * BaudClock = m * Fractions - f * BaudClock
  <2>1. Fractions * (q * BaudClock + m) = Fractions * q * BaudClock + m * Fractions
    BY ONLY <1>0, <1>2
  <2>2. (Fractions * q + f) * BaudClock = Fractions * q * BaudClock + f * BaudClock
    BY ONLY <1>0, <1>2, <1>4
  <2>3. Fractions * q * BaudClock \in Nat /\ m * Fractions \in Nat /\ f * BaudClock \in Nat
    BY ONLY <1>0, <1>2, <1>4
  <2>4. Fractions * c = Fractions * q * BaudClock + m * Fractions
    BY ONLY <1>2, <2>1
  <2> QED BY ONLY <2>2, <2>3, <2>4
<1> DEFINE p == f * BaudClock
           r == m * Fractions
<1>8. p \in Nat /\ r \in Nat /\ p <= r + half /\ r + half < p + BaudClock
  BY <1>0, <1>2, <1>4
<1>9. Fractions * c - (Fractions * i + g) * BaudClock = r - p
  BY <1>6, <1>7
<1> HIDE DEF p, r
<1>10. 2 * (r - p) \in -BaudClock .. BaudClock
  BY <1>0, <1>1, <1>8
<1>11. Pl011Divisors(c)[1] = i /\ Pl011Divisors(c)[2] = g
  BY <1>3
<1> QED BY <1>5, <1>9, <1>10, <1>11

\* The divisor that configure programs, 0 for none.
LineDivisor == IF clock = NoClock THEN 0 ELSE UartDivisor(clock)

\* How far the writes of bind have brought an XScale UART.
XScaleLine ==
    /\ ~uart.sent
    /\ made >= 1 => uart.line = IF LineDivisor # 0 /\ made \in 3 .. 5 THEN "latch" ELSE "8n1"
    /\ made >= 2 => uart.interrupt = Enabled
    /\ LineDivisor = 0 => uart.low = 1 /\ uart.high = 0
    /\ LineDivisor # 0 /\ made >= 4 => uart.low = LineDivisor % ByteSize
    /\ LineDivisor # 0 /\ made >= 5 => uart.high = LineDivisor \div ByteSize

\* The same of a PL011: the divisors are written while the unit is off.
Pl011Line ==
    /\ ~uart.torn
    /\ made >= 1 => uart.status = "clear"
    /\ made \in 2 .. 5 => uart.control = "off"
    /\ made >= 6 => uart.control = Enabled
    /\ made >= 3 => uart.nextHigh = Pl011Divisors(clock)[1]
    /\ made >= 4 => uart.nextLow = Pl011Divisors(clock)[2]
    /\ made >= 5 => uart.line = "8n1" /\ uart.low = uart.nextLow /\ uart.high = uart.nextHigh

\* The line at every step of bind.
LineInv ==
    /\ clock \in Nat \cup {NoClock}
    /\ uart \in UartRegs /\ made \in Nat
    /\ phase = "found" => uart \in Leftover /\ made = 0
    /\ phase \in {"binding", "bound"} =>
        /\ ~BindFails
        /\ made <= Len(BindWrites)
        /\ phase = "bound" => made = Len(BindWrites)
        /\ kind = "XScale" => XScaleLine
        /\ kind = Pl011 => Pl011Line

\* The writes of each driver are known one by one.
LEMMA BindWritesAre ==
    /\ kind = "XScale" =>
        /\ LineDivisor = 0 => BindWrites = <<<<"line", "8n1">>, <<"interrupt", Enabled>>, <<"fifo", "reset">>,
                                             <<"interrupt", Enabled>>>>
        /\ LineDivisor # 0 => BindWrites = <<<<"line", "8n1">>, <<"interrupt", Enabled>>, <<"line", "latch">>,
                                             <<"data", LineDivisor % ByteSize>>, <<"interrupt", LineDivisor \div ByteSize>>,
                                             <<"line", "8n1">>, <<"fifo", "reset">>, <<"interrupt", Enabled>>>>
    /\ kind = Pl011 => BindWrites = <<<<"status", "clear">>, <<"control", "off">>, <<"nextHigh", Pl011Divisors(clock)[1]>>,
                                      <<"nextLow", Pl011Divisors(clock)[2]>>, <<"line", "8n1">>, <<"control", Enabled>>>>
    /\ kind = "SiFive" => BindWrites = <<<<"interrupt", "off">>, <<"control", Enabled>>>>
    /\ kind \notin {"XScale", Pl011, "SiFive"} => BindWrites = <<>>
<1>0. Pl011 \notin {"XScale", "SiFive"}
  BY DEF Pl011
<1>1. kind = "XScale" => BindWrites = XScaleWrites(LineDivisor)
  BY <1>0 DEF BindWrites, LineDivisor
<1>2. kind = Pl011 => BindWrites = Pl011Writes(Pl011Divisors(clock))
  BY <1>0 DEF BindWrites
<1>3. kind = "SiFive" => BindWrites = SiFiveWrites
  BY <1>0 DEF BindWrites
<1>4. kind \notin {"XScale", Pl011, "SiFive"} => BindWrites = <<>>
  BY <1>0 DEF BindWrites
<1> QED BY <1>1, <1>2, <1>3, <1>4 DEF XScaleWrites, Pl011Writes, SiFiveWrites

\* A write that changes one register of the line, for the drivers with no more to it.
LEMMA PlainWrite ==
    ASSUME kind = "SiFive", NEW u \in UartRegs
    PROVE  /\ WriteReg(u, <<"interrupt", "off">>) = [u EXCEPT !.interrupt = "off"]
           /\ WriteReg(u, <<"control", Enabled>>) = [u EXCEPT !.control = Enabled]
<1>0. kind # Pl011
  BY DEF Pl011
<1>1. WriteReg(u, <<"interrupt", "off">>) = [u EXCEPT !.interrupt = "off"]
  BY <1>0 DEF WriteReg
<1>2. WriteReg(u, <<"control", Enabled>>) = [u EXCEPT !.control = Enabled]
  BY <1>0 DEF WriteReg
<1> QED BY <1>1, <1>2

\* A write of bind keeps an XScale UART on its way.
LEMMA XScaleLineStep ==
    ASSUME LineInv, phase = "binding", kind = "XScale", made < Len(BindWrites),
           kind' = kind, clock' = clock, uart' = WriteReg(uart, BindWrites[made + 1]), made' = made + 1
    PROVE  uart' \in UartRegs /\ XScaleLine'
<1> DEFINE d == LineDivisor
<1>0. d \in Nat /\ d % ByteSize \in Nat /\ d \div ByteSize \in Nat /\ LineDivisor' = d
  <2>1. d \in Nat
    BY NearestDivisor DEF LineInv, LineDivisor
  <2>2. ByteSize \in Nat \ {0}
    BY ConsoleAssumption
  <2>3. LineDivisor' = d
    BY DEF LineDivisor, UartDivisor
  <2> QED BY <2>1, <2>2, <2>3
<1>1. uart \in UartRegs /\ made \in Nat /\ XScaleLine
  BY DEF LineInv
<1> HIDE DEF d
<1>2. "latch" # "8n1" /\ "off" # Enabled
  BY DEF Enabled
<1>5. /\ WriteReg(uart, <<"line", "8n1">>) = [uart EXCEPT !.line = "8n1"]
      /\ WriteReg(uart, <<"line", "latch">>) = [uart EXCEPT !.line = "latch"]
      /\ WriteReg(uart, <<"fifo", "reset">>) = [uart EXCEPT !.fifo = "reset"]
      /\ uart.line = "8n1" => WriteReg(uart, <<"interrupt", Enabled>>) = [uart EXCEPT !.interrupt = Enabled]
      /\ uart.line = "latch" => WriteReg(uart, <<"interrupt", d \div ByteSize>>) = [uart EXCEPT !.high = d \div ByteSize]
      /\ uart.line = "latch" => WriteReg(uart, <<"data", d % ByteSize>>) = [uart EXCEPT !.low = d % ByteSize]
  BY <1>0, <1>1, XScaleWrite
<1>6. made \in Nat /\ made < Len(BindWrites) /\ uart' = WriteReg(uart, BindWrites[made + 1])
  BY <1>1
<1>3. CASE d = 0
  <2>0. BindWrites = <<<<"line", "8n1">>, <<"interrupt", Enabled>>, <<"fifo", "reset">>, <<"interrupt", Enabled>>>>
    BY <1>3, BindWritesAre DEF d
  <2>1. made \in 0 .. 3
    BY ONLY <1>6, <2>0
  <2>2. CASE made = 0
    <3>0. BindWrites[made + 1] = <<"line", "8n1">>
      BY ONLY <2>0, <2>2
    <3>1. uart' = [uart EXCEPT !.line = "8n1"]
      BY ONLY <1>5, <1>6, <3>0
    <3> QED BY <1>0, <1>1, <1>3, <2>2, <3>1 DEF XScaleLine, UartRegs, d
  <2>3. CASE made \in {1, 3}
    <3>1. uart.line = "8n1"
      BY <1>1, <1>3, <2>3 DEF XScaleLine, d
    <3>0. BindWrites[made + 1] = <<"interrupt", Enabled>>
      BY ONLY <2>0, <2>3
    <3>2. uart' = [uart EXCEPT !.interrupt = Enabled]
      BY ONLY <1>5, <1>6, <3>0, <3>1
    <3> QED BY <1>0, <1>1, <1>3, <2>3, <3>1, <3>2 DEF XScaleLine, UartRegs, d
  <2>4. CASE made = 2
    <3>0. BindWrites[made + 1] = <<"fifo", "reset">>
      BY ONLY <2>0, <2>4
    <3>1. uart' = [uart EXCEPT !.fifo = "reset"]
      BY ONLY <1>5, <1>6, <3>0
    <3> QED BY <1>0, <1>1, <1>3, <2>4, <3>1 DEF XScaleLine, UartRegs, d
  <2> QED BY <2>1, <2>2, <2>3, <2>4
<1>4. CASE d # 0
  <2>0. BindWrites = <<<<"line", "8n1">>, <<"interrupt", Enabled>>, <<"line", "latch">>,
                       <<"data", d % ByteSize>>, <<"interrupt", d \div ByteSize>>,
                       <<"line", "8n1">>, <<"fifo", "reset">>, <<"interrupt", Enabled>>>>
    BY <1>4, BindWritesAre DEF d
  <2>1. made \in 0 .. 7
    BY ONLY <1>6, <2>0
  <2>2. CASE made \in {0, 5}
    <3>0. BindWrites[made + 1] = <<"line", "8n1">>
      BY ONLY <2>0, <2>2
    <3>1. uart' = [uart EXCEPT !.line = "8n1"]
      BY ONLY <1>5, <1>6, <3>0
    <3> QED BY <1>0, <1>1, <1>4, <2>2, <3>1, SMTT(30) DEF XScaleLine, UartRegs, d
  <2>3. CASE made \in {1, 7}
    <3>1. uart.line = "8n1"
      BY <1>1, <1>4, <2>3 DEF XScaleLine, d
    <3>0. BindWrites[made + 1] = <<"interrupt", Enabled>>
      BY ONLY <2>0, <2>3
    <3>2. uart' = [uart EXCEPT !.interrupt = Enabled]
      BY ONLY <1>5, <1>6, <3>0, <3>1
    <3>3. CASE made = 1
      BY <1>0, <1>1, <1>4, <3>1, <3>2, <3>3 DEF XScaleLine, UartRegs, d
    <3>4. CASE made = 7
      BY <1>0, <1>1, <1>4, <3>1, <3>2, <3>4 DEF XScaleLine, UartRegs, d
    <3> QED BY <2>3, <3>3, <3>4
  <2>4. CASE made = 2
    <3>0. BindWrites[made + 1] = <<"line", "latch">>
      BY ONLY <2>0, <2>4
    <3>1. uart' = [uart EXCEPT !.line = "latch"]
      BY ONLY <1>5, <1>6, <3>0
    <3> QED BY <1>0, <1>1, <1>4, <2>4, <3>1 DEF XScaleLine, UartRegs, d
  <2>5. CASE made = 3
    <3>1. uart.line = "latch"
      BY <1>1, <1>4, <2>5 DEF XScaleLine, d
    <3>0. BindWrites[made + 1] = <<"data", d % ByteSize>>
      BY ONLY <2>0, <2>5
    <3>2. uart' = [uart EXCEPT !.low = d % ByteSize]
      BY ONLY <1>5, <1>6, <3>0, <3>1
    <3> QED BY <1>0, <1>1, <1>4, <2>5, <3>1, <3>2 DEF XScaleLine, UartRegs, d
  <2>6. CASE made = 4
    <3>1. uart.line = "latch"
      BY <1>1, <1>4, <2>6 DEF XScaleLine, d
    <3>0. BindWrites[made + 1] = <<"interrupt", d \div ByteSize>>
      BY ONLY <2>0, <2>6
    <3>2. uart' = [uart EXCEPT !.high = d \div ByteSize]
      BY ONLY <1>5, <1>6, <3>0, <3>1
    <3> QED BY <1>0, <1>1, <1>4, <2>6, <3>1, <3>2 DEF XScaleLine, UartRegs, d
  <2>7. CASE made = 6
    <3>0. BindWrites[made + 1] = <<"fifo", "reset">>
      BY ONLY <2>0, <2>7
    <3>1. uart' = [uart EXCEPT !.fifo = "reset"]
      BY ONLY <1>5, <1>6, <3>0
    <3> QED BY <1>0, <1>1, <1>4, <2>7, <3>1 DEF XScaleLine, UartRegs, d
  <2> QED BY <2>1, <2>2, <2>3, <2>4, <2>5, <2>6, <2>7
<1> QED BY <1>3, <1>4

\* A write of bind keeps a PL011 on its way.
LEMMA Pl011LineStep ==
    ASSUME LineInv, phase = "binding", kind = Pl011, made < Len(BindWrites),
           kind' = kind, clock' = clock, uart' = WriteReg(uart, BindWrites[made + 1]), made' = made + 1
    PROVE  uart' \in UartRegs /\ Pl011Line'
<1> DEFINE i == Pl011Divisors(clock)[1]
           f == Pl011Divisors(clock)[2]
<1>0. i \in Nat /\ f \in Nat
  <2>1. clock \in Nat /\ Pl011Divisors(clock) # <<0, 0>>
    BY DEF LineInv, BindFails
  <2> QED BY <2>1, NearestDivisors
<1>1. uart \in UartRegs /\ made \in Nat /\ Pl011Line
  BY DEF LineInv
<1>2. Pl011Divisors(clock)'[1] = i /\ Pl011Divisors(clock)'[2] = f
  BY DEF Pl011Divisors
<1>3. BindWrites = <<<<"status", "clear">>, <<"control", "off">>, <<"nextHigh", i>>, <<"nextLow", f>>, <<"line", "8n1">>,
                     <<"control", Enabled>>>>
  BY BindWritesAre
<1>4. Pl011Line => /\ ~uart.torn
                   /\ made >= 1 => uart.status = "clear"
                   /\ made \in 2 .. 5 => uart.control = "off"
                   /\ made >= 6 => uart.control = Enabled
                   /\ made >= 3 => uart.nextHigh = i
                   /\ made >= 4 => uart.nextLow = f
                   /\ made >= 5 => uart.line = "8n1" /\ uart.low = uart.nextLow /\ uart.high = uart.nextHigh
  BY DEF Pl011Line
<1>5. (/\ ~uart'.torn
       /\ made' >= 1 => uart'.status = "clear"
       /\ made' \in 2 .. 5 => uart'.control = "off"
       /\ made' >= 6 => uart'.control = Enabled
       /\ made' >= 3 => uart'.nextHigh = i
       /\ made' >= 4 => uart'.nextLow = f
       /\ made' >= 5 => uart'.line = "8n1" /\ uart'.low = uart'.nextLow /\ uart'.high = uart'.nextHigh) => Pl011Line'
  BY <1>2 DEF Pl011Line
<1> HIDE DEF i, f
<1>6. /\ WriteReg(uart, <<"status", "clear">>) = [uart EXCEPT !.status = "clear"]
      /\ WriteReg(uart, <<"control", "off">>) = [uart EXCEPT !.control = "off"]
      /\ WriteReg(uart, <<"control", Enabled>>) = [uart EXCEPT !.control = Enabled]
      /\ uart.control = "off" => WriteReg(uart, <<"nextHigh", i>>) = [uart EXCEPT !.nextHigh = i]
      /\ uart.control = "off" => WriteReg(uart, <<"nextLow", f>>) = [uart EXCEPT !.nextLow = f]
      /\ WriteReg(uart, <<"line", "8n1">>) = [uart EXCEPT !.line = "8n1", !.low = uart.nextLow, !.high = uart.nextHigh]
  BY <1>0, <1>1, Pl011Write
<1>7. made \in Nat /\ made < Len(BindWrites) /\ uart' = WriteReg(uart, BindWrites[made + 1])
  BY <1>1
<1>8. made \in 0 .. 5
  BY ONLY <1>3, <1>7
<1>9. CASE made = 1
  <2>1. BindWrites[made + 1] = <<"control", "off">>
    BY ONLY <1>3, <1>9
  <2>2. uart' = [uart EXCEPT !.control = "off"]
    BY ONLY <1>6, <1>7, <2>1
  <2> QED BY <1>1, <1>4, <1>5, <1>9, <2>2 DEF UartRegs
<1>10. CASE made = 2
  <2>1. BindWrites[made + 1] = <<"nextHigh", i>>
    BY ONLY <1>3, <1>10
  <2>2. uart' = [uart EXCEPT !.nextHigh = i]
    BY <1>1, <1>4, <1>6, <1>7, <1>10, <2>1
  <2> QED BY <1>0, <1>1, <1>4, <1>5, <1>10, <2>2 DEF UartRegs
<1>11. CASE made = 3
  <2>1. BindWrites[made + 1] = <<"nextLow", f>>
    BY ONLY <1>3, <1>11
  <2>2. uart' = [uart EXCEPT !.nextLow = f]
    BY <1>1, <1>4, <1>6, <1>7, <1>11, <2>1
  <2> QED BY <1>0, <1>1, <1>4, <1>5, <1>11, <2>2 DEF UartRegs
<1>12. CASE made = 4
  <2>1. BindWrites[made + 1] = <<"line", "8n1">>
    BY ONLY <1>3, <1>12
  <2>2. uart' = [uart EXCEPT !.line = "8n1", !.low = uart.nextLow, !.high = uart.nextHigh]
    BY ONLY <1>6, <1>7, <2>1
  <2>3. uart' \in UartRegs
    <3>1. uart.nextLow \in Nat /\ uart.nextHigh \in Nat
      BY <1>1 DEF UartRegs
    <3>2. \A u \in UartRegs, a, b \in Nat : [u EXCEPT !.line = "8n1", !.low = a, !.high = b] \in UartRegs
      BY DEF UartRegs
    <3> QED BY ONLY <1>1, <2>2, <3>1, <3>2
  <2>4. /\ uart'.line = "8n1" /\ uart'.low = uart.nextLow /\ uart'.high = uart.nextHigh
        /\ uart'.nextLow = uart.nextLow /\ uart'.nextHigh = uart.nextHigh
        /\ uart'.control = uart.control /\ uart'.status = uart.status /\ (uart'.torn <=> uart.torn)
    BY <1>1, <2>2 DEF UartRegs
  <2> QED BY <1>1, <1>4, <1>5, <1>12, <2>3, <2>4
<1>13. CASE made = 5
  <2>1. BindWrites[made + 1] = <<"control", Enabled>>
    BY ONLY <1>3, <1>13
  <2>2. uart' = [uart EXCEPT !.control = Enabled]
    BY ONLY <1>6, <1>7, <2>1
  <2> QED BY <1>0, <1>1, <1>4, <1>5, <1>13, <2>2 DEF UartRegs
<1>14. CASE made = 0
  <2>1. BindWrites[made + 1] = <<"status", "clear">>
    BY ONLY <1>3, <1>14
  <2>2. uart' = [uart EXCEPT !.status = "clear"]
    BY ONLY <1>6, <1>7, <2>1
  <2> QED BY <1>1, <1>4, <1>5, <1>14, <2>2 DEF UartRegs
<1> QED BY <1>8, <1>9, <1>10, <1>11, <1>12, <1>13, <1>14

\* Every step keeps the line where the writes have brought it.  (bind)
LEMMA LineStep ==
    ASSUME LineInv, ConsoleNext
    PROVE  LineInv'
<1>1. CASE BindConsole
  <2>1. phase = "found" /\ uart' = uart /\ made' = made /\ kind' = kind /\ clock' = clock
        /\ phase' = (IF BindFails THEN "failed" ELSE "binding")
    BY <1>1 DEF BindConsole
  <2>2. uart \in Leftover /\ made = 0 /\ uart \in UartRegs /\ clock \in Nat \cup {NoClock}
    BY <2>1 DEF LineInv
  <2>3. (BindFails' <=> BindFails) /\ BindWrites' = BindWrites /\ LineDivisor' = LineDivisor
    BY <2>1 DEF BindFails, BindWrites, LineDivisor, Pl011Divisors, UartDivisor, XScaleWrites, Pl011Writes, SiFiveWrites
  <2>4. uart.low = 1 /\ uart.high = 0 /\ ~uart.sent /\ ~uart.torn
    BY <2>2 DEF Leftover
  <2>5. Len(BindWrites) >= 0
    BY <2>2, BindWritesAre
  <2>6. XScaleLine' /\ Pl011Line'
    BY <2>1, <2>2, <2>3, <2>4 DEF XScaleLine, Pl011Line
  <2> QED BY <2>1, <2>2, <2>3, <2>5, <2>6 DEF LineInv
<1>2. CASE Configure
  <2>1. phase = "binding" /\ kind' = kind /\ clock' = clock
    BY <1>2 DEF Configure
  <2>2. (BindFails' <=> BindFails) /\ BindWrites' = BindWrites /\ LineDivisor' = LineDivisor
        /\ Pl011Divisors(clock)' = Pl011Divisors(clock)
    BY <2>1 DEF BindFails, BindWrites, LineDivisor, Pl011Divisors, UartDivisor, XScaleWrites, Pl011Writes, SiFiveWrites
  <2>3. made \in Nat /\ made <= Len(BindWrites) /\ ~BindFails /\ uart \in UartRegs
        /\ clock \in Nat \cup {NoClock}
    BY <2>1 DEF LineInv
  <2>4. Len(BindWrites) \in Nat
    BY <2>3, BindWritesAre
  <2>5. CASE made < Len(BindWrites)
    <3>1. uart' = WriteReg(uart, BindWrites[made + 1]) /\ made' = made + 1 /\ phase' = phase
      BY <1>2, <2>5 DEF Configure
    <3>2. kind = "XScale" => uart' \in UartRegs /\ XScaleLine'
      BY <2>1, <2>5, <3>1, XScaleLineStep
    <3>3. kind = Pl011 => uart' \in UartRegs /\ Pl011Line'
      BY <2>1, <2>5, <3>1, Pl011LineStep
    <3>4. kind = "SiFive" => uart' \in UartRegs
      <4> SUFFICES ASSUME kind = "SiFive" PROVE uart' \in UartRegs
        OBVIOUS
      <4>1. BindWrites = <<<<"interrupt", "off">>, <<"control", Enabled>>>>
        BY BindWritesAre
      <4>2. BindWrites[made + 1] = <<"interrupt", "off">> \/ BindWrites[made + 1] = <<"control", Enabled>>
        BY ONLY <2>3, <2>5, <4>1
      <4>3. uart' = [uart EXCEPT !.interrupt = "off"] \/ uart' = [uart EXCEPT !.control = Enabled]
        BY <2>3, <3>1, <4>2, PlainWrite
      <4> QED BY <2>3, <4>3 DEF UartRegs
    <3>5. kind \in {"XScale", Pl011, "SiFive"}
      BY <2>3, <2>5, BindWritesAre
    <3> QED BY <2>1, <2>2, <2>3, <2>4, <2>5, <3>1, <3>2, <3>3, <3>4, <3>5 DEF LineInv
  <2>6. CASE ~(made < Len(BindWrites))
    <3>1. uart' = uart /\ made' = made /\ phase' = "bound"
      BY <1>2, <2>6 DEF Configure
    <3>2. (XScaleLine => XScaleLine') /\ (Pl011Line => Pl011Line')
      BY <2>1, <2>2, <3>1 DEF XScaleLine, Pl011Line
    <3>3. made = Len(BindWrites)
      BY <2>3, <2>4, <2>6
    <3> QED BY <2>1, <2>2, <2>3, <2>4, <3>1, <3>2, <3>3 DEF LineInv
  <2> QED BY <2>5, <2>6
<1>3. CASE PublishConsole
  <2>1. phase' = "serving" /\ uart' = Settled /\ clock' = NoClock /\ made' = 0
    BY <1>3 DEF PublishConsole
  <2>2. Settled \in UartRegs
    BY DEF Settled, UartRegs, Enabled
  <2> QED BY <2>1, <2>2 DEF LineInv
<1>4. CASE UNCHANGED boardVars
  <2>1. kind' = kind /\ clock' = clock /\ phase' = phase /\ uart' = uart /\ made' = made
    BY <1>4 DEF boardVars
  <2>2. (BindFails' <=> BindFails) /\ BindWrites' = BindWrites /\ LineDivisor' = LineDivisor
        /\ Pl011Divisors(clock)' = Pl011Divisors(clock)
    BY <2>1 DEF BindFails, BindWrites, LineDivisor, Pl011Divisors, UartDivisor, XScaleWrites, Pl011Writes, SiFiveWrites
  <2>3. (XScaleLine => XScaleLine') /\ (Pl011Line => Pl011Line')
    BY <2>1, <2>2 DEF XScaleLine, Pl011Line
  <2> QED BY <2>1, <2>2, <2>3 DEF LineInv
<1>5. (UNCHANGED consoleVars) => UNCHANGED boardVars
  BY DEF consoleVars, boardVars
<1> QED BY <1>1, <1>2, <1>3, <1>4, <1>5 DEF ConsoleNext, Serving

\* At the end of bind the line runs at the nearest rate.  (uart_divisor, BaudDivisors)
LEMMA LineAtBind ==
    ASSUME LineInv
    PROVE  LineIsConfigured
<1> SUFFICES ASSUME phase = "bound" PROVE LineIsConfigured
  BY DEF LineIsConfigured
<1>1. uart \in UartRegs /\ made \in Nat /\ ~BindFails /\ made = Len(BindWrites)
      /\ clock \in Nat \cup {NoClock}
      /\ (kind = "XScale" => XScaleLine) /\ (kind = Pl011 => Pl011Line)
  BY DEF LineInv
<1>2. ASSUME kind = "XScale"
      PROVE  LET d == uart.high * ByteSize + uart.low
             IN  /\ uart.line = "8n1" /\ uart.interrupt = Enabled /\ ~uart.sent
                 /\ IF clock = NoClock THEN d = 1
                    ELSE 2 * (clock - d * BaudClock) \in -BaudClock .. BaudClock
  <2>0. ByteSize \in Nat \ {0} /\ NoClock \notin Nat
    BY ConsoleAssumption DEF NoClock
  <2>1. CASE clock = NoClock
    <3>1. LineDivisor = 0
      BY <2>1 DEF LineDivisor
    <3>2. made = 4
      <4>1. BindWrites = <<<<"line", "8n1">>, <<"interrupt", Enabled>>, <<"fifo", "reset">>, <<"interrupt", Enabled>>>>
        BY <1>2, <3>1, BindWritesAre
      <4>2. Len(BindWrites) = 4
        BY ONLY <4>1
      <4> QED BY <1>1, <4>2
    <3>3. uart.line = "8n1" /\ uart.interrupt = Enabled /\ ~uart.sent /\ uart.low = 1 /\ uart.high = 0
      BY <1>1, <1>2, <3>1, <3>2 DEF XScaleLine
    <3> QED BY <2>0, <2>1, <3>3
  <2>2. CASE clock # NoClock
    <3> DEFINE d == UartDivisor(clock)
    <3>1. LineDivisor = d /\ d # 0 /\ clock \in Nat
      BY <1>1, <1>2, <2>2 DEF LineDivisor, BindFails
    <3>2. made = 8
      <4>1. BindWrites = <<<<"line", "8n1">>, <<"interrupt", Enabled>>, <<"line", "latch">>,
                           <<"data", LineDivisor % ByteSize>>, <<"interrupt", LineDivisor \div ByteSize>>,
                           <<"line", "8n1">>, <<"fifo", "reset">>, <<"interrupt", Enabled>>>>
        BY <1>2, <3>1, BindWritesAre
      <4>2. Len(BindWrites) = 8
        BY ONLY <4>1
      <4> QED BY <1>1, <4>2
    <3>3. uart.line = "8n1" /\ uart.interrupt = Enabled /\ ~uart.sent /\ uart.low = d % ByteSize /\ uart.high = d \div ByteSize
      BY <1>1, <1>2, <3>1, <3>2 DEF XScaleLine
    <3>4. d \in Nat /\ 2 * (clock - d * BaudClock) \in -BaudClock .. BaudClock
      BY <3>1, NearestDivisor
    <3> HIDE DEF d
    <3>5. \A x \in Nat, y \in Nat \ {0} : x = (x \div y) * y + (x % y)
      OBVIOUS
    <3>6. uart.high * ByteSize + uart.low = d
      BY ONLY <2>0, <3>3, <3>4, <3>5
    <3> QED BY <2>2, <3>3, <3>4, <3>6
  <2> QED BY <2>1, <2>2
<1>3. ASSUME kind = Pl011
      PROVE  /\ uart.line = "8n1" /\ uart.control = Enabled /\ uart.status = "clear" /\ ~uart.torn
             /\ 2 * (Fractions * clock - (Fractions * uart.high + uart.low) * BaudClock) \in -BaudClock .. BaudClock
  <2>1. made = 6
    <3>1. BindWrites = <<<<"status", "clear">>, <<"control", "off">>, <<"nextHigh", Pl011Divisors(clock)[1]>>,
                         <<"nextLow", Pl011Divisors(clock)[2]>>, <<"line", "8n1">>, <<"control", Enabled>>>>
      BY <1>3, BindWritesAre
    <3>2. Len(BindWrites) = 6
      BY ONLY <3>1
    <3> QED BY <1>1, <3>2
  <2>2. clock \in Nat /\ Pl011Divisors(clock) # <<0, 0>>
    BY <1>1, <1>3 DEF BindFails
  <2>3. /\ uart.line = "8n1" /\ uart.control = Enabled /\ uart.status = "clear" /\ ~uart.torn
        /\ uart.high = Pl011Divisors(clock)[1] /\ uart.low = Pl011Divisors(clock)[2]
    BY <1>1, <1>3, <2>1 DEF Pl011Line
  <2> QED BY <2>2, <2>3, NearestDivisors
<1> QED BY <1>2, <1>3 DEF LineIsConfigured

\* The invariant holds before bind.  (console::bind)
LEMMA ConsoleStart ==
    ASSUME ConsoleInit
    PROVE  ConsoleInv /\ LineInv
<1>0. /\ clock \in Nat \cup {NoClock} /\ lock = "free" /\ tx = <<>> /\ wire = <<>> /\ rx = <<>>
      /\ arrived = 0 /\ lost = {} /\ Len(rx) = 0
      /\ \A h \in ConsoleHarts : cpc[h] = "smode" /\ call[h] = NoCall /\ left[h] = Message(h) /\ delivered[h] = <<>>
  BY ConsoleAssumption DEF ConsoleInit
<1>1. ConsoleTypeOK
  <2>1. cpc \in [ConsoleHarts -> ConsoleLabels]
    BY DEF ConsoleInit, ConsoleLabels
  <2>2. call \in [ConsoleHarts -> ConsoleCalls]
    <3>0. <<>> \in Seq(OutputBytes) /\ 0 \in Nat
      OBVIOUS
    <3>1. NoCall \in ConsoleCalls
      BY <3>0, CallRecords
    <3> QED BY <3>1 DEF ConsoleInit
  <2>3. left \in [ConsoleHarts -> Seq(OutputBytes)]
    BY MessageFacts DEF ConsoleInit
  <2>4. delivered \in [ConsoleHarts -> Seq(Nat)]
    BY DEF ConsoleInit
  <2>5. \A S : <<>> \in Seq(S)
    OBVIOUS
  <2> QED BY <1>0, <2>1, <2>2, <2>3, <2>4, <2>5 DEF ConsoleTypeOK
<1>2. ASSUME NEW h \in ConsoleHarts
      PROVE  /\ CallShape(h) /\ WriteShape(h) /\ ReadShape(h) /\ Held(h) = <<>> /\ Accepted(h) = 0
             /\ Len(Message(h)) \in Nat
  <2>1. call[h].fn = "none" /\ call[h].count = 0 /\ call[h].chunk = <<>>
    BY <1>0 DEF NoCall
  <2>2. lock # h
    BY <1>0, ConsoleAssumption
  <2>3. CallShape(h)
    BY <1>0, <2>1, <2>2 DEF CallShape, DeviceSteps
  <2>4. Len(Message(h)) \in Nat
    BY MessageFacts
  <2>5. WriteShape(h)
    <3>1. \A i \in 1 .. Len(Message(h)) : Len(Message(h)) - Len(Message(h)) + i = i
      BY <2>4
    <3>2. cpc[h] = "smode" /\ left[h] = Message(h)
      BY <1>0
    <3>3. \A i \in 1 .. Len(left[h]) : left[h][i] = Message(h)[Len(Message(h)) - Len(left[h]) + i]
      BY ONLY <3>1, <3>2
    <3>4. Len(left[h]) <= Len(Message(h))
      BY ONLY <2>4, <3>2
    <3> QED BY ONLY <2>1, <3>2, <3>3, <3>4 DEF WriteShape, WriteFns
  <2>6. ReadShape(h)
    BY <1>0, <2>1 DEF ReadShape
  <2>7. Held(h) = <<>>
    BY <1>0, <2>1 DEF Held, ReadBytes
  <2>8. Accepted(h) = 0
    BY <1>0, <2>1, <2>4 DEF Accepted
  <2> QED BY <2>3, <2>4, <2>5, <2>6, <2>7, <2>8
<1>3. RxShape
  <2>1. Taken = 0
    <3>1. arrived = 0 /\ Len(rx) = 0
      BY <1>0
    <3> QED BY ONLY <3>1 DEF Taken
  <2>2. \A h \in ConsoleHarts : ToSet(Held(h)) = {} /\ Len(Held(h)) = 0
    BY <1>2 DEF ToSet
  <2>3. 1 .. Taken = {} /\ 1 .. Len(rx) = {}
    BY <1>0, <2>1
  <2> QED BY <1>0, <2>2, <2>3 DEF RxShape
<1>4. OutputIsKept
  <2>1. wire \o tx = <<>>
    BY <1>0
  <2>2. \A h \in ConsoleHarts : \A k \in DOMAIN Message(h) : ~(k <= Accepted(h))
    BY <1>2, MessageFacts
  <2>3. DOMAIN (wire \o tx) = {}
    BY <2>1
  <2> QED BY <2>2, <2>3 DEF OutputIsKept
<1>5. LineInv
  <2>1. uart \in Leftover /\ made = 0 /\ phase = "found"
    BY DEF ConsoleInit
  <2>2. \A u \in Leftover : u \in UartRegs
    <3>1. \A B, C : B \subseteq BOOLEAN /\ C \subseteq BOOLEAN =>
            \A u \in [line : {"8n1", "latch"}, interrupt : {"off", Enabled}, control : {"off", Enabled}, fifo : {"used"},
                      status : {"errors"}, low : {1}, high : {0}, nextLow : {1}, nextHigh : {0}, sent : B, torn : C] : u \in UartRegs
      BY DEF UartRegs
    <3>2. {FALSE} \subseteq BOOLEAN
      OBVIOUS
    <3> QED BY ONLY <3>1, <3>2, Zenon DEF Leftover
  <2> QED BY <1>0, <2>1, <2>2 DEF LineInv
<1> QED BY <1>1, <1>2, <1>3, <1>4, <1>5 DEF ConsoleInv

\* The calls do not depend on the registers of the line.
LEMMA ConsoleFrame ==
    ASSUME ConsoleInv, UNCHANGED kind, UNCHANGED serveVars, clock' \in Nat \cup {NoClock}
    PROVE  ConsoleInv'
<1>0. /\ lock' = lock /\ cpc' = cpc /\ call' = call /\ left' = left /\ reads' = reads /\ tx' = tx /\ wire' = wire
      /\ rx' = rx /\ arrived' = arrived /\ delivered' = delivered /\ lost' = lost
  BY DEF serveVars
<1>1. ConsoleTypeOK'
  BY <1>0 DEF ConsoleInv, ConsoleTypeOK
<1>2. ASSUME NEW h \in ConsoleHarts
      PROVE  CallShape(h)' /\ WriteShape(h)' /\ ReadShape(h)'
  <2>0. CallShape(h) /\ WriteShape(h) /\ ReadShape(h)
    BY DEF ConsoleInv
  <2>1. CallShape(h)'
    BY <1>0, <2>0 DEF CallShape
  <2>2. WriteShape(h)'
    BY <1>0, <2>0 DEF WriteShape, Output
  <2>3. ReadShape(h)'
    BY <1>0, <2>0 DEF ReadShape, Taken
  <2> QED BY <2>1, <2>2, <2>3
<1>3. RxShape'
  <2>1. \A g \in ConsoleHarts : Held(g)' = Held(g)
    BY <1>0 DEF Held, ReadBytes
  <2>2. RxShape
    BY DEF ConsoleInv
  <2> QED BY <1>0, <2>1, <2>2, InputSame
<1>4. OutputIsKept'
  <2>1. OutputIsKept
    BY DEF ConsoleInv
  <2> QED BY <1>0, <2>1 DEF OutputIsKept, Accepted
<1> QED BY <1>1, <1>2, <1>3, <1>4 DEF ConsoleInv

\* Every step of the console keeps the invariant.
LEMMA ConsoleInvStep ==
    ASSUME ConsoleInv, [ConsoleNext]_consoleVars
    PROVE  ConsoleInv'
<1>0. /\ ConsoleTypeOK /\ RxShape /\ OutputIsKept /\ clock \in Nat \cup {NoClock}
      /\ \A g \in ConsoleHarts : CallShape(g) /\ WriteShape(g) /\ ReadShape(g)
  BY DEF ConsoleInv, ConsoleTypeOK
<1>1. CASE BindConsole \/ Configure
  <2>1. UNCHANGED kind /\ UNCHANGED clock /\ UNCHANGED serveVars
    BY <1>1 DEF BindConsole, Configure
  <2> QED BY <1>0, <2>1, ConsoleFrame
<1>2. CASE PublishConsole
  <2>1. UNCHANGED kind /\ clock' = NoClock /\ UNCHANGED serveVars
    BY <1>2 DEF PublishConsole
  <2> QED BY <2>1, ConsoleFrame
<1>3. CASE Serving /\ (Transmit \/ Arrive)
  <2>1. UNCHANGED kind /\ UNCHANGED clock
    BY <1>3 DEF Serving, boardVars
  <2>2. ConsoleTypeOK'
    BY <1>0, <1>3, <2>1, LineTypes
  <2>3. OutputIsKept' /\ \A h \in ConsoleHarts : WriteShape(h)'
    BY <1>0, <1>3, LineWrites
  <2>4. RxShape' /\ \A g \in ConsoleHarts : CallShape(g)' /\ ReadShape(g)'
    BY <1>0, <1>3, <2>1, LineInput
  <2> QED BY <2>2, <2>3, <2>4 DEF ConsoleInv
<1>4. ASSUME NEW h \in ConsoleHarts, Serving, Calls(h) \/ ConsoleStep(h)
      PROVE  ConsoleInv'
  <2>1. UNCHANGED kind /\ UNCHANGED clock
    BY <1>4 DEF Serving, boardVars
  <2>2. ConsoleTypeOK'
    BY <1>0, <1>4, <2>1, CallTypes
  <2>3. \A g \in ConsoleHarts : CallShape(g)'
    BY <1>0, <1>4, <2>1, CallShapeStep
  <2>4. \A g \in ConsoleHarts : WriteShape(g)'
    BY <1>0, <1>4, <2>1, WriteShapeStep
  <2>5. \A g \in ConsoleHarts : ReadShape(g)'
    BY <1>0, <1>4, <2>1, ReadShapeStep
  <2>6. RxShape'
    BY <1>0, <1>4, InputStep
  <2>7. OutputIsKept'
    BY <1>0, <1>4, OutputStep
  <2> QED BY <2>2, <2>3, <2>4, <2>5, <2>6, <2>7 DEF ConsoleInv
<1>5. CASE UNCHANGED consoleVars
  <2>1. UNCHANGED kind /\ UNCHANGED clock /\ UNCHANGED serveVars
    BY <1>5 DEF consoleVars, serveVars
  <2> QED BY <1>0, <2>1, ConsoleFrame
<1> QED BY <1>1, <1>2, <1>3, <1>4, <1>5 DEF ConsoleNext

\* A slice in progress is the end of the output.  (write_slice)
LEMMA SliceAtEnd ==
    ASSUME ConsoleInv
    PROVE  SlicesAreWhole
<1> SUFFICES ASSUME NEW h \in ConsoleHarts, cpc[h] \in {"poll_tx", "put"}
             PROVE  IsSuffix(SubSeq(call[h].chunk, 1, call[h].count), wire \o tx)
  BY DEF SlicesAreWhole
<1> DEFINE out == wire \o tx
           c == call[h].chunk
           n == call[h].count
           s == SubSeq(c, 1, n)
           T == OutputBytes \cup Nat
<1>1. /\ c \in Seq(T) /\ n \in Nat /\ out \in Seq(OutputBytes) /\ n <= Len(c) /\ n <= Len(out)
      /\ \A i \in 1 .. n : out[Len(out) - n + i] = c[i]
  <2>1. ConsoleTypeOK /\ CallShape(h) /\ WriteShape(h)
    BY DEF ConsoleInv
  <2>2. c \in Seq(T) /\ n \in Nat
    BY <2>1 DEF ConsoleTypeOK, ConsoleCalls
  <2>3. out \in Seq(OutputBytes)
    BY <2>1 DEF ConsoleTypeOK
  <2>4. call[h].fn \in WriteFns
    BY <2>1 DEF CallShape
  <2>5. n <= Len(c)
    BY <2>1, <2>4 DEF WriteShape
  <2>6. n <= Len(out) /\ \A i \in 1 .. n : out[Len(out) - n + i] = c[i]
    BY <2>1 DEF WriteShape, Output
  <2> QED BY <2>2, <2>3, <2>5, <2>6
<1> HIDE DEF c, n, out, T
<1>2. Len(s) = n /\ \A i \in 1 .. n : s[i] = c[i]
  BY <1>1
<1>3. Len(Reverse(s)) = n /\ Len(Reverse(out)) = Len(out) /\ Reverse(s) \in Seq(T) /\ Reverse(out) \in Seq(OutputBytes)
      /\ (\A i \in 1 .. n : Reverse(s)[i] = s[n - i + 1])
      /\ (\A i \in 1 .. Len(out) : Reverse(out)[i] = out[Len(out) - i + 1])
  BY <1>1, <1>2 DEF Reverse
<1>4. ASSUME NEW i \in 1 .. n PROVE Reverse(s)[i] = Reverse(out)[i]
  <2>1. n - i + 1 \in 1 .. n /\ i \in 1 .. Len(out) /\ Len(out) - n + (n - i + 1) = Len(out) - i + 1
    BY <1>1
  <2> QED BY <1>1, <1>2, <1>3, <2>1
<1> HIDE DEF s
<1>5. IsPrefix(Reverse(s), Reverse(out))
  <2>1. SubSeq(Reverse(s), 1, n) = SubSeq(Reverse(out), 1, n)
    BY <1>1, <1>3, <1>4
  <2> QED BY <1>1, <1>3, <2>1 DEF IsPrefix
<1> QED BY <1>5 DEF IsSuffix, s, c, n, out

\* Every byte that arrived is accounted for.  (read_slice)
LEMMA InputAccounted ==
    ASSUME ConsoleInv
    PROVE  InputIsKept
<1> DEFINE held == [h \in ConsoleHarts |-> delivered[h] \o ReadBytes(h)]
           waiting == {rx[i].byte : i \in DOMAIN rx}
           taken == UNION {ToSet(held[h]) : h \in ConsoleHarts}
<1>0. ConsoleTypeOK /\ RxShape /\ \A h \in ConsoleHarts : ReadShape(h)
  BY DEF ConsoleInv
<1>1. \A h \in ConsoleHarts : held[h] = Held(h)
  BY DEF Held
<1>2. Taken \in Nat /\ arrived \in Nat /\ Len(rx) \in Nat /\ arrived = Taken + Len(rx) /\ DOMAIN rx = 1 .. Len(rx)
  BY <1>0 DEF ConsoleTypeOK, Taken
<1>3. waiting = Taken + 1 .. arrived
  <2>1. waiting = {rx[i].byte : i \in 1 .. Len(rx)}
    BY <1>2
  <2>2. \A i \in 1 .. Len(rx) : rx[i].byte = Taken + i
    BY <1>0 DEF RxShape
  <2>3. \A x \in Taken + 1 .. arrived : x - Taken \in 1 .. Len(rx) /\ x = Taken + (x - Taken)
    BY <1>2
  <2>4. \A i \in 1 .. Len(rx) : Taken + i \in Taken + 1 .. arrived
    BY <1>2
  <2> HIDE DEF waiting
  <2> QED BY <2>1, <2>2, <2>3, <2>4
<1>4. taken = UNION {ToSet(Held(h)) : h \in ConsoleHarts}
  BY <1>1
<1>5. taken \subseteq 1 .. Taken /\ lost \subseteq 1 .. Taken /\ 1 .. Taken \subseteq lost \cup taken /\ taken \cap lost = {}
  BY <1>0, <1>4 DEF RxShape
<1> HIDE DEF waiting, taken, held
<1>6. 1 .. arrived = waiting \cup taken \cup lost /\ waiting \cap (taken \cup lost) = {}
  <2>1. 1 .. arrived = (1 .. Taken) \cup (Taken + 1 .. arrived) /\ (1 .. Taken) \cap (Taken + 1 .. arrived) = {}
    BY <1>2
  <2> QED BY <1>3, <1>5, <2>1
<1>7. \A h, g \in ConsoleHarts : h # g => ToSet(held[h]) \cap ToSet(held[g]) = {}
  BY <1>0, <1>1 DEF RxShape
<1>8. \A h \in ConsoleHarts : \A i, j \in DOMAIN held[h] : i < j => held[h][i] < held[h][j]
  <2>1. \A h \in ConsoleHarts : DOMAIN Held(h) = 1 .. Len(Held(h))
    BY <1>0, HeldType
  <2> QED BY <1>0, <1>1, <2>1 DEF RxShape
<1>9. \A h \in ConsoleHarts : \A i \in 2 .. Len(ReadBytes(h)) : ReadBytes(h)[i] = ReadBytes(h)[i - 1] + 1
  <2> TAKE h \in ConsoleHarts
  <2>1. CASE call[h].fn = "read"
    BY <1>0, <2>1 DEF ReadBytes, ReadShape
  <2>2. CASE call[h].fn # "read"
    BY <2>2 DEF ReadBytes
  <2> QED BY <2>1, <2>2
<1>10. \A h \in ConsoleHarts : cpc[h] = "get" => rx # <<>>
  BY <1>0 DEF ReadShape
<1> QED BY <1>5, <1>6, <1>7, <1>8, <1>9, <1>10 DEF InputIsKept, waiting, taken, held

\* What goes through the console is kept: the line runs at the nearest rate, each
\* accepted byte goes out once and in order, slices are not mixed, and each byte
\* that arrives is delivered once and in order or lost with an error, for any
\* harts, messages, clocks and queue depth.  (SbiConsole and the drivers)
THEOREM BytesKept == ConsoleSpec => []BytesAreKept
<1>1. ConsoleInit => ConsoleInv /\ LineInv
  BY ConsoleStart
<1>2. ConsoleInv /\ LineInv /\ [ConsoleNext]_consoleVars => (ConsoleInv /\ LineInv)'
  <2> SUFFICES ASSUME ConsoleInv, LineInv, [ConsoleNext]_consoleVars PROVE ConsoleInv' /\ LineInv'
    OBVIOUS
  <2>1. ConsoleInv'
    BY ConsoleInvStep
  <2>2. CASE ConsoleNext
    BY <2>1, <2>2, LineStep
  <2>3. CASE UNCHANGED consoleVars
    <3>1. LineInv'
      BY <2>3 DEF consoleVars, LineInv, BindFails, BindWrites, LineDivisor, Pl011Divisors, UartDivisor,
                  XScaleWrites, Pl011Writes, SiFiveWrites, XScaleLine, Pl011Line
    <3> QED BY <2>1, <3>1
  <2> QED BY <2>2, <2>3
<1>3. ConsoleInv /\ LineInv => BytesAreKept
  BY LineAtBind, SliceAtEnd, InputAccounted DEF BytesAreKept, ConsoleInv
<1> QED BY <1>1, <1>2, <1>3, PTL DEF ConsoleSpec
=============================================================================
