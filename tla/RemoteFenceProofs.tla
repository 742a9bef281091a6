-------------------------- MODULE RemoteFenceProofs --------------------------
(****************************************************************************)
(* IPIs and remote fences, for any number of harts and any queue capacity:  *)
(* every step is a step of the hart lifecycle, the synchronization count is *)
(* exact, and a fence that returned is complete.                            *)
(****************************************************************************)
EXTENDS RemoteFence, HartLifecycleProofs, FiniteSetTheorems, SequenceTheorems,
        WellFoundedInduction

------------------------------------------------------------------------------
(* The inductive invariant. *)

\* t has a request of h, or owes h its acknowledgement.
Asked(h, t) == Contains(queue[t], h) \/ taken[t] = h \/ owed[t] = h

SendingSteps == {"fence_push", "fence_mark", "fence_ring", "fence_cancel"}
WaitingSteps == {"fence_sync", "fence_failed"}

\* The window of a call, by the step the call is at.
CallInv ==
    \A h \in Harts :
        /\ work[h] \in SendingSteps => todo[h] # {} /\ First(todo[h]) # h
        /\ work[h] \in WaitingSteps \cup {"idle", "drain"} => todo[h] = {}
        /\ work[h] \in {"idle", "drain"} => targets[h] = {}
        /\ work[h] \in {"ipi_mark", "ipi_ring"} => todo[h] \subseteq targets[h]

\* A request is in one place, and nobody asks itself.
HolderInv ==
    \A t \in Harts :
        /\ IsInjective(queue[t])
        /\ ~Asked(t, t)
        /\ taken[t] = NoHart \/ owed[t] = NoHart
        /\ \A h \in Harts : Contains(queue[t], h) => taken[t] # h /\ owed[t] # h

\* Only a call that is sending or waiting has asked, and not the harts its
\* loop has yet to come to.
AskedInv ==
    \A h, t \in Harts : Asked(h, t) =>
        /\ work[h] \in SendingSteps \cup WaitingSteps \cup {"fence_next"}
        /\ work[h] \in {"fence_next", "fence_push"} => t \notin todo[h]
        /\ work[h] \in {"fence_mark", "fence_ring", "fence_cancel"} => t \notin todo[h] \ {First(todo[h])}

CountInv == \A h \in Harts : waitSync[h] = Cardinality(Outstanding(h))

FenceInv == FenceTypeOK /\ CallInv /\ HolderInv /\ AskedInv /\ CountInv

------------------------------------------------------------------------------
(* First of a set of harts, and the queues. *)

LEMMA FirstOfHarts == \A S \in SUBSET Harts : S # {} => First(S) \in S
<1> SUFFICES ASSUME NEW S \in SUBSET Harts, S # {} PROVE First(S) \in S
  OBVIOUS
<1>1. S \subseteq Nat
  BY HartsAssumption
<1>2. PICK x \in S : \A y \in S : ~(<<y, x>> \in OpToRel(<, Nat))
  BY <1>1, NatLessThanWellFounded, WFMin
<1>3. ASSUME NEW y \in S PROVE x <= y
  <2>1. OpToRel(<, Nat) = {ss \in Nat \X Nat : ss[1] < ss[2]}
    BY Zenon DEF OpToRel
  <2>2. ~(<<y, x>> \in {ss \in Nat \X Nat : ss[1] < ss[2]})
    BY <1>2, <2>1, Zenon
  <2> QED
    BY <1>1, <2>2
<1> QED
  BY <1>3, Zenon DEF First

LEMMA AppendFacts ==
  ASSUME NEW S, NEW s \in Seq(S), NEW x \in S
  PROVE  /\ Append(s, x) \in Seq(S)
         /\ \A e : Contains(Append(s, x), e) <=> Contains(s, e) \/ e = x
         /\ IsInjective(s) /\ ~Contains(s, x) => IsInjective(Append(s, x))
<1>1. /\ Append(s, x) \in Seq(S)
      /\ Len(Append(s, x)) = Len(s) + 1
      /\ Append(s, x)[Len(s) + 1] = x
      /\ \A i \in 1..Len(s) : Append(s, x)[i] = s[i]
  OBVIOUS
<1>2. /\ Len(s) \in Nat
      /\ DOMAIN s = 1..Len(s)
      /\ DOMAIN Append(s, x) = 1..Len(s) + 1
  BY <1>1
<1>3. \A e : Contains(Append(s, x), e) <=> Contains(s, e) \/ e = x
  BY <1>1, <1>2 DEF Contains
<1>4. IsInjective(s) /\ ~Contains(s, x) => IsInjective(Append(s, x))
  BY <1>1, <1>2 DEF Contains, IsInjective
<1> QED
  BY <1>1, <1>3, <1>4

LEMMA TailFacts ==
  ASSUME NEW S, NEW s \in Seq(S), s # <<>>, IsInjective(s)
  PROVE  /\ Head(s) \in S
         /\ Contains(s, Head(s))
         /\ Tail(s) \in Seq(S)
         /\ IsInjective(Tail(s))
         /\ \A e : Contains(Tail(s), e) <=> Contains(s, e) /\ e # Head(s)
<1>1. /\ Len(s) \in Nat \ {0}
      /\ DOMAIN s = 1..Len(s)
      /\ Head(s) = s[1]
      /\ Tail(s) \in Seq(S)
      /\ Len(Tail(s)) = Len(s) - 1
      /\ \A i \in 1..Len(s) - 1 : Tail(s)[i] = s[i + 1]
  OBVIOUS
<1>2. DOMAIN Tail(s) = 1..Len(s) - 1
  BY <1>1
<1>3. Head(s) \in S /\ Contains(s, Head(s))
  BY <1>1 DEF Contains
<1>4. IsInjective(Tail(s))
  BY <1>1, <1>2 DEF IsInjective
<1>5. ASSUME NEW e PROVE Contains(Tail(s), e) <=> Contains(s, e) /\ e # Head(s)
  <2>1. Contains(Tail(s), e) => Contains(s, e) /\ e # Head(s)
    BY <1>1 DEF Contains, IsInjective
  <2>2. ASSUME Contains(s, e), e # Head(s) PROVE Contains(Tail(s), e)
    <3>1. PICK i \in 1..Len(s) : s[i] = e
      BY <2>2 DEF Contains
    <3>2. i - 1 \in 1..Len(s) - 1 /\ Tail(s)[i - 1] = e
      BY <1>1, <2>2, <3>1
    <3> QED
      BY <1>1, <3>2 DEF Contains
  <2> QED
    BY <2>1, <2>2
<1> QED
  BY <1>1, <1>3, <1>4, <1>5

\* Removing the first request of a source removes its only one.
LEMMA RemoveFacts ==
  ASSUME NEW S, NEW s \in Seq(S), NEW x, IsInjective(s), Contains(s, x)
  PROVE  /\ RemoveFirst(s, x) \in Seq(S)
         /\ IsInjective(RemoveFirst(s, x))
         /\ \A e : Contains(RemoveFirst(s, x), e) <=> Contains(s, e) /\ e # x
<1> DEFINE I == {i \in 1..Len(s) : s[i] = x}
           k == Min(I)
           r == RemoveFirst(s, x)
<1>1. PICK j \in 1..Len(s) : s[j] = x
  BY DEF Contains
<1>2. Len(s) \in Nat /\ DOMAIN s = 1..Len(s)
  OBVIOUS
<1>3. I = {j}
  BY <1>1, <1>2 DEF IsInjective
<1>4. Min({j}) = j
  BY <1>1, <1>2 DEF Min
<1>5. r = RemoveAt(s, j)
  BY <1>1, <1>3, <1>4 DEF RemoveFirst, SelectInSeq
<1>6. r = SubSeq(s, 1, j - 1) \o SubSeq(s, j + 1, Len(s))
  BY <1>5 DEF RemoveAt
<1> HIDE DEF I, k, r
<1> DEFINE a == SubSeq(s, 1, j - 1)
           b == SubSeq(s, j + 1, Len(s))
<1>7. /\ a \in Seq(S) /\ Len(a) = j - 1
      /\ \A i \in 1..j - 1 : a[i] = s[i]
  BY <1>1, <1>2, SubSeqProperties
<1>8. /\ b \in Seq(S) /\ Len(b) = Len(s) - j
      /\ \A i \in 1..Len(s) - j : b[i] = s[i + j]
  <2>1. \A i \in j + 1..Len(s) : s[i] \in S
    BY <1>1, <1>2
  <2>2. /\ b \in Seq(S)
        /\ Len(b) = IF j + 1 <= Len(s) THEN Len(s) - (j + 1) + 1 ELSE 0
        /\ \A i \in 1..Len(s) - (j + 1) + 1 : b[i] = s[(j + 1) + i - 1]
    <3> DEFINE m == j + 1
               n == Len(s)
    <3>1. m \in Int /\ n \in Int /\ \A i \in m..n : s[i] \in S
      BY <1>1, <1>2, <2>1
    <3> HIDE DEF m, n
    <3>2. /\ SubSeq(s, m, n) \in Seq(S)
          /\ Len(SubSeq(s, m, n)) = IF m <= n THEN n - m + 1 ELSE 0
          /\ \A i \in 1..n - m + 1 : SubSeq(s, m, n)[i] = s[m + i - 1]
      BY <3>1, SubSeqProperties
    <3> QED
      BY <3>2 DEF m, n
  <2> HIDE DEF b
  <2>3. Len(b) = Len(s) - j
    <3>1. \A n \in Nat : \A i \in 1..n : (IF i + 1 <= n THEN n - (i + 1) + 1 ELSE 0) = n - i
      OBVIOUS
    <3> QED
      BY <1>1, <1>2, <2>2, <3>1, Zenon
  <2>4. ASSUME NEW i \in 1..Len(s) - j PROVE b[i] = s[i + j]
    <3>1. i \in 1..Len(s) - (j + 1) + 1 /\ (j + 1) + i - 1 = i + j
      BY <1>1, <1>2
    <3> QED
      BY <2>2, <3>1
  <2> QED
    BY <2>2, <2>3, <2>4
<1> HIDE DEF a, b
<1>r. r = a \o b
  BY <1>6 DEF a, b
<1>9. /\ r \in Seq(S) /\ Len(r) = Len(s) - 1
      /\ \A i \in 1..Len(s) - 1 : r[i] = IF i < j THEN s[i] ELSE s[i + 1]
  <2>1. /\ a \o b \in Seq(S) /\ Len(a \o b) = Len(a) + Len(b)
        /\ \A i \in 1..Len(a) + Len(b) : (a \o b)[i] = IF i <= Len(a) THEN a[i] ELSE b[i - Len(a)]
    BY <1>7, <1>8, ConcatProperties
  <2>2. Len(a) + Len(b) = Len(s) - 1
    BY <1>1, <1>2, <1>7, <1>8
  <2>3. ASSUME NEW i \in 1..Len(s) - 1 PROVE r[i] = IF i < j THEN s[i] ELSE s[i + 1]
    <3>1. CASE i < j
      BY <1>1, <1>2, <1>7, <1>r, <2>1, <2>2, <3>1
    <3>2. CASE ~(i < j)
      <4>1. i - Len(a) = i - j + 1 /\ i - j + 1 \in 1..Len(s) - j
        BY <1>1, <1>2, <1>7, <3>2
      <4>2. r[i] = b[i - j + 1]
        BY <1>1, <1>2, <1>7, <1>r, <2>1, <2>2, <3>2, <4>1
      <4>3. b[i - j + 1] = s[i + 1]
        BY <1>1, <1>2, <1>8, <4>1
      <4> QED
        BY <3>2, <4>2, <4>3
    <3> QED
      BY <3>1, <3>2
  <2> QED
    BY <1>r, <2>1, <2>2, <2>3
<1>10. DOMAIN r = 1..Len(s) - 1
  BY <1>9
<1>11. IsInjective(r)
  <2> SUFFICES ASSUME NEW c \in 1..Len(s) - 1, NEW d \in 1..Len(s) - 1, r[c] = r[d] PROVE c = d
    BY <1>10 DEF IsInjective
  <2> DEFINE at(i) == IF i < j THEN i ELSE i + 1
  <2>1. at(c) \in 1..Len(s) /\ at(d) \in 1..Len(s) /\ s[at(c)] = s[at(d)]
    BY <1>1, <1>2, <1>9
  <2>2. at(c) = at(d)
    BY <1>2, <2>1 DEF IsInjective
  <2> QED
    BY <1>1, <1>2, <2>2
<1>12. ASSUME NEW e PROVE Contains(r, e) <=> Contains(s, e) /\ e # x
  <2>1. ASSUME Contains(r, e) PROVE Contains(s, e) /\ e # x
    <3>1. PICK i \in 1..Len(s) - 1 : r[i] = e
      BY <1>9, <2>1 DEF Contains
    <3>2. PICK l \in 1..Len(s) : l # j /\ s[l] = e
      BY <1>1, <1>2, <1>9, <3>1
    <3> QED
      BY <1>1, <1>2, <3>2 DEF Contains, IsInjective
  <2>2. ASSUME Contains(s, e), e # x PROVE Contains(r, e)
    <3>1. PICK i \in 1..Len(s) : s[i] = e
      BY <2>2 DEF Contains
    <3>2. CASE i < j
      <4>1. i \in 1..Len(s) - 1 /\ r[i] = e
        BY <1>1, <1>2, <1>9, <3>1, <3>2
      <4> QED
        BY <1>9, <4>1 DEF Contains
    <3>3. CASE i > j
      <4>1. i - 1 \in 1..Len(s) - 1 /\ r[i - 1] = e
        BY <1>1, <1>2, <1>9, <3>1, <3>3
      <4> QED
        BY <1>9, <4>1 DEF Contains
    <3> QED
      BY <1>1, <1>2, <2>2, <3>1, <3>2, <3>3
  <2> QED
    BY <2>1, <2>2
<1> QED
  BY <1>9, <1>11, <1>12 DEF r

LEMMA HartSets ==
  \A T \in SUBSET Harts :
      /\ IsFiniteSet(T)
      /\ Cardinality(T) \in Nat
      /\ Cardinality(T) = 0 <=> T = {}
      /\ \A x \in Harts :
             /\ x \in T => Cardinality(T \ {x}) = Cardinality(T) - 1
             /\ x \notin T => Cardinality(T \cup {x}) = Cardinality(T) + 1
<1> SUFFICES ASSUME NEW T \in SUBSET Harts
             PROVE  /\ IsFiniteSet(T)
                    /\ Cardinality(T) \in Nat
                    /\ Cardinality(T) = 0 <=> T = {}
                    /\ \A x \in Harts :
                           /\ x \in T => Cardinality(T \ {x}) = Cardinality(T) - 1
                           /\ x \notin T => Cardinality(T \cup {x}) = Cardinality(T) + 1
  OBVIOUS
<1>1. IsFiniteSet(T)
  BY HartsAssumption, FS_Subset
<1> QED
  BY <1>1, FS_CardinalityType, FS_EmptySet, FS_AddElement, FS_RemoveElement

------------------------------------------------------------------------------
(* Counting. *)

LEMMA FenceInitInv == FenceInit => FenceInv
<1> SUFFICES ASSUME FenceInit PROVE FenceInv
  OBVIOUS
<1> USE DEF FenceInit, NoIpiWork
<1>1. FenceTypeOK
  BY DEF FenceTypeOK, WorkSteps, OptHart
<1>2. \A t \in Harts : queue[t] = <<>> /\ \A h \in Harts : ~Asked(h, t)
  BY FenceAssumption DEF Asked, Contains
<1>3. CallInv /\ AskedInv
  BY <1>2 DEF CallInv, AskedInv, SendingSteps, WaitingSteps
<1>4. HolderInv
  BY <1>2 DEF HolderInv, IsInjective, Asked
<1>5. \A h \in Harts : Outstanding(h) = {}
  BY <1>2 DEF Outstanding, Asked
<1>6. CountInv
  BY <1>5, HartSets DEF CountInv
<1> QED
  BY <1>1, <1>3, <1>4, <1>6 DEF FenceInv

\* A step that moves no request and leaves the pushing calls alone.
LEMMA CountKept ==
  ASSUME CountInv, UNCHANGED waitSync,
         \A k, t \in Harts : Asked(k, t)' <=> Asked(k, t),
         \A k \in Harts : /\ work'[k] = "fence_push" <=> work[k] = "fence_push"
                          /\ work[k] = "fence_push" => todo'[k] = todo[k]
  PROVE  CountInv'
<1>1. ASSUME NEW k \in Harts PROVE Outstanding(k)' = Outstanding(k)
  <2>1. \A t \in Harts : t \in Outstanding(k)' <=> t \in Outstanding(k)
    BY DEF Outstanding, Asked
  <2> QED
    BY <2>1 DEF Outstanding
<1> QED
  BY <1>1 DEF CountInv

\* A step that moves no request keeps the invariant if it keeps the calls'.
SameRequests == UNCHANGED <<queue, waitSync, taken, owed>>

SamePushes ==
    \A k \in Harts : /\ work'[k] = "fence_push" <=> work[k] = "fence_push"
                     /\ work[k] = "fence_push" => todo'[k] = todo[k]

SameAsked == \A k, t \in Harts : Asked(k, t)' <=> Asked(k, t)

LEMMA QuietStep ==
  FenceInv /\ FenceTypeOK' /\ CallInv' /\ SameRequests /\ SamePushes /\ (SameAsked => AskedInv')
  => FenceInv'
<1> SUFFICES ASSUME FenceInv, FenceTypeOK', CallInv', SameRequests, SamePushes, SameAsked => AskedInv'
             PROVE  FenceInv'
  OBVIOUS
<1>1. SameAsked
  BY DEF SameAsked, SameRequests, Asked
<1>2. HolderInv'
  <2>1. \A t \in Harts : Asked(t, t)' <=> Asked(t, t)
    BY <1>1 DEF SameAsked
  <2> QED
    BY <2>1 DEF FenceInv, HolderInv, SameRequests
<1>3. CountInv'
  BY <1>1, CountKept DEF FenceInv, SameRequests, SamePushes, SameAsked
<1> QED
  BY <1>1, <1>2, <1>3 DEF FenceInv

\* The steps of send_ipi, and the steps that are not about a call.
LEMMA IpiStep ==
  ASSUME FenceInv, NEW h \in Harts,
         \/ LifecycleStep(h)
         \/ ClearSsip(h)
         \/ SwapIpiType(h)
         \/ DrainDone(h)
         \/ (\E mask \in Masks[h] : SendIpi(h, mask))
         \/ MarkSoft(h)
         \/ MarkSoftDone(h)
         \/ RingSoft(h)
         \/ SendIpiReturns(h)
  PROVE  FenceInv'
<1>0. FenceTypeOK /\ CallInv /\ AskedInv
  BY DEF FenceInv
<1>1. CASE LifecycleStep(h)
  <2>0. SameRequests
    BY <1>0, <1>1 DEF LifecycleStep, Proceed, serveVars, sendVars, SameRequests
  <2>1. FenceTypeOK'
    BY <1>0, <1>1, FenceAssumption, FirstOfHarts DEF LifecycleStep, Proceed, serveVars, sendVars, FenceTypeOK, WorkSteps, IpiSteps, FenceSteps, IpiTypes
  <2>2. CallInv'
    BY <1>0, <1>1, FirstOfHarts DEF LifecycleStep, Proceed, serveVars, sendVars, FenceTypeOK, CallInv, SendingSteps, WaitingSteps
  <2>3. SamePushes
    BY <1>0, <1>1 DEF LifecycleStep, Proceed, serveVars, sendVars, FenceTypeOK, SamePushes
  <2>4. SameAsked => AskedInv'
    BY <1>0, <1>1, FirstOfHarts DEF LifecycleStep, Proceed, serveVars, sendVars, FenceTypeOK, AskedInv, CallInv, SendingSteps, WaitingSteps, SameAsked
  <2> QED
    BY <2>0, <2>1, <2>2, <2>3, <2>4, QuietStep, Zenon
<1>2. CASE ClearSsip(h)
  <2>0. SameRequests
    BY <1>0, <1>2 DEF ClearSsip, Proceed, serveVars, sendVars, SameRequests
  <2>1. FenceTypeOK'
    BY <1>0, <1>2, FenceAssumption, FirstOfHarts DEF ClearSsip, Proceed, serveVars, sendVars, FenceTypeOK, WorkSteps, IpiSteps, FenceSteps, IpiTypes
  <2>2. CallInv'
    BY <1>0, <1>2, FirstOfHarts DEF ClearSsip, Proceed, serveVars, sendVars, FenceTypeOK, CallInv, SendingSteps, WaitingSteps
  <2>3. SamePushes
    BY <1>0, <1>2 DEF ClearSsip, Proceed, serveVars, sendVars, FenceTypeOK, SamePushes
  <2>4. SameAsked => AskedInv'
    BY <1>0, <1>2, FirstOfHarts DEF ClearSsip, Proceed, serveVars, sendVars, FenceTypeOK, AskedInv, CallInv, SendingSteps, WaitingSteps, SameAsked
  <2> QED
    BY <2>0, <2>1, <2>2, <2>3, <2>4, QuietStep, Zenon
<1>3. CASE SwapIpiType(h)
  <2>0. SameRequests
    BY <1>0, <1>3 DEF SwapIpiType, Proceed, serveVars, sendVars, SameRequests
  <2>1. FenceTypeOK'
    <3>1. ssip' \in [Harts -> BOOLEAN] /\ ipiType' \in [Harts -> SUBSET IpiTypes]
      BY <1>0, <1>3 DEF SwapIpiType, FenceTypeOK
    <3>2. work' \in [Harts -> WorkSteps] /\ UNCHANGED <<queue, waitSync, todo, targets, taken, owed, stale>>
      BY <1>0, <1>3 DEF SwapIpiType, FenceTypeOK, WorkSteps, serveVars
    <3> QED
      BY <1>0, <3>1, <3>2 DEF FenceTypeOK
  <2>2. CallInv'
    BY <1>0, <1>3, FirstOfHarts DEF SwapIpiType, Proceed, serveVars, sendVars, FenceTypeOK, CallInv, SendingSteps, WaitingSteps
  <2>3. SamePushes
    BY <1>0, <1>3 DEF SwapIpiType, Proceed, serveVars, sendVars, FenceTypeOK, SamePushes
  <2>4. SameAsked => AskedInv'
    BY <1>0, <1>3, FirstOfHarts DEF SwapIpiType, Proceed, serveVars, sendVars, FenceTypeOK, AskedInv, CallInv, SendingSteps, WaitingSteps, SameAsked
  <2> QED
    BY <2>0, <2>1, <2>2, <2>3, <2>4, QuietStep, Zenon
<1>4. CASE DrainDone(h)
  <2>0. SameRequests
    BY <1>0, <1>4 DEF DrainDone, Proceed, serveVars, sendVars, SameRequests
  <2>1. FenceTypeOK'
    BY <1>0, <1>4, FenceAssumption, FirstOfHarts DEF DrainDone, Proceed, serveVars, sendVars, FenceTypeOK, WorkSteps, IpiSteps, FenceSteps, IpiTypes
  <2>2. CallInv'
    BY <1>0, <1>4, FirstOfHarts DEF DrainDone, Proceed, serveVars, sendVars, FenceTypeOK, CallInv, SendingSteps, WaitingSteps
  <2>3. SamePushes
    BY <1>0, <1>4 DEF DrainDone, Proceed, serveVars, sendVars, FenceTypeOK, SamePushes
  <2>4. SameAsked => AskedInv'
    BY <1>0, <1>4, FirstOfHarts DEF DrainDone, Proceed, serveVars, sendVars, FenceTypeOK, AskedInv, CallInv, SendingSteps, WaitingSteps, SameAsked
  <2> QED
    BY <2>0, <2>1, <2>2, <2>3, <2>4, QuietStep, Zenon
<1>5. CASE (\E mask \in Masks[h] : SendIpi(h, mask))
  <2>0. SameRequests
    BY <1>0, <1>5 DEF SendIpi, Proceed, serveVars, sendVars, SameRequests
  <2>m. Masks[h] \subseteq SUBSET Harts
    BY FenceAssumption
  <2>1. FenceTypeOK'
    BY <1>0, <1>5, <2>m, FirstOfHarts DEF SendIpi, Proceed, serveVars, sendVars, FenceTypeOK, WorkSteps, IpiSteps, FenceSteps, IpiTypes
  <2>2. CallInv'
    BY <1>0, <1>5, FirstOfHarts DEF SendIpi, Proceed, serveVars, sendVars, FenceTypeOK, CallInv, SendingSteps, WaitingSteps
  <2>3. SamePushes
    BY <1>0, <1>5 DEF SendIpi, Proceed, serveVars, sendVars, FenceTypeOK, SamePushes
  <2>4. SameAsked => AskedInv'
    BY <1>0, <1>5, FirstOfHarts DEF SendIpi, Proceed, serveVars, sendVars, FenceTypeOK, AskedInv, CallInv, SendingSteps, WaitingSteps, SameAsked
  <2> QED
    BY <2>0, <2>1, <2>2, <2>3, <2>4, QuietStep, Zenon
<1>6. CASE MarkSoft(h)
  <2>0. SameRequests
    BY <1>0, <1>6 DEF MarkSoft, Proceed, serveVars, sendVars, SameRequests
  <2>1. FenceTypeOK'
    BY <1>0, <1>6, FenceAssumption, FirstOfHarts DEF MarkSoft, Proceed, serveVars, sendVars, FenceTypeOK, WorkSteps, IpiSteps, FenceSteps, IpiTypes
  <2>2. CallInv'
    BY <1>0, <1>6, FirstOfHarts DEF MarkSoft, Proceed, serveVars, sendVars, FenceTypeOK, CallInv, SendingSteps, WaitingSteps
  <2>3. SamePushes
    BY <1>0, <1>6 DEF MarkSoft, Proceed, serveVars, sendVars, FenceTypeOK, SamePushes
  <2>4. SameAsked => AskedInv'
    BY <1>0, <1>6, FirstOfHarts DEF MarkSoft, Proceed, serveVars, sendVars, FenceTypeOK, AskedInv, CallInv, SendingSteps, WaitingSteps, SameAsked
  <2> QED
    BY <2>0, <2>1, <2>2, <2>3, <2>4, QuietStep, Zenon
<1>7. CASE MarkSoftDone(h)
  <2>0. SameRequests
    BY <1>0, <1>7 DEF MarkSoftDone, Proceed, serveVars, sendVars, SameRequests
  <2>1. FenceTypeOK'
    BY <1>0, <1>7, FenceAssumption, FirstOfHarts DEF MarkSoftDone, Proceed, serveVars, sendVars, FenceTypeOK, WorkSteps, IpiSteps, FenceSteps, IpiTypes
  <2>2. CallInv'
    BY <1>0, <1>7, FirstOfHarts DEF MarkSoftDone, Proceed, serveVars, sendVars, FenceTypeOK, CallInv, SendingSteps, WaitingSteps
  <2>3. SamePushes
    BY <1>0, <1>7 DEF MarkSoftDone, Proceed, serveVars, sendVars, FenceTypeOK, SamePushes
  <2>4. SameAsked => AskedInv'
    BY <1>0, <1>7, FirstOfHarts DEF MarkSoftDone, Proceed, serveVars, sendVars, FenceTypeOK, AskedInv, CallInv, SendingSteps, WaitingSteps, SameAsked
  <2> QED
    BY <2>0, <2>1, <2>2, <2>3, <2>4, QuietStep, Zenon
<1>8. CASE RingSoft(h)
  <2>0. SameRequests
    BY <1>0, <1>8 DEF RingSoft, Proceed, serveVars, sendVars, SameRequests
  <2>1. FenceTypeOK'
    BY <1>0, <1>8, FenceAssumption, FirstOfHarts DEF RingSoft, Proceed, serveVars, sendVars, FenceTypeOK, WorkSteps, IpiSteps, FenceSteps, IpiTypes
  <2>2. CallInv'
    BY <1>0, <1>8, FirstOfHarts DEF RingSoft, Proceed, serveVars, sendVars, FenceTypeOK, CallInv, SendingSteps, WaitingSteps
  <2>3. SamePushes
    BY <1>0, <1>8 DEF RingSoft, Proceed, serveVars, sendVars, FenceTypeOK, SamePushes
  <2>4. SameAsked => AskedInv'
    BY <1>0, <1>8, FirstOfHarts DEF RingSoft, Proceed, serveVars, sendVars, FenceTypeOK, AskedInv, CallInv, SendingSteps, WaitingSteps, SameAsked
  <2> QED
    BY <2>0, <2>1, <2>2, <2>3, <2>4, QuietStep, Zenon
<1>9. CASE SendIpiReturns(h)
  <2>0. SameRequests
    BY <1>0, <1>9 DEF SendIpiReturns, Proceed, serveVars, sendVars, SameRequests
  <2>1. FenceTypeOK'
    BY <1>0, <1>9, FenceAssumption, FirstOfHarts DEF SendIpiReturns, Proceed, serveVars, sendVars, FenceTypeOK, WorkSteps, IpiSteps, FenceSteps, IpiTypes
  <2>2. CallInv'
    BY <1>0, <1>9, FirstOfHarts DEF SendIpiReturns, Proceed, serveVars, sendVars, FenceTypeOK, CallInv, SendingSteps, WaitingSteps
  <2>3. SamePushes
    BY <1>0, <1>9 DEF SendIpiReturns, Proceed, serveVars, sendVars, FenceTypeOK, SamePushes
  <2>4. SameAsked => AskedInv'
    BY <1>0, <1>9, FirstOfHarts DEF SendIpiReturns, Proceed, serveVars, sendVars, FenceTypeOK, AskedInv, CallInv, SendingSteps, WaitingSteps, SameAsked
  <2> QED
    BY <2>0, <2>1, <2>2, <2>3, <2>4, QuietStep, Zenon
<1> QED
  BY <1>1, <1>2, <1>3, <1>4, <1>5, <1>6, <1>7, <1>8, <1>9

\* The steps of send_ipi_by_fence that move no request.
LEMMA FenceQuietStep ==
  ASSUME FenceInv, NEW h \in Harts,
         \/ (\E mask \in Masks[h] : RemoteFenceCall(h, mask))
         \/ ScanTarget(h)
         \/ ScanDone(h)
         \/ FenceSelf(h)
         \/ MarkFence(h)
         \/ RingFence(h)
         \/ RingFenceFails(h)
         \/ FenceSent(h)
  PROVE  FenceInv'
<1>0. FenceTypeOK /\ CallInv /\ AskedInv
  BY DEF FenceInv
<1>1. CASE (\E mask \in Masks[h] : RemoteFenceCall(h, mask))
  <2>0. SameRequests
    BY <1>0, <1>1 DEF RemoteFenceCall, Proceed, serveVars, sendVars, SameRequests
  <2>m. Masks[h] \subseteq SUBSET Harts
    BY FenceAssumption
  <2>1. FenceTypeOK'
    BY <1>0, <1>1, <2>m, FirstOfHarts DEF RemoteFenceCall, Proceed, serveVars, sendVars, FenceTypeOK, WorkSteps, IpiSteps, FenceSteps, IpiTypes
  <2>2. CallInv'
    BY <1>0, <1>1, FirstOfHarts DEF RemoteFenceCall, Proceed, serveVars, sendVars, FenceTypeOK, CallInv, SendingSteps, WaitingSteps
  <2>3. SamePushes
    BY <1>0, <1>1 DEF RemoteFenceCall, Proceed, serveVars, sendVars, FenceTypeOK, SamePushes
  <2>4. SameAsked => AskedInv'
    BY <1>0, <1>1, FirstOfHarts DEF RemoteFenceCall, Proceed, serveVars, sendVars, FenceTypeOK, AskedInv, CallInv, SendingSteps, WaitingSteps, SameAsked
  <2> QED
    BY <2>0, <2>1, <2>2, <2>3, <2>4, QuietStep, Zenon
<1>2. CASE ScanTarget(h)
  <2>0. SameRequests
    BY <1>0, <1>2 DEF ScanTarget, Proceed, serveVars, sendVars, SameRequests
  <2>1. FenceTypeOK'
    <3>1. todo' \in [Harts -> SUBSET Harts]
      BY <1>0, <1>2 DEF ScanTarget, FenceTypeOK
    <3>2. targets' \in [Harts -> SUBSET Harts]
      BY <1>0, <1>2, FirstOfHarts DEF ScanTarget, FenceTypeOK
    <3> QED
      BY <1>0, <1>2, <3>1, <3>2 DEF ScanTarget, FenceTypeOK, serveVars
  <2>2. CallInv'
    BY <1>0, <1>2, FirstOfHarts DEF ScanTarget, Proceed, serveVars, sendVars, FenceTypeOK, CallInv, SendingSteps, WaitingSteps
  <2>3. SamePushes
    BY <1>0, <1>2 DEF ScanTarget, Proceed, serveVars, sendVars, FenceTypeOK, SamePushes
  <2>4. SameAsked => AskedInv'
    BY <1>0, <1>2, FirstOfHarts DEF ScanTarget, Proceed, serveVars, sendVars, FenceTypeOK, AskedInv, CallInv, SendingSteps, WaitingSteps, SameAsked
  <2> QED
    BY <2>0, <2>1, <2>2, <2>3, <2>4, QuietStep, Zenon
<1>3. CASE ScanDone(h)
  <2>0. SameRequests
    BY <1>0, <1>3 DEF ScanDone, Proceed, serveVars, sendVars, SameRequests
  <2>1. FenceTypeOK'
    BY <1>0, <1>3, FenceAssumption, FirstOfHarts DEF ScanDone, Proceed, serveVars, sendVars, FenceTypeOK, WorkSteps, IpiSteps, FenceSteps, IpiTypes
  <2>2. CallInv'
    BY <1>0, <1>3, FirstOfHarts DEF ScanDone, Proceed, serveVars, sendVars, FenceTypeOK, CallInv, SendingSteps, WaitingSteps
  <2>3. SamePushes
    BY <1>0, <1>3 DEF ScanDone, Proceed, serveVars, sendVars, FenceTypeOK, SamePushes
  <2>4. SameAsked => AskedInv'
    BY <1>0, <1>3, FirstOfHarts DEF ScanDone, Proceed, serveVars, sendVars, FenceTypeOK, AskedInv, CallInv, SendingSteps, WaitingSteps, SameAsked
  <2> QED
    BY <2>0, <2>1, <2>2, <2>3, <2>4, QuietStep, Zenon
<1>4. CASE FenceSelf(h)
  <2>0. SameRequests
    BY <1>0, <1>4 DEF FenceSelf, Proceed, serveVars, sendVars, SameRequests
  <2>1. FenceTypeOK'
    BY <1>0, <1>4, FenceAssumption, FirstOfHarts DEF FenceSelf, Proceed, serveVars, sendVars, FenceTypeOK, WorkSteps, IpiSteps, FenceSteps, IpiTypes
  <2>2. CallInv'
    BY <1>0, <1>4, FirstOfHarts DEF FenceSelf, Proceed, serveVars, sendVars, FenceTypeOK, CallInv, SendingSteps, WaitingSteps
  <2>3. SamePushes
    BY <1>0, <1>4 DEF FenceSelf, Proceed, serveVars, sendVars, FenceTypeOK, SamePushes
  <2>4. SameAsked => AskedInv'
    BY <1>0, <1>4, FirstOfHarts DEF FenceSelf, Proceed, serveVars, sendVars, FenceTypeOK, AskedInv, CallInv, SendingSteps, WaitingSteps, SameAsked
  <2> QED
    BY <2>0, <2>1, <2>2, <2>3, <2>4, QuietStep, Zenon
<1>5. CASE MarkFence(h)
  <2>0. SameRequests
    BY <1>0, <1>5 DEF MarkFence, Proceed, serveVars, sendVars, SameRequests
  <2>1. FenceTypeOK'
    BY <1>0, <1>5, FenceAssumption, FirstOfHarts DEF MarkFence, Proceed, serveVars, sendVars, FenceTypeOK, WorkSteps, IpiSteps, FenceSteps, IpiTypes
  <2>2. CallInv'
    BY <1>0, <1>5, FirstOfHarts DEF MarkFence, Proceed, serveVars, sendVars, FenceTypeOK, CallInv, SendingSteps, WaitingSteps
  <2>3. SamePushes
    BY <1>0, <1>5 DEF MarkFence, Proceed, serveVars, sendVars, FenceTypeOK, SamePushes
  <2>4. SameAsked => AskedInv'
    BY <1>0, <1>5, FirstOfHarts DEF MarkFence, Proceed, serveVars, sendVars, FenceTypeOK, AskedInv, CallInv, SendingSteps, WaitingSteps, SameAsked
  <2> QED
    BY <2>0, <2>1, <2>2, <2>3, <2>4, QuietStep, Zenon
<1>6. CASE RingFence(h)
  <2>0. SameRequests
    BY <1>0, <1>6 DEF RingFence, Proceed, serveVars, sendVars, SameRequests
  <2>1. FenceTypeOK'
    BY <1>0, <1>6, FenceAssumption, FirstOfHarts DEF RingFence, Proceed, serveVars, sendVars, FenceTypeOK, WorkSteps, IpiSteps, FenceSteps, IpiTypes
  <2>2. CallInv'
    BY <1>0, <1>6, FirstOfHarts DEF RingFence, Proceed, serveVars, sendVars, FenceTypeOK, CallInv, SendingSteps, WaitingSteps
  <2>3. SamePushes
    BY <1>0, <1>6 DEF RingFence, Proceed, serveVars, sendVars, FenceTypeOK, SamePushes
  <2>4. SameAsked => AskedInv'
    BY <1>0, <1>6, FirstOfHarts DEF RingFence, Proceed, serveVars, sendVars, FenceTypeOK, AskedInv, CallInv, SendingSteps, WaitingSteps, SameAsked
  <2> QED
    BY <2>0, <2>1, <2>2, <2>3, <2>4, QuietStep, Zenon
<1>7. CASE RingFenceFails(h)
  <2>0. SameRequests
    BY <1>0, <1>7 DEF RingFenceFails, Proceed, serveVars, sendVars, SameRequests
  <2>1. FenceTypeOK'
    BY <1>0, <1>7, FenceAssumption, FirstOfHarts DEF RingFenceFails, Proceed, serveVars, sendVars, FenceTypeOK, WorkSteps, IpiSteps, FenceSteps, IpiTypes
  <2>2. CallInv'
    BY <1>0, <1>7, FirstOfHarts DEF RingFenceFails, Proceed, serveVars, sendVars, FenceTypeOK, CallInv, SendingSteps, WaitingSteps
  <2>3. SamePushes
    BY <1>0, <1>7 DEF RingFenceFails, Proceed, serveVars, sendVars, FenceTypeOK, SamePushes
  <2>4. SameAsked => AskedInv'
    BY <1>0, <1>7, FirstOfHarts DEF RingFenceFails, Proceed, serveVars, sendVars, FenceTypeOK, AskedInv, CallInv, SendingSteps, WaitingSteps, SameAsked
  <2> QED
    BY <2>0, <2>1, <2>2, <2>3, <2>4, QuietStep, Zenon
<1>8. CASE FenceSent(h)
  <2>0. SameRequests
    BY <1>0, <1>8 DEF FenceSent, Proceed, serveVars, sendVars, SameRequests
  <2>1. FenceTypeOK'
    BY <1>0, <1>8, FenceAssumption, FirstOfHarts DEF FenceSent, Proceed, serveVars, sendVars, FenceTypeOK, WorkSteps, IpiSteps, FenceSteps, IpiTypes
  <2>2. CallInv'
    BY <1>0, <1>8, FirstOfHarts DEF FenceSent, Proceed, serveVars, sendVars, FenceTypeOK, CallInv, SendingSteps, WaitingSteps
  <2>3. SamePushes
    BY <1>0, <1>8 DEF FenceSent, Proceed, serveVars, sendVars, FenceTypeOK, SamePushes
  <2>4. SameAsked => AskedInv'
    BY <1>0, <1>8, FirstOfHarts DEF FenceSent, Proceed, serveVars, sendVars, FenceTypeOK, AskedInv, CallInv, SendingSteps, WaitingSteps, SameAsked
  <2> QED
    BY <2>0, <2>1, <2>2, <2>3, <2>4, QuietStep, Zenon
<1> QED
  BY <1>1, <1>2, <1>3, <1>4, <1>5, <1>6, <1>7, <1>8

\* The requests of k, by target, in terms of Asked.
LEMMA OutstandingDef ==
  ASSUME NEW k \in Harts
  PROVE  Outstanding(k) = {t \in Harts : Asked(k, t) \/ (work[k] = "fence_push" /\ t = First(todo[k]))}
<1> DEFINE A == Outstanding(k)
           B == {t \in Harts : Asked(k, t) \/ (work[k] = "fence_push" /\ t = First(todo[k]))}
<1>1. \A t \in Harts : t \in A <=> t \in B
  BY DEF Outstanding, Asked
<1>2. A \subseteq Harts /\ B \subseteq Harts
  BY DEF Outstanding
<1> HIDE DEF A, B
<1>3. A = B
  BY <1>1, <1>2
<1> QED
  BY <1>3 DEF A, B

\* A request in preparation counts before its target can see it.
LEMMA AddSyncStep == ASSUME FenceInv, NEW h \in Harts, AddSync(h) PROVE FenceInv'
<1>0. FenceTypeOK /\ CallInv /\ HolderInv /\ AskedInv /\ CountInv
  BY DEF FenceInv
<1> DEFINE t == First(todo[h])
<1>1. t \in todo[h] /\ t \in Harts /\ work[h] = "fence_next"
  BY <1>0, FirstOfHarts DEF AddSync, Proceed, FenceTypeOK
<1>2. /\ work' = [work EXCEPT ![h] = "fence_push"]
      /\ waitSync' = [waitSync EXCEPT ![h] = @ + 1]
      /\ UNCHANGED <<ipiType, queue, ssip, todo, targets, taken, owed, stale>>
  BY DEF AddSync, Proceed, serveVars
<1>3. FenceTypeOK'
  BY <1>0, <1>2 DEF FenceTypeOK, WorkSteps, FenceSteps
<1>4. CallInv'
  BY <1>0, <1>1, <1>2 DEF AddSync, FenceTypeOK, CallInv, SendingSteps, WaitingSteps
<1>5. SameAsked
  BY <1>2 DEF SameAsked, Asked
<1>6. HolderInv'
  <2>1. \A u \in Harts : Asked(u, u)' <=> Asked(u, u)
    BY <1>5 DEF SameAsked
  <2> QED
    BY <1>0, <1>2, <2>1 DEF HolderInv
<1>7. AskedInv'
  BY <1>0, <1>1, <1>2, <1>5 DEF AskedInv, SameAsked, FenceTypeOK, SendingSteps, WaitingSteps
<1>8. CountInv'
  <2> SUFFICES ASSUME NEW k \in Harts PROVE waitSync'[k] = Cardinality(Outstanding(k)')
    BY DEF CountInv
  <2>1. CASE k = h
    <3>1. Outstanding(h)' = Outstanding(h) \cup {t} /\ t \notin Outstanding(h)
      <4>1. ~Asked(h, t)
        BY <1>0, <1>1 DEF AskedInv
      <4>2. Outstanding(h) = {u \in Harts : Asked(h, u)}
        BY <1>1, OutstandingDef
      <4>3. \A u \in Harts : u \in Outstanding(h)' <=> Asked(h, u) \/ u = t
        BY <1>0, <1>2 DEF Outstanding, Asked, FenceTypeOK
      <4>4. Outstanding(h)' \subseteq Harts
        BY DEF Outstanding
      <4> QED
        BY <1>1, <4>1, <4>2, <4>3, <4>4
    <3>2. Outstanding(h) \in SUBSET Harts
      BY DEF Outstanding
    <3>3. Cardinality(Outstanding(h) \cup {t}) = Cardinality(Outstanding(h)) + 1
      BY <1>1, <3>1, <3>2, HartSets
    <3> QED
      BY <1>0, <1>2, <2>1, <3>1, <3>3 DEF CountInv, FenceTypeOK
  <2>2. CASE k # h
    <3>1. Outstanding(k)' = Outstanding(k)
      BY <1>0, <1>2, <2>2 DEF Outstanding, FenceTypeOK
    <3> QED
      BY <1>0, <1>2, <2>2, <3>1 DEF CountInv, FenceTypeOK
  <2> QED
    BY <2>1, <2>2
<1> QED
  BY <1>3, <1>4, <1>6, <1>7, <1>8 DEF FenceInv

\* The request moves from its sender to the queue of its target.
LEMMA TryPushStep == ASSUME FenceInv, NEW h \in Harts, TryPush(h) PROVE FenceInv'
<1>0. FenceTypeOK /\ CallInv /\ HolderInv /\ AskedInv /\ CountInv
  BY DEF FenceInv
<1> DEFINE t == First(todo[h])
<1>1. t \in todo[h] /\ t \in Harts /\ t # h /\ work[h] = "fence_push"
  BY <1>0, FirstOfHarts DEF TryPush, Proceed, FenceTypeOK, CallInv, SendingSteps
<1>2. /\ work' = [work EXCEPT ![h] = "fence_mark"]
      /\ queue' = [queue EXCEPT ![t] = Append(queue[t], h)]
      /\ UNCHANGED <<ipiType, waitSync, ssip, todo, targets, taken, owed, stale>>
  BY DEF TryPush, Proceed, serveVars
<1>3. ~Asked(h, t)
  BY <1>0, <1>1 DEF AskedInv
<1> HIDE DEF t
<1>4. /\ queue[t] \in Seq(Harts)
      /\ IsInjective(queue[t]) /\ ~Contains(queue[t], h)
      /\ taken[t] # h /\ owed[t] # h
  BY <1>0, <1>1, <1>3 DEF FenceTypeOK, HolderInv, Asked
<1>5. /\ queue'[t] \in Seq(Harts) /\ IsInjective(queue'[t])
      /\ \A k \in Harts : Contains(queue'[t], k) <=> Contains(queue[t], k) \/ k = h
  <2>1. queue'[t] = Append(queue[t], h)
    BY <1>0, <1>1, <1>2 DEF FenceTypeOK
  <2> QED
    BY <1>4, <2>1, AppendFacts
<1>6. \A u \in Harts : u # t => queue'[u] = queue[u]
  BY <1>0, <1>1, <1>2 DEF FenceTypeOK
<1>7. \A k, u \in Harts : Asked(k, u)' <=> Asked(k, u) \/ (k = h /\ u = t)
  BY <1>1, <1>2, <1>5, <1>6 DEF Asked
<1>8. FenceTypeOK'
  <2>1. queue' \in [Harts -> Seq(Harts)]
    BY <1>0, <1>1, <1>2, <1>5 DEF FenceTypeOK
  <2> QED
    BY <1>0, <1>2, <2>1 DEF FenceTypeOK, WorkSteps, FenceSteps
<1>9. CallInv'
  BY <1>0, <1>1, <1>2 DEF FenceTypeOK, CallInv, SendingSteps, WaitingSteps
<1>10. HolderInv'
  <2> SUFFICES ASSUME NEW u \in Harts
               PROVE  /\ IsInjective(queue'[u])
                      /\ ~Asked(u, u)'
                      /\ taken'[u] = NoHart \/ owed'[u] = NoHart
                      /\ \A k \in Harts : Contains(queue'[u], k) => taken'[u] # k /\ owed'[u] # k
    BY DEF HolderInv
  <2>1. ~Asked(u, u)'
    BY <1>0, <1>1, <1>7 DEF HolderInv
  <2>2. CASE u = t
    BY <1>0, <1>2, <1>4, <1>5, <2>1, <2>2 DEF HolderInv
  <2>3. CASE u # t
    BY <1>0, <1>2, <1>6, <2>1, <2>3 DEF HolderInv
  <2> QED
    BY <2>2, <2>3
<1>11. AskedInv'
  BY <1>0, <1>1, <1>2, <1>7 DEF t, AskedInv, FenceTypeOK, SendingSteps, WaitingSteps
<1>12. CountInv'
  <2> SUFFICES ASSUME NEW k \in Harts PROVE Outstanding(k)' = Outstanding(k)
    BY <1>0, <1>2 DEF CountInv
  <2>1. CASE k = h
    <3>1. Outstanding(h) = {u \in Harts : Asked(h, u) \/ u = t}
      BY <1>1, OutstandingDef DEF t
    <3>2. \A u \in Harts : u \in Outstanding(h)' <=> Asked(h, u)'
      BY <1>0, <1>2 DEF Outstanding, Asked, FenceTypeOK
    <3>3. Outstanding(h)' \subseteq Harts
      BY DEF Outstanding
    <3>4. \A u \in Harts : Asked(h, u)' <=> Asked(h, u) \/ u = t
      BY <1>7
    <3> QED
      BY <2>1, <3>1, <3>2, <3>3, <3>4
  <2>2. CASE k # h
    <3>1. \A u \in Harts : Asked(k, u)' <=> Asked(k, u)
      BY <1>7, <2>2
    <3>2. work'[k] = work[k] /\ todo' = todo
      BY <1>0, <1>2, <2>2 DEF FenceTypeOK
    <3> QED
      BY <3>1, <3>2 DEF Outstanding, Asked
  <2> QED
    BY <2>1, <2>2
<1> QED
  BY <1>8, <1>9, <1>10, <1>11, <1>12 DEF FenceInv

\* Fewer requests: one request of s, the one to t, is gone and its count taken
\* back; every other request is where it was.
LEMMA RequestGone ==
  ASSUME FenceInv, NEW s \in Harts, NEW t \in Harts, Asked(s, t),
         \A k, u \in Harts : Asked(k, u)' <=> Asked(k, u) /\ ~(k = s /\ u = t),
         work[s] = "fence_push" => t # First(todo[s]),
         waitSync' = [waitSync EXCEPT ![s] = @ - 1],
         \A k \in Harts : /\ work'[k] = "fence_push" <=> work[k] = "fence_push"
                          /\ work[k] = "fence_push" => todo'[k] = todo[k]
  PROVE  CountInv' /\ waitSync' \in [Harts -> Nat]
<1>0. FenceTypeOK /\ CountInv
  BY DEF FenceInv
<1>1. ASSUME NEW k \in Harts
      PROVE  /\ waitSync'[k] = Cardinality(Outstanding(k)')
             /\ Cardinality(Outstanding(k)') \in Nat
  <2>1. \A u \in Harts : u \in Outstanding(k)' <=>
            Asked(k, u)' \/ (work'[k] = "fence_push" /\ u = First(todo'[k]))
    BY DEF Outstanding, Asked
  <2>2. \A u \in Harts : u \in Outstanding(k) <=>
            Asked(k, u) \/ (work[k] = "fence_push" /\ u = First(todo[k]))
    BY DEF Outstanding, Asked
  <2>3. Outstanding(k) \in SUBSET Harts /\ Outstanding(k)' \in SUBSET Harts
    BY DEF Outstanding
  <2>4. Cardinality(Outstanding(k)') \in Nat
    BY <2>3, HartSets
  <2>5. CASE k = s
    <3>1. t \in Outstanding(s)
      BY <2>2, <2>5
    <3>2. \A u \in Harts : u \in Outstanding(s)' <=> u \in Outstanding(s) /\ u # t
      BY <2>1, <2>2, <2>5
    <3>3. Outstanding(s)' = Outstanding(s) \ {t}
      BY <2>3, <2>5, <3>2
    <3>4. Cardinality(Outstanding(s) \ {t}) = Cardinality(Outstanding(s)) - 1
      BY <2>3, <2>5, <3>1, HartSets
    <3> QED
      BY <1>0, <2>4, <2>5, <3>3, <3>4 DEF CountInv, FenceTypeOK
  <2>6. CASE k # s
    <3>1. \A u \in Harts : u \in Outstanding(k)' <=> u \in Outstanding(k)
      BY <2>1, <2>2, <2>6
    <3>2. Outstanding(k)' = Outstanding(k)
      BY <2>3, <3>1
    <3> QED
      BY <1>0, <2>4, <2>6, <3>2 DEF CountInv, FenceTypeOK
  <2> QED
    BY <2>5, <2>6
<1>2. CountInv'
  BY <1>1 DEF CountInv
<1>3. waitSync' \in [Harts -> Nat]
  <2>1. \A k \in Harts : waitSync'[k] \in Nat
    BY <1>1
  <2>2. waitSync' = [k \in Harts |-> waitSync'[k]]
    BY <1>0 DEF FenceTypeOK
  <2> QED
    BY <2>1, <2>2
<1> QED
  BY <1>2, <1>3

\* A send that failed takes its request back if the target still has it queued.
LEMMA CancelStep == ASSUME FenceInv, NEW h \in Harts, CancelFence(h) PROVE FenceInv'
<1>0. FenceTypeOK /\ CallInv /\ HolderInv /\ AskedInv /\ CountInv
  BY DEF FenceInv
<1> DEFINE t == First(todo[h])
<1>1. t \in todo[h] /\ t \in Harts /\ work[h] = "fence_cancel"
  BY <1>0, FirstOfHarts DEF CancelFence, Proceed, FenceTypeOK, CallInv, SendingSteps
<1>2. /\ work' = [work EXCEPT ![h] = "fence_failed"]
      /\ todo' = [todo EXCEPT ![h] = {}]
      /\ UNCHANGED <<ipiType, ssip, targets, taken, owed, stale>>
  BY DEF CancelFence, Proceed, serveVars
<1>3. IF Contains(queue[t], h)
      THEN /\ queue' = [queue EXCEPT ![t] = RemoveFirst(@, h)]
           /\ waitSync' = [waitSync EXCEPT ![h] = @ - 1]
      ELSE UNCHANGED <<queue, waitSync>>
  BY DEF CancelFence
<1> HIDE DEF t
<1>4. CallInv'
  BY <1>0, <1>1, <1>2 DEF FenceTypeOK, CallInv, SendingSteps, WaitingSteps
<1>5. SamePushes
  BY <1>0, <1>1, <1>2 DEF FenceTypeOK, SamePushes
<1>6. ASSUME \A k, u \in Harts : Asked(k, u)' => Asked(k, u) PROVE AskedInv'
  BY <1>0, <1>1, <1>2, <1>6 DEF AskedInv, FenceTypeOK, SendingSteps, WaitingSteps
<1>7. CASE ~Contains(queue[t], h)
  <2>1. SameRequests
    BY <1>2, <1>3, <1>7 DEF SameRequests
  <2>2. FenceTypeOK'
    BY <1>0, <1>2, <2>1 DEF FenceTypeOK, WorkSteps, FenceSteps, SameRequests
  <2>3. SameAsked => AskedInv'
    BY <1>6 DEF SameAsked
  <2> QED
    BY <1>4, <1>5, <2>1, <2>2, <2>3, QuietStep, Zenon
<1>8. CASE Contains(queue[t], h)
  <2>1. /\ queue' = [queue EXCEPT ![t] = RemoveFirst(@, h)]
        /\ waitSync' = [waitSync EXCEPT ![h] = @ - 1]
    BY <1>3, <1>8
  <2>2. queue[t] \in Seq(Harts) /\ IsInjective(queue[t]) /\ taken[t] # h /\ owed[t] # h
    BY <1>0, <1>1, <1>8 DEF FenceTypeOK, HolderInv
  <2>3. /\ queue'[t] \in Seq(Harts) /\ IsInjective(queue'[t])
        /\ \A k \in Harts : Contains(queue'[t], k) <=> Contains(queue[t], k) /\ k # h
    <3>1. queue'[t] = RemoveFirst(queue[t], h)
      BY <1>0, <1>1, <2>1 DEF FenceTypeOK
    <3> QED
      BY <1>8, <2>2, <3>1, RemoveFacts
  <2>4. \A u \in Harts : u # t => queue'[u] = queue[u]
    BY <1>0, <1>1, <2>1 DEF FenceTypeOK
  <2>5. \A k, u \in Harts : Asked(k, u)' <=> Asked(k, u) /\ ~(k = h /\ u = t)
    BY <1>1, <1>2, <2>2, <2>3, <2>4 DEF Asked
  <2>6. AskedInv'
    BY <1>6, <2>5
  <2>7. HolderInv'
    <3> SUFFICES ASSUME NEW u \in Harts
                 PROVE  /\ IsInjective(queue'[u])
                        /\ ~Asked(u, u)'
                        /\ taken'[u] = NoHart \/ owed'[u] = NoHart
                        /\ \A k \in Harts : Contains(queue'[u], k) => taken'[u] # k /\ owed'[u] # k
      BY DEF HolderInv
    <3>1. ~Asked(u, u)'
      BY <1>0, <2>5 DEF HolderInv
    <3>2. CASE u = t
      BY <1>0, <1>2, <2>3, <3>1, <3>2 DEF HolderInv
    <3>3. CASE u # t
      BY <1>0, <1>2, <2>4, <3>1, <3>3 DEF HolderInv
    <3> QED
      BY <3>2, <3>3
  <2>8. CountInv' /\ waitSync' \in [Harts -> Nat]
    <3>1. Asked(h, t)
      BY <1>8 DEF Asked
    <3>2. \A k \in Harts : /\ work'[k] = "fence_push" <=> work[k] = "fence_push"
                           /\ work[k] = "fence_push" => todo'[k] = todo[k]
      BY <1>5 DEF SamePushes
    <3>3. work[h] = "fence_push" => t # First(todo[h])
      BY <1>1
    <3> QED
      BY <1>1, <2>1, <2>5, <3>1, <3>2, <3>3, RequestGone
  <2>9. FenceTypeOK'
    <3>1. queue' \in [Harts -> Seq(Harts)]
      BY <1>0, <1>1, <2>1, <2>3 DEF FenceTypeOK
    <3> QED
      BY <1>0, <1>2, <2>8, <3>1 DEF FenceTypeOK, WorkSteps, FenceSteps
  <2> QED
    BY <1>4, <2>6, <2>7, <2>8, <2>9 DEF FenceInv
<1> QED
  BY <1>7, <1>8

\* The wait ends when nobody has a request of h any more.
LEMMA ReturnStep == ASSUME FenceInv, NEW h \in Harts, FenceReturns(h) PROVE FenceInv'
<1>0. FenceTypeOK /\ CallInv /\ AskedInv /\ CountInv
  BY DEF FenceInv
<1>1. /\ work[h] \in WaitingSteps
      /\ work' = [work EXCEPT ![h] = "idle"]
      /\ targets' = [targets EXCEPT ![h] = {}]
      /\ stale' = stale \/ stale' = [stale EXCEPT ![h] = {}]
      /\ waitSync[h] = 0
      /\ UNCHANGED <<ipiType, queue, waitSync, ssip, todo, taken, owed>>
  BY DEF FenceReturns, Proceed, WaitingSteps, serveVars
<1>2. \A t \in Harts : ~Asked(h, t)
  <2>1. Outstanding(h) \in SUBSET Harts
    BY DEF Outstanding
  <2>2. Outstanding(h) = {}
    BY <1>0, <1>1, <2>1, HartSets DEF CountInv
  <2> QED
    BY <2>2 DEF Outstanding, Asked
<1>3. SameRequests
  BY <1>1 DEF SameRequests
<1>4. FenceTypeOK'
  BY <1>0, <1>1 DEF FenceTypeOK, WorkSteps
<1>5. CallInv'
  BY <1>0, <1>1 DEF FenceTypeOK, CallInv, SendingSteps, WaitingSteps
<1>6. SamePushes
  BY <1>0, <1>1 DEF FenceTypeOK, SamePushes, WaitingSteps
<1>7. SameAsked => AskedInv'
  BY <1>0, <1>1, <1>2 DEF AskedInv, FenceTypeOK, SameAsked
<1> QED
  BY <1>3, <1>4, <1>5, <1>6, <1>7, QuietStep, Zenon

\* A hart that moves a request from one place to the next keeps it.
LEMMA MovedRequest ==
  ASSUME FenceInv, FenceTypeOK', HolderInv', SameAsked, UNCHANGED <<waitSync, work, todo, targets>>
  PROVE  FenceInv'
<1>1. CallInv' /\ AskedInv'
  BY DEF FenceInv, CallInv, AskedInv, SameAsked
<1>2. \A k \in Harts : /\ work'[k] = "fence_push" <=> work[k] = "fence_push"
                       /\ work[k] = "fence_push" => todo'[k] = todo[k]
  OBVIOUS
<1>3. CountInv'
  BY <1>2, CountKept DEF FenceInv, SameAsked
<1> QED
  BY <1>1, <1>3 DEF FenceInv

LEMMA DequeueStep == ASSUME FenceInv, NEW h \in Harts, Dequeue(h) PROVE FenceInv'
<1>0. FenceTypeOK /\ HolderInv
  BY DEF FenceInv
<1> DEFINE s == Head(queue[h])
<1>1. /\ taken' = [taken EXCEPT ![h] = s]
      /\ queue' = [queue EXCEPT ![h] = Tail(@)]
      /\ taken[h] = NoHart /\ owed[h] = NoHart
      /\ UNCHANGED <<ipiType, waitSync, ssip, work, todo, targets, owed, stale>>
  BY DEF Dequeue, NotServing, sendVars
<1>2. queue[h] \in Seq(Harts) /\ queue[h] # <<>> /\ IsInjective(queue[h])
  BY <1>0 DEF Dequeue, FenceTypeOK, HolderInv
<1>3. /\ s \in Harts /\ Contains(queue[h], s) /\ Tail(queue[h]) \in Seq(Harts)
      /\ IsInjective(Tail(queue[h]))
      /\ \A e : Contains(Tail(queue[h]), e) <=> Contains(queue[h], e) /\ e # s
  BY <1>2, TailFacts
<1> HIDE DEF s
<1>4. queue'[h] = Tail(queue[h]) /\ taken'[h] = s /\ owed' = owed
  BY <1>0, <1>1 DEF FenceTypeOK
<1>5. \A u \in Harts : u # h => queue'[u] = queue[u] /\ taken'[u] = taken[u]
  BY <1>0, <1>1 DEF FenceTypeOK
<1>6. SameAsked
  <2> SUFFICES ASSUME NEW k \in Harts, NEW u \in Harts PROVE Asked(k, u)' <=> Asked(k, u)
    BY DEF SameAsked
  <2>1. CASE u = h
    BY <1>1, <1>3, <1>4, <2>1, FenceAssumption DEF Asked
  <2>2. CASE u # h
    BY <1>1, <1>5, <2>2 DEF Asked
  <2> QED
    BY <2>1, <2>2
<1>7. FenceTypeOK'
  <2>1. queue' \in [Harts -> Seq(Harts)]
    BY <1>0, <1>1, <1>3 DEF FenceTypeOK
  <2> QED
    BY <1>0, <1>1, <1>3, <2>1 DEF FenceTypeOK, OptHart
<1>8. HolderInv'
  <2> SUFFICES ASSUME NEW u \in Harts
               PROVE  /\ IsInjective(queue'[u])
                      /\ ~Asked(u, u)'
                      /\ taken'[u] = NoHart \/ owed'[u] = NoHart
                      /\ \A k \in Harts : Contains(queue'[u], k) => taken'[u] # k /\ owed'[u] # k
    BY DEF HolderInv
  <2>1. ~Asked(u, u)'
    BY <1>0, <1>6 DEF HolderInv, SameAsked
  <2>2. CASE u = h
    BY <1>1, <1>3, <1>4, <2>1, <2>2, FenceAssumption
  <2>3. CASE u # h
    BY <1>0, <1>1, <1>5, <2>1, <2>3 DEF HolderInv
  <2> QED
    BY <2>2, <2>3
<1> QED
  BY <1>1, <1>6, <1>7, <1>8, MovedRequest

LEMMA ExecuteStep == ASSUME FenceInv, NEW h \in Harts, ExecuteFence(h) PROVE FenceInv'
<1>0. FenceTypeOK /\ HolderInv
  BY DEF FenceInv
<1>1. /\ taken[h] \in Harts /\ owed[h] = NoHart
      /\ owed' = [owed EXCEPT ![h] = taken[h]]
      /\ taken' = [taken EXCEPT ![h] = NoHart]
      /\ stale' = [stale EXCEPT ![taken[h]] = @ \ {h}]
      /\ UNCHANGED <<ipiType, queue, waitSync, ssip, work, todo, targets>>
  BY <1>0 DEF ExecuteFence, FenceTypeOK, OptHart, HolderInv, sendVars
<1>2. FenceTypeOK'
  BY <1>0, <1>1 DEF FenceTypeOK, OptHart
<1>3. owed'[h] = taken[h] /\ taken'[h] = NoHart
  BY <1>0, <1>1 DEF FenceTypeOK
<1>4. \A u \in Harts : u # h => owed'[u] = owed[u] /\ taken'[u] = taken[u]
  BY <1>0, <1>1 DEF FenceTypeOK
<1>5. SameAsked
  BY <1>1, <1>3, <1>4, FenceAssumption DEF SameAsked, Asked
<1>6. HolderInv'
  <2>1. \A u \in Harts : Asked(u, u)' <=> Asked(u, u)
    BY <1>5 DEF SameAsked
  <2> QED
    BY <1>0, <1>1, <1>3, <1>4, <2>1, FenceAssumption DEF HolderInv
<1> QED
  BY <1>1, <1>2, <1>5, <1>6, MovedRequest

LEMMA AcknowledgeStep == ASSUME FenceInv, NEW h \in Harts, Acknowledge(h) PROVE FenceInv'
<1>0. FenceTypeOK /\ CallInv /\ HolderInv /\ AskedInv /\ CountInv
  BY DEF FenceInv
<1> DEFINE s == owed[h]
<1>1. /\ s \in Harts /\ taken[h] = NoHart
      /\ owed' = [owed EXCEPT ![h] = NoHart]
      /\ waitSync' = [waitSync EXCEPT ![s] = @ - 1]
      /\ UNCHANGED <<ipiType, queue, ssip, work, todo, targets, taken, stale>>
  BY <1>0 DEF Acknowledge, FenceTypeOK, OptHart, HolderInv, sendVars
<1>2. Asked(s, h) /\ ~Contains(queue[h], s)
  BY <1>0, <1>1 DEF Asked, HolderInv
<1>3. owed'[h] = NoHart /\ \A u \in Harts : u # h => owed'[u] = owed[u]
  BY <1>0, <1>1 DEF FenceTypeOK
<1>4. \A k, u \in Harts : Asked(k, u)' <=> Asked(k, u) /\ ~(k = s /\ u = h)
  <2> SUFFICES ASSUME NEW k \in Harts, NEW u \in Harts
               PROVE  Asked(k, u)' <=> Asked(k, u) /\ ~(k = s /\ u = h)
    OBVIOUS
  <2>1. CASE u = h
    BY <1>1, <1>2, <1>3, <2>1, FenceAssumption DEF Asked
  <2>2. CASE u # h
    BY <1>1, <1>3, <2>2 DEF Asked
  <2> QED
    BY <2>1, <2>2
<1> HIDE DEF s
<1>5. ASSUME work[s] = "fence_push" PROVE h # First(todo[s])
  <2>1. h \notin todo[s]
    BY <1>0, <1>1, <1>2, <1>5 DEF AskedInv
  <2>2. todo[s] \in SUBSET Harts /\ todo[s] # {}
    BY <1>0, <1>1, <1>5 DEF FenceTypeOK, CallInv, SendingSteps
  <2> QED
    BY <2>1, <2>2, FirstOfHarts
<1>6. CountInv' /\ waitSync' \in [Harts -> Nat]
  <2>1. \A k \in Harts : /\ work'[k] = "fence_push" <=> work[k] = "fence_push"
                         /\ work[k] = "fence_push" => todo'[k] = todo[k]
    BY <1>1
  <2> QED
    BY <1>1, <1>2, <1>4, <1>5, <2>1, RequestGone
<1>7. FenceTypeOK'
  BY <1>0, <1>1, <1>6 DEF FenceTypeOK, OptHart
<1>8. CallInv'
  BY <1>0, <1>1 DEF CallInv
<1>9. AskedInv'
  BY <1>0, <1>1, <1>4 DEF AskedInv
<1>10. HolderInv'
  <2>1. \A u \in Harts : ~Asked(u, u)'
    BY <1>0, <1>4 DEF HolderInv
  <2>2. \A u \in Harts : owed'[u] = NoHart \/ owed'[u] = owed[u]
    BY <1>3
  <2>3. UNCHANGED <<queue, taken>>
    BY <1>1
  <2>4. \A k \in Harts : k # NoHart
    BY FenceAssumption
  <2> QED
    BY <1>0, <2>1, <2>2, <2>3, <2>4 DEF HolderInv
<1> QED
  BY <1>6, <1>7, <1>8, <1>9, <1>10 DEF FenceInv

\* Every step of the firmware keeps the invariant.
LEMMA FenceStepInv == FenceInv /\ [FenceNext]_fenceVars => FenceInv'
<1> SUFFICES ASSUME FenceInv, [FenceNext]_fenceVars PROVE FenceInv'
  OBVIOUS
<1>1. CASE UNCHANGED fenceVars
  <2>1. SameRequests /\ UNCHANGED <<ipiType, ssip, work, todo, targets, stale>>
    BY <1>1 DEF fenceVars, ipiVars, sendVars, serveVars, SameRequests
  <2>2. FenceTypeOK' /\ SamePushes
    BY <2>1 DEF FenceInv, FenceTypeOK, SameRequests, SamePushes
  <2>3. CallInv'
    BY <2>1 DEF FenceInv, CallInv
  <2>4. SameAsked => AskedInv'
    BY <2>1 DEF FenceInv, AskedInv, SameAsked
  <2> QED
    BY <2>1, <2>2, <2>3, <2>4, QuietStep, Zenon
<1>2. ASSUME NEW h \in Harts,
             \/ LifecycleStep(h)
             \/ SupervisorCall(h)
             \/ SendStep(h)
             \/ TryPush(h)
             \/ FenceReturns(h)
             \/ ServeStep(h)
             \/ DrainDone(h)
             \/ ClearSsip(h)
      PROVE  FenceInv'
  <2>1. CASE LifecycleStep(h) \/ DrainDone(h) \/ ClearSsip(h)
    BY <2>1, IpiStep
  <2>2. CASE SupervisorCall(h)
    BY <2>2, IpiStep, FenceQuietStep DEF SupervisorCall
  <2>3. CASE SendStep(h)
    BY <2>3, IpiStep, FenceQuietStep, AddSyncStep, CancelStep DEF SendStep
  <2>4. CASE TryPush(h) \/ FenceReturns(h)
    BY <2>4, TryPushStep, ReturnStep
  <2>5. CASE ServeStep(h)
    BY <2>5, IpiStep, DequeueStep, ExecuteStep, AcknowledgeStep DEF ServeStep, RFencePoll, DrainNext
  <2> QED
    BY <1>2, <2>1, <2>2, <2>3, <2>4, <2>5
<1> QED
  BY <1>1, <1>2 DEF FenceNext

LEMMA FenceInvAlways == FenceSpec => []FenceInv
BY FenceInitInv, FenceStepInv, PTL DEF FenceSpec

\* The interrupt and fence state is well typed in every reachable state; in
\* particular the counts never go below zero.
THEOREM FenceTypes == FenceSpec => []FenceTypeOK
<1>1. FenceInv => FenceTypeOK
  BY DEF FenceInv
<1> QED
  BY <1>1, FenceInvAlways, PTL

\* wait_sync_count is exact, for any number of harts and any queue capacity,
\* whatever is cancelled, dequeued and acknowledged meanwhile.
THEOREM SyncCountExact == FenceSpec => []SyncCountIsExact
<1>1. FenceInv => SyncCountIsExact
  BY DEF FenceInv, CountInv, HolderInv, Asked, SyncCountIsExact
<1> QED
  BY <1>1, FenceInvAlways, PTL

------------------------------------------------------------------------------
(* IPIs and fences implement the hart lifecycle. *)

LEMMA StepIsLifecycleStep == FenceInv /\ [FenceNext]_fenceVars => [Next]_vars
<1> SUFFICES ASSUME FenceInv, [FenceNext]_fenceVars PROVE [Next]_vars
  OBVIOUS
<1>1. CASE UNCHANGED fenceVars
  BY <1>1 DEF fenceVars
<1>2. ASSUME NEW h \in Harts, LifecycleStep(h) PROVE Next
  BY <1>2 DEF LifecycleStep, Next
<1>3. ASSUME NEW h \in Harts, SupervisorCall(h) \/ ClearSsip(h) \/ TryPush(h) \/ FenceReturns(h)
      PROVE  UNCHANGED vars
  BY <1>3 DEF SupervisorCall, SendIpi, RemoteFenceCall, ClearSsip, TryPush, FenceReturns
<1>4. ASSUME NEW h \in Harts, SendStep(h) PROVE Next \/ UNCHANGED vars
  <2>1. CASE RingSoft(h) \/ RingFence(h)
    <3>1. First(todo[h]) \in Harts
      BY <2>1, FirstOfHarts
      DEF RingSoft, RingFence, Proceed, FenceInv, FenceTypeOK, CallInv, SendingSteps
    <3> QED
      BY <2>1, <3>1 DEF RingSoft, RingFence, Next
  <2>2. CASE ~(RingSoft(h) \/ RingFence(h))
    BY <1>4, <2>2
    DEF SendStep, ScanTarget, ScanDone, MarkSoft, MarkSoftDone, SendIpiReturns, FenceSelf,
        AddSync, MarkFence, RingFenceFails, CancelFence, FenceSent
  <2> QED
    BY <2>1, <2>2
<1>5. ASSUME NEW h \in Harts, ServeStep(h) \/ DrainDone(h) PROVE Next \/ UNCHANGED vars
  BY <1>5
  DEF ServeStep, RFencePoll, DrainNext, Dequeue, ExecuteFence, Acknowledge, SwapIpiType,
      DrainDone, Next
<1> QED
  BY <1>1, <1>2, <1>3, <1>4, <1>5 DEF FenceNext

\* The firmware with IPIs and fences still implements the hart lifecycle, so
\* everything proved about the lifecycle holds of it.
THEOREM FenceImplementsLifecycle == FenceSpec => LifecycleRefinement
<1>1. FenceInit => Init
  BY DEF FenceInit
<1> QED
  BY <1>1, StepIsLifecycleStep, FenceInvAlways, PTL DEF FenceSpec, LifecycleRefinement, Spec

------------------------------------------------------------------------------
(* Completion: a remote fence that returned SUCCESS is complete, and pending *)
(* work is announced.                                                       *)

\* A hart that is not checked yet is still in its bring-up.
UncheckedInv ==
    \A t \in Harts : ~checked[t] => pc[t] \in {"reset", "init_board", "wait_ready", "check"}

\* The hart gets to its lower modes only through fence.i.
WillFence(t) ==
    \/ state[t] \in {"STOPPED", "STARTING", "START_PENDING", "RESUME_PENDING"}
    \/ pc[t] \in {"take", "ecall_return"}
    \/ pc[t] \in {"deliver", "dispatch"} /\ event[t].kind = "start"

\* The call of h has the fence of t still in hand.
InHand(h, t) ==
    \/ work[h] = "fence_scan" /\ t \in todo[h] \cup targets[h]
    \/ work[h] \in {"fence_next", "fence_push"} /\ t \in todo[h]
    \/ work[h] \in {"fence_mark", "fence_ring"} /\ t \in todo[h] \ {First(todo[h])}
    \/ Contains(queue[t], h)
    \/ taken[t] = h

\* A hart that has not fenced since the call is taken care of.
CompleteInv ==
    \A h \in Harts : work[h] \notin {"fence_cancel", "fence_failed"} =>
        \A t \in stale[h] \ FlakyHarts : InHand(h, t) \/ WillFence(t)

\* The hart will swap its IPI bits out.
WillSwap(t) ==
    \/ doorbell[t]
    \/ pc[t] \in {"clear", "event", "take", "deliver", "stop_store"} /\ work[t] # "drain"

FenceAnnounced(t) == WillSwap(t) \/ \E h \in Harts : work[h] = "fence_ring" /\ t = First(todo[h])

SoftAnnounced(t) ==
    \/ WillSwap(t)
    \/ \E h \in Harts : \/ work[h] = "ipi_mark" /\ t \in targets[h]
                        \/ work[h] = "ipi_ring" /\ t \in todo[h]

AnnouncedInv ==
    \A t \in Harts \ FlakyHarts :
        /\ "FENCE" \in ipiType[t] => FenceAnnounced(t)
        /\ FlakyHarts = {} /\ "SSOFT" \in ipiType[t] => SoftAnnounced(t)

------------------------------------------------------------------------------
(* What a step of the lifecycle keeps. *)

\* The lifecycle's steps on hart h.
OwnStep(h) ==
    FirmwareStep(h) \/ DeliverCurrent(h) \/ Waiting(h) \/ TrapMachineSoft(h) \/ SbiCall(h)

LEMMA UncheckedStep == TypeOK /\ UncheckedInv /\ [Next]_vars => UncheckedInv'
<1> SUFFICES ASSUME TypeOK, UncheckedInv, [Next]_vars PROVE UncheckedInv'
  OBVIOUS
<1> USE DEF UncheckedInv, TypeOK, Goto, cells, bringUp
<1>1. CASE UNCHANGED vars
  BY <1>1 DEF vars
<1>2. ASSUME NEW h \in Harts, BringUp(h) PROVE UncheckedInv'
  BY <1>2 DEF BringUp, InitBoard, WaitUntilReady, CheckPrivilege, StageCurrent, EnableServices
<1>3. ASSUME NEW h \in Harts, Starting(h) PROVE UncheckedInv'
  <2>1. call[h].target \in Harts
    OBVIOUS
  <2>2. CASE WakeByRelease(h)
    BY <2>1, <2>2 DEF WakeByRelease
  <2>3. CASE WakeByIpi(h) \/ WakeFailed(h) \/ WriteStage(h) \/ StorePending(h)
    BY <2>1, <2>3 DEF WakeByIpi, WakeFailed, WriteStage, StorePending
  <2> QED
    BY <1>3, <2>2, <2>3 DEF Starting
<1>4. ASSUME NEW h \in Harts, LocalWork(h) \/ Stopping(h) PROVE UncheckedInv'
  BY <1>4 DEF LocalWork, ClearCurrent, TakeLocalEvent, TakeStage, DispatchEvent, Stopping, StoreStopped
<1>5. ASSUME NEW h \in Harts, Suspending(h) \/ Waiting(h) PROVE UncheckedInv'
  BY <1>5 DEF Suspending, StoreSuspended, ResumeRetentive, BeginNonretentiveResume, CommitResume,
              StageTransfer, PublishResume, DropTicket, EcallReturn, Waiting, WfiReturns, SuspendWfiReturns
<1>6. ASSUME NEW h \in Harts, DeliverCurrent(h) \/ TrapMachineSoft(h) \/ RingDoorbell(h)
      PROVE  UncheckedInv'
  BY <1>6 DEF DeliverCurrent, TrapMachineSoft, RingDoorbell
<1>7. ASSUME NEW h \in Harts, SbiCall(h) PROVE UncheckedInv'
  BY <1>7 DEF SbiCall, HartStart, HartStop, HartSuspend
<1> QED
  BY <1>1, <1>2, <1>3, <1>4, <1>5, <1>6, <1>7 DEF Next, FirmwareStep

\* A hart on its way through fence.i stays on it until it executes fence.i,
\* whatever the lifecycle does, unless its own wake IPI fails.
LEMMA WillFenceKept ==
  ASSUME TypeOK, LifecycleInv, NEW h \in Harts, OwnStep(h),
         NEW t \in Harts \ FlakyHarts, WillFence(t), ~(t = h /\ EntersByFenceI(h))
  PROVE  WillFence(t)'
<1> USE DEF WillFence, TypeOK, Goto, cells, bringUp
<1>0. NoPanic /\ StarterInv /\ StageInv /\ ContextInv
  BY DEF LifecycleInv
<1>1. CASE BringUp(h)
  <2>1. pc[h] \in BootSteps /\ event' = event /\ (t # h => pc'[t] = pc[t])
    BY <1>1 DEF BringUp, InitBoard, WaitUntilReady, CheckPrivilege, StageCurrent, EnableServices,
                BootSteps
  <2>2. Down(h)
    BY <1>0, <2>1 DEF ContextInv
  <2>3. state' = state \/ state' = [state EXCEPT ![h] = "STARTING"]
    BY <1>1 DEF BringUp, InitBoard, WaitUntilReady, CheckPrivilege, StageCurrent, EnableServices
  <2> QED
    BY <2>1, <2>2, <2>3 DEF Down
<1>2. CASE Starting(h)
  <2>1. call[h].target \in Harts /\ state[call[h].target] = "STARTING"
    BY <1>0, <1>2 DEF StarterInv, StartSteps, Starting, WakeByRelease, WakeByIpi, WakeFailed,
                      WriteStage, StorePending
  <2>2. t # h => pc'[t] = pc[t] \/ (pc'[t] = "wait_ready" /\ t = call[h].target)
    BY <1>2, <2>1 DEF Starting, WakeByRelease, WakeByIpi, WakeFailed, WriteStage, StorePending
  <2>3. /\ state'[t] = state[t] \/ state'[t] \in {"STOPPED", "START_PENDING"}
        /\ event' = event
    BY <1>2, <2>1 DEF Starting, WakeByRelease, WakeByIpi, WakeFailed, WriteStage, StorePending
  <2>4. pc[h] \in StartSteps
    BY <1>2 DEF StartSteps, Starting, WakeByRelease, WakeByIpi, WakeFailed, WriteStage, StorePending
  <2>5. pc[t] # "wait_ready" /\ pc'[t] = "wait_ready" => t = call[h].target /\ state' = state
    BY <1>2, <2>1 DEF Starting, WakeByRelease, WakeByIpi, WakeFailed, WriteStage, StorePending
  <2> QED
    BY <2>1, <2>2, <2>3, <2>4, <2>5 DEF StartSteps
<1>3. CASE ClearCurrent(h)
  BY <1>3 DEF ClearCurrent
<1>4. CASE TakeLocalEvent(h)
  BY <1>4 DEF TakeLocalEvent
<1>5. CASE TakeStage(h)
  <2>1. pc[h] = "take" => stage[h] # NoStage
    BY <1>0 DEF StageInv
  <2> QED
    BY <1>5, <2>1 DEF TakeStage
<1>6. CASE DispatchEvent(h)
  BY <1>6 DEF DispatchEvent, EntersByFenceI
<1>7. CASE Stopping(h)
  BY <1>7 DEF Stopping, StoreStopped
<1>8. CASE Suspending(h)
  <2>1. pc[h] = "suspend_store" => Up(h)
    BY <1>0 DEF ContextInv
  <2>2. CASE StoreSuspended(h)
    BY <2>1, <2>2 DEF StoreSuspended, Up
  <2>3. CASE ResumeRetentive(h) \/ BeginNonretentiveResume(h)
    BY <2>3 DEF ResumeRetentive, BeginNonretentiveResume
  <2>4. CASE CommitResume(h) \/ StageTransfer(h) \/ PublishResume(h) \/ DropTicket(h)
    BY <2>4 DEF CommitResume, StageTransfer, PublishResume, DropTicket
  <2>5. CASE EcallReturn(h)
    BY <2>5 DEF EcallReturn, EntersByFenceI
  <2> QED
    BY <1>8, <2>2, <2>3, <2>4, <2>5 DEF Suspending
<1>9. CASE DeliverCurrent(h)
  <2>1. pc[h] = "deliver" /\ event[h].kind = "start" => caller[h] = "finish_boot"
    BY <1>0 DEF ContextInv, NoEvent
  <2> QED
    BY <1>9, <2>1 DEF DeliverCurrent, AfterDeliver
<1>10. CASE Waiting(h) \/ TrapMachineSoft(h)
  BY <1>10 DEF Waiting, WfiReturns, SuspendWfiReturns, TrapMachineSoft
<1>11. CASE SbiCall(h)
  BY <1>11 DEF SbiCall, HartStart, HartStop, HartSuspend
<1> QED
  BY <1>1, <1>2, <1>3, <1>4, <1>5, <1>6, <1>7, <1>8, <1>9, <1>10, <1>11
  DEF OwnStep, FirmwareStep, LocalWork


------------------------------------------------------------------------------
(* Fences are complete. *)

LEMMA CompleteInit == FenceInit => UncheckedInv /\ CompleteInv
<1> SUFFICES ASSUME FenceInit PROVE UncheckedInv /\ CompleteInv
  OBVIOUS
<1>1. UncheckedInv
  BY DEF FenceInit, NoIpiWork, Init, UncheckedInv
<1>2. CompleteInv
  BY DEF FenceInit, NoIpiWork, CompleteInv
<1> QED
  BY <1>1, <1>2

\* t has a request of h that it has not executed.
Holds(h, t) == Contains(queue[t], h) \/ taken[t] = h

\* A step of the call of h leaves the calls of the others as they are.
LEMMA CallerComplete ==
  ASSUME CompleteInv, NEW h \in Harts,
         \A k \in Harts \ {h} : /\ work'[k] = work[k] /\ todo'[k] = todo[k]
                                /\ targets'[k] = targets[k] /\ stale'[k] = stale[k],
         \A k \in Harts \ {h}, t \in Harts : Holds(k, t) => Holds(k, t)',
         \A t \in Harts : WillFence(t) => WillFence(t)',
         work'[h] \notin {"fence_cancel", "fence_failed"} =>
             \A t \in stale'[h] \ FlakyHarts : InHand(h, t)' \/ WillFence(t)',
         FenceTypeOK
  PROVE  CompleteInv'
<1> SUFFICES ASSUME NEW k \in Harts, work'[k] \notin {"fence_cancel", "fence_failed"},
                    NEW t \in stale'[k] \ FlakyHarts
             PROVE  InHand(k, t)' \/ WillFence(t)'
  BY DEF CompleteInv
<1>1. CASE k = h
  BY <1>1
<1>2. CASE k # h
  <2>1. t \in Harts /\ t \in stale[k] \ FlakyHarts /\ work[k] \notin {"fence_cancel", "fence_failed"}
    BY <1>2 DEF FenceTypeOK
  <2>2. InHand(k, t) \/ WillFence(t)
    BY <2>1 DEF CompleteInv
  <2>3. Holds(k, t) => Holds(k, t)'
    BY <1>2, <2>1
  <2>4. InHand(k, t) => InHand(k, t)'
    BY <1>2, <2>3 DEF InHand, Holds
  <2> QED
    BY <2>1, <2>2, <2>4
<1> QED
  BY <1>1, <1>2

\* A hart that takes up and executes requests leaves all calls as they are.
LEMMA ServerComplete ==
  ASSUME CompleteInv, FenceTypeOK, UNCHANGED <<vars, work, todo, targets>>,
         \A k, t \in Harts : t \in stale'[k] => t \in stale[k] /\ (Holds(k, t) => Holds(k, t)'),
         \A k \in Harts : stale'[k] \subseteq Harts
  PROVE  CompleteInv'
<1> SUFFICES ASSUME NEW k \in Harts, work'[k] \notin {"fence_cancel", "fence_failed"},
                    NEW t \in stale'[k] \ FlakyHarts
             PROVE  InHand(k, t)' \/ WillFence(t)'
  BY DEF CompleteInv
<1>1. t \in Harts /\ t \in stale[k] /\ (Holds(k, t) => Holds(k, t)')
  OBVIOUS
<1>2. InHand(k, t) \/ WillFence(t)
  BY <1>1 DEF CompleteInv
<1>3. InHand(k, t) => InHand(k, t)'
  BY <1>1 DEF InHand, Holds
<1>4. WillFence(t) => WillFence(t)'
  BY DEF WillFence, vars
<1> QED
  BY <1>2, <1>3, <1>4

\* A step of the lifecycle, with the deliveries.
LEMMA LifecycleComplete ==
  ASSUME CompleteInv, FenceTypeOK, TypeOK, LifecycleInv, NEW h \in Harts, OwnStep(h),
         stale' = IF EntersByFenceI(h) THEN [s \in Harts |-> stale[s] \ {h}] ELSE stale,
         UNCHANGED <<queue, taken, todo, targets>>,
         work' = work \/ (work[h] = "drain" /\ work' = [work EXCEPT ![h] = "idle"])
  PROVE  CompleteInv'
<1> SUFFICES ASSUME NEW k \in Harts, work'[k] \notin {"fence_cancel", "fence_failed"},
                    NEW t \in stale'[k] \ FlakyHarts
             PROVE  InHand(k, t)' \/ WillFence(t)'
  BY DEF CompleteInv
<1>1. t \in Harts \ FlakyHarts /\ t \in stale[k] /\ ~(t = h /\ EntersByFenceI(h))
  BY DEF FenceTypeOK
<1>2. work[k] \notin {"fence_cancel", "fence_failed"}
  BY DEF FenceTypeOK
<1>3. InHand(k, t) \/ WillFence(t)
  BY <1>1, <1>2 DEF CompleteInv
<1>4. InHand(k, t) => InHand(k, t)'
  BY DEF InHand, FenceTypeOK
<1>5. WillFence(t) => WillFence(t)'
  BY <1>1, WillFenceKept
<1> QED
  BY <1>3, <1>4, <1>5

\* Selecting the targets: who is not selected is on its way through fence.i.
LEMMA ScanComplete ==
  ASSUME FenceInv, TypeOK, LifecycleInv, UncheckedInv, CompleteInv, NEW h \in Harts,
         ScanTarget(h)
  PROVE  CompleteInv'
<1>0. FenceTypeOK /\ CallInv
  BY DEF FenceInv
<1> DEFINE f == First(todo[h])
<1>1. /\ todo[h] # {} /\ work[h] \in {"ipi_scan", "fence_scan"}
      /\ todo' = [todo EXCEPT ![h] = @ \ {f}]
      /\ targets' = [targets EXCEPT ![h] = IF Available(f) THEN @ \cup {f} ELSE @]
      /\ UNCHANGED <<vars, work, queue, taken, stale>>
  BY DEF ScanTarget, serveVars
<1>2. f \in Harts
  BY <1>0, <1>1, FirstOfHarts DEF FenceTypeOK
<1> HIDE DEF f
<1>3. ~Available(f) => WillFence(f)
  <2>1. ~checked[f] => Down(f)
    BY <1>2 DEF UncheckedInv, LifecycleInv, ContextInv, BootSteps
  <2> QED
    BY <1>2, <2>1 DEF Available, WillFence, TypeOK, HartStates, Down
<1>4. \A t \in Harts : WillFence(t)' <=> WillFence(t)
  BY <1>1 DEF WillFence, vars
<1>5. ASSUME NEW t \in stale'[h] \ FlakyHarts PROVE InHand(h, t)' \/ WillFence(t)'
  <2>1. t \in Harts /\ (InHand(h, t) \/ WillFence(t))
    BY <1>0, <1>1 DEF CompleteInv, FenceTypeOK
  <2>2. /\ todo'[h] = todo[h] \ {f}
        /\ targets'[h] = IF Available(f) THEN targets[h] \cup {f} ELSE targets[h]
    BY <1>0, <1>1 DEF FenceTypeOK
  <2>3. CASE t = f /\ ~Available(f)
    BY <1>3, <1>4, <2>1, <2>3
  <2>4. CASE ~(t = f /\ ~Available(f))
    <3>1. t \in todo[h] \cup targets[h] => t \in todo'[h] \cup targets'[h]
      BY <2>2, <2>4
    <3>2. InHand(h, t) => InHand(h, t)'
      BY <1>1, <3>1 DEF InHand
    <3> QED
      BY <1>4, <2>1, <3>2
  <2> QED
    BY <2>3, <2>4
<1>6. \A k \in Harts \ {h}, t \in Harts : Holds(k, t) => Holds(k, t)'
  BY <1>1 DEF Holds
<1>7. \A k \in Harts \ {h} : /\ work'[k] = work[k] /\ todo'[k] = todo[k]
                             /\ targets'[k] = targets[k] /\ stale'[k] = stale[k]
  BY <1>0, <1>1 DEF FenceTypeOK
<1> QED
  BY <1>0, <1>4, <1>5, <1>6, <1>7, CallerComplete


\* What the steps of a call have in common: they are about the calling hart.
CallStep(h) ==
    \/ (\E mask \in Masks[h] : SendIpi(h, mask) \/ RemoteFenceCall(h, mask))
    \/ ScanDone(h) \/ MarkSoft(h) \/ MarkSoftDone(h) \/ RingSoft(h) \/ SendIpiReturns(h)
    \/ FenceSelf(h) \/ AddSync(h) \/ MarkFence(h) \/ RingFence(h) \/ RingFenceFails(h)
    \/ FenceSent(h) \/ FenceReturns(h)

LEMMA CallStepFrame ==
  ASSUME FenceTypeOK, NEW h \in Harts, CallStep(h)
  PROVE  /\ \A k \in Harts \ {h} : /\ work'[k] = work[k] /\ todo'[k] = todo[k]
                                   /\ targets'[k] = targets[k] /\ stale'[k] = stale[k]
         /\ UNCHANGED <<queue, taken>>
         /\ \A t \in Harts : WillFence(t)' <=> WillFence(t)
<1>1. UNCHANGED <<queue, taken, state, pc, event>>
  <2>1. CASE RingSoft(h) \/ RingFence(h)
    BY <2>1 DEF RingSoft, RingFence, RingDoorbell, cells, serveVars
  <2>2. CASE ~(RingSoft(h) \/ RingFence(h))
    BY <2>2 DEF CallStep, SendIpi, RemoteFenceCall, ScanDone, MarkSoft, MarkSoftDone, SendIpiReturns,
                FenceSelf, AddSync, MarkFence, RingFenceFails, FenceSent, FenceReturns, serveVars, vars
  <2> QED
    BY <2>1, <2>2
<1>2. \A t \in Harts : WillFence(t)' <=> WillFence(t)
  BY <1>1 DEF WillFence
<1>3. \A k \in Harts \ {h} : work'[k] = work[k]
  BY DEF CallStep, SendIpi, RemoteFenceCall, ScanDone, MarkSoft, MarkSoftDone, RingSoft, SendIpiReturns,
         FenceSelf, AddSync, MarkFence, RingFence, RingFenceFails, FenceSent, FenceReturns,
         Proceed, FenceTypeOK
<1>4. \A k \in Harts \ {h} : todo'[k] = todo[k]
  BY DEF CallStep, SendIpi, RemoteFenceCall, ScanDone, MarkSoft, MarkSoftDone, RingSoft, SendIpiReturns,
         FenceSelf, AddSync, MarkFence, RingFence, RingFenceFails, FenceSent, FenceReturns, FenceTypeOK
<1>5. \A k \in Harts \ {h} : targets'[k] = targets[k]
  BY DEF CallStep, SendIpi, RemoteFenceCall, ScanDone, MarkSoft, MarkSoftDone, RingSoft, SendIpiReturns,
         FenceSelf, AddSync, MarkFence, RingFence, RingFenceFails, FenceSent, FenceReturns, FenceTypeOK
<1>6. \A k \in Harts \ {h} : stale'[k] = stale[k]
  BY DEF CallStep, SendIpi, RemoteFenceCall, ScanDone, MarkSoft, MarkSoftDone, RingSoft, SendIpiReturns,
         FenceSelf, AddSync, MarkFence, RingFence, RingFenceFails, FenceSent, FenceReturns, FenceTypeOK
<1> QED
  BY <1>1, <1>2, <1>3, <1>4, <1>5, <1>6

\* The hart a call comes to next is in hand until the request is queued.
LEMMA CallStepOwn ==
  ASSUME FenceInv, CompleteInv, NEW h \in Harts, CallStep(h),
         work'[h] \notin {"fence_cancel", "fence_failed"},
         NEW t \in stale'[h] \ FlakyHarts
  PROVE  InHand(h, t)' \/ WillFence(t)'
<1>0. FenceTypeOK /\ CallInv
  BY DEF FenceInv
<1>1. UNCHANGED <<queue, taken>> /\ (t \in Harts => (WillFence(t)' <=> WillFence(t)))
  BY <1>0, CallStepFrame
<1>2. CASE \E mask \in Masks[h] : RemoteFenceCall(h, mask)
  <2>1. PICK mask \in Masks[h] : RemoteFenceCall(h, mask)
    BY <1>2
  <2>2. work'[h] = "fence_scan" /\ todo'[h] = mask /\ stale'[h] = mask
    BY <1>0, <2>1 DEF RemoteFenceCall, Proceed, FenceTypeOK
  <2> QED
    BY <2>2 DEF InHand
<1>3. CASE ~(\E mask \in Masks[h] : RemoteFenceCall(h, mask))
  <2>1. t \in stale[h] \ FlakyHarts /\ t \in Harts /\ work[h] \notin {"fence_cancel", "fence_failed"}
    <3>1. CASE FenceReturns(h)
      BY <1>0, <3>1 DEF FenceReturns, Proceed, FenceTypeOK
    <3>2. CASE ~FenceReturns(h)
      BY <1>0, <1>3, <3>2
      DEF CallStep, SendIpi, ScanDone, MarkSoft, MarkSoftDone, RingSoft, SendIpiReturns,
          FenceSelf, AddSync, MarkFence, RingFence, RingFenceFails, FenceSent, Proceed, FenceTypeOK
    <3> QED
      BY <3>1, <3>2
  <2>2. InHand(h, t) \/ WillFence(t)
    BY <2>1 DEF CompleteInv
  <2>3. ASSUME InHand(h, t) PROVE InHand(h, t)'
    <3>1. CASE \E mask \in Masks[h] : SendIpi(h, mask)
      BY <1>0, <1>1, <2>3, <3>1 DEF SendIpi, Proceed, FenceTypeOK, InHand
    <3>2. CASE ScanDone(h)
      BY <1>0, <1>1, <2>3, <3>2 DEF ScanDone, Proceed, FenceTypeOK, InHand
    <3>3. CASE MarkSoft(h) \/ MarkSoftDone(h) \/ RingSoft(h) \/ SendIpiReturns(h)
      BY <1>0, <1>1, <2>3, <3>3
      DEF MarkSoft, MarkSoftDone, RingSoft, SendIpiReturns, Proceed, FenceTypeOK, InHand
    <3>4. CASE FenceSelf(h)
      <4>1. t # h
        BY <1>0, <3>4 DEF FenceSelf, FenceTypeOK
      <4> QED
        BY <1>0, <1>1, <2>3, <3>4, <4>1 DEF FenceSelf, FenceTypeOK, InHand
    <3>5. CASE AddSync(h) \/ MarkFence(h)
      BY <1>0, <1>1, <2>3, <3>5 DEF AddSync, MarkFence, Proceed, FenceTypeOK, InHand
    <3>6. CASE RingFence(h)
      BY <1>0, <1>1, <2>3, <3>6 DEF RingFence, Proceed, FenceTypeOK, InHand
    <3>7. CASE RingFenceFails(h)
      BY <1>0, <3>7 DEF RingFenceFails, Proceed, FenceTypeOK
    <3>8. CASE FenceSent(h) \/ FenceReturns(h)
      BY <1>0, <1>1, <2>3, <3>8 DEF FenceSent, FenceReturns, Proceed, FenceTypeOK, InHand
    <3> QED
      BY <1>3, <3>1, <3>2, <3>3, <3>4, <3>5, <3>6, <3>7, <3>8 DEF CallStep
  <2> QED
    BY <1>1, <2>1, <2>2, <2>3
<1> QED
  BY <1>2, <1>3

LEMMA CallComplete ==
  ASSUME FenceInv, CompleteInv, NEW h \in Harts, CallStep(h) PROVE CompleteInv'
<1>0. FenceTypeOK
  BY DEF FenceInv
<1>1. \A k \in Harts \ {h} : /\ work'[k] = work[k] /\ todo'[k] = todo[k]
                             /\ targets'[k] = targets[k] /\ stale'[k] = stale[k]
  BY <1>0, CallStepFrame
<1>2. \A k \in Harts \ {h}, t \in Harts : Holds(k, t) => Holds(k, t)'
  BY <1>0, CallStepFrame DEF Holds
<1>3. \A t \in Harts : WillFence(t) => WillFence(t)'
  BY <1>0, CallStepFrame
<1>4. work'[h] \notin {"fence_cancel", "fence_failed"} =>
          \A t \in stale'[h] \ FlakyHarts : InHand(h, t)' \/ WillFence(t)'
  BY CallStepOwn
<1> QED
  BY <1>0, <1>1, <1>2, <1>3, <1>4, CallerComplete


LEMMA PushComplete ==
  ASSUME FenceInv, CompleteInv, NEW h \in Harts, TryPush(h) PROVE CompleteInv'
<1>0. FenceTypeOK /\ CallInv
  BY DEF FenceInv
<1> DEFINE f == First(todo[h])
<1>1. /\ work[h] = "fence_push"
      /\ work' = [work EXCEPT ![h] = "fence_mark"]
      /\ queue' = [queue EXCEPT ![f] = Append(@, h)]
      /\ UNCHANGED <<vars, todo, targets, taken, stale>>
  BY DEF TryPush, Proceed, serveVars
<1>2. f \in Harts
  BY <1>0, <1>1, FirstOfHarts DEF FenceTypeOK, CallInv, SendingSteps
<1>3. \A k, t \in Harts : Contains(queue'[t], k) <=> Contains(queue[t], k) \/ (k = h /\ t = f)
  <2> HIDE DEF f
  <2>1. queue'[f] = Append(queue[f], h) /\ queue[f] \in Seq(Harts)
    BY <1>0, <1>1, <1>2 DEF FenceTypeOK
  <2>2. \A k \in Harts : Contains(queue'[f], k) <=> Contains(queue[f], k) \/ k = h
    BY <2>1, AppendFacts
  <2>3. \A t \in Harts : t # f => queue'[t] = queue[t]
    BY <1>0, <1>1, <1>2 DEF FenceTypeOK
  <2> QED
    BY <2>2, <2>3
<1>4. \A t \in Harts : WillFence(t)' <=> WillFence(t)
  BY <1>1 DEF WillFence, vars
<1>5. ASSUME NEW t \in stale'[h] \ FlakyHarts PROVE InHand(h, t)' \/ WillFence(t)'
  <2>1. t \in Harts /\ (InHand(h, t) \/ WillFence(t))
    BY <1>0, <1>1 DEF CompleteInv, FenceTypeOK
  <2>2. work'[h] = "fence_mark" /\ todo' = todo /\ taken' = taken
    BY <1>0, <1>1 DEF FenceTypeOK
  <2>3. InHand(h, t) => InHand(h, t)'
    BY <1>1, <1>3, <2>1, <2>2 DEF InHand
  <2> QED
    BY <1>4, <2>1, <2>3
<1>6. \A k \in Harts \ {h}, t \in Harts : Holds(k, t) => Holds(k, t)'
  BY <1>1, <1>3 DEF Holds
<1>7. \A k \in Harts \ {h} : /\ work'[k] = work[k] /\ todo'[k] = todo[k]
                             /\ targets'[k] = targets[k] /\ stale'[k] = stale[k]
  BY <1>0, <1>1 DEF FenceTypeOK
<1> QED
  BY <1>0, <1>4, <1>5, <1>6, <1>7, CallerComplete

LEMMA CancelComplete ==
  ASSUME FenceInv, CompleteInv, NEW h \in Harts, CancelFence(h) PROVE CompleteInv'
<1>0. FenceTypeOK /\ CallInv /\ HolderInv
  BY DEF FenceInv
<1> DEFINE f == First(todo[h])
<1>1. /\ work[h] = "fence_cancel"
      /\ work' = [work EXCEPT ![h] = "fence_failed"]
      /\ todo' = [todo EXCEPT ![h] = {}]
      /\ queue' = queue \/ (Contains(queue[f], h) /\ queue' = [queue EXCEPT ![f] = RemoveFirst(@, h)])
      /\ UNCHANGED <<vars, targets, taken, stale>>
  BY DEF CancelFence, Proceed, serveVars
<1>2. f \in Harts
  BY <1>0, <1>1, FirstOfHarts DEF FenceTypeOK, CallInv, SendingSteps
<1> HIDE DEF f
<1>3. ASSUME NEW k \in Harts \ {h}, NEW t \in Harts, Contains(queue[t], k)
      PROVE  Contains(queue'[t], k)
  <2>1. CASE queue' = queue
    BY <1>3, <2>1
  <2>2. CASE Contains(queue[f], h) /\ queue' = [queue EXCEPT ![f] = RemoveFirst(@, h)]
    <3>1. queue[f] \in Seq(Harts) /\ IsInjective(queue[f])
      BY <1>0, <1>2 DEF FenceTypeOK, HolderInv
    <3>2. queue'[f] = RemoveFirst(queue[f], h) /\ (t # f => queue'[t] = queue[t])
      BY <1>0, <1>2, <2>2 DEF FenceTypeOK
    <3>3. \A e : Contains(RemoveFirst(queue[f], h), e) <=> Contains(queue[f], e) /\ e # h
      BY <2>2, <3>1, RemoveFacts
    <3> QED
      BY <1>3, <3>2, <3>3
  <2> QED
    BY <1>1, <2>1, <2>2
<1>4. \A t \in Harts : WillFence(t) => WillFence(t)'
  BY <1>1 DEF WillFence, vars
<1>5. work'[h] = "fence_failed"
  BY <1>0, <1>1 DEF FenceTypeOK
<1>6. \A k \in Harts \ {h}, t \in Harts : Holds(k, t) => Holds(k, t)'
  BY <1>1, <1>3 DEF Holds
<1>7. \A k \in Harts \ {h} : /\ work'[k] = work[k] /\ todo'[k] = todo[k]
                             /\ targets'[k] = targets[k] /\ stale'[k] = stale[k]
  BY <1>0, <1>1 DEF FenceTypeOK
<1> QED
  BY <1>0, <1>4, <1>5, <1>6, <1>7, CallerComplete

LEMMA DequeueComplete ==
  ASSUME FenceInv, CompleteInv, NEW h \in Harts, Dequeue(h) PROVE CompleteInv'
<1>0. FenceTypeOK /\ HolderInv
  BY DEF FenceInv
<1>1. /\ taken[h] = NoHart
      /\ taken' = [taken EXCEPT ![h] = Head(queue[h])]
      /\ queue' = [queue EXCEPT ![h] = Tail(@)]
      /\ UNCHANGED <<vars, work, todo, targets, stale>>
  BY DEF Dequeue, NotServing, sendVars
<1>2. \A e : Contains(Tail(queue[h]), e) <=> Contains(queue[h], e) /\ e # Head(queue[h])
  <2>1. queue[h] \in Seq(Harts) /\ queue[h] # <<>> /\ IsInjective(queue[h])
    BY <1>0 DEF Dequeue, FenceTypeOK, HolderInv
  <2> QED
    BY <2>1, TailFacts
<1>3. taken'[h] = Head(queue[h]) /\ queue'[h] = Tail(queue[h])
  BY <1>0, <1>1 DEF FenceTypeOK
<1>4. \A t \in Harts : t # h => queue'[t] = queue[t] /\ taken'[t] = taken[t]
  BY <1>0, <1>1 DEF FenceTypeOK
<1>5. \A k, t \in Harts : Holds(k, t) => Holds(k, t)'
  <2> SUFFICES ASSUME NEW k \in Harts, NEW t \in Harts, Holds(k, t) PROVE Holds(k, t)'
    OBVIOUS
  <2>1. CASE t = h
    BY <1>1, <1>2, <1>3, <2>1, FenceAssumption DEF Holds
  <2>2. CASE t # h
    BY <1>4, <2>2 DEF Holds
  <2> QED
    BY <2>1, <2>2
<1>6. \A k, t \in Harts : t \in stale'[k] => t \in stale[k] /\ (Holds(k, t) => Holds(k, t)')
  BY <1>1, <1>5
<1>7. \A k \in Harts : stale'[k] \subseteq Harts
  BY <1>0, <1>1 DEF FenceTypeOK
<1> QED
  BY <1>0, <1>1, <1>6, <1>7, ServerComplete

LEMMA ExecuteComplete ==
  ASSUME FenceInv, CompleteInv, NEW h \in Harts, ExecuteFence(h) \/ Acknowledge(h)
  PROVE  CompleteInv'
<1>0. FenceTypeOK
  BY DEF FenceInv
<1>1. CASE ExecuteFence(h)
  <2>1. /\ taken[h] \in Harts
        /\ taken' = [taken EXCEPT ![h] = NoHart]
        /\ stale' = [stale EXCEPT ![taken[h]] = @ \ {h}]
        /\ UNCHANGED <<vars, work, todo, targets, queue>>
    BY <1>0, <1>1 DEF ExecuteFence, FenceTypeOK, OptHart, sendVars
  <2>2. \A k \in Harts : stale'[k] = IF k = taken[h] THEN stale[k] \ {h} ELSE stale[k]
    BY <1>0, <2>1 DEF FenceTypeOK
  <2>3. \A t \in Harts : t # h => taken'[t] = taken[t]
    BY <1>0, <2>1 DEF FenceTypeOK
  <2>4. \A k, t \in Harts : t \in stale'[k] => t \in stale[k] /\ (Holds(k, t) => Holds(k, t)')
    BY <2>1, <2>2, <2>3 DEF Holds
  <2>5. \A k \in Harts : stale'[k] \subseteq Harts
    BY <1>0, <2>2 DEF FenceTypeOK
  <2> QED
    BY <1>0, <2>1, <2>4, <2>5, ServerComplete
<1>2. CASE Acknowledge(h)
  <2>1. UNCHANGED <<vars, work, todo, targets, queue, taken, stale>>
    BY <1>2 DEF Acknowledge, sendVars
  <2>2. \A k, t \in Harts : t \in stale'[k] => t \in stale[k] /\ (Holds(k, t) => Holds(k, t)')
    BY <2>1 DEF Holds
  <2>3. \A k \in Harts : stale'[k] \subseteq Harts
    BY <1>0, <2>1 DEF FenceTypeOK
  <2> QED
    BY <1>0, <2>1, <2>2, <2>3, ServerComplete
<1> QED
  BY <1>1, <1>2

\* Deliveries, and the supervisor's own clearing of its interrupt.
LEMMA DeliverComplete ==
  ASSUME FenceInv, TypeOK, LifecycleInv, CompleteInv, NEW h \in Harts,
         LifecycleStep(h) \/ SwapIpiType(h) \/ DrainDone(h) \/ ClearSsip(h)
  PROVE  CompleteInv'
<1>0. FenceTypeOK
  BY DEF FenceInv
<1>1. CASE LifecycleStep(h)
  <2>1. /\ OwnStep(h)
        /\ stale' = IF EntersByFenceI(h) THEN [s \in Harts |-> stale[s] \ {h}] ELSE stale
        /\ UNCHANGED <<queue, taken, todo, targets, work>>
    BY <1>1 DEF LifecycleStep, OwnStep, serveVars, sendVars
  <2> QED
    BY <1>0, <2>1, LifecycleComplete
<1>2. ASSUME DeliverCurrent(h), UNCHANGED <<stale, queue, taken, todo, targets>>,
             work' = work \/ (work[h] = "drain" /\ work' = [work EXCEPT ![h] = "idle"])
      PROVE  CompleteInv'
  <2>1. ~EntersByFenceI(h) /\ OwnStep(h)
    BY <1>2 DEF DeliverCurrent, Goto, EntersByFenceI, OwnStep
  <2> QED
    BY <1>0, <1>2, <2>1, LifecycleComplete
<1>3. CASE DrainDone(h)
  BY <1>2, <1>3 DEF DrainDone, Proceed, serveVars
<1>4. CASE SwapIpiType(h) /\ "FENCE" \notin ipiType[h]
  BY <1>2, <1>4 DEF SwapIpiType, serveVars
<1>5. CASE SwapIpiType(h) /\ "FENCE" \in ipiType[h]
  <2>1. /\ work[h] = "idle" /\ work' = [work EXCEPT ![h] = "drain"]
        /\ UNCHANGED <<vars, stale, queue, taken, todo, targets>>
    BY <1>5 DEF SwapIpiType, serveVars
  <2>2. \A k \in Harts \ {h} : /\ work'[k] = work[k] /\ todo'[k] = todo[k]
                               /\ targets'[k] = targets[k] /\ stale'[k] = stale[k]
    BY <1>0, <2>1 DEF FenceTypeOK
  <2>3. \A k \in Harts \ {h}, t \in Harts : Holds(k, t) => Holds(k, t)'
    BY <2>1 DEF Holds
  <2>4. \A t \in Harts : WillFence(t) => WillFence(t)'
    BY <2>1 DEF WillFence, vars
  <2>5. ASSUME NEW t \in stale'[h] \ FlakyHarts PROVE InHand(h, t)' \/ WillFence(t)'
    <3>1. t \in Harts /\ (InHand(h, t) \/ WillFence(t))
      BY <1>0, <2>1 DEF CompleteInv, FenceTypeOK
    <3>2. InHand(h, t) => InHand(h, t)'
      BY <2>1 DEF InHand
    <3> QED
      BY <2>4, <3>1, <3>2
  <2> QED
    BY <1>0, <2>2, <2>3, <2>4, <2>5, CallerComplete
<1>6. CASE ClearSsip(h)
  <2>1. UNCHANGED <<vars, work, todo, targets, queue, taken, stale>>
    BY <1>6 DEF ClearSsip, sendVars, serveVars
  <2>2. \A k, t \in Harts : t \in stale'[k] => t \in stale[k] /\ (Holds(k, t) => Holds(k, t)')
    BY <2>1 DEF Holds
  <2>3. \A k \in Harts : stale'[k] \subseteq Harts
    BY <1>0, <2>1 DEF FenceTypeOK
  <2> QED
    BY <1>0, <2>1, <2>2, <2>3, ServerComplete
<1> QED
  BY <1>1, <1>3, <1>4, <1>5, <1>6

LEMMA CompleteStep ==
  FenceInv /\ TypeOK /\ LifecycleInv /\ UncheckedInv /\ CompleteInv /\ [FenceNext]_fenceVars
  => CompleteInv'
<1> SUFFICES ASSUME FenceInv, TypeOK, LifecycleInv, UncheckedInv, CompleteInv,
                    [FenceNext]_fenceVars
             PROVE  CompleteInv'
  OBVIOUS
<1>1. CASE UNCHANGED fenceVars
  BY <1>1 DEF fenceVars, vars, ipiVars, sendVars, serveVars, CompleteInv, InHand, WillFence
<1>2. ASSUME NEW h \in Harts, SupervisorCall(h) \/ SendStep(h) \/ TryPush(h) \/ FenceReturns(h)
      PROVE  CompleteInv'
  <2>1. CallStep(h) \/ ScanTarget(h) \/ CancelFence(h) \/ TryPush(h)
    BY <1>2 DEF SupervisorCall, SendStep, CallStep
  <2> QED
    BY <2>1, CallComplete, ScanComplete, CancelComplete, PushComplete
<1>3. ASSUME NEW h \in Harts, LifecycleStep(h) \/ ServeStep(h) \/ DrainDone(h) \/ ClearSsip(h)
      PROVE  CompleteInv'
  BY <1>3, DeliverComplete, DequeueComplete, ExecuteComplete DEF ServeStep, RFencePoll, DrainNext
<1> QED
  BY <1>1, <1>2, <1>3 DEF FenceNext

\* A fence that returned SUCCESS is complete, for any number of harts: every
\* hart of its mask has fenced since the call, or will before it executes its
\* lower modes again.
THEOREM FencesComplete == FenceSpec => []FenceIsComplete
<1>1. FenceSpec => [](TypeOK /\ LifecycleInv)
  BY FenceImplementsLifecycle, TypeCorrect, LifecycleInvariant, PTL DEF LifecycleRefinement
<1>2. FenceSpec => [](UncheckedInv /\ CompleteInv)
  BY <1>1, FenceInvAlways, CompleteInit, UncheckedStep, CompleteStep, StepIsLifecycleStep, PTL
  DEF FenceSpec
<1>3. FenceInv /\ LifecycleInv /\ CompleteInv => FenceIsComplete
  <2> SUFFICES ASSUME FenceInv, LifecycleInv, CompleteInv, NEW h \in Harts, work[h] = "idle",
                      NEW t \in stale[h] \ FlakyHarts, pc[t] = "smode"
               PROVE  FALSE
    BY DEF FenceIsComplete
  <2>1. t \in Harts
    BY DEF FenceInv, FenceTypeOK
  <2>2. InHand(h, t) \/ WillFence(t)
    BY DEF CompleteInv
  <2>3. ~Asked(h, t)
    BY <2>1 DEF FenceInv, AskedInv, SendingSteps, WaitingSteps
  <2>4. ~InHand(h, t)
    BY <2>3 DEF InHand, Asked
  <2>5. Up(t)
    BY <2>1 DEF LifecycleInv, ContextInv
  <2> QED
    BY <2>2, <2>4, <2>5 DEF WillFence, Up
<1> QED
  BY <1>1, <1>2, <1>3, FenceInvAlways, PTL


------------------------------------------------------------------------------
(* Pending work is announced. *)

\* A hart that will swap its bits out still will after a step of the
\* lifecycle: a doorbell is cleared only on the way to the swap.
LEMMA WillSwapKept ==
  ASSUME TypeOK, LifecycleInv, FenceTypeOK, NEW h \in Harts, LifecycleStep(h),
         NEW t \in Harts, WillSwap(t)
  PROVE  WillSwap(t)'
<1> USE DEF WillSwap, TypeOK, Goto, cells, bringUp
<1>0. work' = work /\ work[h] = "idle" /\ (FirmwareStep(h) \/ Waiting(h) \/ TrapMachineSoft(h) \/ SbiCall(h))
  BY DEF LifecycleStep, sendVars
<1>1. CASE BringUp(h)
  BY <1>0, <1>1 DEF BringUp, InitBoard, WaitUntilReady, CheckPrivilege, StageCurrent, EnableServices
<1>2. CASE Starting(h)
  <2>1. call[h].target \in Harts
    OBVIOUS
  <2>2. CASE WakeByRelease(h)
    BY <1>0, <2>1, <2>2 DEF WakeByRelease
  <2>3. CASE WakeByIpi(h) \/ WakeFailed(h) \/ WriteStage(h) \/ StorePending(h)
    BY <1>0, <2>1, <2>3 DEF WakeByIpi, WakeFailed, WriteStage, StorePending
  <2> QED
    BY <1>2, <2>2, <2>3 DEF Starting
<1>3. CASE ClearCurrent(h)
  BY <1>0, <1>3 DEF ClearCurrent
<1>4. CASE TakeLocalEvent(h)
  BY <1>0, <1>4 DEF TakeLocalEvent
<1>5. CASE TakeStage(h)
  <2>1. pc[h] = "take" => stage[h] # NoStage
    BY DEF LifecycleInv, StageInv
  <2> QED
    BY <1>0, <1>5, <2>1 DEF TakeStage
<1>6. CASE DispatchEvent(h)
  BY <1>0, <1>6 DEF DispatchEvent
<1>7. CASE Stopping(h)
  BY <1>0, <1>7 DEF Stopping, StoreStopped
<1>8. CASE Suspending(h)
  BY <1>0, <1>8 DEF Suspending, StoreSuspended, ResumeRetentive, BeginNonretentiveResume, CommitResume,
                    StageTransfer, PublishResume, DropTicket, EcallReturn
<1>9. CASE Waiting(h) \/ TrapMachineSoft(h)
  BY <1>0, <1>9 DEF Waiting, WfiReturns, SuspendWfiReturns, TrapMachineSoft
<1>10. CASE SbiCall(h)
  BY <1>0, <1>10 DEF SbiCall, HartStart, HartStop, HartSuspend
<1> QED
  BY <1>0, <1>1, <1>2, <1>3, <1>4, <1>5, <1>6, <1>7, <1>8, <1>9, <1>10
  DEF FirmwareStep, LocalWork

\* A step that marks nothing and is not one of a sender that rings.
LEMMA AnnouncedKept ==
  ASSUME AnnouncedInv, UNCHANGED ipiType,
         \A t \in Harts : WillSwap(t) => WillSwap(t)',
         \A h \in Harts : work[h] \in {"fence_ring", "ipi_mark", "ipi_ring"} =>
             work'[h] = work[h] /\ todo'[h] = todo[h] /\ targets'[h] = targets[h]
  PROVE  AnnouncedInv'
<1> SUFFICES ASSUME NEW t \in Harts \ FlakyHarts
             PROVE  /\ "FENCE" \in ipiType'[t] => FenceAnnounced(t)'
                    /\ FlakyHarts = {} /\ "SSOFT" \in ipiType'[t] => SoftAnnounced(t)'
  BY DEF AnnouncedInv
<1>1. FenceAnnounced(t) => FenceAnnounced(t)'
  BY DEF FenceAnnounced
<1>2. SoftAnnounced(t) => SoftAnnounced(t)'
  BY DEF SoftAnnounced
<1> QED
  BY <1>1, <1>2 DEF AnnouncedInv

LEMMA AnnouncedQuiet ==
  ASSUME FenceInv, TypeOK, LifecycleInv, AnnouncedInv, NEW h \in Harts,
         \/ SupervisorCall(h) \/ ScanTarget(h) \/ ScanDone(h) \/ FenceSelf(h) \/ AddSync(h)
         \/ TryPush(h) \/ CancelFence(h) \/ FenceSent(h) \/ FenceReturns(h) \/ Dequeue(h)
         \/ ExecuteFence(h) \/ Acknowledge(h) \/ ClearSsip(h) \/ LifecycleStep(h) \/ DrainDone(h)
  PROVE  AnnouncedInv'
<1>0. FenceTypeOK
  BY DEF FenceInv
<1>1. UNCHANGED ipiType
  BY DEF SupervisorCall, SendIpi, RemoteFenceCall, ScanTarget, ScanDone, FenceSelf, AddSync, TryPush,
         CancelFence, FenceSent, FenceReturns, Dequeue, ExecuteFence, Acknowledge, ClearSsip,
         LifecycleStep, DrainDone
<1>2. CASE LifecycleStep(h)
  <2>1. UNCHANGED <<work, todo, targets>>
    BY <1>2 DEF LifecycleStep, sendVars
  <2>2. \A t \in Harts : WillSwap(t) => WillSwap(t)'
    BY <1>0, <1>2, WillSwapKept
  <2> QED
    BY <1>1, <2>1, <2>2, AnnouncedKept
<1>3. CASE DrainDone(h)
  <2>1. /\ work[h] = "drain" /\ work' = [work EXCEPT ![h] = "idle"]
        /\ pc' = [pc EXCEPT ![h] = AfterDeliver(h)]
        /\ UNCHANGED <<todo, targets, doorbell>>
    BY <1>3 DEF DrainDone, Proceed, DeliverCurrent, Goto
  <2>2. \A t \in Harts : WillSwap(t) => WillSwap(t)'
    BY <1>0, <2>1 DEF WillSwap, TypeOK, FenceTypeOK
  <2>3. \A k \in Harts : work[k] \in {"fence_ring", "ipi_mark", "ipi_ring"} =>
            work'[k] = work[k] /\ todo'[k] = todo[k] /\ targets'[k] = targets[k]
    BY <1>0, <2>1 DEF FenceTypeOK
  <2> QED
    BY <1>1, <2>2, <2>3, AnnouncedKept
<1>4. CASE ~LifecycleStep(h) /\ ~DrainDone(h)
  <2>1. UNCHANGED vars
    BY <1>4 DEF SupervisorCall, SendIpi, RemoteFenceCall, ScanTarget, ScanDone, FenceSelf, AddSync,
                TryPush, CancelFence, FenceSent, FenceReturns, Dequeue, ExecuteFence, Acknowledge,
                ClearSsip
  <2>2. /\ work[h] \in {"fence_ring", "ipi_mark", "ipi_ring"} => UNCHANGED <<work, todo, targets>>
        /\ \A k \in Harts \ {h} : work'[k] = work[k] /\ todo'[k] = todo[k] /\ targets'[k] = targets[k]
        /\ work'[h] = "drain" => work[h] = "drain"
    <3>1. CASE SupervisorCall(h)
      BY <1>0, <3>1 DEF SupervisorCall, SendIpi, RemoteFenceCall, Proceed, FenceTypeOK
    <3>2. CASE ScanTarget(h) \/ ScanDone(h)
      BY <1>0, <3>2 DEF ScanTarget, ScanDone, Proceed, FenceTypeOK
    <3>3. CASE FenceSelf(h) \/ AddSync(h) \/ TryPush(h)
      BY <1>0, <3>3 DEF FenceSelf, AddSync, TryPush, Proceed, FenceTypeOK
    <3>4. CASE CancelFence(h) \/ FenceSent(h) \/ FenceReturns(h)
      BY <1>0, <3>4 DEF CancelFence, FenceSent, FenceReturns, Proceed, FenceTypeOK
    <3>5. CASE Dequeue(h) \/ ExecuteFence(h) \/ Acknowledge(h) \/ ClearSsip(h)
      BY <3>5 DEF Dequeue, ExecuteFence, Acknowledge, ClearSsip, sendVars
    <3> QED
      BY <1>4, <3>1, <3>2, <3>3, <3>4, <3>5
  <2>3. \A t \in Harts : WillSwap(t) => WillSwap(t)'
    BY <2>1, <2>2 DEF WillSwap, vars
  <2>4. \A k \in Harts : work[k] \in {"fence_ring", "ipi_mark", "ipi_ring"} =>
            work'[k] = work[k] /\ todo'[k] = todo[k] /\ targets'[k] = targets[k]
    BY <2>2
  <2> QED
    BY <1>1, <2>3, <2>4, AnnouncedKept
<1> QED
  BY <1>2, <1>3, <1>4


\* The steps that mark and ring.
LEMMA AnnouncedSender ==
  ASSUME FenceInv, TypeOK, AnnouncedInv, NEW h \in Harts,
         \/ MarkSoft(h) \/ MarkSoftDone(h) \/ RingSoft(h) \/ SendIpiReturns(h)
         \/ MarkFence(h) \/ RingFence(h) \/ RingFenceFails(h)
  PROVE  AnnouncedInv'
<1>0. FenceTypeOK /\ CallInv
  BY DEF FenceInv
<1> SUFFICES ASSUME NEW t \in Harts \ FlakyHarts
             PROVE  /\ "FENCE" \in ipiType'[t] => FenceAnnounced(t)'
                    /\ FlakyHarts = {} /\ "SSOFT" \in ipiType'[t] => SoftAnnounced(t)'
  BY DEF AnnouncedInv
<1>1. /\ "FENCE" \in ipiType[t] => FenceAnnounced(t)
      /\ FlakyHarts = {} /\ "SSOFT" \in ipiType[t] => SoftAnnounced(t)
  BY DEF AnnouncedInv
<1> DEFINE f == First(todo[h])
<1>2. todo[h] # {} => f \in todo[h] /\ f \in Harts
  BY <1>0, FirstOfHarts DEF FenceTypeOK
<1>3. \A k \in Harts \ {h} : work'[k] = work[k] /\ todo'[k] = todo[k] /\ targets'[k] = targets[k]
  BY <1>0 DEF MarkSoft, MarkSoftDone, RingSoft, SendIpiReturns, MarkFence, RingFence, RingFenceFails,
              Proceed, FenceTypeOK
<1>4. WillSwap(t) => WillSwap(t)'
  <2>1. work'[t] = "drain" => work[t] = "drain"
    BY <1>0, <1>3 DEF MarkSoft, MarkSoftDone, RingSoft, SendIpiReturns, MarkFence, RingFence,
                      RingFenceFails, Proceed, FenceTypeOK
  <2>2. pc' = pc /\ (doorbell[t] => doorbell'[t])
    <3>1. CASE RingSoft(h) \/ RingFence(h)
      BY <3>1 DEF RingSoft, RingFence, RingDoorbell, TypeOK
    <3>2. CASE ~(RingSoft(h) \/ RingFence(h))
      BY <3>2 DEF MarkSoft, MarkSoftDone, SendIpiReturns, MarkFence, RingFenceFails, vars
    <3> QED
      BY <3>1, <3>2
  <2> QED
    BY <2>1, <2>2 DEF WillSwap
<1>5. CASE MarkSoft(h)
  <2>1. /\ f \in todo[h] /\ work[h] = "ipi_mark" /\ UNCHANGED <<work, targets>>
        /\ ipiType' = [ipiType EXCEPT ![f] = @ \cup {"SSOFT"}]
        /\ todo' = [todo EXCEPT ![h] = @ \ {f}]
    BY <1>2, <1>5 DEF MarkSoft
  <2>2. f \in targets[h] /\ f \in Harts
    BY <1>0, <1>2, <2>1 DEF CallInv
  <2> HIDE DEF f
  <2>3. "FENCE" \in ipiType'[t] => "FENCE" \in ipiType[t]
    BY <1>0, <2>1, <2>2 DEF FenceTypeOK
  <2>4. "SSOFT" \in ipiType'[t] => "SSOFT" \in ipiType[t] \/ t = f
    BY <1>0, <2>1, <2>2 DEF FenceTypeOK
  <2>5. FenceAnnounced(t) => FenceAnnounced(t)'
    BY <1>3, <1>4, <2>1 DEF FenceAnnounced
  <2>6. SoftAnnounced(t) \/ t = f => SoftAnnounced(t)'
    BY <1>3, <1>4, <2>1, <2>2 DEF SoftAnnounced
  <2> QED
    BY <1>1, <2>3, <2>4, <2>5, <2>6
<1>6. CASE MarkSoftDone(h)
  <2>1. /\ work[h] = "ipi_mark" /\ work'[h] = "ipi_ring" /\ todo'[h] = targets[h] /\ UNCHANGED ipiType
    BY <1>0, <1>6 DEF MarkSoftDone, Proceed, FenceTypeOK
  <2>2. FenceAnnounced(t) => FenceAnnounced(t)'
    BY <1>3, <1>4, <2>1 DEF FenceAnnounced
  <2>3. SoftAnnounced(t) => SoftAnnounced(t)'
    BY <1>3, <1>4, <2>1 DEF SoftAnnounced
  <2> QED
    BY <1>1, <2>1, <2>2, <2>3
<1>7. CASE RingSoft(h)
  <2>1. /\ work[h] = "ipi_ring" /\ UNCHANGED <<ipiType, work>>
        /\ todo'[h] = todo[h] \ {f}
        /\ t = f => doorbell'[t]
    BY <1>0, <1>7 DEF RingSoft, RingDoorbell, FenceTypeOK, TypeOK
  <2> HIDE DEF f
  <2>2. FenceAnnounced(t) => FenceAnnounced(t)'
    BY <1>3, <1>4, <2>1 DEF FenceAnnounced
  <2>3. SoftAnnounced(t) => SoftAnnounced(t)'
    BY <1>3, <1>4, <2>1 DEF SoftAnnounced, WillSwap
  <2> QED
    BY <1>1, <2>1, <2>2, <2>3
<1>8. CASE SendIpiReturns(h)
  <2>1. /\ work[h] = "ipi_ring" /\ UNCHANGED ipiType
        /\ FlakyHarts = {} => todo[h] = {}
    BY <1>8 DEF SendIpiReturns, Proceed
  <2>2. FenceAnnounced(t) => FenceAnnounced(t)'
    BY <1>3, <1>4, <2>1 DEF FenceAnnounced
  <2>3. FlakyHarts = {} /\ SoftAnnounced(t) => SoftAnnounced(t)'
    BY <1>3, <1>4, <2>1 DEF SoftAnnounced
  <2> QED
    BY <1>1, <2>1, <2>2, <2>3
<1>9. CASE MarkFence(h)
  <2>1. /\ work[h] = "fence_mark" /\ work'[h] = "fence_ring" /\ todo' = todo
        /\ ipiType' = [ipiType EXCEPT ![f] = @ \cup {"FENCE"}]
    BY <1>0, <1>9 DEF MarkFence, Proceed, FenceTypeOK
  <2>2. f \in Harts
    BY <1>0, <1>2, <2>1 DEF CallInv, SendingSteps
  <2>3. FenceAnnounced(t) \/ t = f => FenceAnnounced(t)'
    BY <1>3, <1>4, <2>1 DEF FenceAnnounced
  <2> HIDE DEF f
  <2>4. /\ "FENCE" \in ipiType'[t] => "FENCE" \in ipiType[t] \/ t = f
        /\ "SSOFT" \in ipiType'[t] => "SSOFT" \in ipiType[t]
    BY <1>0, <2>1, <2>2 DEF FenceTypeOK
  <2>5. SoftAnnounced(t) => SoftAnnounced(t)'
    BY <1>3, <1>4, <2>1 DEF SoftAnnounced
  <2> QED
    BY <1>1, <2>3, <2>4, <2>5
<1>10. CASE RingFence(h) \/ RingFenceFails(h)
  <2>1. /\ work[h] = "fence_ring" /\ UNCHANGED ipiType
        /\ t = f => doorbell'[t]
    BY <1>0, <1>10 DEF RingFence, RingFenceFails, Proceed, RingDoorbell, FenceTypeOK, TypeOK
  <2>2. FenceAnnounced(t) => FenceAnnounced(t)'
    BY <1>3, <1>4, <2>1 DEF FenceAnnounced, WillSwap
  <2>3. SoftAnnounced(t) => SoftAnnounced(t)'
    BY <1>3, <1>4, <2>1 DEF SoftAnnounced
  <2> QED
    BY <1>1, <2>1, <2>2, <2>3
<1> QED
  BY <1>5, <1>6, <1>7, <1>8, <1>9, <1>10

\* The swap takes the bits of one hart and leaves the others' alone.
LEMMA AnnouncedSwap ==
  ASSUME FenceInv, TypeOK, AnnouncedInv, NEW h \in Harts, SwapIpiType(h) PROVE AnnouncedInv'
<1>0. FenceTypeOK
  BY DEF FenceInv
<1> SUFFICES ASSUME NEW t \in Harts \ FlakyHarts, ipiType'[t] # {}
             PROVE  /\ "FENCE" \in ipiType'[t] => FenceAnnounced(t)'
                    /\ FlakyHarts = {} /\ "SSOFT" \in ipiType'[t] => SoftAnnounced(t)'
  BY DEF AnnouncedInv
<1>1. t # h /\ ipiType'[t] = ipiType[t]
  BY <1>0 DEF SwapIpiType, FenceTypeOK
<1>2. /\ UNCHANGED <<todo, targets, doorbell>> /\ pc'[t] = pc[t]
      /\ \A k \in Harts \ {h} : work'[k] = work[k]
      /\ work[h] = "idle" /\ work'[h] \in {"idle", "drain"}
  BY <1>0, <1>1 DEF SwapIpiType, DeliverCurrent, Goto, FenceTypeOK, TypeOK, vars
<1>3. WillSwap(t) => WillSwap(t)'
  BY <1>1, <1>2 DEF WillSwap
<1>4. FenceAnnounced(t) => FenceAnnounced(t)'
  BY <1>2, <1>3 DEF FenceAnnounced
<1>5. SoftAnnounced(t) => SoftAnnounced(t)'
  BY <1>2, <1>3 DEF SoftAnnounced
<1> QED
  BY <1>1, <1>4, <1>5 DEF AnnouncedInv

LEMMA AnnouncedStep ==
  FenceInv /\ TypeOK /\ LifecycleInv /\ AnnouncedInv /\ [FenceNext]_fenceVars => AnnouncedInv'
<1> SUFFICES ASSUME FenceInv, TypeOK, LifecycleInv, AnnouncedInv, [FenceNext]_fenceVars
             PROVE  AnnouncedInv'
  OBVIOUS
<1>1. CASE UNCHANGED fenceVars
  BY <1>1 DEF fenceVars, vars, ipiVars, sendVars, AnnouncedInv, FenceAnnounced, SoftAnnounced, WillSwap
<1>2. ASSUME NEW h \in Harts, SendStep(h) PROVE AnnouncedInv'
  BY <1>2, AnnouncedQuiet, AnnouncedSender DEF SendStep
<1>3. ASSUME NEW h \in Harts, ServeStep(h) PROVE AnnouncedInv'
  BY <1>3, AnnouncedQuiet, AnnouncedSwap DEF ServeStep, RFencePoll, DrainNext
<1>4. ASSUME NEW h \in Harts,
             \/ LifecycleStep(h) \/ SupervisorCall(h) \/ TryPush(h) \/ FenceReturns(h)
             \/ DrainDone(h) \/ ClearSsip(h)
      PROVE  AnnouncedInv'
  BY <1>4, AnnouncedQuiet
<1> QED
  BY <1>1, <1>2, <1>3, <1>4 DEF FenceNext

\* Pending work is announced, for any number of harts: no wakeup is lost
\* between the mark, the ring, the clear and the swap.
THEOREM WorkAnnounced == FenceSpec => []WorkIsAnnounced
<1>1. FenceSpec => [](TypeOK /\ LifecycleInv)
  BY FenceImplementsLifecycle, TypeCorrect, LifecycleInvariant, PTL DEF LifecycleRefinement
<1>2. FenceInit => AnnouncedInv
  BY DEF FenceInit, NoIpiWork, AnnouncedInv
<1>3. FenceSpec => []AnnouncedInv
  BY <1>1, <1>2, FenceInvAlways, AnnouncedStep, PTL DEF FenceSpec
<1>4. FenceInv /\ AnnouncedInv => WorkIsAnnounced
  <2> SUFFICES ASSUME FenceInv, AnnouncedInv, NEW t \in Harts \ FlakyHarts,
                      "FENCE" \in ipiType[t] \/ (FlakyHarts = {} /\ ipiType[t] # {})
               PROVE  \/ doorbell[t]
                      \/ pc[t] \in {"clear", "event", "take", "deliver", "stop_store"}
                      \/ \E h \in Harts :
                             \/ work[h] \in {"ipi_mark", "ipi_ring"} /\ t \in targets[h]
                             \/ work[h] = "fence_ring" /\ t = First(todo[h])
    BY DEF WorkIsAnnounced
  <2>1. "FENCE" \in ipiType[t] \/ (FlakyHarts = {} /\ "SSOFT" \in ipiType[t])
    BY DEF FenceInv, FenceTypeOK, IpiTypes
  <2>2. FenceAnnounced(t) \/ SoftAnnounced(t)
    BY <2>1 DEF AnnouncedInv
  <2>3. \A h \in Harts : work[h] = "ipi_ring" /\ t \in todo[h] => t \in targets[h]
    BY DEF FenceInv, CallInv
  <2> QED
    BY <2>2, <2>3 DEF FenceAnnounced, SoftAnnounced, WillSwap
<1> QED
  BY <1>3, <1>4, FenceInvAlways, PTL
==============================================================================
