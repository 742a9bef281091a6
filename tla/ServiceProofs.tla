----------------------------- MODULE ServiceProofs ----------------------------
(***************************************************************************)
(* Proofs about the services that one hart's calls reach: firmware         *)
(* features (Fwft), hart masks (HartMasks), the secure memory of enclaves  *)
(* (SecureMemory), and the counters (Pmu), whose allocation is sound for   *)
(* every counter mask, every device-tree map, every number of firmware     *)
(* counters and every event set.                                           *)
(***************************************************************************)
EXTENDS Fwft, HartMasks, SecureMemory, Pmu, FiniteSetTheorems, SequenceTheorems, WellFoundedInduction, TLAPS

\* A set of numbers that is not empty has a least one.
LEMMA LeastExists ==
    ASSUME NEW S, S \subseteq Nat, S # {}
    PROVE  \E c \in S : \A d \in S : c <= d
<1> DEFINE R == OpToRel(<, Nat)
<1>1. \E c \in S : \A d \in S : ~ (<<d, c>> \in R)
  <2>1. IsWellFoundedOn(R, Nat)
    BY NatLessThanWellFounded
  <2> HIDE DEF R
  <2> QED BY <2>1, WFMin
<1>2. \A c, d \in Nat : d < c => <<d, c>> \in R
  BY DEF OpToRel
<1> HIDE DEF R
<1>3. \E c \in S : \A d \in S : ~ (d < c)
  BY <1>1, <1>2
<1> QED BY <1>3

-----------------------------------------------------------------------------
(* Firmware features.                                                      *)

\* The fields of menvcfg.
LEMMA FieldMasks ==
    /\ Mask("landing_pad") = {0} /\ Mask("shadow_stack") = {8}
    /\ Mask("double_trap") = {1} /\ Mask("pte_ad") = {5}
    /\ Mask("pmlen") = {9, 10}
  BY DEF Mask, MenvcfgBit, ENVCFG_LPE, ENVCFG_DTE, ENVCFG_ADUE, ENVCFG_SSE, ENVCFG_PMM

\* A tag length is what its two bits say, whatever the other bits are.
LEMMA PmmRound ==
    ASSUME NEW v \in 0 .. 3, NEW plain, plain \cap ENVCFG_PMM = {}
    PROVE  /\ PmmOf(plain \cup Pmm(v)) = v
           /\ Pmm(v) \subseteq ENVCFG_PMM
  BY DEF PmmOf, Pmm, ENVCFG_PMM

\* The tag length depends on its two bits only.
LEMMA PmmOfBits ==
    ASSUME NEW a, NEW b, a \cap ENVCFG_PMM = b \cap ENVCFG_PMM
    PROVE  PmmOf(a) = PmmOf(b)
  BY DEF PmmOf, ENVCFG_PMM

\* What menvcfg reads after a write: the plain bits of it that the hart has,
\* and a tag length that the hart has, the written one if it has that.
LEMMA WarlReads ==
    ASSUME hart \in FwftHarts, NEW bits, bits \subseteq Nat, NEW read \in Warl(bits)
    PROVE  /\ read \subseteq Nat
           /\ read \subseteq hart.bits \cup ENVCFG_PMM
           /\ read \ ENVCFG_PMM = (bits \cap hart.bits) \ ENVCFG_PMM
           /\ PmmOf(read) \in hart.lengths
           /\ PmmOf(bits) \in hart.lengths => read \cap ENVCFG_PMM = bits \cap ENVCFG_PMM
<1> DEFINE plain == (bits \cap hart.bits) \ ENVCFG_PMM
<1>0. hart.bits \subseteq Nat /\ hart.lengths \subseteq 0 .. 3
  BY FwftAssumption
<1>p. ENVCFG_PMM \subseteq Nat
  BY DEF ENVCFG_PMM
<1>1. CASE PmmOf(bits) \in hart.lengths
  <2>1. read = plain \cup (bits \cap ENVCFG_PMM)
    BY <1>1 DEF Warl
  <2>2. PmmOf(read) = PmmOf(bits)
    BY <2>1, PmmOfBits
  <2> QED BY <2>1, <2>2, <1>1, <1>0, <1>p
<1>2. CASE PmmOf(bits) \notin hart.lengths
  <2>1. PICK v \in hart.lengths : read = plain \cup Pmm(v)
    BY <1>2 DEF Warl
  <2>2. PmmOf(read) = v /\ Pmm(v) \subseteq ENVCFG_PMM
    <3>1. v \in 0 .. 3 /\ plain \cap ENVCFG_PMM = {}
      BY <1>0
    <3> HIDE DEF plain
    <3> QED BY <2>1, <3>1, PmmRound
  <2> QED BY <2>1, <2>2, <1>2, <1>0, <1>p
<1> QED BY <1>1, <1>2

\* A write never reads back as nothing at all.
LEMMA WarlReadsSome ==
    ASSUME hart \in FwftHarts, NEW bits
    PROVE  Warl(bits) # {}
<1>1. hart.lengths # {}
  BY FwftAssumption
<1> QED BY <1>1 DEF Warl

\* Writing back what a hart may hold keeps it.
LEMMA WarlKeeps ==
    ASSUME hart \in FwftHarts, menvcfg \subseteq Nat, Legal, NEW read \in Warl(menvcfg)
    PROVE  read = menvcfg
<1>1. /\ read \subseteq hart.bits \cup ENVCFG_PMM
      /\ read \ ENVCFG_PMM = (menvcfg \cap hart.bits) \ ENVCFG_PMM
      /\ read \cap ENVCFG_PMM = menvcfg \cap ENVCFG_PMM
  BY WarlReads DEF Legal
<1> QED BY <1>1 DEF Legal

\* The invariant holds at the start.
LEMMA FwftInvInit == FwftInit => FwftInv
<1> SUFFICES ASSUME FwftInit PROVE FwftInv
  OBVIOUS
<1>0. 0 \in hart.lengths /\ hart.bits \subseteq Nat
  BY FwftAssumption DEF FwftInit
<1>1. menvcfg \subseteq hart.bits /\ menvcfg \cap ENVCFG_PMM = {}
  BY <1>0 DEF FwftInit, Environment, CBIE_INVALIDATE, CBCFE, CBZE, STCE, PBMTE, ENVCFG_PMM
<1>2. PmmOf(menvcfg) = 0
  BY <1>1 DEF PmmOf, ENVCFG_PMM
<1> QED BY <1>0, <1>1, <1>2
        DEF FwftInit, FwftInv, FwftTypeOK, Legal, FieldsHold, DelegationHolds, Features, BitFeatures

\* The value that is written is a value of the register, and differs from what
\* it held in the field of the feature only.
LEMMA FieldWrites ==
    ASSUME FwftTypeOK, NEW f \in BitFeatures \cup {"pmlen"}, NEW value \in 0 .. 4,
           value <= IF f = "pmlen" THEN 3 ELSE 1
    PROVE  /\ Field(f, value) \subseteq Nat
           /\ Field(f, value) \ Mask(f) = menvcfg \ Mask(f)
           /\ f = "pmlen" => PmmOf(Field(f, value)) = value
           /\ f # "pmlen" => (value = 1 <=> Mask(f) \subseteq Field(f, value))
           /\ f # "pmlen" => Field(f, value) \cap ENVCFG_PMM = menvcfg \cap ENVCFG_PMM
<1>1. CASE f = "pmlen"
  <2>1. Field(f, value) = (menvcfg \ ENVCFG_PMM) \cup Pmm(value) /\ Mask(f) = ENVCFG_PMM
    BY <1>1 DEF Field, Mask
  <2>2. value \in 0 .. 3
    BY <1>1
  <2> DEFINE rest == menvcfg \ ENVCFG_PMM
  <2>3. Pmm(value) \subseteq ENVCFG_PMM /\ PmmOf(rest \cup Pmm(value)) = value
    <3>1. rest \cap ENVCFG_PMM = {}
      OBVIOUS
    <3> HIDE DEF rest
    <3> QED BY <2>2, <3>1, PmmRound
  <2>4. menvcfg \subseteq Nat /\ ENVCFG_PMM \subseteq Nat
    BY DEF FwftTypeOK, ENVCFG_PMM
  <2> QED BY <2>1, <2>3, <2>4, <1>1
<1>2. CASE f # "pmlen"
  <2>1. Mask(f) \subseteq Nat /\ Mask(f) # {} /\ Mask(f) \cap ENVCFG_PMM = {} /\ Mask(f) = MenvcfgBit(f)
    BY <1>2, FieldMasks DEF BitFeatures, ENVCFG_PMM, Mask
  <2>2. Field(f, value) = IF value = 1 THEN menvcfg \cup Mask(f) ELSE menvcfg \ Mask(f)
    BY <1>2, <2>1 DEF Field
  <2> QED BY <2>1, <2>2, <1>2 DEF FwftTypeOK
<1> QED BY <1>1, <1>2

\* A field keeps its value through a write that leaves its bits alone.
LEMMA ValueKept ==
    ASSUME NEW f \in BitFeatures \cup {"pmlen"}, menvcfg' \cap Mask(f) = menvcfg \cap Mask(f)
    PROVE  FieldValue(f)' = FieldValue(f)
<1>1. CASE f = "pmlen"
  BY <1>1, PmmOfBits DEF FieldValue, Mask
<1>2. CASE f # "pmlen"
  BY <1>2 DEF FieldValue, Mask
<1> QED BY <1>1, <1>2

\* Setting a field keeps the invariant.
LEMMA SetMenvcfgKeeps ==
    ASSUME FwftInv, UNCHANGED hart, sets' \in Nat, NEW f \in Features, NEW value \in 0 .. 4,
           SetMenvcfg(f, value)
    PROVE  FwftInv'
<1> DEFINE w == Field(f, value)
<1>t. FwftTypeOK /\ Legal /\ hart \in FwftHarts
  BY DEF FwftInv, FwftTypeOK
<1>1. /\ f \in BitFeatures \cup {"pmlen"} /\ value <= (IF f = "pmlen" THEN 3 ELSE 1)
      /\ hart.present /\ medeleg' = medeleg
  BY DEF SetMenvcfg
<1>2. PICK read \in Warl(w) :
        /\ menvcfg' = read
        /\ setTo' = IF read \cap Mask(f) = w \cap Mask(f)
                    THEN [setTo EXCEPT ![f] = value] ELSE [setTo EXCEPT ![f] = -1]
  BY DEF SetMenvcfg
<1>3. /\ w \subseteq Nat
      /\ w \ Mask(f) = menvcfg \ Mask(f)
      /\ f = "pmlen" => PmmOf(w) = value
      /\ f # "pmlen" => (value = 1 <=> Mask(f) \subseteq w)
      /\ f # "pmlen" => w \cap ENVCFG_PMM = menvcfg \cap ENVCFG_PMM
  BY <1>1, <1>t, FieldWrites
<1>4. /\ read \subseteq Nat
      /\ read \subseteq hart.bits \cup ENVCFG_PMM
      /\ read \ ENVCFG_PMM = (w \cap hart.bits) \ ENVCFG_PMM
      /\ PmmOf(read) \in hart.lengths
      /\ PmmOf(w) \in hart.lengths => read \cap ENVCFG_PMM = w \cap ENVCFG_PMM
  <2> HIDE DEF w
  <2> QED BY <1>2, <1>3, <1>t, WarlReads
<1> HIDE DEF w
<1>5. FwftTypeOK'
  <2>1. setTo' \in [Features -> -1 .. 3]
    BY <1>1, <1>2, <1>t DEF FwftTypeOK
  <2> QED BY <2>1, <1>1, <1>2, <1>4, <1>t DEF FwftTypeOK
<1>6. Legal'
  BY <1>2, <1>4 DEF Legal
<1>7. \A g \in BitFeatures \cup {"pmlen"} : g # f => read \cap Mask(g) = menvcfg \cap Mask(g)
  <2> SUFFICES ASSUME NEW g \in BitFeatures \cup {"pmlen"}, g # f
               PROVE  read \cap Mask(g) = menvcfg \cap Mask(g)
    OBVIOUS
  <2>1. Mask(f) \cap Mask(g) = {}
    BY <1>1, FieldMasks DEF BitFeatures
  <2>2. CASE g = "pmlen"
    <3>1. Mask(g) = ENVCFG_PMM /\ f # "pmlen"
      BY <2>2 DEF Mask
    <3>2. PmmOf(w) = PmmOf(menvcfg)
      BY <3>1, <1>3, PmmOfBits
    <3> QED BY <3>1, <3>2, <1>3, <1>4, <1>t DEF Legal
  <2>3. CASE g # "pmlen"
    <3>1. Mask(g) \cap ENVCFG_PMM = {}
      BY <2>3, FieldMasks DEF BitFeatures, ENVCFG_PMM
    <3> QED BY <3>1, <2>1, <1>3, <1>4, <1>t DEF Legal
  <2> QED BY <2>2, <2>3
<1>8. FieldsHold'
  <2> SUFFICES ASSUME NEW g \in BitFeatures \cup {"pmlen"}, setTo'[g] # -1
               PROVE  hart'.present /\ FieldValue(g)' = setTo'[g]
    BY DEF FieldsHold
  <2>0. g \in Features /\ setTo \in [Features -> -1 .. 3]
    BY <1>t DEF FwftTypeOK, Features
  <2>1. CASE g # f
    <3>1. setTo'[g] = setTo[g]
      BY <2>0, <2>1, <1>2
    <3>2. FieldValue(g)' = FieldValue(g)
      BY <2>1, <1>7, <1>2, ValueKept
    <3> QED BY <3>1, <3>2, <1>1 DEF FwftInv, FieldsHold
  <2>2. CASE g = f
    <3>1. read \cap Mask(f) = w \cap Mask(f) /\ setTo'[f] = value
      BY <2>0, <2>2, <1>2
    <3>2. CASE f = "pmlen"
      <4>1. PmmOf(read) = PmmOf(w)
        BY <3>1, <3>2, PmmOfBits DEF Mask
      <4> QED BY <4>1, <3>1, <3>2, <2>2, <1>1, <1>2, <1>3 DEF FieldValue
    <3>3. CASE f # "pmlen"
      <4>1. Mask(f) \subseteq read <=> value = 1
        BY <3>1, <3>3, <1>3
      <4>2. value \in {0, 1} /\ Mask(f) = MenvcfgBit(f)
        BY <1>1, <3>3 DEF Mask
      <4> QED BY <4>1, <4>2, <3>1, <3>3, <2>2, <1>1, <1>2 DEF FieldValue
    <3> QED BY <3>2, <3>3
  <2> QED BY <2>1, <2>2
<1>9. DelegationHolds' /\ setTo'["unknown"] = -1
  <2>1. f # "misaligned" /\ f # "unknown"
    BY <1>1 DEF BitFeatures
  <2>2. setTo'["misaligned"] = setTo["misaligned"] /\ setTo'["unknown"] = setTo["unknown"]
    BY <2>1, <1>2, <1>t DEF FwftTypeOK, Features
  <2> QED BY <2>2, <1>1 DEF FwftInv, DelegationHolds
<1> QED BY <1>5, <1>6, <1>8, <1>9 DEF FwftInv

\* Setting the delegation keeps the invariant.
LEMMA SetMisalignedKeeps ==
    ASSUME FwftInv, UNCHANGED hart, sets' \in Nat, NEW f \in Features, NEW value \in 0 .. 4,
           SetMisaligned(f, value)
    PROVE  FwftInv'
<1>1. /\ f = "misaligned" /\ value \in {0, 1} /\ medeleg' = (value = 1) /\ menvcfg' = menvcfg
      /\ setTo' = [setTo EXCEPT !["misaligned"] = value]
  BY DEF SetMisaligned
<1>2. setTo \in [Features -> -1 .. 3]
  BY DEF FwftInv, FwftTypeOK
<1>3. /\ setTo' \in [Features -> -1 .. 3] /\ setTo'["misaligned"] = value
      /\ \A g \in Features : g # "misaligned" => setTo'[g] = setTo[g]
  BY <1>1, <1>2 DEF Features
<1>4. FwftTypeOK' /\ Legal'
  BY <1>1, <1>3 DEF FwftInv, FwftTypeOK, Legal
<1>5. FieldsHold'
  <2>1. \A g \in BitFeatures \cup {"pmlen"} : g \in Features /\ g # "misaligned" /\ FieldValue(g)' = FieldValue(g)
    BY <1>1 DEF FieldValue, Features, BitFeatures
  <2> QED BY <2>1, <1>3 DEF FwftInv, FieldsHold
<1>6. DelegationHolds' /\ setTo'["unknown"] = -1
  BY <1>1, <1>3 DEF FwftInv, DelegationHolds, Features
<1> QED BY <1>4, <1>5, <1>6 DEF FwftInv

\* Every step keeps the invariant.
LEMMA FwftInvNext == FwftInv /\ [FwftNext]_fwftVars => FwftInv'
<1> SUFFICES ASSUME FwftInv, [FwftNext]_fwftVars PROVE FwftInv'
  OBVIOUS
<1>1. CASE Set
  <2>1. UNCHANGED hart /\ sets' \in Nat
    BY <1>1 DEF Set, FwftInv, FwftTypeOK
  <2>2. PICK f \in Features, value \in 0 .. 4 : SetMenvcfg(f, value) \/ SetMisaligned(f, value)
    BY <1>1 DEF Set
  <2> QED BY <2>1, <2>2, SetMenvcfgKeeps, SetMisalignedKeeps
<1>2. ASSUME NEW f \in Features, Get(f) PROVE FwftInv'
  <2>1. menvcfg' = menvcfg
    BY <1>2, WarlKeeps DEF Get, FwftInv, FwftTypeOK
  <2> QED BY <2>1, <1>2 DEF Get, FwftInv, FwftTypeOK, Legal, FieldsHold, DelegationHolds, FieldValue
<1>3. CASE UNCHANGED fwftVars
  BY <1>3 DEF fwftVars, FwftInv, FwftTypeOK, Legal, FieldsHold, DelegationHolds, FieldValue
<1> QED BY <1>1, <1>2, <1>3 DEF FwftNext

\* The invariant gives the property.
LEMMA FwftInvKeeps == FwftInv => FeatureKeeps
<1> SUFFICES ASSUME FwftInv, NEW f \in Features, setTo[f] # -1
             PROVE  /\ Answers(f) \subseteq {setTo[f], -1}
                    /\ (f \in BitFeatures /\ Mask(f) \subseteq hart.bits) \/ f = "misaligned"
                         => Answers(f) = {setTo[f]}
  BY DEF FeatureKeeps
<1>t. hart \in FwftHarts /\ menvcfg \subseteq Nat
  BY DEF FwftInv, FwftTypeOK
<1>1. CASE f = "misaligned"
  BY <1>1 DEF FwftInv, DelegationHolds, Answers
<1>2. CASE f \in BitFeatures \cup {"pmlen"}
  <2>1. hart.present /\ FieldValue(f) = setTo[f] /\ f # "misaligned" /\ f # "unknown"
    BY <1>2 DEF FwftInv, FieldsHold, BitFeatures
  <2>2. Answers(f) = {IF p \cap Mask(f) # {} THEN setTo[f] ELSE -1 : p \in Warl(menvcfg \cup Mask(f))}
    BY <2>1 DEF Answers
  <2>3. Answers(f) \subseteq {setTo[f], -1}
    BY <2>2
  <2>4. ASSUME f \in BitFeatures, Mask(f) \subseteq hart.bits
        PROVE  Answers(f) = {setTo[f]}
    <3>1. Mask(f) \subseteq Nat /\ Mask(f) # {} /\ Mask(f) \cap ENVCFG_PMM = {}
      BY <2>4, FieldMasks DEF BitFeatures, ENVCFG_PMM
    <3>2. ASSUME NEW p \in Warl(menvcfg \cup Mask(f)) PROVE p \cap Mask(f) # {}
      <4>1. menvcfg \cup Mask(f) \subseteq Nat
        BY <3>1, <1>t
      <4>2. p \ ENVCFG_PMM = ((menvcfg \cup Mask(f)) \cap hart.bits) \ ENVCFG_PMM
        BY <4>1, <3>2, <1>t, WarlReads
      <4> QED BY <4>2, <3>1, <2>4
    <3>3. Warl(menvcfg \cup Mask(f)) # {}
      BY <1>t, WarlReadsSome
    <3> QED BY <3>2, <3>3, <2>2
  <2> QED BY <2>1, <2>3, <2>4
<1>3. f # "unknown"
  BY DEF FwftInv
<1> QED BY <1>1, <1>2, <1>3 DEF Features

\* What a feature was last set to is what get answers, whatever other features
\* were set or asked for since, on every kind of hart.  (fwft.rs, set and get)
THEOREM FeaturesKeep == FwftSpec => []FeatureKeeps
<1>1. FwftSpec => []FwftInv
  BY FwftInvInit, FwftInvNext, PTL DEF FwftSpec
<1> QED BY <1>1, FwftInvKeeps, PTL

-----------------------------------------------------------------------------
(* Hart masks.                                                             *)

\* The last hart id is a number.
LEMMA LastIdType == LastId \in Nat
<1>1. 2^Width \in Int
  BY WidthAssumption
<1> QED BY <1>1, WidthAssumption DEF LastId

\* A set of bits that is not empty has a least one.
LEMMA MinOfBits ==
    ASSUME NEW S, S \subseteq MaskBits, S # {}
    PROVE  Min(S) \in S /\ \A y \in S : Min(S) <= y
<1>1. S \subseteq Nat
  BY WidthAssumption DEF MaskBits
<1> QED BY <1>1, LeastExists DEF Min

\* A set of bits that is not empty has a greatest one.
LEMMA MaxOfBits ==
    ASSUME NEW S, S \subseteq MaskBits, S # {}
    PROVE  Max(S) \in S /\ \A y \in S : Max(S) >= y
<1> DEFINE T == {Width - 1 - y : y \in S}
<1>0. Width \in Int /\ \A y \in S : y \in Int /\ 0 <= y /\ y <= Width - 1
  BY WidthAssumption DEF MaskBits
<1>1. T \subseteq Nat /\ T # {}
  BY <1>0
<1>2. PICK c \in T : \A d \in T : c <= d
  <2> HIDE DEF T
  <2> QED BY <1>1, LeastExists
<1>3. PICK x \in S : c = Width - 1 - x
  BY <1>2
<1>4. \A y \in S : x >= y
  <2> SUFFICES ASSUME NEW y \in S PROVE x >= y
    OBVIOUS
  <2>1. Width - 1 - y \in T
    OBVIOUS
  <2>2. c <= Width - 1 - y
    BY <2>1, <1>2
  <2> QED BY <2>2, <1>0, <1>3
<1> QED BY <1>4 DEF Max

\* Appending adds one element to the range of a sequence.
LEMMA AppendRange ==
    ASSUME NEW f \in Seq(Int), NEW x \in Int
    PROVE  /\ Range(Append(f, x)) = Range(f) \cup {x}
           /\ Len(Append(f, x)) = Len(f) + 1
           /\ DOMAIN Append(f, x) = 1 .. Len(f) + 1
           /\ \A i \in 1 .. Len(f) : Append(f, x)[i] = f[i] /\ f[i] \in Range(f)
           /\ Append(f, x)[Len(f) + 1] = x
           /\ DOMAIN f = 1 .. Len(f)
           /\ Range(f) \subseteq Int
<1>1. /\ Len(Append(f, x)) = Len(f) + 1
      /\ DOMAIN Append(f, x) = 1 .. Len(f) + 1
      /\ \A i \in 1 .. Len(f) : Append(f, x)[i] = f[i]
      /\ Append(f, x)[Len(f) + 1] = x
      /\ DOMAIN f = 1 .. Len(f) /\ Len(f) \in Nat
      /\ \A i \in 1 .. Len(f) : f[i] \in Int
  OBVIOUS
<1>2. Range(f) = {f[i] : i \in 1 .. Len(f)}
  BY <1>1 DEF Range
<1>3. Range(Append(f, x)) = {Append(f, x)[i] : i \in 1 .. Len(f) + 1}
  BY <1>1 DEF Range
<1>4. 1 .. Len(f) + 1 = (1 .. Len(f)) \cup {Len(f) + 1}
  BY <1>1
<1>5. Range(Append(f, x)) = Range(f) \cup {x}
  BY <1>1, <1>2, <1>3, <1>4
<1> QED BY <1>1, <1>2, <1>5

\* Taking the least element out at the front keeps the partition.
LEMMA TakeFirst ==
    ASSUME NEW f \in Seq(Int), NEW b \in Seq(Int), NEW u, u \subseteq Int, NEW n \in Int, NEW all,
           NEW x \in u, \A y \in u : x <= y, Partition(f, u, b, n, all)
    PROVE  Partition(Append(f, x), u \ {x}, b, n - 1, all)
<1> DEFINE g == Append(f, x)
<1>0. x \in Int
  OBVIOUS
<1>1. /\ Range(g) = Range(f) \cup {x}
      /\ Len(g) = Len(f) + 1
      /\ DOMAIN g = 1 .. Len(f) + 1
      /\ \A i \in 1 .. Len(f) : g[i] = f[i] /\ f[i] \in Range(f)
      /\ g[Len(f) + 1] = x
      /\ DOMAIN f = 1 .. Len(f)
      /\ Range(f) \subseteq Int
  BY <1>0, AppendRange
<1>2. /\ Range(f) \cup u \cup Range(b) = all
      /\ Len(f) + Len(b) + n = Cardinality(all)
      /\ \A i, j \in DOMAIN f : i < j => f[i] < f[j]
      /\ \A i, j \in DOMAIN b : i < j => b[i] > b[j]
      /\ \A z \in Range(f), y \in Range(b) : z < y
      /\ \A z \in Range(f), y \in u : z < y
      /\ \A z \in u, y \in Range(b) : z < y
  BY DEF Partition
<1>l. Len(f) \in Nat /\ Len(b) \in Nat
  OBVIOUS
<1> HIDE DEF g
<1>3. Range(g) \cup (u \ {x}) \cup Range(b) = all
  BY <1>1, <1>2
<1>4. Len(g) + Len(b) + (n - 1) = Cardinality(all)
  BY <1>1, <1>2, <1>l
<1>5. \A i, j \in DOMAIN g : i < j => g[i] < g[j]
  <2> SUFFICES ASSUME NEW i \in DOMAIN g, NEW j \in DOMAIN g, i < j PROVE g[i] < g[j]
    OBVIOUS
  <2>1. i \in 1 .. Len(f) /\ j \in 1 .. Len(f) + 1
    BY <1>1, <1>l
  <2>2. CASE j = Len(f) + 1
    BY <2>1, <2>2, <1>1, <1>2
  <2>3. CASE j # Len(f) + 1
    <3>0. \A n1 \in Nat : \A j1 \in 1 .. n1 + 1 : j1 # n1 + 1 => j1 \in 1 .. n1
      OBVIOUS
    <3>1. j \in 1 .. Len(f)
      BY <3>0, <2>1, <2>3, <1>l, Zenon
    <3> QED BY <3>1, <2>1, <1>1, <1>2
  <2> QED BY <2>2, <2>3
<1>6. \A z \in Range(g), y \in Range(b) : z < y
  BY <1>1, <1>2
<1>7. \A z \in Range(g), y \in u \ {x} : z < y
  BY <1>1, <1>2
<1>8. \A z \in u \ {x}, y \in Range(b) : z < y
  BY <1>2
<1> QED BY <1>2, <1>3, <1>4, <1>5, <1>6, <1>7, <1>8 DEF Partition, g

\* Taking the greatest element out at the back keeps the partition.
LEMMA TakeLast ==
    ASSUME NEW f \in Seq(Int), NEW b \in Seq(Int), NEW u, u \subseteq Int, NEW n \in Int, NEW all,
           NEW x \in u, \A y \in u : x >= y, Partition(f, u, b, n, all)
    PROVE  Partition(f, u \ {x}, Append(b, x), n - 1, all)
<1> DEFINE g == Append(b, x)
<1>0. x \in Int
  OBVIOUS
<1>1. /\ Range(g) = Range(b) \cup {x}
      /\ Len(g) = Len(b) + 1
      /\ DOMAIN g = 1 .. Len(b) + 1
      /\ \A i \in 1 .. Len(b) : g[i] = b[i] /\ b[i] \in Range(b)
      /\ g[Len(b) + 1] = x
      /\ DOMAIN b = 1 .. Len(b)
      /\ Range(b) \subseteq Int
  BY <1>0, AppendRange
<1>2. /\ Range(f) \cup u \cup Range(b) = all
      /\ Len(f) + Len(b) + n = Cardinality(all)
      /\ \A i, j \in DOMAIN f : i < j => f[i] < f[j]
      /\ \A i, j \in DOMAIN b : i < j => b[i] > b[j]
      /\ \A z \in Range(f), y \in Range(b) : z < y
      /\ \A z \in Range(f), y \in u : z < y
      /\ \A z \in u, y \in Range(b) : z < y
  BY DEF Partition
<1>l. Len(f) \in Nat /\ Len(b) \in Nat
  OBVIOUS
<1> HIDE DEF g
<1>3. Range(f) \cup (u \ {x}) \cup Range(g) = all
  BY <1>1, <1>2
<1>4. Len(f) + Len(g) + (n - 1) = Cardinality(all)
  BY <1>1, <1>2, <1>l
<1>5. \A i, j \in DOMAIN g : i < j => g[i] > g[j]
  <2> SUFFICES ASSUME NEW i \in DOMAIN g, NEW j \in DOMAIN g, i < j PROVE g[i] > g[j]
    OBVIOUS
  <2>1. i \in 1 .. Len(b) /\ j \in 1 .. Len(b) + 1
    BY <1>1, <1>l
  <2>2. CASE j = Len(b) + 1
    BY <2>1, <2>2, <1>0, <1>1, <1>2
  <2>3. CASE j # Len(b) + 1
    <3>0. \A n1 \in Nat : \A j1 \in 1 .. n1 + 1 : j1 # n1 + 1 => j1 \in 1 .. n1
      OBVIOUS
    <3>1. j \in 1 .. Len(b)
      BY <3>0, <2>1, <2>3, <1>l, Zenon
    <3> QED BY <3>1, <2>1, <1>1, <1>2
  <2> QED BY <2>2, <2>3
<1>6. \A z \in Range(f), y \in Range(g) : z < y
  BY <1>1, <1>2
<1>7. \A z \in Range(f), y \in u \ {x} : z < y
  BY <1>2
<1>8. \A z \in u \ {x}, y \in Range(g) : z < y
  BY <1>0, <1>1, <1>2
<1> QED BY <1>2, <1>3, <1>4, <1>5, <1>6, <1>7, <1>8 DEF Partition, g

\* Sequences of hart ids are sequences of numbers.
LEMMA IdsAreNumbers ==
    ASSUME MaskTypeOK
    PROVE  /\ front \in Seq(Int) /\ back \in Seq(Int)
           /\ HartIdSpace \subseteq Nat
           /\ mask.bits \subseteq MaskBits /\ mask.base \in HartIdSpace
           /\ ids.bits \subseteq MaskBits /\ ids.start \in HartIdSpace /\ ids.end \in HartIdSpace
           /\ mask = [bits |-> mask.bits, base |-> mask.base]
           /\ ids = [kind |-> ids.kind, bits |-> ids.bits, start |-> ids.start, end |-> ids.end]
           /\ ids.kind \in {"none", "bits", "range"} /\ (ids.kind = "none" <=> ids = NoIds)
<1>1. HartIdSpace \subseteq Nat /\ HartIdSpace \subseteq Int /\ 0 \in HartIdSpace
  BY LastIdType DEF HartIdSpace
<1>2. front \in Seq(Int) /\ back \in Seq(Int)
  <2>1. ASSUME NEW s \in Seq(HartIdSpace) PROVE s \in Seq(Int)
    <3>1. s \in [1 .. Len(s) -> HartIdSpace] /\ Len(s) \in Nat
      OBVIOUS
    <3>2. s \in [1 .. Len(s) -> Int]
      BY <3>1, <1>1
    <3> QED BY <3>1, <3>2, SeqDef
  <2> QED BY <2>1 DEF MaskTypeOK
<1>3. /\ mask.bits \subseteq MaskBits /\ mask.base \in HartIdSpace
      /\ mask = [bits |-> mask.bits, base |-> mask.base]
  BY DEF MaskTypeOK, from_mask_base
<1>4. CASE ids = NoIds
  BY <1>1, <1>2, <1>3, <1>4 DEF NoIds
<1>5. CASE ids \in [kind : {"bits", "range"}, bits : SUBSET MaskBits, start : HartIdSpace, end : HartIdSpace]
  BY <1>1, <1>2, <1>3, <1>5 DEF NoIds
<1> QED BY <1>4, <1>5 DEF MaskTypeOK

\* The bits of a mask that names hart ids only, moved to its base, are the
\* harts that it names.
LEMMA SelectedBits ==
    ASSUME NEW m \in from_mask_base, m.base # IGNORE_MASK, InSpace(m)
    PROVE  Selected(m) = {b + m.base : b \in m.bits}
<1>0. /\ LastId \in Nat /\ Width \in Nat /\ m.base \in 0 .. LastId
      /\ \A b \in m.bits : b \in Int /\ 0 <= b /\ b < Width /\ b + m.base <= LastId
  BY LastIdType, WidthAssumption DEF from_mask_base, MaskBits, HartIdSpace, InSpace
<1>1. ASSUME NEW h \in Selected(m) PROVE h \in {b + m.base : b \in m.bits}
  <2>1. h \in Int /\ h - m.base \in m.bits
    BY <1>1, <1>0 DEF Selected, has_bit, HartIdSpace
  <2>2. h = (h - m.base) + m.base
    BY <2>1, <1>0
  <2> QED BY <2>1, <2>2
<1>2. ASSUME NEW b \in m.bits PROVE b + m.base \in Selected(m)
  <2> DEFINE h == b + m.base
  <2>1. h - m.base = b /\ h \in HartIdSpace /\ valid_bit(m.base, h)
    BY <1>0 DEF HartIdSpace, valid_bit
  <2> HIDE DEF h
  <2>2. h - m.base \in m.bits
    BY <2>1
  <2>3. h \in Selected(m)
    BY <2>1, <2>2, Zenon DEF Selected, has_bit
  <2> QED BY <2>3 DEF h
<1> QED BY <1>1, <1>2

\* Moving a set of bits to a base keeps their number.
LEMMA MovedBits ==
    ASSUME NEW S, S \subseteq MaskBits, NEW base \in Nat
    PROVE  /\ IsFiniteSet(S)
           /\ Cardinality({b + base : b \in S}) = Cardinality(S)
<1> DEFINE T == {b + base : b \in S}
           f == [b \in S |-> b + base]
<1>0. S \subseteq Nat /\ IsFiniteSet(S)
  <2>1. IsFiniteSet(MaskBits)
    BY FS_Interval, WidthAssumption DEF MaskBits
  <2>2. MaskBits \subseteq Nat
    BY WidthAssumption DEF MaskBits
  <2> QED BY <2>1, <2>2, FS_Subset
<1>1. f \in Bijection(S, T)
  <2>1. f \in [S -> T]
    OBVIOUS
  <2>2. \A a, b \in S : f[a] = f[b] => a = b
    BY <1>0
  <2>3. \A t \in T : \E s \in S : f[s] = t
    OBVIOUS
  <2> HIDE DEF T, f
  <2> QED BY <2>1, <2>2, <2>3 DEF Bijection, Injection, Surjection, IsInjective
<1>2. ExistsBijection(S, T)
  BY <1>1 DEF ExistsBijection
<1> HIDE DEF T
<1>3. Cardinality(T) = Cardinality(S)
  BY <1>0, <1>2, FS_Bijection
<1> QED BY <1>0, <1>3 DEF T

\* Empty sequences have nothing in them.
LEMMA EmptyRange == Range(<<>>) = {} /\ Len(<<>>) = 0 /\ DOMAIN <<>> = {}
  BY DEF Range

\* The invariant holds at the start.
LEMMA MaskInvInit == MaskInit => MaskInv
<1> SUFFICES ASSUME MaskInit PROVE MaskInv
  OBVIOUS
<1>1. AllHartsMask \in from_mask_base
  BY LastIdType DEF AllHartsMask, from_mask_base, IGNORE_MASK, HartIdSpace
<1>2. MaskTypeOK
  BY <1>1 DEF MaskInit, MaskTypeOK
<1>3. ids = NoIds /\ ids.kind = "none"
  BY DEF MaskInit, NoIds
<1> QED BY <1>2, <1>3 DEF MaskInit, MaskInv, IteratorFits, Iterated

\* Inserting or removing a hart keeps the invariant.
LEMMA ChangeKeeps ==
    ASSUME MaskInv, NEW h \in HartIdSpace, InsertHart(h) \/ RemoveHart(h)
    PROVE  MaskInv'
<1>t. MaskTypeOK /\ chosen = Selected(mask)
  BY DEF MaskInv
<1>0. /\ ids = NoIds /\ ids' = ids /\ front' = front /\ back' = back
      /\ mask.base # IGNORE_MASK /\ valid_bit(mask.base, h)
  BY DEF InsertHart, RemoveHart
<1>1. /\ mask.bits \subseteq MaskBits /\ mask.base \in HartIdSpace
      /\ mask = [bits |-> mask.bits, base |-> mask.base]
      /\ HartIdSpace \subseteq Nat
  BY <1>t, IdsAreNumbers
<1>2. h - mask.base \in MaskBits
  BY <1>0, <1>1, WidthAssumption DEF valid_bit, MaskBits
<1>3. \/ mask'.bits = mask.bits \cup {h - mask.base} /\ chosen' = chosen \cup {h}
      \/ mask'.bits = mask.bits \ {h - mask.base} /\ chosen' = chosen \ {h}
  BY <1>1 DEF InsertHart, RemoveHart
<1>4. mask' \in from_mask_base /\ mask'.base = mask.base
  BY <1>1, <1>2 DEF InsertHart, RemoveHart, from_mask_base
<1>5. MaskTypeOK'
  BY <1>0, <1>4, <1>t DEF MaskTypeOK
<1>6. \A g \in HartIdSpace : g # h => g - mask.base # h - mask.base
  BY <1>1
<1>7. chosen' = Selected(mask')
  BY <1>0, <1>1, <1>3, <1>4, <1>6, <1>t DEF Selected, has_bit
<1>8. ids'.kind = "none" /\ ids' = NoIds
  BY <1>0 DEF NoIds
<1> QED BY <1>5, <1>7, <1>8 DEF MaskInv, IteratorFits, Iterated

\* A new iterator has all the harts of the mask before it.
LEMMA IterKeeps ==
    ASSUME MaskInv, MaskIter
    PROVE  MaskInv'
<1>t. MaskTypeOK /\ chosen = Selected(mask) /\ LastId \in Nat /\ mask \in from_mask_base
  BY LastIdType DEF MaskInv, MaskTypeOK
<1>0. mask' = mask /\ chosen' = chosen /\ front' = <<>> /\ back' = <<>>
  BY DEF MaskIter
<1>1. /\ mask.bits \subseteq MaskBits /\ mask.base \in HartIdSpace
      /\ HartIdSpace \subseteq Nat
  BY <1>t, IdsAreNumbers
<1>2. CASE mask.base = IGNORE_MASK
  <2>1. ids' = [kind |-> "range", bits |-> {}, start |-> 0, end |-> LastId]
    BY <1>2 DEF MaskIter
  <2>2. MaskTypeOK'
    BY <2>1, <1>0, <1>t DEF MaskTypeOK, HartIdSpace
  <2>3. IteratorFits'
    BY <2>1, <1>0, <1>2, <1>t DEF IteratorFits
  <2>4. Unvisited' = 0 .. LastId - 1 /\ size_hint' = LastId
    BY <2>1, <1>t DEF Unvisited, size_hint
  <2>5. Named' = 0 .. LastId - 1
    BY <2>1, <1>0, <1>2, <1>t DEF Named, Selected, has_bit, HartIdSpace
  <2>6. Cardinality(0 .. LastId - 1) = LastId
    BY <1>t, FS_Interval
  <2>7. Partition(<<>>, 0 .. LastId - 1, <<>>, LastId, 0 .. LastId - 1)
    BY <2>6, <1>t, EmptyRange DEF Partition
  <2>8. Iterated'
    BY <2>4, <2>5, <2>7, <1>0 DEF Iterated
  <2> QED BY <2>2, <2>3, <2>8, <1>0, <1>t DEF MaskInv
<1>3. CASE mask.base # IGNORE_MASK
  <2>1. ids' = [kind |-> "bits", bits |-> mask.bits, start |-> mask.base, end |-> 0]
    BY <1>3 DEF MaskIter
  <2>2. MaskTypeOK'
    BY <2>1, <1>0, <1>1, <1>t DEF MaskTypeOK, HartIdSpace
  <2>3. IteratorFits'
    BY <2>1, <1>0, <1>3 DEF IteratorFits
  <2> DEFINE moved == {b + mask.base : b \in mask.bits}
  <2>4. Unvisited' = moved /\ size_hint' = Cardinality(mask.bits)
    BY <2>1 DEF Unvisited, size_hint
  <2>5. InSpace(mask) => Named' = moved
    <3>1. Named' = Selected(mask)
      BY <2>1, <1>0 DEF Named
    <3> QED BY <3>1, <1>3, <1>t, SelectedBits
  <2>6. Cardinality(moved) = Cardinality(mask.bits) /\ Cardinality(mask.bits) \in Nat
    BY <1>1, MovedBits, FS_CardinalityType
  <2> HIDE DEF moved
  <2>7. Partition(<<>>, moved, <<>>, Cardinality(mask.bits), moved)
    BY <2>6, EmptyRange DEF Partition
  <2>8. Iterated'
    BY <2>4, <2>5, <2>7, <1>0 DEF Iterated
  <2> QED BY <2>2, <2>3, <2>8, <1>0, <1>t DEF MaskInv
<1> QED BY <1>2, <1>3

\* A bit of a mask that names hart ids only gives the hart at its place.
LEMMA HartOfBit ==
    ASSUME MaskTypeOK, IteratorFits, ids.kind = "bits", NEW b \in ids.bits
    PROVE  /\ HartOf(b) \in HartIdSpace
           /\ InSpace(mask) => HartOf(b) = b + ids.start
<1>1. /\ LastId \in Nat /\ ids.start \in Nat /\ b \in Nat
      /\ ids.bits \subseteq mask.bits /\ ids.start = mask.base
  BY LastIdType, WidthAssumption, IdsAreNumbers DEF IteratorFits, MaskBits
<1>2. \A a \in Nat : a % (LastId + 1) \in 0 .. LastId
  BY <1>1
<1>3. \A a \in 0 .. LastId : a % (LastId + 1) = a
  BY <1>1
<1>4. HartOf(b) \in HartIdSpace
  <2>1. b + ids.start \in Nat
    BY <1>1
  <2>2. (b + ids.start) % (LastId + 1) \in 0 .. LastId
    BY <2>1, <1>2
  <2> QED BY <2>2 DEF HartOf, HartIdSpace
<1>5. InSpace(mask) => b + ids.start \in 0 .. LastId
  BY <1>1 DEF InSpace
<1> QED BY <1>3, <1>4, <1>5 DEF HartOf

\* Taking one bit out takes out one hart and lowers the count by one.
LEMMA TakeBit ==
    ASSUME MaskTypeOK, IteratorFits, ids.kind = "bits", NEW b \in ids.bits,
           ids' = [ids EXCEPT !.bits = @ \ {b}], mask' = mask
    PROVE  /\ ids' \in [kind : {"bits", "range"}, bits : SUBSET MaskBits, start : HartIdSpace, end : HartIdSpace]
           /\ ids'.kind = "bits" /\ ids' # NoIds /\ ids # NoIds
           /\ IteratorFits'
           /\ Unvisited \subseteq Int
           /\ b + ids.start \in Unvisited
           /\ Unvisited' = Unvisited \ {b + ids.start}
           /\ size_hint \in Int /\ size_hint' = size_hint - 1
           /\ Named' = Named
<1>1. /\ ids.bits \subseteq MaskBits /\ ids.start \in HartIdSpace /\ ids.end \in HartIdSpace
      /\ HartIdSpace \subseteq Nat
      /\ ids = [kind |-> ids.kind, bits |-> ids.bits, start |-> ids.start, end |-> ids.end]
      /\ ids # NoIds
  BY IdsAreNumbers
<1>2. ids' = [kind |-> "bits", bits |-> ids.bits \ {b}, start |-> ids.start, end |-> ids.end]
  BY <1>1
<1>3. MaskBits \subseteq Nat
  BY WidthAssumption DEF MaskBits
<1>4. /\ ids' \in [kind : {"bits", "range"}, bits : SUBSET MaskBits, start : HartIdSpace, end : HartIdSpace]
      /\ ids'.kind = "bits" /\ ids'.bits = ids.bits \ {b} /\ ids'.start = ids.start
  BY <1>1, <1>2
<1>5. ids' # NoIds
  BY <1>4 DEF NoIds
<1>6. IteratorFits'
  BY <1>4 DEF IteratorFits
<1>7. Unvisited = {a + ids.start : a \in ids.bits} /\ Unvisited' = {a + ids.start : a \in ids.bits \ {b}}
  BY <1>4 DEF Unvisited
<1>8. \A a \in ids.bits : a + ids.start \in Int /\ (a + ids.start = b + ids.start => a = b)
  BY <1>1, <1>3
<1>9. Unvisited \subseteq Int /\ b + ids.start \in Unvisited /\ Unvisited' = Unvisited \ {b + ids.start}
  BY <1>7, <1>8
<1>10. size_hint = Cardinality(ids.bits) /\ size_hint' = Cardinality(ids.bits \ {b})
  BY <1>4 DEF size_hint
<1>11. IsFiniteSet(ids.bits)
  BY <1>1, MovedBits
<1>12. size_hint \in Int /\ size_hint' = size_hint - 1
  BY <1>10, <1>11, FS_RemoveElement, FS_CardinalityType
<1>13. Named' = Named
  BY <1>4 DEF Named
<1> QED BY <1>1, <1>4, <1>5, <1>6, <1>9, <1>12, <1>13

\* next keeps the invariant.
LEMMA NextIdKeeps ==
    ASSUME MaskInv, NextId
    PROVE  MaskInv'
<1>t. MaskTypeOK /\ IteratorFits /\ Iterated /\ chosen = Selected(mask) /\ LastId \in Nat
  BY LastIdType DEF MaskInv
<1>0. mask' = mask /\ back' = back /\ chosen' = chosen
  BY DEF NextId
<1>1. /\ front \in Seq(Int) /\ back \in Seq(Int) /\ HartIdSpace \subseteq Nat
      /\ front \in Seq(HartIdSpace) /\ back \in Seq(HartIdSpace) /\ mask \in from_mask_base
      /\ ids.bits \subseteq MaskBits /\ ids.start \in HartIdSpace /\ ids.end \in HartIdSpace
      /\ ids = [kind |-> ids.kind, bits |-> ids.bits, start |-> ids.start, end |-> ids.end]
      /\ (ids.kind = "none" <=> ids = NoIds)
  BY <1>t, IdsAreNumbers DEF MaskTypeOK
<1>2. CASE ids.kind = "bits" /\ ids.bits # {} /\ ids' = [ids EXCEPT !.bits = @ \ {Min(@)}]
           /\ front' = Append(front, HartOf(Min(ids.bits)))
  <2> DEFINE b == Min(ids.bits)
  <2>1. b \in ids.bits /\ \A y \in ids.bits : b <= y
    BY <1>1, <1>2, MinOfBits
  <2>2. ids' = [ids EXCEPT !.bits = @ \ {b}] /\ front' = Append(front, HartOf(b))
    BY <1>2
  <2> HIDE DEF b
  <2>3. /\ ids' \in [kind : {"bits", "range"}, bits : SUBSET MaskBits, start : HartIdSpace, end : HartIdSpace]
        /\ ids'.kind = "bits" /\ ids' # NoIds /\ ids # NoIds
        /\ IteratorFits'
        /\ Unvisited \subseteq Int
        /\ b + ids.start \in Unvisited
        /\ Unvisited' = Unvisited \ {b + ids.start}
        /\ size_hint \in Int /\ size_hint' = size_hint - 1
        /\ Named' = Named
    BY <2>1, <2>2, <1>0, <1>2, <1>t, TakeBit
  <2>4. HartOf(b) \in HartIdSpace /\ (InSpace(mask) => HartOf(b) = b + ids.start)
    BY <2>1, <1>2, <1>t, HartOfBit
  <2>5. MaskTypeOK'
    BY <2>2, <2>3, <2>4, <1>0, <1>1 DEF MaskTypeOK
  <2>6. ASSUME InSpace(mask) PROVE Partition(front', Unvisited', back', size_hint', Named')
    <3>1. Partition(front, Unvisited, back, size_hint, Named)
      BY <2>3, <2>6, <1>2, <1>t DEF Iterated
    <3>2. \A y \in Unvisited : b + ids.start <= y
      <4>1. Unvisited = {a + ids.start : a \in ids.bits}
        BY <1>2 DEF Unvisited
      <4>2. ids.start \in Nat /\ MaskBits \subseteq Nat
        BY <1>1, WidthAssumption DEF MaskBits
      <4> QED BY <4>1, <4>2, <2>1, <1>1
    <3>3. Partition(Append(front, b + ids.start), Unvisited \ {b + ids.start}, back, size_hint - 1, Named)
      BY <3>1, <3>2, <2>3, <1>1, TakeFirst
    <3> QED BY <3>3, <2>2, <2>3, <2>4, <2>6, <1>0
  <2>7. Iterated'
    BY <2>6, <1>0 DEF Iterated
  <2> QED BY <2>3, <2>5, <2>7, <1>0, <1>t DEF MaskInv
<1>3. CASE ids.kind = "range" /\ ids.start < ids.end /\ ids' = [ids EXCEPT !.start = @ + 1]
           /\ front' = Append(front, ids.start)
  <2>1. ids.start \in Nat /\ ids.end \in Nat /\ ids.start + 1 <= ids.end /\ ids.end <= LastId
    BY <1>1, <1>3, <1>t DEF HartIdSpace
  <2>2. ids' = [kind |-> "range", bits |-> ids.bits, start |-> ids.start + 1, end |-> ids.end]
    BY <1>1, <1>3
  <2>3. /\ ids' \in [kind : {"bits", "range"}, bits : SUBSET MaskBits, start : HartIdSpace, end : HartIdSpace]
        /\ ids'.kind = "range" /\ ids'.start = ids.start + 1 /\ ids'.end = ids.end
    BY <2>1, <2>2, <1>1, <1>t DEF HartIdSpace
  <2>4. MaskTypeOK'
    <3>1. front' \in Seq(HartIdSpace)
      BY <1>1, <1>3
    <3> QED BY <3>1, <2>3, <1>0, <1>1 DEF MaskTypeOK
  <2>5. IteratorFits'
    BY <2>1, <2>3, <1>0, <1>3, <1>t DEF IteratorFits
  <2>6. /\ Unvisited = ids.start .. ids.end - 1 /\ Unvisited' = ids.start + 1 .. ids.end - 1
        /\ size_hint = ids.end - ids.start /\ size_hint' = ids.end - (ids.start + 1) /\ Named' = Named
    BY <2>3, <1>0, <1>3 DEF Unvisited, size_hint, Named
  <2>7. /\ Unvisited \subseteq Int /\ ids.start \in Unvisited /\ (\A y \in Unvisited : ids.start <= y)
        /\ Unvisited' = Unvisited \ {ids.start} /\ size_hint \in Int /\ size_hint' = size_hint - 1
    BY <2>1, <2>6
  <2>8. ASSUME InSpace(mask), back = <<>> PROVE Partition(front', Unvisited', back', size_hint', Named')
    <3>1. Partition(front, Unvisited, back, size_hint, Named)
      BY <2>8, <1>1, <1>3, <1>t DEF Iterated
    <3>2. Partition(Append(front, ids.start), Unvisited \ {ids.start}, back, size_hint - 1, Named)
      BY <3>1, <2>7, <1>1, TakeFirst
    <3> QED BY <3>2, <2>6, <2>7, <1>0, <1>3
  <2>9. Iterated'
    BY <2>3, <2>8, <1>0 DEF Iterated
  <2> QED BY <2>4, <2>5, <2>9, <1>0, <1>t DEF MaskInv
<1> QED BY <1>2, <1>3 DEF NextId

\* next_back keeps the invariant.
LEMMA NextBackIdKeeps ==
    ASSUME MaskInv, NextBackId
    PROVE  MaskInv'
<1>t. MaskTypeOK /\ IteratorFits /\ Iterated /\ chosen = Selected(mask) /\ LastId \in Nat
  BY LastIdType DEF MaskInv
<1>0. mask' = mask /\ front' = front /\ chosen' = chosen
  BY DEF NextBackId
<1>1. /\ front \in Seq(Int) /\ back \in Seq(Int) /\ HartIdSpace \subseteq Nat
      /\ front \in Seq(HartIdSpace) /\ back \in Seq(HartIdSpace) /\ mask \in from_mask_base
      /\ ids.bits \subseteq MaskBits /\ ids.start \in HartIdSpace /\ ids.end \in HartIdSpace
      /\ ids = [kind |-> ids.kind, bits |-> ids.bits, start |-> ids.start, end |-> ids.end]
      /\ (ids.kind = "none" <=> ids = NoIds)
  BY <1>t, IdsAreNumbers DEF MaskTypeOK
<1>2. CASE ids.kind = "bits" /\ ids.bits # {} /\ ids' = [ids EXCEPT !.bits = @ \ {Max(@)}]
           /\ back' = Append(back, HartOf(Max(ids.bits)))
  <2> DEFINE b == Max(ids.bits)
  <2>1. b \in ids.bits /\ \A y \in ids.bits : b >= y
    BY <1>1, <1>2, MaxOfBits
  <2>2. ids' = [ids EXCEPT !.bits = @ \ {b}] /\ back' = Append(back, HartOf(b))
    BY <1>2
  <2> HIDE DEF b
  <2>3. /\ ids' \in [kind : {"bits", "range"}, bits : SUBSET MaskBits, start : HartIdSpace, end : HartIdSpace]
        /\ ids'.kind = "bits" /\ ids' # NoIds /\ ids # NoIds
        /\ IteratorFits'
        /\ Unvisited \subseteq Int
        /\ b + ids.start \in Unvisited
        /\ Unvisited' = Unvisited \ {b + ids.start}
        /\ size_hint \in Int /\ size_hint' = size_hint - 1
        /\ Named' = Named
    BY <2>1, <2>2, <1>0, <1>2, <1>t, TakeBit
  <2>4. HartOf(b) \in HartIdSpace /\ (InSpace(mask) => HartOf(b) = b + ids.start)
    BY <2>1, <1>2, <1>t, HartOfBit
  <2>5. MaskTypeOK'
    BY <2>2, <2>3, <2>4, <1>0, <1>1 DEF MaskTypeOK
  <2>6. ASSUME InSpace(mask) PROVE Partition(front', Unvisited', back', size_hint', Named')
    <3>1. Partition(front, Unvisited, back, size_hint, Named)
      BY <2>3, <2>6, <1>2, <1>t DEF Iterated
    <3>2. \A y \in Unvisited : b + ids.start >= y
      <4>1. Unvisited = {a + ids.start : a \in ids.bits}
        BY <1>2 DEF Unvisited
      <4>2. ids.start \in Nat /\ MaskBits \subseteq Nat
        BY <1>1, WidthAssumption DEF MaskBits
      <4> QED BY <4>1, <4>2, <2>1, <1>1
    <3>3. Partition(front, Unvisited \ {b + ids.start}, Append(back, b + ids.start), size_hint - 1, Named)
      BY <3>1, <3>2, <2>3, <1>1, TakeLast
    <3> QED BY <3>3, <2>2, <2>3, <2>4, <2>6, <1>0
  <2>7. Iterated'
    BY <2>6, <1>0 DEF Iterated
  <2> QED BY <2>3, <2>5, <2>7, <1>0, <1>t DEF MaskInv
<1>3. CASE ids.kind = "range" /\ ids.start < ids.end /\ ids' = [ids EXCEPT !.end = @ - 1]
           /\ back' = Append(back, ids.end)
  <2>1. ids.start \in Nat /\ ids.end \in Nat /\ ids.start <= ids.end - 1 /\ ids.end <= LastId
    BY <1>1, <1>3, <1>t DEF HartIdSpace
  <2>2. ids' = [kind |-> "range", bits |-> ids.bits, start |-> ids.start, end |-> ids.end - 1]
    BY <1>1, <1>3
  <2>3. /\ ids' \in [kind : {"bits", "range"}, bits : SUBSET MaskBits, start : HartIdSpace, end : HartIdSpace]
        /\ ids'.kind = "range" /\ ids'.start = ids.start /\ ids'.end = ids.end - 1
    BY <2>1, <2>2, <1>1, <1>t DEF HartIdSpace
  <2>4. MaskTypeOK'
    <3>1. back' \in Seq(HartIdSpace)
      BY <1>1, <1>3
    <3> QED BY <3>1, <2>3, <1>0, <1>1 DEF MaskTypeOK
  <2>5. back' # <<>>
    BY <1>1, <1>3
  <2>6. IteratorFits' /\ Iterated'
    BY <2>1, <2>3, <2>5, <1>0, <1>3, <1>t DEF IteratorFits, Iterated
  <2> QED BY <2>4, <2>6, <1>0, <1>t DEF MaskInv
<1> QED BY <1>2, <1>3 DEF NextBackId

\* Every step keeps the invariant.
LEMMA MaskInvNext == MaskInv /\ [MaskNext]_maskVars => MaskInv'
<1> SUFFICES ASSUME MaskInv, [MaskNext]_maskVars PROVE MaskInv'
  OBVIOUS
<1>1. ASSUME NEW h \in HartIdSpace, InsertHart(h) \/ RemoveHart(h) PROVE MaskInv'
  BY <1>1, ChangeKeeps
<1>2. CASE DropIds
  <2>1. /\ ids' = NoIds /\ front' = <<>> /\ back' = <<>> /\ mask' = mask /\ chosen' = chosen
        /\ ids'.kind = "none"
    BY <1>2 DEF DropIds, NoIds
  <2> QED BY <2>1 DEF MaskInv, MaskTypeOK, IteratorFits, Iterated
<1>3. CASE UNCHANGED maskVars
  BY <1>3 DEF maskVars, MaskInv, MaskTypeOK, IteratorFits, Iterated, Unvisited, size_hint, Named
<1> QED BY <1>1, <1>2, <1>3, IterKeeps, NextIdKeeps, NextBackIdKeeps DEF MaskNext

\* The invariant gives the property.
LEMMA MaskInvExact == MaskInv => MasksAreExact
<1> SUFFICES ASSUME MaskInv, ids # NoIds, InSpace(mask), ids.kind = "bits" \/ back = <<>>
             PROVE  /\ Range(front) \cup Unvisited \cup Range(back)
                         = Selected(mask) \ (IF ids.kind = "range" THEN {LastId} ELSE {})
                    /\ Len(front) + Len(back) + size_hint
                         = Cardinality(Range(front) \cup Unvisited \cup Range(back))
                    /\ \A i, j \in DOMAIN front : i < j => front[i] < front[j]
                    /\ \A i, j \in DOMAIN back : i < j => back[i] > back[j]
                    /\ \A f \in Range(front), b \in Range(back) : f < b
  BY DEF MaskInv, MasksAreExact
<1>1. Partition(front, Unvisited, back, size_hint, Named)
  BY DEF MaskInv, Iterated
<1> QED BY <1>1 DEF Partition, Named

\* A mask names the harts that were inserted and not removed, and its iterator
\* gives out each of them once, in order from both ends, with an exact count of
\* those left, for every width of usize.  (insert, remove, has_bit, next,
\* next_back, size_hint)
THEOREM MasksStayExact == MaskSpec => []MasksAreExact
<1>1. MaskSpec => []MaskInv
  BY MaskInvInit, MaskInvNext, PTL DEF MaskSpec
<1> QED BY <1>1, MaskInvExact, PTL

-----------------------------------------------------------------------------
(* Secure memory.                                                          *)

\* A multiple leaves no remainder, and neither does its double.
LEMMA DoubledDivides ==
    ASSUME NEW a \in Nat, NEW b \in Nat \ {0}, a % b = 0
    PROVE  (2 * a) % b = 0
<1>1. PICK k \in Nat : a = b * k
  <2>1. a = b * (a \div b) /\ a \div b \in Nat
    OBVIOUS
  <2> QED BY <2>1
<1>2. 2 * k \in Nat /\ 2 * a = b * (2 * k)
  BY <1>1
<1>3. \A j \in Nat : (b * j) % b = 0
  OBVIOUS
<1>4. (b * (2 * k)) % b = 0
  BY <1>2, <1>3
<1> QED BY <1>2, <1>4, Zenon

\* Powers of two are positive, double with the exponent, and divide the greater
\* ones: there is no least exponent where that fails.
LEMMA PowerFacts ==
    \A m \in 0 .. AddressBits :
        /\ 2^m > 0 /\ 2^(m + 1) = 2 * 2^m
        /\ \A n \in 0 .. m : 2^n <= 2^m /\ 2^m % 2^n = 0
<1>1. AddressBits \in Nat
  BY SecureAssumption
<1> DEFINE P(m) == /\ 2^m \in Nat \ {0}
                   /\ \A n \in 0 .. m : 2^n \in Nat \ {0} /\ 2^n <= 2^m /\ 2^m % 2^n = 0
           S == {m \in 0 .. AddressBits : ~P(m)}
<1>2. S = {}
  <2> SUFFICES ASSUME S # {} PROVE FALSE
    OBVIOUS
  <2>1. PICK m \in S : \A d \in S : m <= d
    <3>1. S \subseteq Nat
      BY <1>1
    <3> HIDE DEF S
    <3> QED BY <3>1, LeastExists
  <2>2. m # 0
    <3>1. P(0)
      <4>1. 2^0 = 1
        BY PowerAssumption
      <4>2. \A n \in 0 .. 0 : n = 0
        OBVIOUS
      <4>3. 1 % 1 = 0
        OBVIOUS
      <4> QED BY <4>1, <4>2, <4>3
    <3> QED BY <3>1
  <2>3. m \in 0 .. AddressBits /\ m - 1 \in 0 .. AddressBits /\ (m - 1) + 1 = m
    BY <2>2, <1>1
  <2>4. P(m - 1)
    <3>1. m - 1 \notin S
      BY <2>1, <2>3
    <3> HIDE DEF P
    <3> QED BY <3>1, <2>3
  <2>5. 2^m = 2 * 2^(m - 1)
    BY <2>3, PowerAssumption
  <2>6. 2^m \in Nat \ {0} /\ 2^(m - 1) <= 2^m
    BY <2>4, <2>5
  <2>7. ASSUME NEW n \in 0 .. m
        PROVE  2^n \in Nat \ {0} /\ 2^n <= 2^m /\ 2^m % 2^n = 0
    <3>1. CASE n = m
      <4>1. \A a \in Nat \ {0} : a <= a /\ a % a = 0
        OBVIOUS
      <4> QED BY <4>1, <3>1, <2>6
    <3>2. CASE n # m
      <4>1. n \in 0 .. (m - 1)
        BY <3>2, <2>3
      <4>2. 2^n \in Nat \ {0} /\ 2^n <= 2^(m - 1) /\ 2^(m - 1) % 2^n = 0
        BY <4>1, <2>4
      <4>3. 2^m % 2^n = 0
        BY <4>2, <2>4, <2>5, DoubledDivides
      <4> QED BY <4>2, <4>3, <2>4, <2>6
    <3> QED BY <3>1, <3>2
  <2>8. P(m)
    BY <2>6, <2>7
  <2> QED BY <2>8, <2>1
<1>3. ASSUME NEW m \in 0 .. AddressBits PROVE P(m)
  <2> HIDE DEF P
  <2> QED BY <1>2
<1> QED BY <1>1, <1>3, PowerAssumption

\* Powers of two are positive numbers.
LEMMA PowerType ==
    /\ Powers \subseteq Nat \ {0}
    /\ \A m \in 0 .. AddressBits : 2^m \in Powers /\ 2^m \in Nat
<1>1. AddressBits \in Nat
  BY SecureAssumption
<1>2. \A m \in 0 .. AddressBits : 2^m \in Int
  BY <1>1
<1>3. \A m \in 0 .. AddressBits : 2^m \in Nat \ {0}
  BY <1>1, <1>2, PowerFacts
<1> QED BY <1>3 DEF Powers

\* A power of two divides the greater ones.
LEMMA PowersDivide ==
    ASSUME NEW p \in Powers, NEW q \in Powers, p <= q
    PROVE  q % p = 0
<1>1. AddressBits \in Nat
  BY SecureAssumption
<1>2. PICK m \in 0 .. AddressBits : p = 2^m
  BY DEF Powers
<1>3. PICK n \in 0 .. AddressBits : q = 2^n
  BY DEF Powers
<1>4. CASE m <= n
  <2>1. m \in 0 .. n
    BY <1>4
  <2> QED BY <2>1, <1>2, <1>3, PowerFacts
<1>5. CASE n < m
  <2>1. n \in 0 .. m
    BY <1>5
  <2>2. 2^n <= 2^m
    BY <2>1, PowerFacts
  <2>3. q = p
    BY <2>2, <1>2, <1>3, PowerType
  <2>4. q % q = 0
    BY PowerType
  <2> QED BY <2>3, <2>4
<1> QED BY <1>4, <1>5

\* next_power_of_two of a length that is asked for.
LEMMA NextPower ==
    ASSUME NEW n \in Nat, n <= 2 * SmallestArea
    PROVE  NextPowerOfTwo(n) \in Powers /\ NextPowerOfTwo(n) >= n
<1> DEFINE S == {p \in Powers : p >= n}
<1>1. 2^AddressBits \in S
  BY SecureAssumption, PowerType
<1>2. S \subseteq Nat
  BY PowerType
<1>3. PICK p \in S : \A q \in S : p <= q
  <2> HIDE DEF S
  <2> QED BY <1>1, <1>2, LeastExists
<1>4. \E x \in Powers : x >= n /\ \A q \in Powers : q >= n => x <= q
  BY <1>3
<1> QED BY <1>4 DEF NextPowerOfTwo

\* A power of two is its own next one.
LEMMA NextPowerSame ==
    ASSUME NEW p \in Powers
    PROVE  NextPowerOfTwo(p) = p
<1>1. p >= p /\ \A q \in Powers : q >= p => p <= q
  BY PowerType
<1>2. \A x \in Powers : x >= p /\ (\A q \in Powers : q >= p => x <= q) => x = p
  BY <1>1, PowerType
<1> DEFINE P(x) == x >= p /\ \A q \in Powers : q >= p => x <= q
<1>3. P(CHOOSE x \in Powers : P(x)) /\ (CHOOSE x \in Powers : P(x)) \in Powers
  BY <1>1
<1> QED BY <1>2, <1>3 DEF NextPowerOfTwo

\* An aligned block that starts in an aligned region of a greater power ends in it.
LEMMA BlockFits ==
    ASSUME NEW p \in Nat \ {0}, NEW q \in Nat \ {0}, q % p = 0,
           NEW x \in Nat, x % q = 0, NEW a \in Nat, a % p = 0, a < x + q
    PROVE  a + p <= x + q
<1>1. PICK k \in Nat : q = k * p
  <2>1. q \div p \in Nat /\ q = (q \div p) * p
    OBVIOUS
  <2> QED BY <2>1
<1>2. PICK l \in Nat : x = l * q
  <2>1. x \div q \in Nat /\ x = (x \div q) * q
    OBVIOUS
  <2> QED BY <2>1
<1>3. PICK m \in Nat : a = m * p
  <2>1. a \div p \in Nat /\ a = (a \div p) * p
    OBVIOUS
  <2> QED BY <2>1
<1>4. x + q = (l * k + k) * p /\ l * k + k \in Nat
  <2>1. l * (k * p) = (l * k) * p
    OBVIOUS
  <2>2. l * k \in Nat
    OBVIOUS
  <2>3. \A c \in Nat : c * p + k * p = (c + k) * p
    OBVIOUS
  <2> QED BY <2>1, <2>2, <2>3, <1>1, <1>2
<1>5. PICK n \in Nat : x + q = n * p
  BY <1>4
<1>6. m < n
  BY <1>3, <1>5
<1>7. (m + 1) * p <= n * p
  BY <1>6
<1> QED BY <1>3, <1>5, <1>7

\* A number that ends in ones for one power ends in ones for every power that divides it.
LEMMA OnesDivide ==
    ASSUME NEW a \in Nat \ {0}, NEW b \in Nat \ {0}, b % a = 0, NEW p \in Nat, p % b = b - 1
    PROVE  p % a = a - 1
<1>1. PICK k \in Nat : b = k * a
  <2>1. b \div a \in Nat /\ b = (b \div a) * a
    OBVIOUS
  <2> QED BY <2>1
<1>2. PICK l \in Nat : p + 1 = l * b
  <2>1. PICK c \in Nat : p = c * b + (b - 1)
    <3>1. p \div b \in Nat /\ p = (p \div b) * b + (b - 1)
      OBVIOUS
    <3> QED BY <3>1
  <2>2. p + 1 = (c + 1) * b /\ c + 1 \in Nat
    BY <2>1
  <2> QED BY <2>2
<1>3. PICK n \in Nat : p + 1 = n * a
  <2>1. l * (k * a) = (l * k) * a /\ l * k \in Nat
    OBVIOUS
  <2> QED BY <2>1, <1>1, <1>2
<1>4. n >= 1
  BY <1>3
<1>5. p = (n - 1) * a + (a - 1)
  BY <1>3, <1>4
<1> QED BY <1>4, <1>5

\* What a division leaves.
LEMMA ModOf ==
    ASSUME NEW c \in Nat, NEW h \in Nat \ {0}, NEW r \in 0 .. h - 1
    PROVE  (c * h + r) % h = r
  OBVIOUS

\* What encode_pmp_addr writes for a region, and what decode_pmp_addr reads from it.
LEMMA RegionDecodes ==
    ASSUME NEW addr \in Nat, NEW j \in Nat, j >= 1, j + 2 < AddressBits, addr % 2^j = 0,
           addr + 2^j <= MemoryEnd
    PROVE  DecodeNapot(EncodeNapot(4 * addr, j + 2)) = <<4 * addr, j + 2>>
<1> DEFINE half == 2^(j - 1)
           p == addr + half - 1
<1>0. /\ AddressBits \in Nat /\ MemoryEnd \in Nat /\ 4 * MemoryEnd <= 2^AddressBits
      /\ j \in 0 .. AddressBits /\ j - 1 \in 0 .. AddressBits /\ AddressBits \in 0 .. AddressBits
  BY SecureAssumption
<1>1. half \in Nat /\ half >= 1 /\ 2^j = 2 * half /\ 2^AddressBits \in Nat
  <2>1. 2^((j - 1) + 1) = 2 * 2^(j - 1) /\ (j - 1) + 1 = j
    BY <1>0, PowerFacts
  <2> QED BY <2>1, <1>0, PowerType, PowerFacts
<1> HIDE DEF half
<1>2. p \in Nat /\ p % half = half - 1 /\ p % (2 * half) = half - 1 /\ p - (p % half) = addr
  <2>1. addr % (2 * half) = 0
    BY <1>1
  <2>2. PICK c \in Nat : addr = c * (2 * half)
    <3>1. addr \div (2 * half) \in Nat /\ addr = (addr \div (2 * half)) * (2 * half)
      BY <2>1, <1>1
    <3> QED BY <3>1
  <2>3. p = c * (2 * half) + (half - 1) /\ p \in Nat
    BY <2>2, <1>1
  <2>4. c * (2 * half) = (2 * c) * half
    BY <1>1
  <2>5. p = (2 * c) * half + (half - 1) /\ 2 * c \in Nat
    BY <2>3, <2>4
  <2>a. /\ half \in Nat \ {0} /\ 2 * half \in Nat \ {0}
        /\ half - 1 \in 0 .. half - 1 /\ half - 1 \in 0 .. 2 * half - 1
    BY <1>1
  <2>6. ((2 * c) * half + (half - 1)) % half = half - 1
    BY <2>5, <2>a, ModOf
  <2>7. (c * (2 * half) + (half - 1)) % (2 * half) = half - 1
    BY <2>a, ModOf
  <2>8. p - (half - 1) = addr
    BY <1>1
  <2> HIDE DEF p
  <2> QED BY <2>3, <2>5, <2>6, <2>7, <2>8
<1>3. EncodeNapot(4 * addr, j + 2) = p
  <2>1. (4 * addr) \div 4 = addr /\ (j + 2) - 2 = j /\ j + 2 # AddressBits
    BY <1>0
  <2>2. (2 * half - 1) \div 2 = half - 1
    BY <1>1
  <2>3. EncodeNapot(4 * addr, j + 2)
          = ((4 * addr) \div 4) - (((4 * addr) \div 4) % 2^((j + 2) - 2)) + (2^((j + 2) - 2) - 1) \div 2
    BY <2>1, Zenon DEF EncodeNapot
  <2>4. EncodeNapot(4 * addr, j + 2) = addr - (addr % 2^j) + (2^j - 1) \div 2
    BY <2>1, <2>3, Zenon
  <2>5. EncodeNapot(4 * addr, j + 2) = addr - 0 + (half - 1)
    BY <2>2, <2>4, <1>1
  <2> QED BY <2>5, <1>1
<1>4. p # 2^AddressBits - 1
  BY <1>0, <1>1
<1> HIDE DEF p
<1> DEFINE Ones(n) == p % 2^n = 2^n - 1 /\ p % 2^(n + 1) # 2^(n + 1) - 1
<1>5. j - 1 \in 0 .. AddressBits /\ Ones(j - 1)
  <2>1. (j - 1) + 1 = j
    BY <1>0
  <2>2. p % 2^(j - 1) = 2^(j - 1) - 1
    BY <1>2 DEF half
  <2>3. p % 2^j # 2^j - 1
    BY <1>1, <1>2
  <2> QED BY <2>1, <2>2, <2>3, <1>0
<1>6. ASSUME NEW n \in 0 .. AddressBits, Ones(n) PROVE n = j - 1
  <2>1. CASE n < j - 1
    <3>1. n + 1 \in 0 .. j - 1 /\ n + 1 \in 0 .. AddressBits
      BY <2>1, <1>0
    <3>2. 2^(j - 1) % 2^(n + 1) = 0
      BY <3>1, <1>0, PowerFacts
    <3>3. 2^(n + 1) \in Nat \ {0} /\ 2^(j - 1) \in Nat \ {0}
      BY <3>1, <1>0, PowerType, PowerFacts
    <3>4. p % 2^(n + 1) = 2^(n + 1) - 1
      BY <3>2, <3>3, <1>2, <1>5, OnesDivide
    <3> QED BY <3>4, <1>6
  <2>2. CASE n > j - 1
    <3>1. j \in 0 .. n
      BY <2>2, <1>0
    <3>2. 2^n % 2^j = 0
      BY <3>1, <1>0, PowerFacts
    <3>3. 2^n \in Nat \ {0} /\ 2^j \in Nat \ {0}
      BY <1>0, PowerType, PowerFacts
    <3>4. p % 2^j = 2^j - 1
      BY <3>2, <3>3, <1>2, <1>6, OnesDivide
    <3> QED BY <3>4, <1>1, <1>2
  <2> QED BY <2>1, <2>2, <1>0
<1>7. (CHOOSE n \in 0 .. AddressBits : Ones(n)) = j - 1
  <2> HIDE DEF Ones
  <2> QED BY <1>5, <1>6
<1>8. DecodeNapot(p) = <<(p - (p % 2^(j - 1))) * 4, (j - 1) + 3>>
  BY <1>4, <1>7 DEF DecodeNapot
<1>9. p - (p % 2^(j - 1)) = addr
  BY <1>2, Zenon DEF half
<1> QED BY <1>3, <1>8, <1>9

\* The bytes of a block or a region.
LEMMA AreaBytes ==
    ASSUME NEW r, r.addr \in Nat, r.len \in Nat \ {0}
    PROVE  /\ r.addr \in Area(r) /\ Area(r) \subseteq Nat
           /\ IsFiniteSet(Area(r)) /\ Cardinality(Area(r)) = r.len
<1>1. Area(r) = r.addr .. r.addr + r.len - 1
  BY DEF Area
<1>2. r.addr \in Int /\ r.addr + r.len - 1 \in Int
  OBVIOUS
<1>3. /\ IsFiniteSet(Area(r))
      /\ Cardinality(Area(r)) = IF r.addr > r.addr + r.len - 1 THEN 0 ELSE (r.addr + r.len - 1) - r.addr + 1
  BY <1>1, <1>2, FS_Interval
<1> QED BY <1>1, <1>3

\* The fields of a region.
LEMMA RegionFields ==
    ASSUME NEW r \in RegionSet
    PROVE  /\ r.addr \in Nat /\ r.len \in Nat \ {0} /\ r.len \in Powers /\ r.used \in BOOLEAN
           /\ r.kind \in Kinds /\ r.avail \in Nat /\ r.slot \in AllocMask /\ r.id \in Nat
           /\ r = [addr |-> r.addr, len |-> r.len, id |-> r.id, slot |-> r.slot, used |-> r.used,
                   kind |-> r.kind, avail |-> r.avail]
<1>1. /\ r.addr \in Nat /\ r.len \in Powers /\ r.used \in BOOLEAN
      /\ r.kind \in Kinds /\ r.avail \in Nat /\ r.slot \in AllocMask /\ r.id \in Nat
      /\ r = [addr |-> r.addr, len |-> r.len, id |-> r.id, slot |-> r.slot, used |-> r.used,
              kind |-> r.kind, avail |-> r.avail]
  BY DEF RegionSet
<1> QED BY <1>1, PowerType

\* The fields of a block.
LEMMA BlockFields ==
    ASSUME NEW b \in BlockSet
    PROVE  b.addr \in Nat /\ b.len \in Nat \ {0} /\ b.len \in Powers
  BY PowerType DEF BlockSet

\* A block that lies in a region takes bytes of it only.
LEMMA ContainedArea ==
    ASSUME NEW r \in RegionSet, NEW b \in BlockSet, Contained(r, b)
    PROVE  Area(b) \subseteq Area(r)
<1>1. /\ r.addr \in Nat /\ r.len \in Nat /\ b.addr \in Nat /\ b.len \in Nat
      /\ b.addr >= r.addr /\ b.addr + b.len <= r.addr + r.len
  BY RegionFields, BlockFields DEF Contained
<1> QED BY <1>1 DEF Area

\* Adding a block adds its bytes.
LEMMA BytesAdded ==
    ASSUME NEW l, NEW b
    PROVE  BytesIn(l \cup {b}) = BytesIn(l) \cup Area(b)
  BY DEF BytesIn

\* Removing a block removes its bytes, when no other block has one of them.
LEMMA BytesRemoved ==
    ASSUME NEW l, NEW b \in l, \A c \in l : c # b => Area(c) \cap Area(b) = {}
    PROVE  BytesIn(l \ {b}) = BytesIn(l) \ Area(b)
  BY DEF BytesIn

\* What is taken of a region is finite, and no more than the region.
LEMMA TakenType ==
    ASSUME NEW r \in RegionSet, NEW l
    PROVE  /\ IsFiniteSet(Taken(r, l)) /\ Cardinality(Taken(r, l)) \in Nat
           /\ Cardinality(Taken(r, l)) <= r.len
           /\ (Cardinality(Taken(r, l)) = 0 <=> Taken(r, l) = {})
<1>1. IsFiniteSet(Area(r)) /\ Cardinality(Area(r)) = r.len
  BY RegionFields, AreaBytes
<1>2. Taken(r, l) \subseteq Area(r)
  BY DEF Taken
<1> QED BY <1>1, <1>2, FS_Subset, FS_CardinalityType, FS_EmptySet

\* A region of which nothing is taken has no block in it.
LEMMA NothingTaken ==
    ASSUME NEW r \in RegionSet, NEW l, l \subseteq BlockSet, Taken(r, l) = {}, NEW b \in l
    PROVE  ~Contained(r, b)
<1> SUFFICES ASSUME Contained(r, b) PROVE FALSE
  OBVIOUS
<1>1. b.addr \in Area(b) /\ Area(b) \subseteq Area(r)
  BY BlockFields, AreaBytes, ContainedArea
<1> QED BY <1>1 DEF Taken, BytesIn

\* A new block elsewhere leaves what a region says true.
LEMMA ElsewhereAdded ==
    ASSUME NEW r \in RegionSet, NEW l, Accounted(r, l),
           NEW b \in BlockSet, Area(r) \cap Area(b) = {}
    PROVE  Accounted(r, l \cup {b})
<1>1. Taken(r, l \cup {b}) = Taken(r, l)
  BY BytesAdded DEF Taken
<1>2. ~Contained(r, b)
  BY BlockFields, AreaBytes, ContainedArea
<1> QED BY <1>1, <1>2 DEF Accounted

\* A block that is gone from elsewhere leaves what a region says true.
LEMMA ElsewhereRemoved ==
    ASSUME NEW r \in RegionSet, NEW l, Accounted(r, l), NEW b, Area(r) \cap Area(b) = {}
    PROVE  Accounted(r, l \ {b})
<1>1. Taken(r, l \ {b}) = Taken(r, l)
  BY DEF Taken, BytesIn
<1> QED BY <1>1 DEF Accounted

\* A region that takes the kind of a request stays where it is and has all of
\* its bytes to give.
LEMMA ConvertedAccounted ==
    ASSUME NEW r \in RegionSet, NEW l, l \subseteq BlockSet, Accounted(r, l),
           NEW len \in Nat, NEW kind \in {"runtime", "application"}
    PROVE  /\ Converted(r, len, kind) \in RegionSet
           /\ Converted(r, len, kind).addr = r.addr /\ Converted(r, len, kind).len = r.len
           /\ Converted(r, len, kind).slot = r.slot
           /\ Accounted(Converted(r, len, kind), l)
<1> DEFINE c == Converted(r, len, kind)
<1>1. CASE r.len >= len /\ r.kind = "general"
  <2>1. c = [r EXCEPT !.kind = kind, !.avail = r.len]
    BY <1>1 DEF Converted
  <2>2. /\ c.addr = r.addr /\ c.len = r.len /\ c.slot = r.slot /\ c.used = r.used /\ c.kind = kind
        /\ c.avail = r.len
    BY <2>1 DEF RegionSet
  <2>3. c \in RegionSet
    <3>1. kind \in Kinds /\ r.len \in Nat
      BY RegionFields DEF Kinds
    <3> QED BY <2>1, <3>1 DEF RegionSet
  <2>4. Taken(r, l) = {} /\ Taken(c, l) = Taken(r, l)
    BY <1>1, <2>2 DEF Accounted, Taken, Area
  <2>5. \A b \in l : ~Contained(c, b)
    BY <2>3, <2>4, NothingTaken
  <2>6. Cardinality(Taken(c, l)) = 0
    BY <2>3, <2>4, TakenType
  <2> HIDE DEF c
  <2>7. Accounted(c, l)
    BY <1>1, <2>2, <2>4, <2>5, <2>6, RegionFields DEF Accounted
  <2> QED BY <2>2, <2>3, <2>7 DEF c
<1>2. CASE ~(r.len >= len /\ r.kind = "general")
  <2>1. c = r
    BY <1>2 DEF Converted
  <2> QED BY <2>1
<1> QED BY <1>1, <1>2

\* A region that serves a request gives a block of its own bytes that no one
\* holds, and says so.
LEMMA ServedAccounted ==
    ASSUME SecureTypeOK, NEW r \in RegionSet, Placed(r), Accounted(r, live), NEW n \in Powers,
           NEW kind \in {"runtime", "application"}, r.kind = kind, r.avail >= n, NEW b \in Blocks(r, n)
    PROVE  /\ b \in BlockSet /\ Contained(r, b) /\ Area(b) \cap BytesIn(live) = {}
           /\ Served(r, kind, b) \in RegionSet /\ Served(r, kind, b).addr = r.addr
           /\ Served(r, kind, b).len = r.len /\ Served(r, kind, b).slot = r.slot
           /\ Accounted(Served(r, kind, b), live \cup {b})
<1>s. PICK s : s = Served(r, kind, b)
  OBVIOUS
<1>0. /\ r.addr \in Nat /\ r.len \in Nat \ {0} /\ r.len \in Powers /\ r.avail \in Nat /\ n \in Nat \ {0}
      /\ r.avail = r.len - Cardinality(Taken(r, live)) /\ r.addr % r.len = 0
      /\ live \subseteq BlockSet
  BY RegionFields, PowerType DEF Accounted, Placed, Protectable, SecureTypeOK
<1>1. /\ IsFiniteSet(Taken(r, live)) /\ Cardinality(Taken(r, live)) \in Nat
      /\ (Cardinality(Taken(r, live)) = 0 <=> Taken(r, live) = {})
  BY TakenType
<1>2. /\ s.addr = r.addr /\ s.len = r.len /\ s.slot = r.slot /\ s.used = TRUE /\ s.kind = kind
      /\ s.avail = IF kind = "runtime" THEN 0 ELSE r.avail - b.len
      /\ s.avail \in Nat => s \in RegionSet
  BY <1>s DEF RegionSet, Served
<1>3. ASSUME b \in BlockSet, Area(b) \subseteq Area(r), Area(b) \cap BytesIn(live) = {}
      PROVE  /\ Taken(s, live \cup {b}) = Taken(r, live) \cup Area(b)
             /\ Taken(s, live \cup {b}) # {}
             /\ Cardinality(Taken(s, live \cup {b})) = Cardinality(Taken(r, live)) + b.len
  <2>1. Area(s) = Area(r)
    BY <1>2 DEF Area
  <2>2. Taken(s, live \cup {b}) = Taken(r, live) \cup Area(b)
    BY <2>1, <1>3, BytesAdded DEF Taken
  <2>3. Taken(r, live) \cap Area(b) = {}
    BY <1>3 DEF Taken
  <2>4. IsFiniteSet(Area(b)) /\ Cardinality(Area(b)) = b.len /\ b.addr \in Area(b)
    BY <1>3, BlockFields, AreaBytes
  <2>5. Cardinality(Taken(r, live) \cup Area(b)) = Cardinality(Taken(r, live)) + b.len - Cardinality({})
    BY <2>3, <2>4, <1>1, FS_Union
  <2>6. Cardinality({}) = 0 /\ b.len \in Nat
    BY <1>3, FS_EmptySet, BlockFields
  <2>7. Cardinality(Taken(r, live) \cup Area(b)) = Cardinality(Taken(r, live)) + b.len
    BY <2>5, <2>6, <1>1
  <2> QED BY <2>2, <2>4, <2>7
<1>4. CASE kind = "runtime"
  <2>1. Taken(r, live) = {}
    <3>1. Cardinality(Area(r)) = r.len
      BY <1>0, AreaBytes
    <3>2. Taken(r, live) # Area(r)
      BY <3>1, <1>0
    <3> QED BY <3>2, <1>4 DEF Accounted
  <2>2. r.avail = r.len
    BY <2>1, <1>0, <1>1
  <2>3. b = [addr |-> r.addr, len |-> r.len]
    BY <2>2, <1>4 DEF Blocks
  <2>4. b \in BlockSet /\ b.addr = r.addr /\ b.len = r.len
    BY <2>3, <1>0 DEF BlockSet
  <2>5. Contained(r, b) /\ Area(b) = Area(r)
    BY <2>4, <1>0 DEF Contained, Area
  <2>6. Area(b) \cap BytesIn(live) = {}
    BY <2>1, <2>5 DEF Taken
  <2>7. Taken(s, live \cup {b}) = Area(s) /\ Cardinality(Taken(s, live \cup {b})) = s.len /\ Area(s) # {}
    <3>1. /\ Taken(s, live \cup {b}) = Taken(r, live) \cup Area(b) /\ Taken(s, live \cup {b}) # {}
          /\ Cardinality(Taken(s, live \cup {b})) = Cardinality(Taken(r, live)) + b.len
      BY <2>4, <2>5, <2>6, <1>3
    <3>2. Area(s) = Area(r) /\ Cardinality(Taken(r, live)) = 0
      BY <2>1, <1>1, <1>2 DEF Area
    <3> QED BY <3>1, <3>2, <2>1, <2>4, <2>5, <1>0, <1>2
  <2>8. \A c \in live \cup {b} : Contained(s, c) => c.len = s.len
    <3>1. \A c \in live : Contained(r, c) => c.len = r.len
      BY <1>4 DEF Accounted
    <3> QED BY <3>1, <2>4, <1>2 DEF Contained
  <2>9. Accounted(s, live \cup {b})
    <3>1. s.avail = s.len - Cardinality(Taken(s, live \cup {b})) /\ s.kind = "runtime"
      BY <2>7, <1>0, <1>2, <1>4
    <3> QED BY <3>1, <2>7, <2>8, <1>2 DEF Accounted
  <2> QED BY <2>4, <2>5, <2>6, <2>9, <1>2, <1>4, <1>s
<1>5. CASE kind = "application"
  <2>1. /\ b = [addr |-> b.addr, len |-> n] /\ b.addr \in Area(r) /\ b.addr % n = 0
        /\ Area(b) \cap BytesIn(live) = {}
    BY <1>5 DEF Blocks
  <2>2. b.len = n /\ b.addr \in Nat /\ b.addr >= r.addr /\ b.addr < r.addr + r.len
    BY <2>1, <1>0 DEF Area
  <2>3. b \in BlockSet
    BY <2>1, <2>2 DEF BlockSet
  <2>4. b.addr + n <= r.addr + r.len
    <3>1. r.len % n = 0
      <4>1. n <= r.len
        BY <1>0, <1>1
      <4> QED BY <4>1, <1>0, PowersDivide
    <3> QED BY <3>1, <2>1, <2>2, <1>0, BlockFits
  <2>5. Contained(r, b) /\ Area(b) \subseteq Area(r)
    <3>1. Contained(r, b)
      BY <2>2, <2>4 DEF Contained
    <3> QED BY <3>1, <2>3, ContainedArea
  <2>6. s.avail = r.avail - n /\ s.avail \in Nat
    BY <2>2, <1>0, <1>2, <1>5
  <2>7. /\ Taken(s, live \cup {b}) # {}
        /\ Cardinality(Taken(s, live \cup {b})) = Cardinality(Taken(r, live)) + n
    BY <2>1, <2>2, <2>3, <2>5, <1>3
  <2>8. s.avail = s.len - Cardinality(Taken(s, live \cup {b}))
    BY <2>6, <2>7, <1>0, <1>1, <1>2
  <2>9. Accounted(s, live \cup {b})
    BY <2>7, <2>8, <1>2, <1>5 DEF Accounted
  <2> QED BY <2>1, <2>3, <2>5, <2>6, <2>9, <1>2, <1>s
<1> QED BY <1>4, <1>5

\* A region that gets a block back says so, and is general again when it was
\* the last one.
LEMMA FreedAccounted ==
    ASSUME NEW r \in RegionSet, NEW l, l \subseteq BlockSet, Accounted(r, l), NEW b \in l, Contained(r, b),
           \A c \in l : c # b => Area(c) \cap Area(b) = {}
    PROVE  /\ Freed(r, b) \in RegionSet
           /\ Freed(r, b).addr = r.addr /\ Freed(r, b).len = r.len /\ Freed(r, b).slot = r.slot
           /\ Accounted(Freed(r, b), l \ {b})
<1> DEFINE avail == IF r.kind = "runtime" THEN NextPowerOfTwo(b.len) ELSE r.avail + NextPowerOfTwo(b.len)
           s == Freed(r, b)
           t == Taken(r, l \ {b})
<1>0. /\ r.addr \in Nat /\ r.len \in Nat \ {0} /\ r.avail \in Nat /\ r.used \in BOOLEAN /\ r.kind \in Kinds
      /\ b.addr \in Nat /\ b.len \in Nat \ {0} /\ NextPowerOfTwo(b.len) = b.len
  BY RegionFields, BlockFields, NextPowerSame
<1>1. /\ Area(b) \subseteq Area(r) /\ b.addr \in Area(b) /\ IsFiniteSet(Area(b)) /\ Cardinality(Area(b)) = b.len
      /\ Area(b) \subseteq Taken(r, l)
  <2>1. Area(b) \subseteq Area(r) /\ b.addr \in Area(b) /\ IsFiniteSet(Area(b)) /\ Cardinality(Area(b)) = b.len
    BY <1>0, ContainedArea, AreaBytes
  <2> QED BY <2>1 DEF Taken, BytesIn
<1>2. r.used /\ r.kind # "general"
  BY <1>1 DEF Accounted
<1>3. t = Taken(r, l) \ Area(b)
  BY BytesRemoved DEF Taken
<1>4. /\ IsFiniteSet(Taken(r, l)) /\ Cardinality(Taken(r, l)) \in Nat
      /\ Cardinality(t) \in Nat /\ (Cardinality(t) = 0 <=> t = {})
  BY TakenType
<1>5. Cardinality(t) = Cardinality(Taken(r, l)) - b.len
  <2>1. Taken(r, l) \cap Area(b) = Area(b)
    BY <1>1
  <2> QED BY <2>1, <1>1, <1>3, <1>4, FS_Difference
<1>6. avail = r.len - Cardinality(t) /\ (r.kind = "runtime" => t = {})
  <2>1. CASE r.kind = "runtime"
    <3>1. b.len = r.len
      BY <2>1 DEF Accounted
    <3>2. Area(b) = Area(r)
      <4>1. b.addr = r.addr
        BY <3>1, <1>0 DEF Contained
      <4> QED BY <3>1, <4>1 DEF Area
    <3>3. t = {}
      BY <3>2, <1>3 DEF Taken
    <3>4. avail = r.len /\ Cardinality(t) = 0
      BY <3>1, <3>3, <2>1, <1>0, <1>4
    <3> HIDE DEF avail, t
    <3> QED BY <3>3, <3>4, <1>0
  <2>2. CASE r.kind # "runtime"
    <3>1. r.avail = r.len - Cardinality(Taken(r, l))
      BY <1>2 DEF Accounted
    <3> QED BY <3>1, <2>2, <1>0, <1>4, <1>5
  <2> QED BY <2>1, <2>2
<1> HIDE DEF t
<1>7. CASE avail = r.len
  <2>1. s = [r EXCEPT !.used = FALSE, !.kind = "general", !.avail = 0]
    BY <1>7 DEF Freed
  <2>2. /\ s.addr = r.addr /\ s.len = r.len /\ s.slot = r.slot /\ s.used = FALSE /\ s.kind = "general"
        /\ s \in RegionSet
    <3>1. "general" \in Kinds /\ 0 \in Nat
      BY DEF Kinds
    <3> QED BY <2>1, <3>1 DEF RegionSet
  <2>3. t = {}
    BY <1>0, <1>4, <1>6, <1>7
  <2>4. Taken(s, l \ {b}) = t
    BY <2>2 DEF t, Taken, Area
  <2>5. Accounted(s, l \ {b})
    BY <2>2, <2>3, <2>4 DEF Accounted
  <2> QED BY <2>2, <2>5
<1>8. CASE avail # r.len
  <2>1. s = [r EXCEPT !.avail = avail]
    BY <1>8 DEF Freed
  <2>2. avail \in Nat
    BY <1>0
  <2> HIDE DEF avail
  <2>3. /\ s.addr = r.addr /\ s.len = r.len /\ s.slot = r.slot /\ s.used = r.used /\ s.kind = r.kind
        /\ s.avail = avail /\ s \in RegionSet
    BY <2>1, <2>2 DEF RegionSet
  <2>4. t # {} /\ r.kind # "runtime"
    BY <1>0, <1>4, <1>6, <1>8
  <2>5. Taken(s, l \ {b}) = t
    BY <2>3 DEF t, Taken, Area
  <2>6. Accounted(s, l \ {b})
    BY <2>3, <2>4, <2>5, <1>2, <1>6 DEF Accounted
  <2> QED BY <2>3, <2>6
<1> QED BY <1>7, <1>8

\* Every region is one.
LEMMA RegionTypes ==
    ASSUME SecureTypeOK
    PROVE  /\ DOMAIN regions = 1 .. Len(regions) /\ Len(regions) \in Nat
           /\ \A i \in DOMAIN regions : regions[i] \in RegionSet
           /\ live \subseteq BlockSet
  BY DEF SecureTypeOK

\* A block that lies in one region takes nothing of another one.
LEMMA BlockElsewhere ==
    ASSUME SecureTypeOK, RegionsApart, NEW i \in DOMAIN regions, NEW j \in DOMAIN regions, i # j,
           NEW b \in BlockSet, Contained(regions[i], b)
    PROVE  Area(regions[j]) \cap Area(b) = {}
<1>1. regions[i] \in RegionSet
  BY RegionTypes
<1>2. Area(b) \subseteq Area(regions[i])
  BY <1>1, ContainedArea
<1>3. Area(regions[i]) \cap Area(regions[j]) = {}
  BY DEF RegionsApart
<1> QED BY <1>2, <1>3

\* Regions that stay where they are, behind their slots, stay placed and apart.
LEMMA StayPlaced ==
    ASSUME SecureTypeOK, RegionsPlaced, RegionsApart, SlotsKept, DOMAIN regions' = DOMAIN regions,
           Len(regions') = Len(regions), pmpSlots' = pmpSlots,
           \A i \in DOMAIN regions : /\ regions'[i].addr = regions[i].addr /\ regions'[i].len = regions[i].len
                                     /\ regions'[i].slot = regions[i].slot
    PROVE  /\ RegionsPlaced' /\ RegionsApart' /\ SlotsKept'
           /\ \A i \in DOMAIN regions : Area(regions'[i]) = Area(regions[i])
           /\ \A i \in DOMAIN regions : \A b : Contained(regions'[i], b) <=> Contained(regions[i], b)
<1>1. \A i \in DOMAIN regions : Area(regions'[i]) = Area(regions[i])
  BY DEF Area
<1>2. \A i \in DOMAIN regions : \A b : Contained(regions'[i], b) <=> Contained(regions[i], b)
  BY DEF Contained
<1>3. RegionsPlaced'
  BY DEF RegionsPlaced, Placed
<1>4. RegionsApart'
  BY <1>1 DEF RegionsApart
<1>5. {regions'[i].slot : i \in DOMAIN regions'} = {regions[i].slot : i \in DOMAIN regions}
  OBVIOUS
<1>6. SlotsKept'
  BY <1>5 DEF SlotsKept, SlotsAreOwn
<1> QED BY <1>1, <1>2, <1>3, <1>4, <1>6

\* The invariant holds at the start.
LEMMA SecureInvInit == SecureInit => SecureInv
<1> SUFFICES ASSUME SecureInit PROVE SecureInv
  OBVIOUS
<1>1. /\ pmpSlots = {} /\ reserved = <<>> /\ regions = <<>> /\ curIdx = 0 /\ live = {} /\ secrets = {}
      /\ DOMAIN regions = {} /\ Len(regions) = 0 /\ Capacity >= 0
  BY SecureAssumption DEF SecureInit, Capacity
<1>2. SecureTypeOK
  BY <1>1 DEF SecureTypeOK
<1>3. SlotsKept
  BY <1>1 DEF SlotsKept, SlotsAreOwn
<1> QED BY <1>1, <1>2, <1>3
        DEF SecureInv, RegionsPlaced, RegionsApart, BlocksApart, BlocksHoused, RegionsAccounted, NoDataIsLeft

\* Data of an enclave stays where enclaves have memory.
LEMMA UseKeeps ==
    ASSUME SecureInv, Use
    PROVE  SecureInv'
<1>1. PICK b \in live : secrets' = secrets \cup Area(b)
  BY DEF Use
<1>2. UNCHANGED <<pmpSlots, reserved, regions, curIdx, live>>
  BY DEF Use
<1>3. NoDataIsLeft'
  BY <1>1, <1>2 DEF SecureInv, NoDataIsLeft, BytesIn
<1> QED BY <1>2, <1>3 DEF SecureInv, SecureTypeOK, RegionsPlaced, RegionsApart, SlotsKept,
        SlotsAreOwn, BlocksApart, BlocksHoused, RegionsAccounted

\* Taking a block back keeps the invariant.
LEMMA FreeKeeps ==
    ASSUME SecureInv, FreeEm
    PROVE  SecureInv'
<1>t. /\ SecureTypeOK /\ RegionsPlaced /\ RegionsApart /\ SlotsKept /\ BlocksApart /\ BlocksHoused
      /\ RegionsAccounted /\ NoDataIsLeft
  BY DEF SecureInv
<1>0. /\ DOMAIN regions = 1 .. Len(regions) /\ Len(regions) \in Nat /\ live \subseteq BlockSet
      /\ \A i \in DOMAIN regions : regions[i] \in RegionSet
  BY <1>t, RegionTypes
<1>1. PICK b \in live, i \in DOMAIN regions :
        /\ Contained(regions[i], b)
        /\ secrets' = secrets \ Area(b)
        /\ regions' = [regions EXCEPT ![i] = Freed(@, b)]
        /\ live' = live \ {b}
  BY DEF FreeEm, Cleaned
<1>2. pmpSlots' = pmpSlots /\ curIdx' = curIdx /\ reserved' = reserved
  BY DEF FreeEm
<1>3. \A c \in live : c # b => Area(c) \cap Area(b) = {}
  BY <1>t DEF BlocksApart
<1> DEFINE r == regions[i]
<1>4. r \in RegionSet /\ Accounted(r, live)
  BY <1>0, <1>t DEF RegionsAccounted
<1>5. /\ Freed(r, b) \in RegionSet
      /\ Freed(r, b).addr = r.addr /\ Freed(r, b).len = r.len /\ Freed(r, b).slot = r.slot
      /\ Accounted(Freed(r, b), live')
  <2> HIDE DEF r
  <2>1. Contained(r, b)
    BY <1>1 DEF r
  <2> QED BY <2>1, <1>0, <1>1, <1>3, <1>4, FreedAccounted
<1>6. /\ DOMAIN regions' = DOMAIN regions /\ Len(regions') = Len(regions) /\ regions' \in Seq(RegionSet)
      /\ regions'[i] = Freed(r, b) /\ \A j \in DOMAIN regions : j # i => regions'[j] = regions[j]
  BY <1>0, <1>1, <1>5, <1>t DEF SecureTypeOK
<1>7. SecureTypeOK'
  BY <1>0, <1>1, <1>2, <1>6, <1>t DEF SecureTypeOK
<1>8. /\ RegionsPlaced' /\ RegionsApart' /\ SlotsKept'
      /\ \A j \in DOMAIN regions : \A c : Contained(regions'[j], c) <=> Contained(regions[j], c)
  <2>1. \A j \in DOMAIN regions : /\ regions'[j].addr = regions[j].addr /\ regions'[j].len = regions[j].len
                                  /\ regions'[j].slot = regions[j].slot
    BY <1>5, <1>6
  <2> QED BY <2>1, <1>2, <1>6, <1>t, StayPlaced
<1>9. BlocksApart' /\ BlocksHoused'
  BY <1>1, <1>6, <1>8, <1>t DEF BlocksApart, BlocksHoused
<1>10. RegionsAccounted'
  <2> SUFFICES ASSUME NEW j \in DOMAIN regions PROVE Accounted(regions'[j], live')
    BY <1>6 DEF RegionsAccounted
  <2>1. CASE j = i
    BY <2>1, <1>5, <1>6
  <2>2. CASE j # i
    <3>1. regions'[j] = regions[j] /\ regions[j] \in RegionSet /\ Accounted(regions[j], live)
      BY <2>2, <1>0, <1>6, <1>t DEF RegionsAccounted
    <3>2. Area(regions[j]) \cap Area(b) = {}
      BY <2>2, <1>0, <1>1, <1>t, BlockElsewhere
    <3>3. Accounted(regions[j], live \ {b})
      BY <3>1, <3>2, ElsewhereRemoved
    <3> QED BY <3>1, <3>3, <1>1
  <2> QED BY <2>1, <2>2
<1>11. NoDataIsLeft'
  <2>1. BytesIn(live \ {b}) = BytesIn(live) \ Area(b)
    BY <1>3, BytesRemoved
  <2> QED BY <2>1, <1>1, <1>t DEF NoDataIsLeft
<1> QED BY <1>7, <1>8, <1>9, <1>10, <1>11 DEF SecureInv

\* An interval from 1 tells its end.
LEMMA SameLength ==
    ASSUME NEW a \in Nat, NEW c \in Nat, 1 .. a = 1 .. c
    PROVE  a = c
<1>1. a = 0 \/ a \in 1 .. c
  OBVIOUS
<1>2. c = 0 \/ c \in 1 .. a
  OBVIOUS
<1> QED BY <1>1, <1>2

\* The regions as alloc_em converts them.
LEMMA AllConverted ==
    ASSUME SecureInv, NEW len \in Nat, NEW kind \in {"runtime", "application"},
           NEW all, all = [i \in DOMAIN regions |-> Converted(regions[i], len, kind)]
    PROVE  \A i \in DOMAIN regions :
              /\ all[i] \in RegionSet /\ Accounted(all[i], live) /\ Placed(all[i])
              /\ all[i].addr = regions[i].addr /\ all[i].len = regions[i].len /\ all[i].slot = regions[i].slot
<1>t. SecureTypeOK /\ RegionsPlaced /\ RegionsAccounted
  BY DEF SecureInv
<1> SUFFICES ASSUME NEW i \in DOMAIN regions
             PROVE  /\ all[i] \in RegionSet /\ Accounted(all[i], live) /\ Placed(all[i])
                    /\ all[i].addr = regions[i].addr /\ all[i].len = regions[i].len
                    /\ all[i].slot = regions[i].slot
  OBVIOUS
<1>1. regions[i] \in RegionSet /\ Accounted(regions[i], live) /\ Placed(regions[i]) /\ live \subseteq BlockSet
  BY <1>t, RegionTypes DEF RegionsAccounted, RegionsPlaced
<1>2. all[i] = Converted(regions[i], len, kind)
  OBVIOUS
<1>3. /\ all[i] \in RegionSet /\ Accounted(all[i], live)
      /\ all[i].addr = regions[i].addr /\ all[i].len = regions[i].len /\ all[i].slot = regions[i].slot
  BY <1>1, <1>2, ConvertedAccounted
<1>4. Placed(all[i])
  BY <1>1, <1>3 DEF Placed
<1> QED BY <1>3, <1>4

\* Allocating keeps the invariant.
LEMMA AllocKeeps ==
    ASSUME SecureInv, AllocEm
    PROVE  SecureInv'
<1>t. /\ SecureTypeOK /\ RegionsPlaced /\ RegionsApart /\ SlotsKept /\ BlocksApart /\ BlocksHoused
      /\ RegionsAccounted /\ NoDataIsLeft
  BY DEF SecureInv
<1>0. /\ DOMAIN regions = 1 .. Len(regions) /\ Len(regions) \in Nat /\ live \subseteq BlockSet
      /\ \A i \in DOMAIN regions : regions[i] \in RegionSet /\ Accounted(regions[i], live)
  BY <1>t, RegionTypes DEF RegionsAccounted
<1>1. pmpSlots' = pmpSlots /\ curIdx' = curIdx /\ reserved' = reserved /\ secrets' = secrets
  BY DEF AllocEm
<1>2. PICK len \in 1 .. SmallestArea * 2, kind \in {"runtime", "application"} :
        LET all == [i \in DOMAIN regions |-> Converted(regions[i], len, kind)]
            hits == {i \in DOMAIN regions : Serves(all[i], len, kind)}
        IN  \/ /\ hits = {}
               /\ regions' = all
               /\ UNCHANGED live
            \/ \E i \in hits, b \in UNION {Blocks(all[j], NextPowerOfTwo(len)) : j \in hits} :
                /\ \A j \in hits : i <= j
                /\ b \in Blocks(all[i], NextPowerOfTwo(len))
                /\ regions' = [j \in DOMAIN regions |->
                                    CASE j < i -> all[j]
                                      [] j = i -> Served(all[j], kind, b)
                                      [] OTHER -> regions[j]]
                /\ live' = live \cup {b}
  BY DEF AllocEm
<1> DEFINE all == [i \in DOMAIN regions |-> Converted(regions[i], len, kind)]
           Granted(i, b) ==
              /\ Serves(all[i], len, kind) /\ b \in Blocks(all[i], NextPowerOfTwo(len))
              /\ regions' = [j \in DOMAIN regions |->
                                CASE j < i -> all[j]
                                  [] j = i -> Served(all[j], kind, b)
                                  [] OTHER -> regions[j]]
              /\ live' = live \cup {b}
<1>9. \/ regions' = all /\ live' = live
      \/ \E i \in DOMAIN regions : \E b : Granted(i, b)
  BY <1>2, Zenon
<1>3. all = [i \in DOMAIN regions |-> Converted(regions[i], len, kind)]
  OBVIOUS
<1> HIDE DEF all
<1>4. len \in Nat /\ len <= 2 * SmallestArea
  BY SecureAssumption
<1>5. \A i \in DOMAIN regions :
        /\ all[i] \in RegionSet /\ Accounted(all[i], live) /\ Placed(all[i])
        /\ all[i].addr = regions[i].addr /\ all[i].len = regions[i].len /\ all[i].slot = regions[i].slot
  BY <1>3, <1>4, AllConverted
<1>6. ASSUME regions' \in [DOMAIN regions -> RegionSet],
             \A i \in DOMAIN regions : /\ regions'[i].addr = regions[i].addr
                                       /\ regions'[i].len = regions[i].len /\ regions'[i].slot = regions[i].slot
      PROVE  /\ Len(regions') = Len(regions) /\ regions' \in Seq(RegionSet)
             /\ RegionsPlaced' /\ RegionsApart' /\ SlotsKept'
             /\ \A i \in DOMAIN regions : Area(regions'[i]) = Area(regions[i])
             /\ \A i \in DOMAIN regions : \A b : Contained(regions'[i], b) <=> Contained(regions[i], b)
  <2>1. regions' \in Seq(RegionSet) /\ Len(regions') = Len(regions)
    <3>1. regions' \in [1 .. Len(regions) -> RegionSet]
      BY <1>0, <1>6
    <3>2. regions' \in Seq(RegionSet)
      BY <3>1, <1>0, SeqDef
    <3>3. Len(regions') \in Nat /\ DOMAIN regions' = 1 .. Len(regions') /\ DOMAIN regions' = 1 .. Len(regions)
      BY <3>1, <3>2
    <3> QED BY <3>2, <3>3, <1>0, SameLength
  <2>2. DOMAIN regions' = DOMAIN regions
    BY <1>6
  <2> QED BY <2>1, <2>2, <1>1, <1>6, <1>t, StayPlaced
<1>7. CASE regions' = all /\ live' = live
  <2>1. /\ DOMAIN regions' = DOMAIN regions /\ regions' \in [DOMAIN regions -> RegionSet]
        /\ \A i \in DOMAIN regions : /\ regions'[i].addr = regions[i].addr
                                     /\ regions'[i].len = regions[i].len /\ regions'[i].slot = regions[i].slot
    BY <1>3, <1>5, <1>7
  <2>2. /\ Len(regions') = Len(regions) /\ regions' \in Seq(RegionSet)
        /\ RegionsPlaced' /\ RegionsApart' /\ SlotsKept'
        /\ \A i \in DOMAIN regions : \A b : Contained(regions'[i], b) <=> Contained(regions[i], b)
    BY <2>1, <1>6
  <2>3. SecureTypeOK'
    BY <2>2, <1>1, <1>7, <1>t DEF SecureTypeOK
  <2>4. BlocksApart' /\ BlocksHoused' /\ NoDataIsLeft'
    BY <2>1, <2>2, <1>1, <1>7, <1>t DEF BlocksApart, BlocksHoused, NoDataIsLeft
  <2>5. RegionsAccounted'
    BY <2>1, <1>5, <1>7 DEF RegionsAccounted
  <2> QED BY <2>2, <2>3, <2>4, <2>5 DEF SecureInv
<1>8. CASE \E i \in DOMAIN regions : \E b : Granted(i, b)
  <2>1. PICK i \in DOMAIN regions : \E b : Granted(i, b)
    BY <1>8
  <2>2. PICK b : Granted(i, b)
    BY <2>1
  <2>3. PICK r : r = all[i]
    OBVIOUS
  <2>4. PICK s : s = Served(r, kind, b)
    OBVIOUS
  <2>5. /\ DOMAIN regions' = DOMAIN regions /\ regions'[i] = s
        /\ \A j \in DOMAIN regions : j # i => regions'[j] = all[j] \/ regions'[j] = regions[j]
    <3>1. /\ DOMAIN regions' = DOMAIN regions
          /\ \A j \in DOMAIN regions : regions'[j] =
                CASE j < i -> all[j]
                  [] j = i -> Served(all[j], kind, b)
                  [] OTHER -> regions[j]
      BY <2>2
    <3>2. ~(i < i)
      BY <1>0
    <3>3. regions'[i] = Served(all[i], kind, b)
      BY <3>1, <3>2, Zenon
    <3>4. ASSUME NEW j \in DOMAIN regions, j # i PROVE regions'[j] = all[j] \/ regions'[j] = regions[j]
      <4>1. CASE j < i
        BY <3>1, <3>4, <4>1, Zenon
      <4>2. CASE ~(j < i)
        BY <3>1, <3>4, <4>2, Zenon
      <4> QED BY <4>1, <4>2
    <3> QED BY <3>1, <3>3, <3>4, <2>3, <2>4
  <2>6. /\ b \in BlockSet /\ Contained(r, b) /\ Area(b) \cap BytesIn(live) = {}
        /\ s \in RegionSet /\ s.addr = r.addr /\ s.len = r.len /\ s.slot = r.slot
        /\ Accounted(s, live \cup {b})
    <3>1. PICK n \in Powers : n = NextPowerOfTwo(len)
      BY <1>4, NextPower
    <3>2. r.kind = kind /\ r.avail >= n
      BY <3>1, <2>2, <2>3 DEF Serves
    <3>3. r \in RegionSet /\ Accounted(r, live) /\ Placed(r) /\ b \in Blocks(r, n)
      BY <3>1, <2>2, <2>3, <1>5
    <3>4. SecureTypeOK
      BY <1>t
    <3>5. /\ b \in BlockSet /\ Contained(r, b) /\ Area(b) \cap BytesIn(live) = {}
          /\ Served(r, kind, b) \in RegionSet /\ Served(r, kind, b).addr = r.addr
          /\ Served(r, kind, b).len = r.len /\ Served(r, kind, b).slot = r.slot
          /\ Accounted(Served(r, kind, b), live \cup {b})
      BY <3>2, <3>3, <3>4, ServedAccounted
    <3> QED BY <3>5, <2>4
  <2>7. /\ regions' \in [DOMAIN regions -> RegionSet]
        /\ \A j \in DOMAIN regions : /\ regions'[j].addr = regions[j].addr
                                     /\ regions'[j].len = regions[j].len /\ regions'[j].slot = regions[j].slot
    <3>1. \A j \in DOMAIN regions : /\ regions'[j] \in RegionSet /\ regions'[j].addr = regions[j].addr
                                    /\ regions'[j].len = regions[j].len /\ regions'[j].slot = regions[j].slot
      BY <2>3, <2>5, <2>6, <1>0, <1>5
    <3> DEFINE G(j) == CASE j < i -> all[j] [] j = i -> Served(all[j], kind, b) [] OTHER -> regions[j]
    <3>2. regions' = [j \in DOMAIN regions |-> G(j)]
      BY <2>2
    <3> HIDE DEF G
    <3>3. \A j \in DOMAIN regions : G(j) \in RegionSet
      BY <3>1, <3>2
    <3> QED BY <3>1, <3>2, <3>3
  <2>8. /\ Len(regions') = Len(regions) /\ regions' \in Seq(RegionSet)
        /\ RegionsPlaced' /\ RegionsApart' /\ SlotsKept'
        /\ \A j \in DOMAIN regions : Area(regions'[j]) = Area(regions[j])
        /\ \A j \in DOMAIN regions : \A c : Contained(regions'[j], c) <=> Contained(regions[j], c)
    BY <2>5, <2>7, <1>6
  <2>9. Contained(regions[i], b)
    BY <2>3, <2>6, <1>5 DEF Contained
  <2>10. SecureTypeOK'
    BY <2>2, <2>6, <2>8, <1>0, <1>1, <1>t DEF SecureTypeOK
  <2>11. BlocksApart'
    <3>1. \A c \in live : Area(b) \cap Area(c) = {}
      BY <2>6 DEF BytesIn
    <3> QED BY <3>1, <2>2, <1>t DEF BlocksApart
  <2>12. BlocksHoused'
    <3>1. \A c \in live' : \E j \in DOMAIN regions : Contained(regions[j], c)
      BY <2>2, <2>9, <1>t DEF BlocksHoused
    <3> QED BY <3>1, <2>5, <2>8 DEF BlocksHoused
  <2>13. NoDataIsLeft'
    BY <2>2, <1>1, <1>t, BytesAdded DEF NoDataIsLeft
  <2>14. RegionsAccounted'
    <3> SUFFICES ASSUME NEW j \in DOMAIN regions PROVE Accounted(regions'[j], live')
      BY <2>5 DEF RegionsAccounted
    <3>1. CASE j = i
      BY <3>1, <2>2, <2>5, <2>6
    <3>2. CASE j # i
      <4>1. PICK q : q = regions'[j]
        OBVIOUS
      <4>2. q \in RegionSet /\ Accounted(q, live)
        BY <4>1, <3>2, <2>5, <1>0, <1>5
      <4>3. Area(regions[j]) \cap Area(b) = {}
        BY <3>2, <2>6, <2>9, <1>t, BlockElsewhere
      <4>4. Area(q) \cap Area(b) = {}
        BY <4>1, <4>3, <2>8
      <4>5. Accounted(q, live \cup {b})
        BY <4>2, <4>4, <2>6, ElsewhereAdded
      <4> QED BY <4>1, <4>5, <2>2
    <3> QED BY <3>1, <3>2
  <2> QED BY <2>8, <2>10, <2>11, <2>12, <2>13, <2>14 DEF SecureInv
<1> QED BY <1>7, <1>8, <1>9

\* Where each region is after one is swap_removed.
LEMMA SwapRemoved ==
    ASSUME SecureTypeOK, NEW i \in DOMAIN regions, NEW s, s = SwapRemove(regions, i)
    PROVE  /\ s \in Seq(RegionSet) /\ DOMAIN s = 1 .. Len(regions) - 1 /\ Len(s) = Len(regions) - 1
           /\ \A j \in DOMAIN s : s[j] = regions[IF j = i THEN Len(regions) ELSE j]
<1>0. /\ DOMAIN regions = 1 .. Len(regions) /\ Len(regions) \in Nat
      /\ \A j \in DOMAIN regions : regions[j] \in RegionSet
  BY RegionTypes
<1>1. i \in 1 .. Len(regions) /\ Len(regions) - 1 \in Nat /\ Len(regions) \in DOMAIN regions
  BY <1>0
<1>2. /\ DOMAIN s = 1 .. Len(regions) - 1
      /\ \A j \in 1 .. Len(regions) - 1 : s[j] = IF j = i THEN regions[Len(regions)] ELSE regions[j]
  BY DEF SwapRemove
<1>3. s \in [1 .. Len(regions) - 1 -> RegionSet]
  <2>1. \A j \in 1 .. Len(regions) - 1 :
          (IF j = i THEN regions[Len(regions)] ELSE regions[j]) \in RegionSet
    BY <1>0, <1>1
  <2> QED BY <2>1 DEF SwapRemove
<1>4. s \in Seq(RegionSet)
  BY <1>1, <1>3, SeqDef
<1>5. Len(s) \in Nat /\ DOMAIN s = 1 .. Len(s)
  BY <1>4
<1>6. Len(s) = Len(regions) - 1
  BY <1>1, <1>2, <1>5, SameLength
<1> QED BY <1>2, <1>4, <1>6

\* Taking an unused region back keeps the invariant.
LEMMA ReclaimKeeps ==
    ASSUME SecureInv, Reclaim
    PROVE  SecureInv'
<1>t. /\ SecureTypeOK /\ RegionsPlaced /\ RegionsApart /\ SlotsKept /\ BlocksApart /\ BlocksHoused
      /\ RegionsAccounted /\ NoDataIsLeft
  BY DEF SecureInv
<1>0. /\ DOMAIN regions = 1 .. Len(regions) /\ Len(regions) \in Nat /\ live \subseteq BlockSet
      /\ \A i \in DOMAIN regions : regions[i] \in RegionSet
  BY <1>t, RegionTypes
<1>1. PICK i \in DOMAIN regions :
        /\ Unused(regions[i]) /\ regions' = SwapRemove(regions, i) /\ pmpSlots' = pmpSlots \ {regions[i].slot}
  BY DEF Reclaim
<1>2. curIdx' = curIdx /\ reserved' = reserved /\ live' = live /\ secrets' = secrets
  BY DEF Reclaim
<1> DEFINE At(j) == IF j = i THEN Len(regions) ELSE j
<1>3. /\ regions' \in Seq(RegionSet) /\ DOMAIN regions' = 1 .. Len(regions) - 1
      /\ Len(regions') = Len(regions) - 1
      /\ \A j \in DOMAIN regions' : regions'[j] = regions[At(j)]
  BY <1>1, <1>t, SwapRemoved
<1>4. \A j \in DOMAIN regions' : At(j) \in DOMAIN regions /\ At(j) # i
  BY <1>0, <1>3
<1>5. \A j, k \in DOMAIN regions' : j # k => At(j) # At(k)
  BY <1>0, <1>3
<1>6. \A m \in DOMAIN regions : m # i => \E j \in DOMAIN regions' : At(j) = m
  <2> SUFFICES ASSUME NEW m \in DOMAIN regions, m # i PROVE \E j \in DOMAIN regions' : At(j) = m
    OBVIOUS
  <2>1. CASE m = Len(regions)
    <3>1. i \in DOMAIN regions' /\ At(i) = m
      BY <2>1, <1>0, <1>3
    <3> QED BY <3>1
  <2>2. CASE m # Len(regions)
    <3>1. m \in DOMAIN regions' /\ At(m) = m
      BY <2>2, <1>0, <1>3
    <3> QED BY <3>1
  <2> QED BY <2>1, <2>2
<1> HIDE DEF At
<1>7. SecureTypeOK'
  BY <1>1, <1>2, <1>3, <1>t DEF SecureTypeOK
<1>8. RegionsPlaced'
  BY <1>3, <1>4, <1>t DEF RegionsPlaced
<1>9. RegionsApart'
  BY <1>3, <1>4, <1>5, <1>t DEF RegionsApart
<1>10. SlotsKept'
  <2>1. /\ \A j, k \in DOMAIN regions : j # k => regions[j].slot # regions[k].slot
        /\ pmpSlots = {regions[j].slot : j \in DOMAIN regions}
        /\ pmpSlots \subseteq 2 .. SlotCount - 2
        /\ Len(regions) <= Capacity
    BY <1>t DEF SlotsKept, SlotsAreOwn
  <2>2. \A j, k \in DOMAIN regions' : j # k => regions'[j].slot # regions'[k].slot
    BY <2>1, <1>3, <1>4, <1>5
  <2>3. pmpSlots' = {regions'[j].slot : j \in DOMAIN regions'}
    <3>1. ASSUME NEW x \in pmpSlots' PROVE x \in {regions'[j].slot : j \in DOMAIN regions'}
      <4>1. PICK m \in DOMAIN regions : x = regions[m].slot /\ m # i
        BY <3>1, <2>1, <1>1
      <4>2. PICK j \in DOMAIN regions' : At(j) = m
        BY <4>1, <1>6
      <4> QED BY <4>1, <4>2, <1>3
    <3>2. ASSUME NEW j \in DOMAIN regions' PROVE regions'[j].slot \in pmpSlots'
      BY <3>2, <2>1, <1>1, <1>3, <1>4
    <3> QED BY <3>1, <3>2
  <2>4. pmpSlots' \subseteq 2 .. SlotCount - 2
    BY <2>1, <1>1
  <2>5. Len(regions') <= Capacity
    BY <2>1, <1>0, <1>3, SecureAssumption DEF Capacity
  <2> QED BY <2>2, <2>3, <2>4, <2>5 DEF SlotsKept, SlotsAreOwn
<1>11. BlocksHoused'
  <2> SUFFICES ASSUME NEW b \in live PROVE \E j \in DOMAIN regions' : Contained(regions'[j], b)
    BY <1>2 DEF BlocksHoused
  <2>1. PICK m \in DOMAIN regions : Contained(regions[m], b)
    BY <1>t DEF BlocksHoused
  <2>2. m # i
    <3>1. Taken(regions[i], live) = {}
      BY <1>1, <1>t DEF RegionsAccounted, Accounted, Unused
    <3>2. ~Contained(regions[i], b)
      BY <3>1, <1>0, NothingTaken
    <3> QED BY <3>2, <2>1
  <2>3. PICK j \in DOMAIN regions' : At(j) = m
    BY <2>2, <1>6
  <2> QED BY <2>1, <2>3, <1>3
<1>12. BlocksApart' /\ NoDataIsLeft'
  BY <1>2, <1>t DEF BlocksApart, NoDataIsLeft
<1>13. RegionsAccounted'
  BY <1>2, <1>3, <1>4, <1>t DEF RegionsAccounted
<1> QED BY <1>7, <1>8, <1>9, <1>10, <1>11, <1>12, <1>13 DEF SecureInv

\* While there is room for a region there is a free slot before the last one, so
\* the lowest free slot is not the last one.
LEMMA LastSlotSpared ==
    ASSUME SecureTypeOK, SlotsKept, Len(regions) < Capacity
    PROVE  Min(FreeSlots) \in FreeSlots /\ Min(FreeSlots) # SlotCount - 1
<1> DEFINE mid == 2 .. SlotCount - 2
<1>0. SlotCount \in Nat /\ SlotCount >= 4 /\ Len(regions) \in Nat /\ DOMAIN regions = 1 .. Len(regions)
  BY SecureAssumption, RegionTypes
<1>1. Cardinality(pmpSlots) <= Len(regions)
  <2>1. pmpSlots = {regions[i].slot : i \in 1 .. Len(regions)}
    BY <1>0 DEF SlotsKept, SlotsAreOwn
  <2> DEFINE f == [i \in 1 .. Len(regions) |-> regions[i].slot]
  <2>2. f \in Surjection(1 .. Len(regions), pmpSlots)
    BY <2>1 DEF Surjection
  <2>3. ExistsSurjection(1 .. Len(regions), pmpSlots)
    BY <2>2 DEF ExistsSurjection
  <2> QED BY <2>3, <1>0, FS_SurjCardinalityBound
<1>2. IsFiniteSet(mid) /\ Cardinality(mid) = SlotCount - 3
  <2>1. 2 \in Int /\ SlotCount - 2 \in Int
    BY <1>0
  <2>2. IsFiniteSet(mid) /\ Cardinality(mid) = IF 2 > SlotCount - 2 THEN 0 ELSE (SlotCount - 2) - 2 + 1
    BY <2>1, FS_Interval
  <2> QED BY <2>2, <1>0
<1>3. IsFiniteSet(pmpSlots)
  <2>1. IsFiniteSet(0 .. SlotCount - 1)
    BY <1>0, FS_Interval
  <2>2. pmpSlots \subseteq 0 .. SlotCount - 1
    BY DEF SecureTypeOK, AllocMask
  <2> QED BY <2>1, <2>2, FS_Subset
<1>4. ~(mid \subseteq pmpSlots)
  <2> HIDE DEF mid
  <2> SUFFICES ASSUME mid \subseteq pmpSlots PROVE FALSE
    OBVIOUS
  <2>1. Cardinality(mid) <= Cardinality(pmpSlots) /\ Cardinality(pmpSlots) \in Nat
    BY <1>3, FS_Subset, FS_CardinalityType
  <2> QED BY <2>1, <1>0, <1>1, <1>2 DEF Capacity
<1>5. PICK x \in mid : x \notin pmpSlots
  BY <1>4
<1>6. x \in FreeSlots /\ x < SlotCount - 1 /\ FreeSlots \subseteq Nat
  BY <1>0, <1>5 DEF FreeSlots, AllocMask
<1>7. \E c \in FreeSlots : \A d \in FreeSlots : c <= d
  BY <1>6, LeastExists
<1>8. Min(FreeSlots) \in FreeSlots /\ \A d \in FreeSlots : Min(FreeSlots) <= d
  BY <1>7 DEF Min
<1>9. Min(FreeSlots) <= x /\ x \in Nat /\ Min(FreeSlots) \in Nat
  BY <1>6, <1>8
<1> QED BY <1>6, <1>8, <1>9, <1>0

\* Regions that do not overlap share no byte.
LEMMA NoOverlap ==
    ASSUME NEW r \in RegionSet, NEW q \in RegionSet, ~Overlap(r, q.addr, q.len)
    PROVE  Area(r) \cap Area(q) = {}
<1>1. r.addr \in Nat /\ r.len \in Nat /\ q.addr \in Nat /\ q.len \in Nat
  BY RegionFields
<1> QED BY <1>1 DEF Overlap, Area

\* A new region keeps the invariant.
LEMMA ExtendKeeps ==
    ASSUME SecureInv, Extend
    PROVE  SecureInv'
<1>t. /\ SecureTypeOK /\ RegionsPlaced /\ RegionsApart /\ SlotsKept /\ BlocksApart /\ BlocksHoused
      /\ RegionsAccounted /\ NoDataIsLeft
  BY DEF SecureInv
<1>0. /\ DOMAIN regions = 1 .. Len(regions) /\ Len(regions) \in Nat /\ live \subseteq BlockSet
      /\ regions \in Seq(RegionSet) /\ curIdx \in Nat /\ pmpSlots \subseteq AllocMask
      /\ \A i \in DOMAIN regions : regions[i] \in RegionSet
  BY <1>t, RegionTypes DEF SecureTypeOK
<1>1. PICK addr \in 1 .. MemoryEnd - 1, len \in Powers :
        /\ addr + len <= MemoryEnd /\ Protectable(addr, len)
        /\ \A i \in DOMAIN regions : ~Overlap(regions[i], addr, len)
        /\ pmpSlots' = pmpSlots \cup {Min(FreeSlots)}
        /\ regions' = Append(regions, [addr |-> addr, len |-> len, id |-> curIdx + 1, slot |-> Min(FreeSlots),
                                       used |-> FALSE, kind |-> "general", avail |-> 0])
  BY DEF Extend
<1>2. curIdx' = curIdx + 1 /\ reserved' = reserved /\ live' = live /\ secrets' = secrets /\ Len(regions) < Capacity
  BY DEF Extend
<1>3. PICK slot : slot = Min(FreeSlots)
  OBVIOUS
<1>4. slot \in AllocMask /\ slot \notin pmpSlots /\ slot # SlotCount - 1
  BY <1>2, <1>3, <1>t, LastSlotSpared DEF FreeSlots
<1>5. PICK q : q = [addr |-> addr, len |-> len, id |-> curIdx + 1, slot |-> slot,
                    used |-> FALSE, kind |-> "general", avail |-> 0]
  OBVIOUS
<1>6. /\ q \in RegionSet /\ q.addr = addr /\ q.len = len /\ q.slot = slot /\ q.used = FALSE
      /\ q.kind = "general"
  <2>1. addr \in Nat /\ curIdx + 1 \in Nat /\ "general" \in Kinds
    BY <1>0, SecureAssumption DEF Kinds
  <2> QED BY <2>1, <1>4, <1>5 DEF RegionSet
<1>7. regions' = Append(regions, q) /\ pmpSlots' = pmpSlots \cup {slot}
  BY <1>1, <1>3, <1>5
<1>8. PICK n \in Nat : n = Len(regions) + 1
  BY <1>0
<1>9. /\ regions' \in Seq(RegionSet) /\ Len(regions') = n /\ DOMAIN regions' = (DOMAIN regions) \cup {n}
      /\ n \notin DOMAIN regions /\ regions'[n] = q
      /\ \A i \in DOMAIN regions : regions'[i] = regions[i]
  BY <1>0, <1>6, <1>7, <1>8
<1>10. \A i \in DOMAIN regions : Area(regions[i]) \cap Area(q) = {}
  BY <1>0, <1>1, <1>6, NoOverlap
<1>11. SecureTypeOK'
  BY <1>0, <1>2, <1>4, <1>7, <1>9, <1>t DEF SecureTypeOK
<1>12. RegionsPlaced'
  <2>1. Placed(q)
    BY <1>1, <1>6, SecureAssumption DEF Placed
  <2> QED BY <2>1, <1>9, <1>t DEF RegionsPlaced
<1>13. RegionsApart'
  BY <1>9, <1>10, <1>t DEF RegionsApart
<1>14. SlotsKept'
  <2>1. /\ \A j, k \in DOMAIN regions : j # k => regions[j].slot # regions[k].slot
        /\ pmpSlots = {regions[j].slot : j \in DOMAIN regions}
        /\ pmpSlots \subseteq 2 .. SlotCount - 2
    BY <1>t DEF SlotsKept, SlotsAreOwn
  <2>2. \A j, k \in DOMAIN regions' : j # k => regions'[j].slot # regions'[k].slot
    BY <2>1, <1>4, <1>6, <1>9
  <2>3. pmpSlots' = {regions'[j].slot : j \in DOMAIN regions'}
    BY <2>1, <1>6, <1>7, <1>9
  <2>4. pmpSlots' \subseteq 2 .. SlotCount - 2
    BY <2>1, <1>4, <1>7, SecureAssumption DEF AllocMask
  <2>5. Len(regions') <= Capacity
    BY <1>0, <1>2, <1>8, <1>9, SecureAssumption DEF Capacity
  <2> QED BY <2>2, <2>3, <2>4, <2>5 DEF SlotsKept, SlotsAreOwn
<1>15. BlocksHoused'
  BY <1>2, <1>9, <1>t DEF BlocksHoused
<1>16. BlocksApart' /\ NoDataIsLeft'
  BY <1>2, <1>t DEF BlocksApart, NoDataIsLeft
<1>17. RegionsAccounted'
  <2>1. Taken(q, live) = {}
    <3>1. ASSUME NEW b \in live PROVE Area(q) \cap Area(b) = {}
      <4>1. PICK i \in DOMAIN regions : Contained(regions[i], b)
        BY <1>t DEF BlocksHoused
      <4>2. Area(b) \subseteq Area(regions[i])
        BY <4>1, <1>0, ContainedArea
      <4> QED BY <4>2, <1>10
    <3> QED BY <3>1 DEF Taken, BytesIn
  <2>2. Accounted(q, live)
    BY <2>1, <1>6 DEF Accounted
  <2> QED BY <2>2, <1>2, <1>9, <1>t DEF RegionsAccounted
<1> QED BY <1>11, <1>12, <1>13, <1>14, <1>15, <1>16, <1>17 DEF SecureInv

\* The reserved region is of no concern to the others.
LEMMA InitKeeps ==
    ASSUME SecureInv, InitManager
    PROVE  SecureInv'
<1>1. PICK addr \in 1 .. MemoryEnd - 1, len \in Powers :
        reserved' = Append(reserved, [addr |-> addr, len |-> len, id |-> curIdx, slot |-> SmSlot])
  BY DEF InitManager
<1>2. UNCHANGED <<pmpSlots, regions, live, secrets>> /\ curIdx' = curIdx + 1
  BY DEF InitManager
<1>3. addr \in Nat /\ curIdx \in Nat
  BY SecureAssumption DEF SecureInv, SecureTypeOK
<1>4. SecureTypeOK'
  BY <1>1, <1>2, <1>3 DEF SecureInv, SecureTypeOK
<1> QED BY <1>2, <1>4 DEF SecureInv, RegionsPlaced, RegionsApart, SlotsKept,
        SlotsAreOwn, BlocksApart, BlocksHoused, RegionsAccounted, NoDataIsLeft

\* deinit leaves nothing: data was in blocks, and blocks in regions.
LEMMA DeinitKeeps ==
    ASSUME SecureInv, Deinit
    PROVE  SecureInv'
<1>1. /\ pmpSlots' = {} /\ reserved' = <<>> /\ regions' = <<>> /\ curIdx' = 0 /\ live' = {}
      /\ secrets' = secrets \ Scrubbed
  BY DEF Deinit
<1>2. secrets \subseteq Scrubbed
  <2> SUFFICES ASSUME NEW x \in secrets PROVE x \in Scrubbed
    OBVIOUS
  <2>1. PICK b \in live : x \in Area(b)
    BY DEF SecureInv, NoDataIsLeft, BytesIn
  <2>2. PICK i \in DOMAIN regions : Contained(regions[i], b)
    BY DEF SecureInv, BlocksHoused
  <2>3. Area(b) \subseteq Area(regions[i])
    BY <2>2, RegionTypes, ContainedArea DEF SecureInv
  <2> QED BY <2>1, <2>3 DEF Scrubbed
<1>3. DOMAIN regions' = {} /\ Len(regions') = 0 /\ Capacity >= 0
  BY <1>1, SecureAssumption DEF Capacity
<1>4. SecureTypeOK'
  BY <1>1 DEF SecureTypeOK
<1>5. SlotsKept'
  BY <1>1, <1>3 DEF SlotsKept, SlotsAreOwn
<1> QED BY <1>1, <1>2, <1>3, <1>4, <1>5
        DEF SecureInv, RegionsPlaced, RegionsApart, BlocksApart, BlocksHoused, RegionsAccounted, NoDataIsLeft

\* Every step keeps the invariant.
LEMMA SecureInvNext == SecureInv /\ [SecureNext]_secureVars => SecureInv'
<1> SUFFICES ASSUME SecureInv, [SecureNext]_secureVars PROVE SecureInv'
  OBVIOUS
<1>1. CASE UNCHANGED secureVars
  BY <1>1 DEF secureVars, SecureInv, SecureTypeOK, RegionsPlaced, RegionsApart, SlotsKept,
        SlotsAreOwn, BlocksApart, BlocksHoused, RegionsAccounted, NoDataIsLeft
<1> QED BY <1>1, InitKeeps, DeinitKeeps, ExtendKeeps, ReclaimKeeps, AllocKeeps, UseKeeps, FreeKeeps DEF SecureNext

\* A region is in use exactly while a block lies in it.
LEMMA UsedMeansHoused ==
    ASSUME SecureInv, NEW i \in DOMAIN regions
    PROVE  regions[i].used <=> \E b \in live : Contained(regions[i], b)
<1>t. SecureTypeOK /\ RegionsApart /\ BlocksHoused /\ RegionsAccounted
  BY DEF SecureInv
<1>0. regions[i] \in RegionSet /\ live \subseteq BlockSet /\ \A j \in DOMAIN regions : regions[j] \in RegionSet
  BY <1>t, RegionTypes
<1>1. regions[i].used <=> Taken(regions[i], live) # {}
  BY <1>t DEF RegionsAccounted, Accounted
<1>2. ASSUME Taken(regions[i], live) # {} PROVE \E b \in live : Contained(regions[i], b)
  <2>1. PICK b \in live : Area(regions[i]) \cap Area(b) # {}
    BY <1>2 DEF Taken, BytesIn
  <2>2. PICK j \in DOMAIN regions : Contained(regions[j], b)
    BY <1>t DEF BlocksHoused
  <2>3. j = i
    BY <2>1, <2>2, <1>0, <1>t, BlockElsewhere
  <2> QED BY <2>2, <2>3
<1>3. ASSUME Taken(regions[i], live) = {} PROVE ~\E b \in live : Contained(regions[i], b)
  BY <1>0, <1>3, NothingTaken
<1> QED BY <1>1, <1>2, <1>3

\* The invariant gives the property.
LEMMA SecureInvApart == SecureInv => EnclavesAreApart
<1> SUFFICES ASSUME SecureInv PROVE EnclavesAreApart
  OBVIOUS
<1>t. /\ SecureTypeOK /\ RegionsPlaced /\ SlotsKept /\ BlocksApart /\ BlocksHoused /\ NoDataIsLeft
  BY DEF SecureInv
<1>1. UseIsTrue
  BY UsedMeansHoused DEF UseIsTrue
<1>2. SlotsAreOwn
  BY <1>t DEF SlotsKept
<1>3. BlocksAreProtected
  <2>1. ASSUME NEW b \in live
        PROVE  \E i \in DOMAIN regions : /\ Contained(regions[i], b) /\ regions[i].used
                                         /\ regions[i].slot \in pmpSlots
    <3>1. PICK i \in DOMAIN regions : Contained(regions[i], b)
      BY <1>t DEF BlocksHoused
    <3>2. regions[i].used
      BY <3>1, <1>1 DEF UseIsTrue
    <3>3. regions[i].slot \in pmpSlots
      BY <1>2 DEF SlotsAreOwn
    <3> QED BY <3>1, <3>2, <3>3
  <2> QED BY <2>1, <1>t DEF BlocksAreProtected, BlocksApart
<1>4. RegionsAreEncodable
  <2> SUFFICES ASSUME NEW i \in DOMAIN regions, NEW k,
                      k = CHOOSE n \in 0 .. AddressBits : 2^n = 4 * regions[i].len
               PROVE  DecodeNapot(EncodeNapot(4 * regions[i].addr, k)) = <<4 * regions[i].addr, k>>
    BY DEF RegionsAreEncodable
  <2>1. PICK addr, len : addr = regions[i].addr /\ len = regions[i].len
    OBVIOUS
  <2>2. /\ addr \in Nat /\ len \in Nat /\ len \in Powers /\ addr >= 1 /\ addr + len <= MemoryEnd
        /\ len >= 2 /\ addr % len = 0
    <3>1. regions[i] \in RegionSet /\ Placed(regions[i])
      BY <1>t, RegionTypes DEF RegionsPlaced
    <3> QED BY <3>1, <2>1, RegionFields, SecureAssumption DEF Placed, Protectable
  <2>3. PICK j \in 0 .. AddressBits : len = 2^j
    BY <2>2 DEF Powers
  <2>4. AddressBits \in Nat /\ MemoryEnd \in Nat /\ 4 * MemoryEnd <= 2^AddressBits /\ 4 * len < 4 * MemoryEnd
    BY <2>2, SecureAssumption
  <2>5. j >= 1
    <3>1. 2^0 = 1
      OBVIOUS
    <3>2. j # 0
      <4> SUFFICES ASSUME j = 0 PROVE FALSE
        OBVIOUS
      <4>1. len = 2^0
        BY <2>3, Zenon
      <4> QED BY <4>1, <3>1, <2>2
    <3> QED BY <3>2, <2>3, <2>4
  <2>6. j + 2 < AddressBits /\ 2^(j + 2) = 4 * len
    <3>1. 2^(j + 1) = 2 * len
      BY <2>3, PowerFacts
    <3>2. j # AddressBits
      BY <2>2, <2>3, <2>4
    <3>3. j + 1 \in 0 .. AddressBits
      BY <3>2, <2>3, <2>4
    <3>4. 2^((j + 1) + 1) = 2 * 2^(j + 1) /\ (j + 1) + 1 = j + 2
      BY <3>3, PowerFacts
    <3>5. 2^(j + 2) = 4 * len
      BY <3>1, <3>4, <2>2
    <3>6. j + 1 # AddressBits
      BY <3>1, <2>2, <2>4
    <3>7. j + 2 # AddressBits
      BY <3>5, <2>4
    <3> QED BY <3>3, <3>5, <3>6, <3>7, <2>4
  <2>7. k = j + 2
    <3>1. j + 2 \in 0 .. AddressBits
      BY <2>4, <2>6
    <3>2. ASSUME NEW n \in 0 .. AddressBits, 2^n = 2^(j + 2) PROVE n = j + 2
      <4>1. ASSUME NEW a \in 0 .. AddressBits, NEW c \in 0 .. AddressBits, a < c PROVE 2^a # 2^c
        <5>1. a + 1 \in 0 .. c
          BY <4>1, <2>4
        <5>2. 2^(a + 1) <= 2^c /\ 2^(a + 1) = 2 * 2^a /\ 2^a > 0
          BY <5>1, PowerFacts
        <5>3. 2^a \in Nat /\ 2^c \in Nat
          BY PowerType
        <5> QED BY <5>2, <5>3
      <4> QED BY <4>1, <3>1, <3>2, <2>4
    <3> QED BY <3>1, <3>2, <2>1, <2>6
  <2>8. DecodeNapot(EncodeNapot(4 * addr, j + 2)) = <<4 * addr, j + 2>>
    <3>1. j \in Nat /\ addr % 2^j = 0 /\ addr + 2^j <= MemoryEnd
      BY <2>2, <2>3, <2>4
    <3> QED BY <3>1, <2>2, <2>5, <2>6, RegionDecodes
  <2> QED BY <2>1, <2>7, <2>8
<1> QED BY <1>1, <1>2, <1>3, <1>4, <1>t DEF EnclavesAreApart

\* Enclaves are kept apart over any sequence of calls: in protected memory of
\* their own, behind slots of their own, encoded exactly, and without data of an
\* earlier enclave, for any number of slots and any memory.  (UniSecMemManager,
\* pmpm's encodings)
THEOREM EnclavesStayApart == SecureSpec => []EnclavesAreApart
<1>1. SecureSpec => []SecureInv
  BY SecureInvInit, SecureInvNext, PTL DEF SecureSpec
<1> QED BY <1>1, SecureInvApart, PTL


------------------------------------------------------------------------------
(* Counter numbers and CSR offsets. *)

\* mcycle, time and minstret are always implemented: there are at least three
\* hardware counters.
LEMMA ThreeFixed == HwNum \in Nat /\ HwNum >= 3
<1>1. Cardinality({0, 1, 2}) = 3
  <2>1. IsFiniteSet({0}) /\ Cardinality({0}) = 1
    BY FS_Singleton
  <2>2. IsFiniteSet({0} \cup {1}) /\ Cardinality({0} \cup {1}) = 2
    BY <2>1, FS_AddElement
  <2>3. Cardinality(({0} \cup {1}) \cup {2}) = 3
    BY <2>2, FS_AddElement
  <2>4. ({0} \cup {1}) \cup {2} = {0, 1, 2}
    OBVIOUS
  <2> QED
    BY <2>3, <2>4
<1>2. IsFiniteSet(Offsets) /\ {0, 1, 2} \in SUBSET Offsets
  BY CounterAssumption
<1>3. Cardinality({0, 1, 2}) <= Cardinality(Offsets) /\ Cardinality(Offsets) \in Nat
  BY <1>2, FS_Subset, FS_CardinalityType
<1> QED
  BY <1>1, <1>3 DEF HwNum

\* Hardware and firmware counters are numbered apart.
LEMMA CounterNumbers ==
    /\ Counters \subseteq Nat
    /\ HwCounters \cap FwCounters = {}
    /\ {0, 1, 2} \subseteq HwCounters
BY ThreeFixed, CounterAssumption DEF Counters, HwCounters, FwCounters

\* The offsets below one are finitely many, and it is the one after them.
LEMMA OffsetsBelow ==
    ASSUME NEW o \in Offsets, NEW q \in Nat, o < q, \A p \in Offsets : o < p => q <= p
    PROVE  /\ Cardinality({p \in Offsets : p < o}) \in Nat
           /\ Cardinality({p \in Offsets : p < q}) = Cardinality({p \in Offsets : p < o}) + 1
<1> DEFINE B == {p \in Offsets : p < o}
<1>1. Offsets \subseteq Nat /\ IsFiniteSet(Offsets)
  BY CounterAssumption
<1>2. IsFiniteSet(B) /\ Cardinality(B) \in Nat
  BY <1>1, FS_Subset, FS_CardinalityType
<1>a. o \in Nat /\ \A p \in Offsets : p \in Nat
  BY <1>1
<1>b. \A p \in Offsets : p < q <=> p < o \/ p = o
  BY <1>a
<1>3. {p \in Offsets : p < q} = B \cup {o}
  BY <1>b, Zenon
<1>4. o \notin B
  BY <1>a
<1> HIDE DEF B
<1>5. Cardinality(B \cup {o}) = Cardinality(B) + 1
  BY <1>2, <1>4, FS_AddElement
<1> QED
  BY <1>2, <1>3, <1>5 DEF B

\* An offset has more offsets below it than a lower one has.
LEMMA OffsetsAscend ==
    ASSUME NEW o \in Offsets, NEW q \in Offsets, o < q
    PROVE  Cardinality({p \in Offsets : p < o}) < Cardinality({p \in Offsets : p < q})
<1>1. Offsets \subseteq Nat /\ IsFiniteSet(Offsets)
  BY CounterAssumption
<1> DEFINE B == {p \in Offsets : p < o}  C == {p \in Offsets : p < q}
<1>2. IsFiniteSet(C) /\ Cardinality(C) \in Nat /\ Cardinality(B) \in Nat
  BY <1>1, FS_Subset, FS_CardinalityType
<1>a. o \in Nat /\ q \in Nat /\ \A p \in Offsets : p \in Nat
  BY <1>1
<1>b. ~(o < o) /\ \A p \in Offsets : p < o => p < q
  BY <1>a
<1>3. B \in SUBSET C /\ o \in C /\ o \notin B
  BY <1>b, Zenon
<1> HIDE DEF B, C
<1>4. Cardinality(B) <= Cardinality(C) /\ (Cardinality(C) = Cardinality(B) => C = B)
  BY <1>2, <1>3, FS_Subset
<1> QED
  BY <1>2, <1>3, <1>4 DEF B, C

\* Every counter number is that of an offset: by the least that is not.
LEMMA OffsetsComplete == \A c \in HwCounters : \E o \in Offsets : HasOffset(c, o)
<1> DEFINE S == {c \in HwCounters : \A o \in Offsets : ~HasOffset(c, o)}
<1> SUFFICES ASSUME S # {}  PROVE FALSE
  OBVIOUS
<1>1. Offsets \subseteq Nat /\ IsFiniteSet(Offsets) /\ 0 \in Offsets
  BY CounterAssumption
<1>2. HwNum \in Nat /\ HwCounters \subseteq Nat
  BY ThreeFixed DEF HwCounters
<1>3. PICK c \in S : \A d \in S : c <= d
  BY <1>2, LeastExists
<1>4. c \in Nat /\ c < HwNum /\ \A o \in Offsets : ~HasOffset(c, o)
  BY <1>2 DEF HwCounters
<1>5. c # 0
  <2>a. \A p \in Offsets : p \in Nat
    BY <1>1
  <2>b. \A p \in Offsets : ~(p < 0)
    BY <2>a
  <2>1. {p \in Offsets : p < 0} = {}
    BY <2>b, Zenon
  <2>2. HasOffset(0, 0)
    BY <2>1, FS_EmptySet DEF HasOffset
  <2> QED
    BY <1>1, <1>4, <2>2
<1>6. PICK o \in Offsets : HasOffset(c - 1, o)
  <2>1. c - 1 \in HwCounters /\ ~(c <= c - 1)
    BY <1>2, <1>4, <1>5 DEF HwCounters
  <2>2. c - 1 \notin S
    BY <1>3, <2>1
  <2> QED
    BY <2>1, <2>2
<1> HIDE DEF S
<1> DEFINE T == {p \in Offsets : o < p}
<1>7. CASE T = {}
  <2>a. o \in Nat /\ \A p \in Offsets : p \in Nat /\ ~(o < p)
    BY <1>1, <1>7
  <2>b. \A p \in Offsets : p < o + 1
    BY <2>a
  <2>1. Offsets = {p \in Offsets : p < o + 1}
    BY <2>b, Zenon
  <2>2. Cardinality({p \in Offsets : p < o + 1}) = Cardinality({p \in Offsets : p < o}) + 1
    BY <1>1, <1>7, OffsetsBelow
  <2>3. HwNum = c
    BY <1>4, <1>6, <2>1, <2>2 DEF HwNum, HasOffset
  <2> QED
    BY <1>4, <2>3
<1>8. CASE T # {}
  <2>1. PICK q \in T : \A p \in T : q <= p
    BY <1>1, <1>8, LeastExists
  <2>2. Cardinality({p \in Offsets : p < q}) = Cardinality({p \in Offsets : p < o}) + 1
    BY <1>1, <2>1, OffsetsBelow
  <2>3. HasOffset(c, q)
    BY <1>4, <1>6, <2>2 DEF HasOffset
  <2> QED
    BY <1>4, <2>3
<1> QED
  BY <1>7, <1>8

\* The offsets of the fixed counters are their numbers.
LEMMA FirstOffsets == \A o \in {0, 1, 2} : HasOffset(o, o) /\ \A p \in Offsets : HasOffset(o, p) => p = o
<1>1. Offsets \subseteq Nat /\ {0, 1, 2} \subseteq Offsets
  BY CounterAssumption
<1>2. HasOffset(0, 0)
  <2>a. \A p \in Offsets : p \in Nat
    BY <1>1
  <2>b. \A p \in Offsets : ~(p < 0)
    BY <2>a
  <2>1. {p \in Offsets : p < 0} = {}
    BY <2>b, Zenon
  <2> QED
    BY <2>1, FS_EmptySet DEF HasOffset
<1>3. HasOffset(1, 1)
  BY <1>1, <1>2, OffsetsBelow DEF HasOffset
<1>4. HasOffset(2, 2)
  BY <1>1, <1>3, OffsetsBelow DEF HasOffset
<1>5. \A o \in {0, 1, 2} : HasOffset(o, o)
  BY <1>2, <1>3, <1>4
<1>6. ASSUME NEW o \in {0, 1, 2}, NEW p \in Offsets, HasOffset(o, p)
      PROVE  p = o
  <2>1. p \in Nat /\ o \in Nat /\ o \in Offsets /\ HasOffset(o, o)
    BY <1>1, <1>5
  <2>2. ~(p < o)
    BY <1>6, <2>1, OffsetsAscend DEF HasOffset
  <2>3. ~(o < p)
    BY <1>6, <2>1, OffsetsAscend DEF HasOffset
  <2> QED
    BY <2>1, <2>2, <2>3
<1> QED
  BY <1>5, <1>6

\* get_mhpm_csr_offset answers for every hardware counter, with an implemented
\* CSR.
LEMMA OffsetsExist ==
    ASSUME NEW c \in HwCounters
    PROVE  Offset(c) \in Offsets /\ HasOffset(c, Offset(c))
<1>1. \E o \in Offsets : HasOffset(c, o)
  BY OffsetsComplete
<1> QED
  BY <1>1 DEF Offset, OffsetTable

\* Different hardware counters have different CSRs.
LEMMA OffsetsDiffer ==
    ASSUME NEW c \in HwCounters, NEW d \in HwCounters, Offset(c) = Offset(d)
    PROVE  c = d
BY OffsetsExist DEF HasOffset

\* The first three counters are mcycle, time and minstret.
LEMMA FixedOffsets ==
    ASSUME NEW c \in {0, 1, 2}
    PROVE  Offset(c) = c
BY OffsetsExist, CounterNumbers, FirstOffsets

\* CounterMask yields a lowest counter of every set that is not empty.
LEMMA LowestExists ==
    ASSUME NEW S, S \subseteq Counters, S # {}
    PROVE  Lowest(S) \in S
<1>1. S \subseteq Nat
  BY CounterNumbers
<1>2. \E c \in S : \A d \in S : c <= d
  BY <1>1, LeastExists
<1> QED
  BY <1>2 DEF Lowest

\* Every event has an index, and only raw events share one.
LEMMA IndexType ==
    ASSUME NEW e \in Events
    PROVE  /\ Index(e) \in EventIndices
           /\ Index(e) # NoEvent
           /\ e \in FwEvents => Index(e) = e
BY EventAssumption DEF Events, EventIndices, Index

------------------------------------------------------------------------------
(* The inductive invariant is the conjunction of the three invariants: a    *)
(* free counter is one without a grant only because grants are kept, and a  *)
(* fixed counter is granted again only for the event it fits.               *)

PmuInv == PmuTypeOK /\ EventsFitCounters /\ GrantsAreKept

\* The step property of GrantsAreExclusive.
GrantStep ==
    \A c \in Counters : granted[c] # NoEvent => granted'[c] \in {granted[c], NoEvent}

\* PmuState::new and the mcountinhibit write that goes with it.
LEMMA FreshState ==
    /\ NewActive \in [Counters -> EventIndices \cup {NoEvent}]
    /\ NewInhibit \in SUBSET (Offsets \ {1})
    /\ \A c \in Counters : NewActive[c] # NoEvent => Fits(c, NewActive[c])
<1>1. CpuCycles \in EventIndices /\ Instructions \in EventIndices
  BY EventAssumption DEF EventIndices, Events
<1>2. NewActive \in [Counters -> EventIndices \cup {NoEvent}]
  BY <1>1 DEF NewActive
<1>3. NewInhibit \in SUBSET (Offsets \ {1})
  BY DEF NewInhibit, Programmable
<1>4. \A c \in Counters : NewActive[c] # NoEvent => Fits(c, NewActive[c])
  BY CounterNumbers, FixedOffsets DEF Fits, NewActive
<1> QED
  BY <1>2, <1>3, <1>4

\* The invariant holds after PmuState::new.
LEMMA InitInv == PmuInit => PmuInv
<1> SUFFICES ASSUME PmuInit PROVE PmuInv
  OBVIOUS
<1>1. PmuTypeOK
  <2>1. fwValue \in [FwCounters -> 0 .. MaxValue]
    BY CounterAssumption DEF PmuInit
  <2>2. active \in [Counters -> EventIndices \cup {NoEvent}] /\ inhibit \in SUBSET (Offsets \ {1})
    BY FreshState DEF PmuInit
  <2>3. /\ fwStarted \in SUBSET FwCounters
        /\ selector \in [Programmable -> HwEvents \cup {NoEvent}]
        /\ halted \in BOOLEAN
        /\ granted \in [Counters -> Events \cup {NoEvent}]
        /\ reset \in Counters \cup {NoCounter}
    BY DEF PmuInit
  <2> QED
    BY <2>1, <2>2, <2>3 DEF PmuTypeOK
<1>2. EventsFitCounters
  BY FreshState DEF PmuInit, EventsFitCounters
<1>3. GrantsAreKept
  BY DEF PmuInit, GrantsAreKept
<1> QED
  BY <1>1, <1>2, <1>3 DEF PmuInv

\* A counter without an event is not granted.
LEMMA FreeMeansUngranted ==
    ASSUME PmuInv, NEW c \in Counters, active[c] = NoEvent
    PROVE  granted[c] = NoEvent
BY IndexType DEF PmuInv, PmuTypeOK, GrantsAreKept

\* A firmware configuration.
LEMMA ConfigFirmwareInv ==
    ASSUME PmuInv, NEW S \in CounterSets, NEW e \in FwEvents,
           NEW clear \in BOOLEAN, NEW auto \in BOOLEAN,
           ConfigFirmware(S, e, clear, auto)
    PROVE  PmuInv' /\ GrantStep
<1> DEFINE c == Lowest(FreeFw(S))
<1>1. c \in FwCounters /\ c \in Counters /\ active[c] = NoEvent
  BY LowestExists DEF ConfigFirmware, FreeFw, Counters
<1>2. /\ active' = [active EXCEPT ![c] = Index(e)]
      /\ ConfigureFw(c, clear, auto)
      /\ granted' = [granted EXCEPT ![c] = e]
      /\ reset' = NoCounter
      /\ UNCHANGED <<inhibit, selector, halted>>
  BY DEF ConfigFirmware, Grant
<1>3. c \notin HwCounters
  BY <1>1, CounterNumbers
<1>4. granted[c] = NoEvent
  BY <1>1, FreeMeansUngranted
<1>5. e \in Events /\ Index(e) = e /\ Index(e) \in EventIndices
  BY IndexType DEF Events
<1> HIDE DEF c
<1>6. PmuTypeOK'
  <2>1. fwValue' \in [FwCounters -> 0 .. MaxValue] /\ fwStarted' \in SUBSET FwCounters
    BY <1>1, <1>2, CounterAssumption DEF PmuInv, PmuTypeOK, ConfigureFw
  <2> QED
    BY <1>1, <1>2, <1>5, <2>1 DEF PmuInv, PmuTypeOK
<1>7. EventsFitCounters'
  BY <1>1, <1>2, <1>5 DEF PmuInv, PmuTypeOK, EventsFitCounters, Fits
<1>8. GrantsAreKept'
  BY <1>1, <1>2, <1>3, <1>5 DEF PmuInv, PmuTypeOK, GrantsAreKept
<1>9. GrantStep
  BY <1>1, <1>2, <1>4 DEF PmuInv, PmuTypeOK, GrantStep
<1> QED
  BY <1>6, <1>7, <1>8, <1>9 DEF PmuInv

\* configure_counter for a hardware counter that fits the event: the counter is
\* free, or fixed for the event, and its CSR is programmed already.
LEMMA ConfigureHwInv ==
    ASSUME PmuInv, NEW c \in HwCounters, NEW e \in HwEvents, NEW auto \in BOOLEAN,
           Fits(c, Index(e)),
           granted[c] \in {NoEvent, e},
           selector' \in [Programmable -> HwEvents \cup {NoEvent}],
           \A o \in Programmable : o # Offset(c) => selector'[o] = selector[o],
           Offset(c) \in Programmable => selector'[Offset(c)] = e,
           ConfigureHw(c, e, auto)
    PROVE  PmuInv' /\ GrantStep
<1>1. c \in Counters /\ Offset(c) \in Offsets
  BY OffsetsExist DEF Counters
<1>2. e \in Events /\ Index(e) \in EventIndices /\ Index(e) # NoEvent
  BY IndexType DEF Events
<1>3. active' = [active EXCEPT ![c] = Index(e)] /\ UNCHANGED <<fwStarted, fwValue, halted>>
  BY DEF ConfigureHw, fwVars
<1>4. granted' \in {granted, [granted EXCEPT ![c] = e]} /\ reset' = NoCounter
  BY DEF ConfigureHw, Grant, NoGrant
<1>5. inhibit' \in {inhibit, inhibit \ {Offset(c)}}
  BY DEF ConfigureHw
<1>6. PmuTypeOK'
  <2>1. granted' \in [Counters -> Events \cup {NoEvent}]
    BY <1>1, <1>2, <1>4 DEF PmuInv, PmuTypeOK
  <2>2. active' \in [Counters -> EventIndices \cup {NoEvent}]
    BY <1>1, <1>2, <1>3 DEF PmuInv, PmuTypeOK
  <2>3. inhibit' \in SUBSET (Offsets \ {1})
    BY <1>5 DEF PmuInv, PmuTypeOK
  <2> QED
    BY <1>3, <1>4, <2>1, <2>2, <2>3 DEF PmuInv, PmuTypeOK
<1>7. EventsFitCounters'
  <2> SUFFICES ASSUME NEW d \in Counters, active'[d] # NoEvent
               PROVE  Fits(d, active'[d])
    BY DEF EventsFitCounters, Fits
  <2>1. active'[d] = IF d = c THEN Index(e) ELSE active[d]
    BY <1>1, <1>3 DEF PmuInv, PmuTypeOK
  <2> QED
    BY <2>1 DEF PmuInv, EventsFitCounters
<1>8. GrantsAreKept'
  <2> SUFFICES ASSUME NEW d \in Counters, granted'[d] # NoEvent
               PROVE  /\ active'[d] = Index(granted'[d])
                      /\ d \in HwCounters /\ Offset(d) \in Programmable
                             => selector'[Offset(d)] = granted'[d]
    BY DEF GrantsAreKept, Index, Offset
  <2>1. CASE d = c
    <3>1. granted'[d] = e
      BY <1>1, <1>4, <2>1 DEF PmuInv, PmuTypeOK
    <3>2. active'[d] = Index(e)
      BY <1>1, <1>3, <2>1 DEF PmuInv, PmuTypeOK
    <3> QED
      BY <2>1, <3>1, <3>2
  <2>2. CASE d # c
    <3>1. granted'[d] = granted[d] /\ active'[d] = active[d]
      BY <1>3, <1>4, <2>2 DEF PmuInv, PmuTypeOK
    <3>2. ASSUME d \in HwCounters, Offset(d) \in Programmable
          PROVE  selector'[Offset(d)] = selector[Offset(d)]
      BY <2>2, <3>2, OffsetsDiffer
    <3> QED
      BY <3>1, <3>2 DEF PmuInv, GrantsAreKept
  <2> QED
    BY <2>1, <2>2
<1>9. GrantStep
  BY <1>1, <1>4 DEF PmuInv, PmuTypeOK, GrantStep
<1> QED
  BY <1>6, <1>7, <1>8, <1>9 DEF PmuInv

\* The first free counter for a hardware event.
LEMMA ConfigProgrammableInv ==
    ASSUME PmuInv, NEW S \in CounterSets, NEW e \in HwEvents, NEW auto \in BOOLEAN,
           ConfigProgrammable(S, e, auto)
    PROVE  PmuInv' /\ GrantStep
<1> DEFINE c == Lowest(FreeHw(S, e))
<1>1. c \in FreeHw(S, e)
  <2>1. FreeHw(S, e) \subseteq Counters /\ FreeHw(S, e) # {}
    BY DEF ConfigProgrammable, FreeHw, Counters
  <2> QED
    BY <2>1, LowestExists
<1>2. /\ Offset(c) \in Programmable => e \in Selectable
      /\ Offset(c) # 1
      /\ selector' = [o \in Programmable |-> IF o = Offset(c) THEN e ELSE selector[o]]
      /\ ConfigureHw(c, e, auto)
  BY DEF ConfigProgrammable
<1> HIDE DEF c
<1>3. /\ c \in HwCounters /\ c \in Counters
      /\ active[c] = NoEvent
      /\ Offset(c) \in CounterMap[e]
      /\ Offset(c) = 0 => e = CpuCycles
      /\ Offset(c) = 2 => e = Instructions
  BY <1>1 DEF FreeHw, Counters
<1>4. granted[c] \in {NoEvent, e}
  BY <1>3, FreeMeansUngranted
<1>5. Fits(c, Index(e))
  <2>1. Offset(c) \in Programmable \/ Offset(c) = 0 \/ Offset(c) = 2
    BY <1>2, <1>3, OffsetsExist DEF Programmable
  <2>2. CpuCycles \notin RawEvents /\ Instructions \notin RawEvents
    BY EventAssumption
  <2> QED
    BY <1>2, <1>3, <2>1, <2>2 DEF Fits, Index
<1>6. /\ selector' \in [Programmable -> HwEvents \cup {NoEvent}]
      /\ \A o \in Programmable : o # Offset(c) => selector'[o] = selector[o]
      /\ Offset(c) \in Programmable => selector'[Offset(c)] = e
  BY <1>2 DEF PmuInv, PmuTypeOK
<1> QED
  BY <1>2, <1>3, <1>4, <1>5, <1>6, ConfigureHwInv

\* The counter with the architectural assignment, granted again only for it.
LEMMA ConfigFixedInv ==
    ASSUME PmuInv, NEW S \in CounterSets, NEW e \in HwEvents, NEW auto \in BOOLEAN,
           ConfigFixed(S, e, auto)
    PROVE  PmuInv' /\ GrantStep
<1> DEFINE c == Lowest(FixedHw(S, e))
<1>1. c \in FixedHw(S, e)
  <2>1. FixedHw(S, e) \subseteq Counters /\ FixedHw(S, e) # {}
    BY DEF ConfigFixed, FixedHw, Counters
  <2> QED
    BY <2>1, LowestExists
<1>2. ConfigureHw(c, e, auto) /\ selector' = selector
  BY DEF ConfigFixed
<1> HIDE DEF c
<1>3. /\ c \in HwCounters /\ c \in Counters /\ c \notin FwCounters
      /\ \/ e = CpuCycles /\ Offset(c) = 0
         \/ e = Instructions /\ Offset(c) = 2
  BY <1>1, CounterNumbers DEF FixedHw, Counters
<1>4. Offset(c) \notin Programmable
  BY <1>3 DEF Programmable
<1>5. Index(e) = e
  BY <1>3, EventAssumption DEF Index
<1>6. Fits(c, Index(e))
  BY <1>3, <1>5 DEF Fits
<1>7. granted[c] \in {NoEvent, e}
  <2> SUFFICES ASSUME granted[c] # NoEvent PROVE granted[c] = e
    OBVIOUS
  <2>1. granted[c] \in Events /\ active[c] = Index(granted[c])
    BY <1>3 DEF PmuInv, PmuTypeOK, GrantsAreKept
  <2>2. active[c] # NoEvent
    BY <2>1, IndexType
  <2>3. Fits(c, active[c])
    BY <1>3, <2>2 DEF PmuInv, EventsFitCounters
  <2>4. active[c] = e
    BY <1>3, <1>4, <2>3 DEF Fits
  <2> QED
    BY <1>3, <2>1, <2>4, EventAssumption DEF Index
<1>8. selector' \in [Programmable -> HwEvents \cup {NoEvent}]
  BY <1>2 DEF PmuInv, PmuTypeOK
<1> QED
  BY <1>2, <1>3, <1>4, <1>6, <1>7, <1>8, ConfigureHwInv

\* A configuration without matching touches neither records nor grants.
LEMMA ConfigSkipMatchInv ==
    ASSUME PmuInv, NEW S \in CounterSets, NEW e \in Events,
           NEW clear \in BOOLEAN, NEW auto \in BOOLEAN,
           ConfigSkipMatch(S, e, clear, auto)
    PROVE  PmuInv' /\ GrantStep
<1> DEFINE c == Lowest(S)
<1>1. /\ active' = active /\ selector' = selector
      /\ granted' = granted /\ reset' = NoCounter
  BY DEF ConfigSkipMatch, NoGrant
<1>2. \/ c \in FwCounters /\ ConfigureFw(c, clear, auto) /\ UNCHANGED <<inhibit, halted>>
      \/ inhibit' \in {inhibit, inhibit \ {Offset(c)}} /\ UNCHANGED <<fwStarted, fwValue, halted>>
      \/ halted' = TRUE /\ UNCHANGED <<fwStarted, fwValue, inhibit>>
  BY DEF ConfigSkipMatch, fwVars
<1> HIDE DEF c
<1>3. PmuTypeOK'
  <2>1. fwValue' \in [FwCounters -> 0 .. MaxValue] /\ fwStarted' \in SUBSET FwCounters
    BY <1>2, CounterAssumption DEF PmuInv, PmuTypeOK, ConfigureFw
  <2>2. inhibit' \in SUBSET (Offsets \ {1})
    BY <1>2 DEF PmuInv, PmuTypeOK
  <2>3. halted' \in BOOLEAN
    BY <1>2 DEF PmuInv, PmuTypeOK
  <2> QED
    BY <1>1, <2>1, <2>2, <2>3 DEF PmuInv, PmuTypeOK
<1>4. EventsFitCounters'
  BY <1>1 DEF PmuInv, EventsFitCounters, Fits
<1>5. GrantsAreKept'
  BY <1>1 DEF PmuInv, GrantsAreKept
<1>6. GrantStep
  BY <1>1 DEF GrantStep
<1> QED
  BY <1>3, <1>4, <1>5, <1>6 DEF PmuInv

\* Starting a set of counters.
LEMMA CounterStartInv ==
    ASSUME PmuInv, NEW S \in CounterSets, NEW update \in BOOLEAN, NEW v \in 0 .. MaxValue,
           CounterStart(S, update, v)
    PROVE  PmuInv' /\ GrantStep
<1> DEFINE done == Reached(S, StartRefusals(S)) \ StartRefusals(S)
<1>1. /\ active' = active /\ selector' = selector /\ halted' = halted
      /\ granted' = granted /\ reset' = NoCounter
      /\ fwStarted' = fwStarted \cup (done \cap FwCounters)
      /\ fwValue' = [c \in FwCounters |-> IF update /\ c \in done THEN v ELSE fwValue[c]]
      /\ inhibit' = inhibit \ {Offset(c) : c \in done \cap HwCounters}
  BY DEF CounterStart, NoGrant
<1> HIDE DEF done
<1>2. PmuTypeOK'
  <2>1. fwValue' \in [FwCounters -> 0 .. MaxValue]
    BY <1>1 DEF PmuInv, PmuTypeOK
  <2>2. fwStarted' \in SUBSET FwCounters
    BY <1>1 DEF PmuInv, PmuTypeOK
  <2>3. inhibit' \in SUBSET (Offsets \ {1})
    BY <1>1 DEF PmuInv, PmuTypeOK
  <2> QED
    BY <1>1, <2>1, <2>2, <2>3 DEF PmuInv, PmuTypeOK
<1>3. EventsFitCounters'
  BY <1>1 DEF PmuInv, EventsFitCounters, Fits
<1>4. GrantsAreKept'
  BY <1>1 DEF PmuInv, GrantsAreKept
<1>5. GrantStep
  BY <1>1 DEF GrantStep
<1> QED
  BY <1>2, <1>3, <1>4, <1>5 DEF PmuInv

\* Stopping a set of counters unmaps, in records and CSRs alike, only counters
\* of the set, and only if the call says so.
LEMMA CounterStopInv ==
    ASSUME PmuInv, NEW S \in CounterSets, NEW unmap \in BOOLEAN,
           CounterStop(S, unmap)
    PROVE  PmuInv' /\ GrantStep
<1> DEFINE gone == Unmapped(S, unmap)
<1>1. gone \subseteq S /\ (gone # {} => unmap)
  BY DEF Unmapped, Reached
<1>2. \A c \in Stopped(S) \cap HwCounters : Offset(c) \in Offsets \ {1}
  BY OffsetsExist DEF Stopped
<1>3. /\ active' = [c \in Counters |-> IF c \in gone THEN NoEvent ELSE active[c]]
      /\ selector' = [o \in Programmable |->
                         IF \E c \in gone \cap HwCounters : Offset(c) = o
                         THEN NoEvent ELSE selector[o]]
      /\ granted' = [c \in Counters |-> IF unmap /\ c \in S THEN NoEvent ELSE granted[c]]
      /\ UNCHANGED <<fwValue, halted>>
  BY DEF CounterStop
<1> HIDE DEF gone
<1>4. PmuTypeOK'
  <2>1. fwStarted' \in SUBSET FwCounters
    BY DEF CounterStop, PmuInv, PmuTypeOK
  <2>2. inhibit' \in SUBSET (Offsets \ {1})
    BY <1>2 DEF CounterStop, PmuInv, PmuTypeOK
  <2>3. reset' \in Counters \cup {NoCounter}
    <3>1. S \subseteq Counters /\ S # {}
      BY CounterAssumption
    <3>2. Lowest(S) \in Counters
      BY <3>1, LowestExists
    <3> QED
      BY <3>2 DEF CounterStop
  <2>4. active' \in [Counters -> EventIndices \cup {NoEvent}]
    BY <1>3 DEF PmuInv, PmuTypeOK
  <2>5. selector' \in [Programmable -> HwEvents \cup {NoEvent}]
    BY <1>3 DEF PmuInv, PmuTypeOK
  <2>6. granted' \in [Counters -> Events \cup {NoEvent}]
    BY <1>3 DEF PmuInv, PmuTypeOK
  <2> QED
    BY <1>3, <2>1, <2>2, <2>3, <2>4, <2>5, <2>6 DEF PmuInv, PmuTypeOK
<1>5. EventsFitCounters'
  <2> SUFFICES ASSUME NEW d \in Counters, active'[d] # NoEvent
               PROVE  Fits(d, active'[d])
    BY DEF EventsFitCounters, Fits
  <2>1. active'[d] = active[d]
    BY <1>3
  <2> QED
    BY <2>1 DEF PmuInv, EventsFitCounters
<1>6. GrantsAreKept'
  <2> SUFFICES ASSUME NEW d \in Counters, granted'[d] # NoEvent
               PROVE  /\ active'[d] = Index(granted'[d])
                      /\ d \in HwCounters /\ Offset(d) \in Programmable
                             => selector'[Offset(d)] = granted'[d]
    BY DEF GrantsAreKept, Index, Offset
  <2>1. granted'[d] = granted[d] /\ d \notin gone
    BY <1>1, <1>3
  <2>2. active'[d] = active[d]
    BY <1>3, <2>1
  <2>3. ASSUME d \in HwCounters, Offset(d) \in Programmable
        PROVE  selector'[Offset(d)] = selector[Offset(d)]
    <3>1. ~ \E c \in gone \cap HwCounters : Offset(c) = Offset(d)
      BY <2>1, <2>3, OffsetsDiffer
    <3> QED
      BY <1>3, <2>3, <3>1
  <2> QED
    BY <2>1, <2>2, <2>3 DEF PmuInv, GrantsAreKept
<1>7. GrantStep
  BY <1>3 DEF GrantStep
<1> QED
  BY <1>4, <1>5, <1>6, <1>7 DEF PmuInv

\* A firmware event.
LEMMA FirmwareEventInv ==
    ASSUME PmuInv, NEW e \in FwEvents, FirmwareEvent(e)
    PROVE  PmuInv' /\ GrantStep
<1>1. UNCHANGED <<active, fwStarted, inhibit, selector, halted, granted, reset>>
  BY DEF FirmwareEvent
<1>2. fwValue' \in [FwCounters -> 0 .. MaxValue]
  BY CounterAssumption DEF FirmwareEvent, PmuInv, PmuTypeOK
<1>3. PmuTypeOK'
  BY <1>1, <1>2 DEF PmuInv, PmuTypeOK
<1>4. EventsFitCounters' /\ GrantsAreKept' /\ GrantStep
  BY <1>1 DEF PmuInv, EventsFitCounters, Fits, GrantsAreKept, GrantStep
<1> QED
  BY <1>3, <1>4 DEF PmuInv

\* The reset before a non-retentive resume.
LEMMA PmuResetInv ==
    ASSUME PmuInv, PmuReset
    PROVE  PmuInv' /\ GrantStep
<1>1. PmuTypeOK'
  <2>1. fwValue' \in [FwCounters -> 0 .. MaxValue]
    BY CounterAssumption DEF PmuReset
  <2>2. /\ active' \in [Counters -> EventIndices \cup {NoEvent}]
        /\ inhibit' \in SUBSET (Offsets \ {1})
    BY FreshState DEF PmuReset
  <2>3. /\ fwStarted' \in SUBSET FwCounters
        /\ granted' \in [Counters -> Events \cup {NoEvent}]
        /\ reset' \in Counters \cup {NoCounter}
        /\ selector' = selector /\ halted' = halted
    BY DEF PmuReset
  <2> QED
    BY <2>1, <2>2, <2>3 DEF PmuInv, PmuTypeOK
<1>2. EventsFitCounters'
  <2> SUFFICES ASSUME NEW d \in Counters, active'[d] # NoEvent
               PROVE  Fits(d, active'[d])
    BY DEF EventsFitCounters, Fits
  <2> QED
    BY FreshState DEF PmuReset
<1>3. GrantsAreKept' /\ GrantStep
  BY DEF PmuReset, GrantsAreKept, GrantStep
<1> QED
  BY <1>1, <1>2, <1>3 DEF PmuInv

\* Every step keeps the invariant and every grant.
LEMMA NextInv ==
    ASSUME PmuInv, [PmuNext]_pmuVars
    PROVE  PmuInv' /\ (GrantStep \/ UNCHANGED pmuVars)
<1>1. CASE UNCHANGED pmuVars
  BY <1>1 DEF pmuVars, PmuInv, PmuTypeOK, EventsFitCounters, Fits, GrantsAreKept
<1>2. ASSUME NEW S \in CounterSets, ConfigMatching(S)
      PROVE  PmuInv' /\ GrantStep
  BY <1>2, ConfigFirmwareInv, ConfigProgrammableInv, ConfigFixedInv, ConfigSkipMatchInv
  DEF ConfigMatching
<1>3. CASE PmuNext
  BY <1>2, <1>3, CounterStartInv, CounterStopInv, FirmwareEventInv, PmuResetInv DEF PmuNext
<1> QED
  BY <1>1, <1>3

------------------------------------------------------------------------------
(* The theorems. *)

\* The invariant holds after every call, event and reset.
LEMMA PmuInvariant == PmuSpec => []PmuInv
<1>1. PmuInv /\ [PmuNext]_pmuVars => PmuInv'
  BY NextInv
<1> QED
  BY InitInv, <1>1, PTL DEF PmuSpec

\* PmuState and the counter CSRs stay well typed, whatever counters the hart
\* implements and whatever sets the supervisor names.
THEOREM PmuTypeCorrect == PmuSpec => []PmuTypeOK
<1>1. PmuInv => PmuTypeOK
  BY DEF PmuInv
<1> QED
  BY PmuInvariant, <1>1, PTL

\* find_firmware_counter and find_hardware_counter record an event only on a
\* counter that can count it, and no later call breaks that.
THEOREM EventsFit == PmuSpec => []EventsFitCounters
<1>1. PmuInv => EventsFitCounters
  BY DEF PmuInv
<1> QED
  BY PmuInvariant, <1>1, PTL

\* A counter that counter_config_matching granted stays recorded and programmed
\* for its event until a stop with RESET names it.
THEOREM GrantsKept == PmuSpec => []GrantsAreKept
<1>1. PmuInv => GrantsAreKept
  BY DEF PmuInv
<1> QED
  BY PmuInvariant, <1>1, PTL

\* No counter is granted for two events at once.
THEOREM GrantsExclusive == PmuSpec => GrantsAreExclusive
<1>1. PmuInv /\ [PmuNext]_pmuVars =>
          [\A c \in Counters :
               granted[c] # NoEvent => granted'[c] \in {granted[c], NoEvent}]_pmuVars
  BY NextInv DEF GrantStep
<1> QED
  BY PmuInvariant, <1>1, PTL DEF PmuSpec, GrantsAreExclusive
=============================================================================
