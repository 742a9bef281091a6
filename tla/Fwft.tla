--------------------------------- MODULE Fwft ---------------------------------
(***************************************************************************)
(* Firmware features (sbi/fwft.rs) over menvcfg, as a hart holds it after  *)
(* configure_hart_environment (sbi/features.rs).                           *)
(*                                                                         *)
(* menvcfg is the set of its bits that are 1.  Its fields are WARL: a bit  *)
(* that the hart does not have stays 0, and a tag length that it does not  *)
(* have becomes one that it has.                                           *)
(***************************************************************************)
EXTENDS Integers, FiniteSets

CONSTANTS
    FwftHarts,   \* the kinds of hart: bits, the bits it has; lengths, its PMM values; present, whether
                 \* it has menvcfg; sstc and svpbmt, what the device tree says
    MaxSets      \* bound on the calls that set a feature

\* A tag length of 0 is one that every hart has.
ASSUME FwftAssumption ==
    FwftHarts \subseteq [bits : SUBSET Nat, lengths : {l \in SUBSET (0 .. 3) : 0 \in l},
                        present : BOOLEAN, sstc : BOOLEAN, svpbmt : BOOLEAN]

VARIABLES
    hart,        \* the kind of this hart
    menvcfg,
    medeleg,     \* misaligned exceptions are delegated
    setTo,     \* ghost: the value that each feature was last set to, -1 before
    sets

fwftVars == <<hart, menvcfg, medeleg, setTo, sets>>

-----------------------------------------------------------------------------
(* menvcfg.                                                                *)

ENVCFG_LPE == {0}
ENVCFG_DTE == {1}
ENVCFG_ADUE == {5}
ENVCFG_SSE == {8}
ENVCFG_PMM == {9, 10}
CBIE_INVALIDATE == {4, 5}
CBCFE == {6}
CBZE == {7}
PBMTE == {62}
STCE == {63}

\* The one-bit features, and the two others.
MenvcfgBit(f) ==
    CASE f = "landing_pad" -> ENVCFG_LPE
      [] f = "shadow_stack" -> ENVCFG_SSE
      [] f = "double_trap" -> ENVCFG_DTE
      [] f = "pte_ad" -> ENVCFG_ADUE
BitFeatures == {"landing_pad", "shadow_stack", "double_trap", "pte_ad"}
Features == BitFeatures \cup {"pmlen", "misaligned", "unknown"}

Pmm(value) == {b \in ENVCFG_PMM : (b = 9 /\ value % 2 = 1) \/ (b = 10 /\ value >= 2)}
PmmOf(bits) == (IF 9 \in bits THEN 1 ELSE 0) + (IF 10 \in bits THEN 2 ELSE 0)

\* What menvcfg may read after a write.
Warl(bits) ==
    LET plain == (bits \cap hart.bits) \ ENVCFG_PMM
    IN  IF PmmOf(bits) \in hart.lengths THEN {plain \cup (bits \cap ENVCFG_PMM)}
        ELSE {plain \cup Pmm(v) : v \in hart.lengths}

-----------------------------------------------------------------------------
(* The calls.                                                              *)

\* configure_hart_environment.
Environment(k) == CBIE_INVALIDATE \cup CBCFE \cup CBZE
                  \cup (IF k.sstc THEN STCE ELSE {}) \cup (IF k.svpbmt THEN PBMTE ELSE {})

FwftInit ==
    /\ hart \in FwftHarts
    /\ menvcfg = IF hart.present THEN Environment(hart) \cap hart.bits ELSE {}
    /\ medeleg \in BOOLEAN
    /\ setTo = [f \in Features |-> -1]
    /\ sets = 0

\* Mutant: the new tag length is added to the old one.
MField(f, value) == menvcfg \cup (IF f = "pmlen" THEN Pmm(value) ELSE IF value = 1 THEN MenvcfgBit(f) ELSE {})

\* The value that set_menvcfg_bit or set_pmm writes.
Field(f, value) ==
    IF f = "pmlen" THEN (menvcfg \ ENVCFG_PMM) \cup Pmm(value)
    ELSE IF value = 1 THEN menvcfg \cup MenvcfgBit(f) ELSE menvcfg \ MenvcfgBit(f)
Mask(f) == IF f = "pmlen" THEN ENVCFG_PMM ELSE MenvcfgBit(f)

\* The write, and whether what is read back has the field as written.
SetMenvcfg(f, value) ==
    /\ f \in BitFeatures \cup {"pmlen"}
    /\ value <= IF f = "pmlen" THEN 3 ELSE 1
    /\ hart.present
    /\ \E read \in Warl(Field(f, value)) :
        /\ menvcfg' = read
        /\ setTo' = IF read \cap Mask(f) = Field(f, value) \cap Mask(f)
                      THEN [setTo EXCEPT ![f] = value] ELSE [setTo EXCEPT ![f] = -1]
    /\ UNCHANGED medeleg

SetMisaligned(f, value) ==
    /\ f = "misaligned" /\ value <= 1
    /\ medeleg' = (value = 1)
    /\ setTo' = [setTo EXCEPT ![f] = value]
    /\ UNCHANGED menvcfg

\* set; other arguments are refused without effect.
Set ==
    /\ sets < MaxSets
    /\ sets' = sets + 1
    /\ UNCHANGED hart
    /\ \E f \in Features, value \in 0 .. 4 : SetMenvcfg(f, value) \/ SetMisaligned(f, value)

\* get: menvcfg_bits_supported writes all bits of the field, reads them (see
\* Answers) and writes the value back.
Get(f) ==
    /\ f \in BitFeatures \cup {"pmlen"} /\ hart.present
    /\ menvcfg' \in Warl(menvcfg)
    /\ UNCHANGED <<hart, medeleg, setTo, sets>>

FwftNext == Set \/ (\E f \in Features : Get(f))

FwftSpec == FwftInit /\ [][FwftNext]_fwftVars

-----------------------------------------------------------------------------
(* What get answers.                                                       *)

\* The value of a field of menvcfg.
FieldValue(f) == IF f = "pmlen" THEN PmmOf(menvcfg) ELSE IF MenvcfgBit(f) \subseteq menvcfg THEN 1 ELSE 0

\* The answers that get may give: -1 for not_supported.
Answers(f) ==
    IF f = "misaligned" THEN {IF medeleg THEN 1 ELSE 0}
    ELSE IF f = "unknown" \/ ~hart.present THEN {-1}
    ELSE {IF p \cap Mask(f) # {} THEN FieldValue(f) ELSE -1 : p \in Warl(menvcfg \cup Mask(f))}

-----------------------------------------------------------------------------
(* The inductive invariant of the proofs.                                  *)

FwftTypeOK ==
    /\ hart \in FwftHarts
    /\ menvcfg \subseteq Nat
    /\ medeleg \in BOOLEAN
    /\ setTo \in [Features -> -1 .. 3]
    /\ sets \in Nat

\* menvcfg holds only what the hart has, so that writing it back keeps it.
Legal == menvcfg \subseteq hart.bits \cup ENVCFG_PMM /\ PmmOf(menvcfg) \in hart.lengths

\* What was set is in the field, and only where there are fields.
FieldsHold == \A f \in BitFeatures \cup {"pmlen"} : setTo[f] # -1 => hart.present /\ FieldValue(f) = setTo[f]
DelegationHolds == setTo["misaligned"] # -1 => setTo["misaligned"] = IF medeleg THEN 1 ELSE 0

FwftInv == FwftTypeOK /\ Legal /\ FieldsHold /\ DelegationHolds /\ setTo["unknown"] = -1

-----------------------------------------------------------------------------
(* Properties.                                                             *)

\* What a feature was last set to is what get answers, whatever other features
\* were set or asked for since.  Two limits of the probe are excepted: a field
\* that the hart lacks can be set to 0 and is then reported as missing, and so
\* is a tag length when the hart reads an all-ones probe as 0.
FeatureKeeps ==
    \A f \in Features : setTo[f] # -1 =>
        /\ Answers(f) \subseteq {setTo[f], -1}
        /\ (f \in BitFeatures /\ Mask(f) \subseteq hart.bits) \/ f = "misaligned" => Answers(f) = {setTo[f]}

===============================================================================
