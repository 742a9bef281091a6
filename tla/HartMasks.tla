------------------------------ MODULE HartMasks ------------------------------
(***************************************************************************)
(* Hart masks of SBI calls (library sbi-spec, binary/hart_mask.rs and      *)
(* mask_commons.rs): a mask word and a base name a set of harts; harts are *)
(* inserted and removed, and an iterator gives them out from both ends.    *)
(*                                                                         *)
(* A mask word is the set of its one bits.  Arithmetic wraps at the width  *)
(* of usize, as it does in the release build.                              *)
(***************************************************************************)
EXTENDS Integers, Sequences, FiniteSets, FiniteSetsExt, Functions

CONSTANT Width   \* usize::BITS

\* A power is positive; the provers do not know it.
ASSUME WidthAssumption == Width \in Nat \ {0} /\ 2^Width > 0

LastId == 2^Width - 1   \* usize::MAX
HartIdSpace == 0 .. LastId
MaskBits == 0 .. Width - 1
IGNORE_MASK == LastId

VARIABLES
    mask,      \* HartMask: bits and base
    ids,       \* HartIds: the unvisited bits, or the unvisited range, or NoIds
    front,     \* what next returned so far
    back,      \* what next_back returned so far
    chosen     \* ghost: the harts that the mask should name

maskVars == <<mask, ids, front, back, chosen>>

NoIds == [kind |-> "none", bits |-> {}, start |-> 0, end |-> 0]

(* --------------------------- mask_commons.rs ---------------------------- *)

valid_bit(base, bit) == bit >= base /\ bit - base < Width

has_bit(m, bit) ==
    \/ m.base = IGNORE_MASK
    \/ valid_bit(m.base, bit) /\ bit - m.base \in m.bits

Selected(m) == {h \in HartIdSpace : has_bit(m, h)}

(* ------------------------------ HartMask -------------------------------- *)

from_mask_base == [bits : SUBSET MaskBits, base : HartIdSpace]
AllHartsMask == [bits |-> {}, base |-> IGNORE_MASK]

MaskInit ==
    /\ mask \in from_mask_base \cup {AllHartsMask}
    /\ ids = NoIds /\ front = <<>> /\ back = <<>>
    /\ chosen = Selected(mask)

\* Inserting into a mask that names all harts has no effect and succeeds.
InsertHart(h) ==
    /\ ids = NoIds
    /\ mask.base # IGNORE_MASK /\ valid_bit(mask.base, h)
    /\ mask' = [mask EXCEPT !.bits = @ \cup {h - mask.base}]
    /\ chosen' = chosen \cup {h}
    /\ UNCHANGED <<ids, front, back>>

RemoveHart(h) ==
    /\ ids = NoIds
    /\ mask.base # IGNORE_MASK /\ valid_bit(mask.base, h)
    /\ mask' = [mask EXCEPT !.bits = @ \ {h - mask.base}]
    /\ chosen' = chosen \ {h}
    /\ UNCHANGED <<ids, front, back>>

(* ------------------------------- HartIds -------------------------------- *)

MaskIter ==
    /\ ids = NoIds
    /\ ids' = IF mask.base = IGNORE_MASK
              THEN [kind |-> "range", bits |-> {}, start |-> 0, end |-> LastId]
              ELSE [kind |-> "bits", bits |-> mask.bits, start |-> mask.base, end |-> 0]
    /\ front' = <<>> /\ back' = <<>>
    /\ UNCHANGED <<mask, chosen>>

\* Mutant: the base is not added.
MHartOf(bit) == bit

HartOf(bit) == (bit + ids.start) % (LastId + 1)

NextId ==
    /\ \/ /\ ids.kind = "bits" /\ ids.bits # {}
          /\ ids' = [ids EXCEPT !.bits = @ \ {Min(@)}]
          /\ front' = Append(front, HartOf(Min(ids.bits)))
       \/ /\ ids.kind = "range" /\ ids.start < ids.end
          /\ ids' = [ids EXCEPT !.start = @ + 1]
          /\ front' = Append(front, ids.start)
    /\ UNCHANGED <<mask, back, chosen>>

NextBackId ==
    /\ \/ /\ ids.kind = "bits" /\ ids.bits # {}
          /\ ids' = [ids EXCEPT !.bits = @ \ {Max(@)}]
          /\ back' = Append(back, HartOf(Max(ids.bits)))
       \/ /\ ids.kind = "range" /\ ids.start < ids.end
          /\ ids' = [ids EXCEPT !.end = @ - 1]
          /\ back' = Append(back, ids.end)
    /\ UNCHANGED <<mask, front, chosen>>

DropIds ==
    /\ ids # NoIds
    /\ ids' = NoIds /\ front' = <<>> /\ back' = <<>>
    /\ UNCHANGED <<mask, chosen>>

size_hint == IF ids.kind = "bits" THEN Cardinality(ids.bits) ELSE ids.end - ids.start

MaskNext ==
    \/ \E h \in HartIdSpace : InsertHart(h) \/ RemoveHart(h)
    \/ MaskIter \/ NextId \/ NextBackId \/ DropIds

MaskSpec == MaskInit /\ [][MaskNext]_maskVars

\* Bits beyond the last hart id name no hart.
InSpace(m) == \A b \in m.bits : b + m.base <= LastId

Unvisited ==
    IF ids.kind = "bits" THEN {b + ids.start : b \in ids.bits} ELSE ids.start .. ids.end - 1

(* --------------- the inductive invariant of the proofs ----------------- *)

MaskTypeOK ==
    /\ mask \in from_mask_base
    /\ ids \in {NoIds} \cup [kind : {"bits", "range"}, bits : SUBSET MaskBits, start : HartIdSpace, end : HartIdSpace]
    /\ front \in Seq(HartIdSpace)
    /\ back \in Seq(HartIdSpace)

\* The iterator belongs to the mask.
IteratorFits ==
    /\ ids.kind = "bits" => mask.base # IGNORE_MASK /\ ids.bits \subseteq mask.bits /\ ids.start = mask.base
    /\ ids.kind = "range" => /\ mask.base = IGNORE_MASK /\ ids.start <= ids.end
                             /\ back = <<>> => ids.end = LastId

\* What an iterator gives out in all.
Named == Selected(mask) \ (IF ids.kind = "range" THEN {LastId} ELSE {})

\* f came out at the front, b at the back, and n of the set u are left: they
\* lie between the two, and together they are all, each once.
Partition(f, u, b, n, all) ==
    /\ Range(f) \cup u \cup Range(b) = all
    /\ Len(f) + Len(b) + n = Cardinality(all)
    /\ \A i, j \in DOMAIN f : i < j => f[i] < f[j]
    /\ \A i, j \in DOMAIN b : i < j => b[i] > b[j]
    /\ \A x \in Range(f), y \in Range(b) : x < y
    /\ \A x \in Range(f), y \in u : x < y
    /\ \A x \in u, y \in Range(b) : x < y

Iterated ==
    ids # NoIds /\ InSpace(mask) /\ (ids.kind = "bits" \/ back = <<>>) =>
        Partition(front, Unvisited, back, size_hint, Named)

MaskInv == MaskTypeOK /\ chosen = Selected(mask) /\ IteratorFits /\ Iterated

(* ------------------------------ properties ------------------------------ *)

\* A mask names the harts that were inserted and not removed, and its iterator
\* gives out each of them once, in order from both ends, with an exact count of
\* those left.  Left out are masks with bits beyond the last hart id, where the
\* iterator wraps, and the iterator of all harts: it never comes to the last id
\* from the front, and is checked only there, because next_back returns its
\* excluded end.  (insert, remove, has_bit, next, next_back, size_hint)
MasksAreExact ==
    /\ Selected(mask) = chosen
    /\ ids # NoIds /\ InSpace(mask) /\ (ids.kind = "bits" \/ back = <<>>) =>
           /\ Range(front) \cup Unvisited \cup Range(back)
                  = Selected(mask) \ (IF ids.kind = "range" THEN {LastId} ELSE {})
           /\ Len(front) + Len(back) + size_hint = Cardinality(Range(front) \cup Unvisited \cup Range(back))
           /\ \A i, j \in DOMAIN front : i < j => front[i] < front[j]
           /\ \A i, j \in DOMAIN back : i < j => back[i] > back[j]
           /\ \A f \in Range(front), b \in Range(back) : f < b
==============================================================================
