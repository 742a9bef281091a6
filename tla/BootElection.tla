----------------------------- MODULE BootElection -----------------------------
(***************************************************************************)
(* From reset to the policy (entry/start.S, relocation.S, BootInfo,        *)
(* platform publication): several harts enter the firmware at once, while  *)
(* its pointers are not relocated and its BSS holds whatever RAM held.     *)
(* One hart is elected to prepare memory; it need not be the hart that the *)
(* previous stage chose to lead the boot.  The others wait, first for BSS, *)
(* then for the platform.  Harts held in reset are released later and go   *)
(* straight to the secondary path.                                         *)
(*                                                                         *)
(* Stores reach memory in order when Ordered, else in any order until the  *)
(* hart's next release: RISC-V promises no more for plain stores and an    *)
(* amoadd without .rl.                                                     *)
(***************************************************************************)
EXTENDS Integers, Sequences, FiniteSets

CONSTANTS
    BootHarts,   \* harts that enter at _start
    HeldHarts,   \* harts released from reset later
    Infos,       \* what DynamicInfo says: "none", "any" or the hart that leads
    Ordered      \* whether stores reach memory in order

ASSUME BootAssumption ==
    /\ BootHarts # {} /\ BootHarts \cap HeldHarts = {}
    /\ {"none", "any"} \cap (BootHarts \cup HeldHarts) = {}
    /\ Infos \subseteq BootHarts \cup {"none", "any"}
    /\ Ordered \in BOOLEAN

\* Words of the image: a relocated pointer, and three of BSS.
Bss == <<"PLATFORM", "DISPATCHER", "READY">>
Words == {"GOT", "PLATFORM", "DISPATCHER", "READY"}

VARIABLES
    info,     \* the DynamicInfo that a2 points to, the same for every hart
    pc,       \* where each hart is
    raceWord, \* 6: in start.S
    bssWord,  \* 7: in start.S
    mem,      \* "stale" until relocated, cleared or written
    buffer,   \* stores of each hart on their way to memory
    clearing, \* the BSS word the elected hart clears next
    bootHart, \* BOOT_HART_ID, in .data
    led       \* ghost: harts that led the boot

bootVars == <<info, pc, raceWord, bssWord, mem, buffer, clearing, bootHart, led>>
AllHarts == BootHarts \cup HeldHarts

BootInit ==
    /\ info \in Infos
    /\ pc = [h \in AllHarts |-> IF h \in BootHarts THEN "race" ELSE "held"]
    /\ raceWord = 0 /\ bssWord = 0 /\ clearing = 1
    /\ mem = [w \in Words |-> "stale"]
    /\ buffer = [h \in AllHarts |-> {}]
    /\ bootHart = "none" /\ led = {}

Jump(h, label) == pc' = [pc EXCEPT ![h] = label]
StoreWord(h, w, v) == buffer' = [buffer EXCEPT ![h] = {s \in @ : s[1] # w} \cup {<<w, v>>}]

\* A store reaches memory.
Drain(h) ==
    /\ \E s \in buffer[h] :
        /\ mem' = [mem EXCEPT ![s[1]] = s[2]]
        /\ buffer' = [buffer EXCEPT ![h] = @ \ {s}]
    /\ UNCHANGED <<info, pc, raceWord, bssWord, clearing, bootHart, led>>

\* What a hart reads: its own store first.
Sees(h, w, v) == IF \E s \in buffer[h] : s[1] = w THEN <<w, v>> \in buffer[h] ELSE mem[w] = v

\* A release: everything the hart stored is in memory before.
Released(h) == buffer[h] = {}

(* -------------------------------- start.S ------------------------------- *)

\* amoadd.w on 6: the first hart wins.
Race(h) ==
    /\ pc[h] = "race"
    /\ raceWord' = raceWord + 1
    /\ Jump(h, IF raceWord = 0 THEN "relocate" ELSE "waitBss")
    /\ UNCHANGED <<info, bssWord, mem, buffer, clearing, bootHart, led>>

\* relocation_update
Relocate(h) ==
    /\ pc[h] = "relocate"
    /\ StoreWord(h, "GOT", "ok")
    /\ Jump(h, "clear")
    /\ UNCHANGED <<info, raceWord, bssWord, mem, clearing, bootHart, led>>

\* Mutant: the last word is not cleared.
MBssEnd == Len(Bss) - 1

\* sbi_bss_end
BssEnd == Len(Bss)

ClearBss(h) ==
    /\ pc[h] = "clear"
    /\ clearing <= BssEnd
    /\ StoreWord(h, Bss[clearing], "zero")
    /\ clearing' = clearing + 1
    /\ UNCHANGED <<info, pc, raceWord, bssWord, mem, bootHart, led>>

\* amoadd.w on 7
SignalBss(h) ==
    /\ pc[h] = "clear"
    /\ clearing > BssEnd
    /\ Ordered => Released(h)
    /\ bssWord' = bssWord + 1
    /\ Jump(h, "select")
    /\ UNCHANGED <<info, raceWord, mem, buffer, clearing, bootHart, led>>

WaitBss(h) ==
    /\ pc[h] = "waitBss"
    /\ bssWord # 0
    /\ Jump(h, "select")
    /\ UNCHANGED <<info, raceWord, bssWord, mem, buffer, clearing, bootHart, led>>

(* -------------------------- BootInfo, main ------------------------------ *)

\* Mutant: the claim looks and does not write.
MClaim(h) == <<bootHart = "none" \/ bootHart = h, bootHart>>

\* Mutant: the hart that wins the exchange takes itself for a loser.
MClaimLost(h) == IF bootHart = "none" THEN <<FALSE, h>> ELSE <<bootHart = h, bootHart>>

\* claim_boot_hart: whether h leads, and BOOT_HART_ID after.
Claim(h) == IF bootHart = "none" THEN <<TRUE, h>> ELSE <<bootHart = h, bootHart>>

\* is_selected_boot_hart
SelectBootHart(h) ==
    LET claim == IF info \in {"none", "any"} THEN Claim(h) ELSE <<info = h, bootHart>> IN
    /\ pc[h] = "select"
    /\ bootHart' = claim[2]
    /\ Jump(h, IF claim[1] THEN "publish" ELSE "waitReady")
    /\ led' = IF claim[1] THEN led \cup {h} ELSE led
    /\ UNCHANGED <<info, raceWord, bssWord, mem, buffer, clearing>>

\* Once::call_once ends with a release store.
Publish(h, w) ==
    /\ Released(h)
    /\ mem' = [mem EXCEPT ![w] = "set"]

\* publish_resources
PublishPlatform(h) ==
    /\ pc[h] = "publish"
    /\ Publish(h, "PLATFORM")
    /\ Jump(h, "dispatcher")
    /\ UNCHANGED <<info, raceWord, bssWord, buffer, clearing, bootHart, led>>

\* publish_sbi_dispatcher
PublishDispatcher(h) ==
    /\ pc[h] = "dispatcher"
    /\ Publish(h, "DISPATCHER")
    /\ Jump(h, "ready")
    /\ UNCHANGED <<info, raceWord, bssWord, buffer, clearing, bootHart, led>>

\* Mutant: the secondary harts are released before the dispatcher exists.
MMarkReady(h) ==
    /\ pc[h] \in {"dispatcher", "ready"}
    /\ Publish(h, "READY")
    /\ IF pc[h] = "ready" THEN Jump(h, "enter") ELSE UNCHANGED pc
    /\ UNCHANGED <<info, raceWord, bssWord, buffer, clearing, bootHart, led>>

\* mark_ready
MarkReady(h) ==
    /\ pc[h] = "ready"
    /\ Publish(h, "READY")
    /\ Jump(h, "enter")
    /\ UNCHANGED <<info, raceWord, bssWord, buffer, clearing, bootHart, led>>

\* wait_until_ready: any bits but zero are taken for true.
WaitUntilReady(h) ==
    /\ pc[h] = "waitReady"
    /\ Sees(h, "READY", "set") \/ Sees(h, "READY", "stale")
    /\ Jump(h, "enter")
    /\ UNCHANGED <<info, raceWord, bssWord, mem, buffer, clearing, bootHart, led>>

\* The rest of boot_hart or secondary_hart, which uses the board and the
\* dispatcher, and finish_boot.
EnterPolicy(h) ==
    /\ pc[h] = "enter"
    /\ Sees(h, "PLATFORM", "set") /\ Sees(h, "DISPATCHER", "set")
    /\ Jump(h, "booted")
    /\ UNCHANGED <<info, raceWord, bssWord, mem, buffer, clearing, bootHart, led>>

\* A booted hart starts one that was held in reset: warm_entry.
ReleaseHeld(h) ==
    /\ pc[h] = "held"
    /\ \E k \in led : pc[k] = "booted"
    /\ Jump(h, "waitReady")
    /\ UNCHANGED <<info, raceWord, bssWord, mem, buffer, clearing, bootHart, led>>

\* The loops that wait for the signal and for READY go round.
Spin(h) ==
    /\ \/ pc[h] = "waitBss" /\ bssWord = 0
       \/ pc[h] = "waitReady" /\ Sees(h, "READY", "zero")
    /\ UNCHANGED bootVars

\* Every hart is up.
Booted == /\ \A h \in AllHarts : pc[h] = "booted" /\ buffer[h] = {}
          /\ UNCHANGED bootVars

BootStep(h) ==
    \/ Drain(h) \/ Race(h) \/ Relocate(h) \/ ClearBss(h) \/ SignalBss(h) \/ WaitBss(h) \/ SelectBootHart(h)
    \/ PublishPlatform(h) \/ PublishDispatcher(h) \/ MarkReady(h) \/ WaitUntilReady(h) \/ EnterPolicy(h)

BootNext == (\E h \in AllHarts : BootStep(h) \/ ReleaseHeld(h) \/ Spin(h)) \/ Booted

\* Every hart runs, and stores reach memory.
BootFairness == \A h \in AllHarts : WF_bootVars(BootStep(h))

BootSpec == BootInit /\ [][BootNext]_bootVars /\ BootFairness

(* ------------------------------ properties ------------------------------ *)

\* At most one hart leads the boot, whether the previous stage names it or the
\* harts race for it, and whoever prepared memory.  (is_selected_boot_hart)
OneBootHart == Cardinality(led) <= 1

Started(h) == pc[h] \in {"select", "publish", "dispatcher", "ready", "waitReady", "enter", "booted"}

\* No hart runs compiled code before relocation and the clearing of BSS are
\* complete in memory, and nothing is cleared afterwards.  (the 7: word)
MemoryIsPrepared ==
    (\E h \in AllHarts : Started(h)) =>
        /\ \A w \in Words : mem[w] # "stale"
        /\ \A h \in AllHarts : buffer[h] = {}

\* A hart that passed wait_until_ready finds the board and the dispatcher,
\* which boot_hart publishes one after the other.  (mark_ready)
PublishedBeforeUse ==
    \A h \in AllHarts : pc[h] \in {"enter", "booted"} => mem.PLATFORM = "set" /\ mem.DISPATCHER = "set"

\* Every hart that enters the firmware reaches the policy, and READY is not
\* wiped under the harts that wait for it.  (start.S, wait_until_ready)
EveryHartBoots == <>(\A h \in BootHarts : pc[h] = "booted")
==============================================================================
