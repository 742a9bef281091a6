-------------------------------- MODULE MCPmu --------------------------------
(****************************************************************************)
(* Pmu for TLC.                                                             *)
(****************************************************************************)
EXTENDS Pmu

CONSTANTS cycles, instret, cache, raw1, raw2, rawidx, fw1, fw2, none

\* One programmable counter, with a gap before it.
OneProgrammable == {0, 1, 2, 4}

AllHwEvents == {cycles, instret, cache, raw1, raw2}
ThreeHwEvents == {cycles, instret, raw1}
OneRaw == {raw1}
TwoRaws == {raw1, raw2}
OneFwEvent == {fw1}
TwoFwEvents == {fw1, fw2}

\* The device tree may name mcycle, time and minstret too.
WideMap == [e \in HwEvents |-> IF e = cache THEN {4} ELSE {0, 1, 2, 4}]
NarrowMap == [e \in HwEvents |-> IF e \in RawEvents THEN {4} ELSE {}]
AllEvents == HwEvents
NotCache == HwEvents \ {cache}

SomeSets == {{c} : c \in Counters} \cup ({HwCounters, FwCounters, Counters} \ {{}})
==============================================================================
