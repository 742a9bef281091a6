----------------------------- MODULE MCServices ------------------------------
(****************************************************************************)
(* The services that one hart's calls reach, for TLC: the encoding and      *)
(* dispatch of SBI calls, performance counters, firmware features, the      *)
(* secure memory library, hart masks, and the device tree for the next      *)
(* stage. As in MCMachine, a behaviour runs one part.                       *)
(****************************************************************************)
EXTENDS MCSbiCalls, MCPmu, MCFwft, MCDeviceTree, SecureMemory, HartMasks

VARIABLE part

-----------------------------------------------------------------------------
\* The parts that start in one of several states, at rest.
CallsAtRest ==
    /\ xlen = 64
    /\ env = CHOOSE e \in Environments : \A l \in 1 .. Len(e) : Compiles(e[l])
    /\ SbiInit
FeaturesAtRest ==
    /\ hart = CHOOSE h \in FwftHarts : TRUE
    /\ medeleg = FALSE
    /\ FwftInit
TreeAtRest ==
    /\ blob = WithHeader(Root(<<>>), 1, 0, 0) /\ output = blob
    /\ edit = NoEdit /\ dtStep = "entry" /\ reboots = 0
MasksAtRest ==
    /\ mask = AllHartsMask /\ chosen = HartIdSpace
    /\ ids = NoIds /\ front = <<>> /\ back = <<>>

ServicesInit ==
    /\ part \in {"calls", "counters", "features", "enclaves", "tree", "masks"}
    /\ IF part = "calls" THEN SbiInit ELSE CallsAtRest
    /\ IF part = "features" THEN FwftInit ELSE FeaturesAtRest
    /\ IF part = "tree" THEN DtInit ELSE TreeAtRest
    /\ IF part = "masks" THEN MaskInit ELSE MasksAtRest
    /\ PmuInit /\ SecureInit

servicesVars == <<part, sbiVars, pmuVars, fwftVars, secureVars, dtVars, maskVars>>

\* The parts whose bounds, or whose board, leave nothing more to do.
ServicesEnd == part \in {"counters", "features", "enclaves", "tree"} /\ UNCHANGED servicesVars

ServicesNext ==
    \/ /\ UNCHANGED part
       /\ \/ part = "calls" /\ SbiNext /\ UNCHANGED <<pmuVars, fwftVars, secureVars, dtVars, maskVars>>
          \/ part = "counters" /\ PmuNext /\ UNCHANGED <<sbiVars, fwftVars, secureVars, dtVars, maskVars>>
          \/ part = "features" /\ FwftNext /\ UNCHANGED <<sbiVars, pmuVars, secureVars, dtVars, maskVars>>
          \/ part = "enclaves" /\ SecureNext /\ UNCHANGED <<sbiVars, pmuVars, fwftVars, dtVars, maskVars>>
          \/ part = "tree" /\ DtNext /\ UNCHANGED <<sbiVars, pmuVars, fwftVars, secureVars, maskVars>>
          \/ part = "masks" /\ MaskNext /\ UNCHANGED <<sbiVars, pmuVars, fwftVars, secureVars, dtVars>>
    \/ ServicesEnd

ServicesSpec == ServicesInit /\ [][ServicesNext]_servicesVars
==============================================================================
