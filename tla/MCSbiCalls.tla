----------------------------- MODULE MCSbiCalls ------------------------------
EXTENDS SbiCalls

Struct(mode, fields, vendor) ==
    [mode |-> mode, fields |-> [x \in Standard \ {"BASE"} |-> fields], vendor |-> vendor,
     vendorPresent |-> vendor # <<>>, info |-> "full"]
Hypervisor(mode, fields) ==
    [Struct(mode, fields, <<>>) EXCEPT !.info = "forward",
        !.fields = [x \in Standard \ {"BASE"} |-> IF x \in DOMAIN Forwards THEN fields ELSE <<>>]]

\* One environment, static or dynamic, with and without a vendor, of which two
\* do not compile; and a hypervisor that forwards to another environment.
MCEnvironments ==
    {<<Struct("static", f, v)>> : f \in {<<>>, <<"full">>, <<"none">>}, v \in {<<>>, <<"VENDOR">>, <<"TIME">>}}
    \cup {<<Struct("dynamic", f, <<"VENDOR">>)>> :
            f \in {<<>>, <<"none", "basic">>, <<"basic", "full">>, <<"none", "none">>, <<"none", "refnone", "full">>}}
    \cup {<<Struct("static", <<"refnone">>, <<>>)>>}
    \cup {<<[Struct("dynamic", <<"full">>, <<"VENDOR">>) EXCEPT !.vendorPresent = FALSE]>>}
    \cup {<<Hypervisor("static", <<"forward">>), Struct("dynamic", <<"none", "full">>, <<>>)>>,
          <<Hypervisor("dynamic", <<"none", "forward">>), Struct("static", <<>>, <<>>)>>,
          <<Struct("static", <<"full", "full">>, <<>>)>>}
MCRawFids == 0 .. 10
\* Two values of each type that differ in every part.
MCSampled == [u8 |-> {0, 1}, u32 |-> {1, 3}, u64 |-> {6, 13}, rv32 |-> {1, 2}, rv64 |-> {2, 5}]
==============================================================================
