-------------------------------- MODULE MCBoot --------------------------------
EXTENDS BootElection
AnyInfo == {"none", "any"} \cup BootHarts
==============================================================================
