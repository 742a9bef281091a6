--------------------------- MODULE MCSystemSuspend ---------------------------
(****************************************************************************)
(* SystemSuspend for TLC.                                                   *)
(****************************************************************************)
EXTENDS SystemSuspend

CONSTANTS s1, none

TwoHarts == {0, 1}
ThreeHarts == {0, 1, 2}
OneStage == {s1}
OnlyHart1 == {1}
OnlyHart2 == {2}
NoHarts == {}
==============================================================================
