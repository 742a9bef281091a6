-------------------------------- MODULE MCFwft --------------------------------
EXTENDS Fwft

SomeHarts ==
    [bits : {{0, 1, 4, 5, 6, 7, 8, 63}, {4, 5, 6, 7, 8}, {4, 6, 7, 62}}, lengths : {{0}, {0, 2}, {0, 2, 3}},
     present : {TRUE}, sstc : BOOLEAN, svpbmt : BOOLEAN]
    \cup {[bits |-> {}, lengths |-> {0}, present |-> FALSE, sstc |-> FALSE, svpbmt |-> FALSE]}
===============================================================================
