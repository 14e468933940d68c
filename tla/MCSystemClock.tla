--------------------------- MODULE MCSystemClock ---------------------------
(* Instances of SystemClock for TLC: a second has 3 ticks and 6 counts, a   *)
(* word has 4 bits and the time of day set is before or after its middle.   *)
EXTENDS SystemClock

Zones == {-2, 0, 2}
Before2038 == {0, 1, 3}
=============================================================================
