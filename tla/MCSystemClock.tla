--------------------------- MODULE MCSystemClock ---------------------------
EXTENDS SystemClock
CONSTANTS w1, w2, t1, t2

(* A positive value refutes NeverAhead at once.                            *)
NoClockYet == {-1, 0}
=============================================================================
