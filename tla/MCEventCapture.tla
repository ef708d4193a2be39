--------------------------- MODULE MCEventCapture ---------------------------
(* EventCapture with two cores and a counter of four values.               *)
EXTENDS EventCapture, TLC

Symmetry == Permutations(Names) \cup Permutations(Cores)
=============================================================================
