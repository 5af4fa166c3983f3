------------------------- MODULE MC_Integration -------------------------
(* Model-checking instance of Integration: goroutines, IDs, keys and       *)
(* values are model values, interchangeable among themselves.              *)
EXTENDS Integration, TLC

MCSymmetry == Permutations(Threads) \cup Permutations(Vals)
=============================================================================
