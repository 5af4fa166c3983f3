-------------------------- MODULE MC_ATenSpace --------------------------
(* Model-checking instance of ATenSpace: IDs, keys and values are model    *)
(* values, interchangeable among themselves.                               *)
EXTENDS ATenSpace, TLC

MCSymmetry == Permutations(AtomIDs) \cup Permutations(TensorIDs)
=============================================================================
