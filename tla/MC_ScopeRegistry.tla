------------------------- MODULE MC_ScopeRegistry -------------------------
(* Model-checking instance of ScopeRegistry: scope IDs, keys and values    *)
(* are model values, interchangeable among themselves.                     *)
EXTENDS ScopeRegistry, TLC

MCSymmetry == Permutations(ScopeIDs) \cup Permutations(Keys)
                \cup Permutations(Vals)
=============================================================================
