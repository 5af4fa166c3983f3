-------------------------- MODULE MC_PeerNetwork --------------------------
(* Model-checking instance of PeerNetwork: peer and scope IDs are model    *)
(* values, interchangeable among themselves.                               *)
EXTENDS PeerNetwork, TLC

MCSymmetry == Permutations(PeerIDs) \cup Permutations(ScopeIDs)
=============================================================================
