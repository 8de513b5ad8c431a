----------------------------- MODULE MCSocialGraph -----------------------------
(***************************************************************************)
(* Instances of SocialGraph for TLC.  Users and names are interchangeable. *)
(***************************************************************************)
EXTENDS SocialGraph, TLC

CONSTANT MaxBlocks     \* bound on simultaneous blocks
ASSUME MaxBlocksIsNat == MaxBlocks \in Nat

FewBlocks == Cardinality(blocks) =< MaxBlocks

Symmetry == Permutations(User) \cup Permutations(Name)
================================================================================
