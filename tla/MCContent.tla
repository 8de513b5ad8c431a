-------------------------------- MODULE MCContent --------------------------------
(***************************************************************************)
(* Instances of Content for TLC.                                           *)
(***************************************************************************)
EXTENDS Content, TLC

CONSTANTS MaxBlocks,    \* bound on simultaneous blocks
          MaxAppeals    \* bound on the posts that are ever appealed
ASSUME LimitsAreNat == {MaxBlocks, MaxAppeals} \subseteq Nat

FewBlocksAndAppeals == /\ Cardinality(blocks) =< MaxBlocks
                       /\ Cardinality(DOMAIN appeal) =< MaxAppeals

Symmetry == Permutations(User) \cup Permutations(Mod)
==================================================================================
