-------------------------- MODULE MCLinkedAllocator --------------------------
(***************************************************************************)
(* The instance of LinkedAllocator that TLC checks.                        *)
(***************************************************************************)
EXTENDS LinkedAllocator, TLC

Symmetry == Permutations(Block)
=============================================================================
