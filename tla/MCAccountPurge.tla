---------------------------- MODULE MCAccountPurge ----------------------------
(***************************************************************************)
(* A small instance of AccountPurge: approval owners, sessions and holds   *)
(* are interchangeable.                                                    *)
(***************************************************************************)
EXTENDS AccountPurge, TLC

Symmetry == Permutations(Approvers) \union Permutations(Callers) \union Permutations(Holds)
=============================================================================
