-------------------------- MODULE MCPurgeWorkflow --------------------------
(* Instances of PurgeWorkflow for TLC.                                     *)
EXTENDS PurgeWorkflow, TLC

CONSTANTS u1, u2, u3, w1, w2, h1, logo, appointment

\* Handlers and holds have no identity of their own; owners are told apart only
\* by whether they have a local password.
Symmetry == Permutations(Workers) \union Permutations(Holds) \union Permutations(LocalOwners)
=============================================================================
