--------------------------- MODULE MCOwnerLifecycle ---------------------------
(***************************************************************************)
(* Small instances of OwnerLifecycle: two workspaces owned at the start,   *)
(* one of them by two owners, and slugs for further ones.                  *)
(***************************************************************************)
EXTENDS OwnerLifecycle, TLC

CONSTANTS ann, bob, cem, w1, w2, w3, w4

\* ann owns w1 with bob and w2 alone; cem is new.
MCInitialOwners ==
  [w \in Workspaces |-> CASE w = w1 -> {ann, bob} [] w = w2 -> {ann} [] OTHER -> {}]

\* Two slugs for the new owner, for the others one.
MCSlugs ==
  [u \in Owners |-> SelectSeq(IF u = cem THEN <<w3, w4>> ELSE <<w3>>,
                              LAMBDA w : w \in Workspaces)]

Symmetry == Permutations(Handlers)
=============================================================================
