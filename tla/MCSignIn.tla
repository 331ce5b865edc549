------------------------------- MODULE MCSignIn -------------------------------
(***************************************************************************)
(* A local account, one that may be created or seeded, both with one       *)
(* workspace, and a Google identity with two that has not signed in yet.   *)
(***************************************************************************)
EXTENDS SignIn, TLC

CONSTANTS local, other, google, x, y, z, spa, branch

MCUsers == {local, other, google}
MCFirstName == local :> x
MCWants == local :> {x, z} @@ other :> {y, z} @@ google :> {y, z}
MCReach == local :> {spa} @@ other :> {spa} @@ google :> {spa, branch}
Symmetry == Permutations(Handlers)
=============================================================================
