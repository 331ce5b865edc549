------------------------------- MODULE MCStaff -------------------------------
(***************************************************************************)
(* One workspace with its owner and an admin, and one account that either  *)
(* is there from before there were memberships or is yet to be created.    *)
(***************************************************************************)
EXTENDS Staff, TLC

CONSTANTS owner, admin, third, spa

MCUsers == {owner, admin, third}
MCInitialRole == owner :> "OWNER" @@ admin :> "ADMIN" @@ third :> None
MCHome == owner :> spa @@ admin :> spa @@ third :> None
MCCreator == owner :> None @@ admin :> owner @@ third :> owner
Symmetry == Permutations(Handlers)
=============================================================================
