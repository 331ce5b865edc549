------------------------------ MODULE MCBookings ------------------------------
(***************************************************************************)
(* Small instances of Bookings: ids of one table are interchangeable.      *)
(***************************************************************************)
EXTENDS Reports, TLC

Symmetry ==
  Permutations(Customers) \union Permutations(Services) \union Permutations(Appointments)
    \union Permutations(Handlers)
=============================================================================
