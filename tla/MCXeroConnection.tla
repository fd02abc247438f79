-------------------------- MODULE MCXeroConnection --------------------------
(***************************************************************************)
(* A small instance of XeroConnection: two organisations, so that a        *)
(* disconnect has a list to walk, and enough calls for a leader, one that  *)
(* joins it and one that interferes.                                       *)
(***************************************************************************)
EXTENDS XeroConnection, TLC

TwoTenants == {"acme", "beta"}
TwoInOrder == <<"acme", "beta">>
OneTenant  == {"acme"}
OneInOrder == <<"acme">>

Symmetry == Permutations(Calls) \cup Permutations(Apps)
=============================================================================
