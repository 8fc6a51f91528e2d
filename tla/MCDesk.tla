-------------------------------- MODULE MCDesk --------------------------------
(***************************************************************************)
(* Every identifier, user, key and call is interchangeable with its like.  *)
(***************************************************************************)
EXTENDS Desk, TLC

Symmetry == Permutations(Calls) \cup Permutations(Ids)

=============================================================================
