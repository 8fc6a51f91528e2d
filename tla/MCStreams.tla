----------------------------- MODULE MCStreams -----------------------------
(* Instances of Streams for TLC.                                           *)
EXTENDS Streams, TLC

CONSTANTS c1, c2, c3, a1, a2

\* Neither calls nor names are told apart.
Symmetry == Permutations(Calls) \cup Permutations(Args)

AllKinds == {"createAlert", "createComposite", "deleteAlert", "createList",
             "deleteList", "changeList", "update", "revoke", "deleteAccount",
             "invalidate", "setChat", "login", "loginOwn"}
=============================================================================
