-------------------------- MODULE MCOrderPipeline --------------------------
(* Instances of OrderPipeline for TLC.                                     *)
EXTENDS OrderPipeline, TLC

\* Requests are interchangeable, and so are orders (safety only).
Symmetry == Permutations(Reqs) \cup Permutations(Orders)

\* The broker has not had all the orders from the start: to change two of them
\* takes a placement before.
SafetyInit == Init /\ \E o \in Orders : book[o] = "none"

SafetySpec == SafetyInit /\ [][Next]_vars

=============================================================================
