------------------------------- MODULE MCSaga -------------------------------
(* Instances of Saga for TLC: every saga of N steps.                       *)
EXTENDS Saga
=============================================================================
