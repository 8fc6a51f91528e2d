------------------------------- MODULE MCQueries -------------------------------
(* The instance of Queries for TLC: what callers ask for, and sizes.         *)
EXTENDS Queries

LotsAsked     == {-1, 0, 2}
LotSizesAsked == {0, 3}
FromsAsked    == {-1, 0, 1, 2, 4, 1022, 1023}
LimitsAsked   == {-1, 0, 1, 2, 500, 501, 1023}

=============================================================================
