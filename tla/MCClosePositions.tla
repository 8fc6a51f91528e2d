------------------------- MODULE MCClosePositions -------------------------
(* Instances of ClosePositions for TLC: two products of one instrument and,*)
(* in the longer list, a second instrument.                                *)
EXTENDS ClosePositions, TLC

CONSTANTS c1, c2, infy, tcs, mis, cnc, any

InstrumentOf == <<infy, infy, tcs>>
ProductOf == <<mis, cnc, mis>>

\* The calls differ only in what they are asked.
Symmetry == Permutations(Calls)

=============================================================================
