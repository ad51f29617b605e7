--------------------------- MODULE MC_ExterServer ---------------------------
(* Packets p1 and p2 go to unit 0; p3, where a run has it, to the last unit. *)
EXTENDS ExterServer

CONSTANTS s1, s2, p1, p2, p3

MC_UnitOf == [p \in Packets |-> IF p = p3 THEN MaxUnits - 1 ELSE 0]
=============================================================================
