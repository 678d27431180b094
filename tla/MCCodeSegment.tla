--------------------------- MODULE MCCodeSegment ---------------------------
(* Instances of Compilation for TLC: functions of one to three             *)
(* instructions, and pages of four.                                        *)
EXTENDS Compilation

CONSTANTS f1, f2, f3, f4

MCSize == [f \in Functions |-> CASE f = f1 -> 1 [] f = f2 -> 2 [] OTHER -> 3]
=============================================================================
