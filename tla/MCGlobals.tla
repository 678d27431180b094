----------------------------- MODULE MCGlobals -----------------------------
(* An instance of Globals for TLC.                                         *)
EXTENDS Globals

CONSTANTS init, n1, n2, n3, n4, p1, p2, p3, p4, p5

\* n4 comes after n3 and around the end of the array to n1. Only n2 and n4 die, and
\* neither is ever on the way to the other.
MCHash == [text \in Texts |->
             CASE text = init -> 5 [] text = n1 -> 0 [] text = n2 -> 6
               [] text = n3 -> 7 [] text = n4 -> 15]

MCKept == <<n1, n3>>

\* A string that dies may come back where another one was.
MCPlaces == [text \in Texts |->
               CASE text = init -> {p1} [] text = n1 -> {p2} [] text = n3 -> {p3}
                 [] text \in {n2, n4} -> {p4, p5}]
=============================================================================
