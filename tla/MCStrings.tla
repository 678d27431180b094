----------------------------- MODULE MCStrings -----------------------------
(* Instances of Strings for TLC.                                           *)
EXTENDS Strings

CONSTANTS init, a, b, c

\* Two strings that can die together are in one chain.
MCColliding == [t \in Texts |-> CASE t = init -> 0 [] t = a -> 2 [] t = b -> 10 [] OTHER -> 7]

MCKept == <<>>
MCPlaces == [t \in Texts |-> Addresses]
=============================================================================
