-------------------------- MODULE GlobalVariables --------------------------
(***************************************************************************)
(* What a Lox program sees of its global variables: a name is bound by its *)
(* definition, and a use or an assignment before that is an error that     *)
(* changes nothing.                                                        *)
(***************************************************************************)
CONSTANTS Names, Values, Undefined, Error

VARIABLES
    bound,      \* the value of every name, or Undefined
    answer      \* the value that was read or assigned last, or Error

vars == <<bound, answer>>

Init == bound = [n \in Names |-> Undefined] /\ answer = Undefined

Bind(n, v) == bound' = [bound EXCEPT ![n] = v]

Define(n, v) == answer' = Undefined /\ Bind(n, v)

Get(n) ==
    /\ answer' = IF bound[n] = Undefined THEN Error ELSE bound[n]
    /\ UNCHANGED bound

Set(n, v) ==
    \/ answer' = v /\ bound[n] # Undefined /\ Bind(n, v)
    \/ answer' = Error /\ bound[n] = Undefined /\ UNCHANGED bound

Next == \E n \in Names : Get(n) \/ \E v \in Values : Define(n, v) \/ Set(n, v)

Spec == Init /\ [][Next]_vars
=============================================================================
