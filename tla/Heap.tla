-------------------------------- MODULE Heap --------------------------------
(***************************************************************************)
(* What a Lox program sees of its memory: it makes objects, links them and *)
(* lets go of them, and now and then all objects that it cannot reach      *)
(* vanish at once.                                                         *)
(***************************************************************************)
CONSTANT Addresses

VARIABLES
    objects,    \* the addresses where an object is
    refs,       \* the objects that the object at an address refers to
    roots       \* the objects that the program holds

vars == <<objects, refs, roots>>

Closed(r, S) == \A o \in S : r[o] \subseteq S

\* The least closed set that holds the objects in R.
Reachable(r, R) ==
    {o \in Addresses : \A S \in SUBSET Addresses : (R \subseteq S /\ Closed(r, S)) => o \in S}

Init == objects = {} /\ refs = [o \in Addresses |-> {}] /\ roots = {}

Allocate ==
    \E o \in Addresses \ objects, S \in SUBSET Reachable(refs, roots) :
        /\ objects' = objects \cup {o}
        /\ refs' = [refs EXCEPT ![o] = S]
        /\ roots' = roots \cup {o}

Assign ==
    \E o \in Reachable(refs, roots), S \in SUBSET Reachable(refs, roots) :
        /\ refs' = [refs EXCEPT ![o] = S]
        /\ UNCHANGED <<objects, roots>>

Hold == roots' \in SUBSET Reachable(refs, roots) /\ UNCHANGED <<objects, refs>>

Collect ==
    /\ objects' = Reachable(refs, roots)
    /\ refs' = [o \in Addresses |-> IF o \in objects' THEN refs[o] ELSE {}]
    /\ UNCHANGED roots

Next == Allocate \/ Assign \/ Hold \/ Collect

Spec == Init /\ [][Next]_vars
=============================================================================
