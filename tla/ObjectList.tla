----------------------------- MODULE ObjectList -----------------------------
(***************************************************************************)
(* The list vm.objects, by which sweep comes to the objects: Collector     *)
(* with the pointers that allocateObject and sweep set. Collector sweeps   *)
(* in any order; here the order is the list's, which sweep takes apart     *)
(* while it walks it.                                                      *)
(***************************************************************************)
EXTENDS Collector

CONSTANT NULL

ASSUME ObjectListAssumption == NULL \notin Addresses

VARIABLES
    first,      \* vm.objects
    next,       \* Obj.next
    previous,   \* the local variables of sweep
    object

list == <<first, next>>
walk == <<previous, object>>
listVars == <<vars, list, walk>>

ListInit ==
    /\ Init
    /\ first = NULL /\ next = [o \in Addresses |-> NULL]
    /\ previous = NULL /\ object = NULL

\* The new object becomes the first.
Push(o) == first' = o /\ next' = [next EXCEPT ![o] = first]

listAllocate ==
    /\ allocateObject
    /\ \A o \in objects' \ objects : Push(o)
    /\ UNCHANGED walk

listTrace ==
    /\ traceReferences
    /\ IF phase' = "sweep" THEN previous' = NULL /\ object' = first ELSE UNCHANGED walk
    /\ UNCHANGED list

\* What leads to o leads to what comes after it. The next of an object that is
\* freed is not read again.
Relink(o) == [a \in Addresses |-> IF a = o THEN NULL ELSE IF a = previous THEN next[o] ELSE next[a]]

\* Fault: vm.objects is not set when the first object goes.
Unlink_Previous(o) == next' = Relink(o) /\ UNCHANGED <<first, previous>>

Unlink(o) ==
    next' = Relink(o) /\ UNCHANGED previous /\ first' = (IF previous = NULL THEN next[o] ELSE first)

\* Fault: the loop advances twice, as the one over the code does (code.c:175, 189).
After_Twice(o) == IF next[o] = NULL THEN NULL ELSE next[next[o]]

After(o) == next[o]

\* The next object is read before this one is freed.
listSweep ==
    /\ phase = "sweep"
    /\ IF object = NULL
       THEN /\ phase' = "program" /\ previous' = NULL
            /\ UNCHANGED <<objects, refs, marked, rest, list, object>>
       ELSE /\ SweepOne(object)
            /\ rest' = rest \ {object} /\ object' = After(object)
            /\ IF object \in marked THEN previous' = object /\ UNCHANGED list ELSE Unlink(object)
            /\ UNCHANGED phase
    /\ UNCHANGED <<roots, gcRoots, grayStack>>

ListMutate == listAllocate \/ ((Assign \/ Hold \/ pushGCRoot \/ popGCRoot) /\ UNCHANGED <<list, walk>>)

ListCollect == (markRoots /\ UNCHANGED <<list, walk>>) \/ listTrace \/ listSweep

ListNext == ListMutate \/ (collectGarbage /\ UNCHANGED <<list, walk>>) \/ ListCollect

ListSpec == ListInit /\ [][ListNext]_listVars /\ WF_listVars(ListCollect)
-----------------------------------------------------------------------------
\* The objects from o on.
From(o) == Reachable([a \in Addresses |-> {next[a]} \ {NULL}], {o} \ {NULL})

\* The list leads to all objects that are allocated and to none that was freed, and
\* from where sweep stands to those that it has still to visit, whichever have
\* gone before (memory.c:250 to 271, object.c:12 to 26).
ListIsObjects == From(first) = objects /\ (phase = "sweep" => From(object) = rest)

\* So walking the list is sweeping a set, in one of the orders that Collector
\* leaves open, and a sweep that comes to NULL has visited every object.
ImplementsCollector == Init /\ [][Next]_vars
=============================================================================
