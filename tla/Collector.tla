----------------------------- MODULE Collector -----------------------------
(***************************************************************************)
(* The garbage collector of memory.c: mark the roots, trace what they      *)
(* refer to, sweep the rest. A collection starts inside an allocation      *)
(* (reallocate), and the program stands still until it ends.               *)
(*                                                                         *)
(* A root is what markRoots visits: a Value on the native stack            *)
(* (FramesRoots says that walkStack finds them all), a key or value in     *)
(* vm.globals, a function of the compilers in progress, vm.initString.     *)
(* What the collection does to vm.strings and to the code segment before   *)
(* it sweeps is in Strings and in CodeSegment.                             *)
(***************************************************************************)
EXTENDS Naturals, Sequences

CONSTANTS
    Addresses,      \* where malloc may put an object
    MaxGCRoots,     \* how deep the calls between pushGCRoot and popGCRoot nest
    GCRootsAlone    \* does the code hold an object by pushGCRoot alone?

ASSUME CollectorAssumption == MaxGCRoots \in Nat /\ GCRootsAlone \in BOOLEAN

VARIABLES
    objects,    \* the addresses in the list vm.objects
    refs,       \* the objects that the object at an address refers to
    roots,      \* what markRoots visits
    gcRoots,    \* the array of that name, up to gcRootCount
    marked,     \* the objects that have isMarked set
    grayStack,  \* vm.grayStack, in no particular order
    phase,      \* the function of memory.c that runs, or "program"
    rest        \* the roots or the objects that this function has not visited

vars == <<objects, refs, roots, gcRoots, marked, grayStack, phase, rest>>
program == <<objects, refs, roots, gcRoots>>
collector == <<marked, grayStack, phase, rest>>

Closed(r, S) == \A o \in S : r[o] \subseteq S

\* The least closed set that holds the objects in R.
Reachable(r, R) ==
    {o \in Addresses : \A S \in SUBSET Addresses : (R \subseteq S /\ Closed(r, S)) => o \in S}

InGCRoots == {gcRoots[i] : i \in DOMAIN gcRoots}

\* What the program can use.
Usable == Reachable(refs, roots \cup InGCRoots)

\* The code keeps what it holds by pushGCRoot in a root as well.
Held == GCRootsAlone \/ InGCRoots \subseteq Reachable(refs, roots)
-----------------------------------------------------------------------------
Init ==
    /\ objects = {} /\ refs = [o \in Addresses |-> {}]
    /\ roots = {} /\ gcRoots = <<>>
    /\ marked = {} /\ grayStack = {}
    /\ phase = "program" /\ rest = {}

\* The new object is not marked; the code that asked for it puts it on the stack.
allocateObject ==
    /\ phase = "program"
    /\ \E o \in Addresses \ objects, S \in SUBSET Usable :
          /\ objects' = objects \cup {o}
          /\ refs' = [refs EXCEPT ![o] = S]
          /\ roots' = roots \cup {o}
    /\ UNCHANGED <<gcRoots, collector>>

\* A constant joins a function, a function gets its name.
Assign ==
    /\ phase = "program"
    /\ \E o \in Usable, S \in SUBSET Usable : refs' = [refs EXCEPT ![o] = S]
    /\ UNCHANGED <<objects, roots, gcRoots, collector>>
    /\ Held'

\* Values are pushed and popped, globals defined, compilers begin and end.
Hold ==
    /\ phase = "program"
    /\ roots' \in SUBSET Usable
    /\ UNCHANGED <<objects, refs, gcRoots, collector>>
    /\ Held'

pushGCRoot ==
    /\ phase = "program"
    /\ Len(gcRoots) < MaxGCRoots
    /\ \E o \in Usable : gcRoots' = Append(gcRoots, o)
    /\ UNCHANGED <<objects, refs, roots, collector>>
    /\ Held'

popGCRoot ==
    /\ phase = "program"
    /\ gcRoots # <<>>
    /\ gcRoots' = SubSeq(gcRoots, 1, Len(gcRoots) - 1)
    /\ UNCHANGED <<objects, refs, roots, collector>>

\* reallocate finds vm.bytesAllocated over vm.nextGC.
collectGarbage ==
    /\ phase = "program"
    /\ phase' = "markRoots" /\ rest' = roots
    /\ UNCHANGED <<program, marked, grayStack>>

\* Fault: an object that is marked already goes to the gray stack once more.
markObjects_Again(S, gray) ==
    /\ marked' = marked \cup S
    /\ grayStack' = gray \cup S

\* markObject of every object in S, with the objects in gray on the gray stack.
markObjects(S, gray) ==
    /\ marked' = marked \cup S
    /\ grayStack' = gray \cup (S \ marked)

markRoots ==
    /\ phase = "markRoots"
    /\ IF rest = {}
       THEN phase' = "traceReferences" /\ UNCHANGED <<marked, grayStack, rest>>
       ELSE \E o \in rest :
               /\ markObjects({o}, grayStack)
               /\ rest' = rest \ {o}
               /\ UNCHANGED phase
    /\ UNCHANGED program

\* The references of an object are all marked when it leaves the gray stack.
traceReferences ==
    /\ phase = "traceReferences"
    /\ IF grayStack = {}
       THEN phase' = "sweep" /\ rest' = objects /\ UNCHANGED <<marked, grayStack>>
       ELSE \E o \in grayStack :
               /\ markObjects(refs[o], grayStack \ {o})
               /\ UNCHANGED <<phase, rest>>
    /\ UNCHANGED program

Free(o) ==
    /\ objects' = objects \ {o}
    /\ refs' = [refs EXCEPT ![o] = {}]
    /\ UNCHANGED marked

\* Fault: an object that survives keeps its mark.
Unmark_Not(o) == UNCHANGED <<objects, refs, marked>>

Unmark(o) == marked' = marked \ {o} /\ UNCHANGED <<objects, refs>>

\* Fault: the two branches are swapped.
SweepOne_Swapped(o) == IF o \in marked THEN Free(o) ELSE Unmark(o)

\* Fault: an object that comes before the first survivor stays.
SweepOne_First(o) == IF o \in marked \/ rest = objects THEN Unmark(o) ELSE Free(o)

\* One object of the list.
SweepOne(o) == IF o \in marked THEN Unmark(o) ELSE Free(o)

sweep ==
    /\ phase = "sweep"
    /\ IF rest = {}
       THEN phase' = "program" /\ UNCHANGED <<objects, refs, marked, rest>>
       ELSE \E o \in rest :
               /\ SweepOne(o)
               /\ rest' = rest \ {o}
               /\ UNCHANGED phase
    /\ UNCHANGED <<roots, gcRoots, grayStack>>

Mutate == allocateObject \/ Assign \/ Hold \/ pushGCRoot \/ popGCRoot

Collect == markRoots \/ traceReferences \/ sweep

Next == Mutate \/ collectGarbage \/ Collect

\* collectGarbage is a C function that nothing interrupts.
Spec == Init /\ [][Next]_vars /\ WF_vars(Collect)
-----------------------------------------------------------------------------
\* Marks are on objects, and what is gray is marked.
TypeOK ==
    /\ objects \subseteq Addresses
    /\ refs \in [Addresses -> SUBSET Addresses]
    /\ roots \subseteq Addresses
    /\ gcRoots \in Seq(Addresses)
    /\ marked \subseteq objects
    /\ grayStack \subseteq marked
    /\ phase \in {"program", "markRoots", "traceReferences", "sweep"}
    /\ rest \subseteq Addresses

\* What the program can use has not been freed: sweep (memory.c:250) frees
\* nothing that a root leads to, whatever earlier collections have left marked.
NoDanglingPointers == Usable \subseteq objects

\* Seen by the program, a collection removes what it cannot use and nothing
\* else, at once: marking and sweeping one object at a time implements Heap.
Survivors == IF phase = "sweep" THEN objects \ (rest \ marked) ELSE objects

HeapSpec == INSTANCE Heap WITH
    objects <- Survivors,
    refs <- [o \in Addresses |-> IF o \in Survivors THEN refs[o] ELSE {}],
    roots <- roots \cup InGCRoots

ImplementsHeap == HeapSpec!Spec

\* A collection ends (memory.c:244): every object is gray at most once,
\* in cycles of references too.
CollectionEnds == phase # "program" ~> phase = "program"
=============================================================================
