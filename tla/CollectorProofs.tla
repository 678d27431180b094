-------------------------- MODULE CollectorProofs --------------------------
(***************************************************************************)
(* For any number of objects, roots and collections: no object that the    *)
(* program can use is freed, and the collector implements Heap, if the     *)
(* code holds no object by pushGCRoot alone. The list of objects, which    *)
(* sweep takes apart as it walks it, leads to all that it has to visit, so *)
(* all of this holds of the walk too.                                      *)
(***************************************************************************)
EXTENDS ObjectList, Recursion, TLAPS

Graphs == [Addresses -> SUBSET Addresses]

\* The marked objects and those on the way to them: what a collection keeps.
Live == Reachable(refs, roots)

\* Before the sweep, what a root leads to is in the list of objects.
HeapInv ==
    phase # "sweep" =>
        /\ roots \subseteq objects
        /\ Closed(refs, objects)
        /\ marked \subseteq Live

\* Where the collection has got to.
PhaseInv ==
    /\ phase = "program" => marked = {} /\ grayStack = {}
    /\ phase = "markRoots" => rest \subseteq roots /\ roots \ rest \subseteq marked
    /\ phase = "traceReferences" => roots \subseteq marked
    /\ phase \in {"markRoots", "traceReferences"} =>
          \A o \in marked \ grayStack : refs[o] \subseteq marked
    /\ phase = "sweep" =>
          grayStack = {} /\ rest \subseteq objects /\ marked \subseteq rest /\ Survivors = Live

IInv == TypeOK /\ InGCRoots \subseteq Live /\ HeapInv /\ PhaseInv

\* What is reachable is closed, and holds the roots.
LEMMA ReachableIsClosed ==
    ASSUME NEW r \in Graphs, NEW R \in SUBSET Addresses
    PROVE  /\ R \subseteq Reachable(r, R)
           /\ Closed(r, Reachable(r, R))
           /\ Reachable(r, R) \in SUBSET Addresses
<1>1. R \subseteq Reachable(r, R) /\ Reachable(r, R) \in SUBSET Addresses
  BY DEF Reachable
<1>2. ASSUME NEW o \in Reachable(r, R), NEW p \in r[o] PROVE p \in Reachable(r, R)
  <2>1. o \in Addresses /\ p \in Addresses
    BY <1>2 DEF Reachable, Graphs
  <2>2. ASSUME NEW S \in SUBSET Addresses, R \subseteq S, Closed(r, S) PROVE p \in S
    <3>1. o \in S
      BY <2>2 DEF Reachable
    <3> QED
      BY <3>1, <2>2 DEF Closed
  <2> QED
    BY <2>1, <2>2 DEF Reachable
<1> QED
  BY <1>1, <1>2 DEF Closed

\* It is the least such set.
LEMMA ReachableIsLeast ==
    ASSUME NEW r, NEW R, NEW S \in SUBSET Addresses, R \subseteq S, Closed(r, S)
    PROVE  Reachable(r, R) \subseteq S
  BY DEF Reachable

\* Objects that are reachable are no new roots.
LEMMA ReachableFromReachable ==
    ASSUME NEW r \in Graphs, NEW R \in SUBSET Addresses, NEW S \in SUBSET Reachable(r, R)
    PROVE  Reachable(r, S) \subseteq Reachable(r, R) /\ Reachable(r, R \cup S) = Reachable(r, R)
<1>1. S \in SUBSET Addresses /\ R \cup S \in SUBSET Addresses
  BY ReachableIsClosed
<1>2. Reachable(r, S) \subseteq Reachable(r, R) /\ Reachable(r, R \cup S) \subseteq Reachable(r, R)
  BY ReachableIsClosed, ReachableIsLeast
<1>3. R \subseteq Reachable(r, R \cup S) /\ Closed(r, Reachable(r, R \cup S))
  BY <1>1, ReachableIsClosed
<1>4. Reachable(r, R) \subseteq Reachable(r, R \cup S)
  BY <1>1, <1>3, ReachableIsClosed, ReachableIsLeast
<1> QED
  BY <1>2, <1>4

\* References between other objects do not matter.
LEMMA ReachableAgrees ==
    ASSUME NEW r \in Graphs, NEW q \in Graphs, NEW R \in SUBSET Addresses,
           \A o \in Reachable(r, R) : q[o] = r[o]
    PROVE  Reachable(q, R) = Reachable(r, R)
<1>1. Closed(q, Reachable(r, R))
  BY ReachableIsClosed DEF Closed
<1>2. Reachable(q, R) \subseteq Reachable(r, R)
  BY <1>1, ReachableIsClosed, ReachableIsLeast
<1>3. Closed(r, Reachable(q, R))
  BY <1>2, ReachableIsClosed DEF Closed
<1>4. Reachable(r, R) \subseteq Reachable(q, R)
  BY <1>3, ReachableIsClosed, ReachableIsLeast
<1> QED
  BY <1>2, <1>4
-----------------------------------------------------------------------------
\* Without roots of its own, pushGCRoot adds nothing to what the program can use.
LEMMA UsableIsLive ==
    ASSUME IInv
    PROVE  Usable = Live /\ Live \subseteq Survivors /\ Survivors \subseteq objects
           /\ roots \subseteq Live /\ Closed(refs, Live) /\ Live \in SUBSET Addresses
<1>1. refs \in Graphs /\ roots \in SUBSET Addresses
  BY DEF IInv, TypeOK, Graphs
<1>2. Usable = Live
  BY <1>1, ReachableFromReachable DEF IInv, Usable, Live
<1>3. Survivors \subseteq objects
  BY DEF Survivors
<1>4. Live \subseteq Survivors
  <2>1. CASE phase = "sweep"
    BY <2>1 DEF IInv, PhaseInv
  <2>2. CASE phase # "sweep"
    BY <2>2, ReachableIsLeast DEF IInv, HeapInv, TypeOK, Live, Survivors
  <2> QED
    BY <2>1, <2>2
<1> QED
  BY <1>1, <1>2, <1>3, <1>4, ReachableIsClosed DEF Live

\* At the start the heap is empty.
LEMMA InitStep == Init => IInv
  BY DEF Init, IInv, TypeOK, InGCRoots, HeapInv, PhaseInv, Closed

\* While the program runs nothing is marked, so only the heap matters.
LEMMA ProgramStep ==
    ASSUME phase = "program", UNCHANGED collector, IInv, TypeOK',
           InGCRoots' \subseteq Live', roots' \subseteq objects', Closed(refs', objects')
    PROVE  IInv'
<1>1. marked' = {} /\ grayStack' = {} /\ phase' = "program"
  BY DEF collector, IInv, PhaseInv
<1>2. HeapInv'
  BY <1>1 DEF HeapInv
<1>3. PhaseInv'
  BY <1>1 DEF PhaseInv
<1> QED
  BY <1>2, <1>3 DEF IInv

\* A new object is usable, and refers to usable objects only.
LEMMA AllocateStep == ASSUME IInv, allocateObject PROVE IInv'
<1>1. PICK o \in Addresses \ objects, S \in SUBSET Usable :
         objects' = objects \cup {o} /\ refs' = [refs EXCEPT ![o] = S] /\ roots' = roots \cup {o}
  BY DEF allocateObject
<1>2. phase = "program" /\ UNCHANGED <<gcRoots, collector>>
  BY DEF allocateObject
<1>3. Usable = Live /\ Live \subseteq objects /\ Live \in SUBSET Addresses
  BY UsableIsLive
<1>4. TypeOK'
  BY <1>1, <1>2, <1>3 DEF IInv, TypeOK, collector
<1>5. roots' \subseteq objects' /\ Closed(refs', objects')
  BY <1>1, <1>2, <1>3 DEF IInv, HeapInv, TypeOK, Closed
<1>6. InGCRoots' \subseteq Live'
  <2>1. \A p \in Live : refs'[p] = refs[p]
    BY <1>1, <1>3 DEF IInv, TypeOK
  <2>2. refs \in Graphs /\ refs' \in Graphs /\ roots \in SUBSET Addresses /\ roots' \in SUBSET Addresses
    BY <1>4 DEF IInv, TypeOK, Graphs
  <2>3. Reachable(refs', roots) = Live
    BY <2>1, <2>2, ReachableAgrees DEF Live
  <2>4. roots \subseteq Live' /\ Closed(refs', Live') /\ Live' \in SUBSET Addresses
    BY <1>1, <2>2, ReachableIsClosed DEF Live
  <2>5. Reachable(refs', roots) \subseteq Live'
    BY <2>4, ReachableIsLeast
  <2> QED
    BY <1>2, <2>3, <2>5 DEF IInv, InGCRoots
<1> QED
  BY <1>2, <1>4, <1>5, <1>6, ProgramStep

\* A new reference leads to what was usable before.
LEMMA AssignStep == ASSUME GCRootsAlone = FALSE, IInv, Assign PROVE IInv'
<1>1. PICK o \in Usable, S \in SUBSET Usable : refs' = [refs EXCEPT ![o] = S]
  BY DEF Assign
<1>2. phase = "program" /\ UNCHANGED <<objects, roots, gcRoots, collector>> /\ Held'
  BY DEF Assign
<1>3. Usable = Live /\ Live \subseteq objects /\ Live \in SUBSET Addresses
  BY UsableIsLive
<1>4. TypeOK'
  BY <1>1, <1>2, <1>3 DEF IInv, TypeOK, collector
<1>5. roots' \subseteq objects' /\ Closed(refs', objects')
  BY <1>1, <1>2, <1>3 DEF IInv, HeapInv, TypeOK, Closed
<1>6. InGCRoots' \subseteq Live'
  BY <1>2 DEF Held, Live
<1> QED
  BY <1>2, <1>4, <1>5, <1>6, ProgramStep

\* The program can hold only what it can use.
LEMMA HoldStep == ASSUME GCRootsAlone = FALSE, IInv, Hold PROVE IInv'
<1>1. phase = "program" /\ UNCHANGED <<objects, refs, gcRoots, collector>> /\ Held'
      /\ roots' \in SUBSET Usable
  BY DEF Hold
<1>2. Usable = Live /\ Live \subseteq objects /\ Live \in SUBSET Addresses
  BY UsableIsLive
<1>3. TypeOK'
  BY <1>1, <1>2 DEF IInv, TypeOK, collector
<1>4. roots' \subseteq objects' /\ Closed(refs', objects')
  BY <1>1, <1>2 DEF IInv, HeapInv, Closed
<1>5. InGCRoots' \subseteq Live'
  BY <1>1 DEF Held, Live
<1> QED
  BY <1>1, <1>3, <1>4, <1>5, ProgramStep

\* pushGCRoot and popGCRoot leave the heap as it is.
LEMMA GCRootStep == ASSUME GCRootsAlone = FALSE, IInv, pushGCRoot \/ popGCRoot PROVE IInv'
<1>1. phase = "program" /\ UNCHANGED <<objects, refs, roots, collector>>
  BY DEF pushGCRoot, popGCRoot
<1>2. Usable = Live /\ Live \subseteq objects /\ Live \in SUBSET Addresses
  BY UsableIsLive
<1>3. gcRoots' \in Seq(Addresses) /\ InGCRoots' \subseteq Live
  <2>1. CASE pushGCRoot
    <3>1. PICK o \in Usable : gcRoots' = Append(gcRoots, o)
      BY <2>1 DEF pushGCRoot
    <3>2. gcRoots' \in Seq(Addresses)
      BY <3>1, <1>2 DEF IInv, TypeOK
    <3>3. InGCRoots' \subseteq Live
      BY <1>1, <2>1 DEF pushGCRoot, Held, Live
    <3> QED
      BY <3>2, <3>3
  <2>2. CASE popGCRoot
    <3>1. gcRoots \in Seq(Addresses) /\ gcRoots # <<>> /\ gcRoots' = SubSeq(gcRoots, 1, Len(gcRoots) - 1)
      BY <2>2 DEF popGCRoot, IInv, TypeOK
    <3>2. gcRoots' \in Seq(Addresses) /\ \A i \in DOMAIN gcRoots' : i \in DOMAIN gcRoots /\ gcRoots'[i] = gcRoots[i]
      BY <3>1
    <3> QED
      BY <3>2 DEF InGCRoots, IInv
  <2> QED
    BY <2>1, <2>2
<1>4. TypeOK'
  BY <1>1, <1>3 DEF IInv, TypeOK, collector
<1>5. InGCRoots' \subseteq Live' /\ roots' \subseteq objects' /\ Closed(refs', objects')
  BY <1>1, <1>3 DEF IInv, HeapInv, Closed, Live
<1> QED
  BY <1>1, <1>4, <1>5, ProgramStep

\* A collection starts with no mark and all roots to visit.
LEMMA BeginStep == ASSUME IInv, collectGarbage PROVE IInv'
<1>1. phase = "program" /\ phase' = "markRoots" /\ rest' = roots
      /\ UNCHANGED <<objects, refs, roots, gcRoots, marked, grayStack>>
  BY DEF collectGarbage, program
<1>2. TypeOK' /\ InGCRoots' \subseteq Live'
  BY <1>1 DEF IInv, TypeOK, InGCRoots, Live
<1>3. HeapInv'
  BY <1>1 DEF IInv, HeapInv, Live
<1>4. PhaseInv'
  BY <1>1 DEF IInv, PhaseInv
<1> QED
  BY <1>2, <1>3, <1>4 DEF IInv

\* A root that has been visited is marked.
LEMMA MarkRootsStep == ASSUME IInv, markRoots PROVE IInv'
<1>1. phase = "markRoots" /\ UNCHANGED <<objects, refs, roots, gcRoots>>
      /\ phase' \in {"markRoots", "traceReferences"} /\ rest' \subseteq rest
  BY DEF markRoots, program
<1>2. roots \subseteq Live /\ Live \subseteq objects
  BY UsableIsLive
<1>3. PICK M \in SUBSET roots : marked' = marked \cup M /\ grayStack' = grayStack \cup (M \ marked)
                              /\ roots \ rest' \subseteq marked'
                              /\ (phase' = "traceReferences" => rest = {})
  <2>1. CASE rest = {}
    BY <2>1, <1>1 DEF markRoots, IInv, PhaseInv
  <2>2. CASE rest # {}
    <3>1. PICK o \in rest : markObjects({o}, grayStack) /\ rest' = rest \ {o} /\ UNCHANGED phase
      BY <2>2 DEF markRoots
    <3>2. roots \ rest' \subseteq marked'
      BY <3>1, <1>1 DEF IInv, PhaseInv, markObjects
    <3>3. o \in roots
      BY <1>1 DEF IInv, PhaseInv
    <3> QED
      BY <3>1, <3>2, <3>3, <1>1 DEF markObjects
  <2> QED
    BY <2>1, <2>2
<1>4. TypeOK' /\ InGCRoots' \subseteq Live' /\ HeapInv'
  BY <1>1, <1>2, <1>3 DEF IInv, TypeOK, HeapInv, InGCRoots, Live
<1>5. PhaseInv'
  BY <1>1, <1>3 DEF IInv, PhaseInv
<1> QED
  BY <1>4, <1>5 DEF IInv

\* When nothing is gray, exactly what the program can use is marked.
LEMMA AllMarked ==
    ASSUME IInv, phase = "traceReferences", grayStack = {}
    PROVE  marked = Live
<1>1. roots \subseteq marked /\ Closed(refs, marked) /\ marked \subseteq Live
  BY DEF IInv, HeapInv, PhaseInv, Closed
<1>2. Live \subseteq marked
  BY <1>1, ReachableIsLeast DEF IInv, TypeOK, Live
<1> QED
  BY <1>1, <1>2

\* What leaves the gray stack has its references marked.
LEMMA TraceStep == ASSUME IInv, traceReferences PROVE IInv'
<1>1. phase = "traceReferences" /\ UNCHANGED <<objects, refs, roots, gcRoots>>
  BY DEF traceReferences, program
<1>2. Closed(refs, Live) /\ Live \subseteq objects
  BY UsableIsLive DEF Survivors
<1>3. CASE grayStack = {}
  <2>1. phase' = "sweep" /\ rest' = objects /\ UNCHANGED <<marked, grayStack>> /\ marked = Live
    BY <1>1, <1>3, AllMarked DEF traceReferences
  <2>2. TypeOK' /\ InGCRoots' \subseteq Live' /\ HeapInv'
    BY <1>1, <2>1 DEF IInv, TypeOK, HeapInv, InGCRoots, Live
  <2>3. Survivors' = Live'
    BY <1>1, <1>2, <2>1 DEF Survivors, Live
  <2>4. PhaseInv'
    BY <1>1, <1>2, <1>3, <2>1, <2>3 DEF PhaseInv
  <2> QED
    BY <2>2, <2>4 DEF IInv
<1>4. CASE grayStack # {}
  <2>1. PICK o \in grayStack : markObjects(refs[o], grayStack \ {o}) /\ UNCHANGED <<phase, rest>>
    BY <1>4 DEF traceReferences
  <2>2. marked' = marked \cup refs[o] /\ grayStack' = (grayStack \ {o}) \cup (refs[o] \ marked)
    BY <2>1 DEF markObjects
  <2>3. o \in Live /\ refs[o] \subseteq Live
    BY <1>1, <1>2, <2>1 DEF IInv, TypeOK, HeapInv, Closed
  <2>4. TypeOK' /\ InGCRoots' \subseteq Live' /\ HeapInv'
    BY <1>1, <1>2, <2>1, <2>2, <2>3 DEF IInv, TypeOK, HeapInv, InGCRoots, Live
  <2>5. PhaseInv'
    BY <1>1, <2>1, <2>2 DEF IInv, PhaseInv
  <2> QED
    BY <2>4, <2>5 DEF IInv
<1> QED
  BY <1>3, <1>4

\* A step of the sweep changes neither what is live nor what survives.
LEMMA SweepOneStep ==
    ASSUME IInv, phase = "sweep", NEW o \in rest, SweepOne(o), rest' = rest \ {o},
           UNCHANGED <<phase, roots, gcRoots, grayStack>>
    PROVE  /\ IInv'
           /\ Survivors' = Survivors
           /\ \A p \in Survivors : refs'[p] = refs[p]
<1>1. Survivors = Live /\ marked \subseteq rest /\ rest \subseteq objects /\ o \in objects
  BY DEF IInv, PhaseInv
<1>2. CASE o \in marked
  <2>1. marked' = marked \ {o} /\ UNCHANGED <<objects, refs>>
    BY <1>2 DEF SweepOne, Unmark
  <2>2. Survivors' = Survivors
    BY <2>1, <1>2 DEF Survivors
  <2>3. TypeOK' /\ InGCRoots' \subseteq Live' /\ HeapInv'
    BY <2>1 DEF IInv, TypeOK, HeapInv, PhaseInv, InGCRoots, Live
  <2>4. PhaseInv'
    BY <1>1, <2>1, <2>2 DEF IInv, PhaseInv, Live
  <2> QED
    BY <2>1, <2>2, <2>3, <2>4 DEF IInv
<1>3. CASE o \notin marked
  <2>1. objects' = objects \ {o} /\ refs' = [refs EXCEPT ![o] = {}] /\ marked' = marked
    BY <1>3 DEF SweepOne, Free
  <2>2. Survivors' = Survivors /\ o \notin Survivors
    BY <2>1, <1>3 DEF Survivors
  <2>3. \A p \in Survivors : refs'[p] = refs[p]
    BY <2>1, <2>2 DEF IInv, TypeOK
  <2>4. Live' = Live
    <3>1. refs \in Graphs /\ refs' \in Graphs /\ roots \in SUBSET Addresses
      BY <2>1 DEF IInv, TypeOK, Graphs
    <3> QED
      BY <3>1, <2>3, <1>1, ReachableAgrees DEF Live
  <2>5. TypeOK' /\ InGCRoots' \subseteq Live' /\ HeapInv'
    BY <1>1, <1>3, <2>1, <2>4 DEF IInv, TypeOK, HeapInv, PhaseInv, InGCRoots
  <2>6. PhaseInv'
    BY <1>1, <1>3, <2>1, <2>2, <2>4 DEF IInv, PhaseInv
  <2> QED
    BY <2>2, <2>3, <2>5, <2>6 DEF IInv
<1> QED
  BY <1>2, <1>3

\* When the sweep ends no mark is left, and the survivors are the objects.
LEMMA SweepStep == ASSUME IInv, sweep PROVE IInv'
<1>1. phase = "sweep" /\ UNCHANGED <<roots, gcRoots, grayStack>>
  BY DEF sweep
<1>2. CASE rest = {}
  <2>1. phase' = "program" /\ UNCHANGED <<objects, refs, marked, rest>>
    BY <1>2 DEF sweep
  <2>2. objects = Live /\ marked = {} /\ grayStack = {}
    BY <1>1, <1>2 DEF IInv, PhaseInv, Survivors
  <2>3. roots \subseteq objects /\ Closed(refs, objects)
    BY <2>2, UsableIsLive
  <2>4. TypeOK' /\ InGCRoots' \subseteq Live' /\ HeapInv' /\ PhaseInv'
    BY <1>1, <2>1, <2>2, <2>3 DEF IInv, TypeOK, HeapInv, PhaseInv, InGCRoots, Live, Closed
  <2> QED
    BY <2>4 DEF IInv
<1>3. CASE rest # {}
  BY <1>1, <1>3, SweepOneStep DEF sweep
<1> QED
  BY <1>2, <1>3

\* Every step keeps the invariant.
LEMMA NextStep == ASSUME GCRootsAlone = FALSE, IInv, [Next]_vars PROVE IInv'
<1>1. CASE allocateObject
  BY <1>1, AllocateStep
<1>2. CASE Assign
  BY <1>2, AssignStep
<1>3. CASE Hold
  BY <1>3, HoldStep
<1>4. CASE pushGCRoot \/ popGCRoot
  BY <1>4, GCRootStep
<1>5. CASE collectGarbage
  BY <1>5, BeginStep
<1>6. CASE markRoots
  BY <1>6, MarkRootsStep
<1>7. CASE traceReferences
  BY <1>7, TraceStep
<1>8. CASE sweep
  BY <1>8, SweepStep
<1>9. CASE UNCHANGED vars
  BY <1>9 DEF vars, IInv, TypeOK, HeapInv, PhaseInv, InGCRoots, Live, Survivors
<1> QED
  BY <1>1, <1>2, <1>3, <1>4, <1>5, <1>6, <1>7, <1>8, <1>9 DEF Next, Mutate, Collect

-----------------------------------------------------------------------------
(* The list of objects. It is read as s[1], ..., s[n]. *)

At(s, n, j) == IF j \in 1..n THEN s[j] ELSE NULL

\* A list from fst on, by nxt, of these objects and no other.
Chain(s, n, objs, fst, nxt) ==
    /\ s \in [1..n -> Addresses] /\ \A j, k \in 1..n : s[j] = s[k] => j = k
    /\ objs = {s[j] : j \in 1..n}
    /\ fst = At(s, n, 1) /\ \A j \in 1..n : nxt[s[j]] = At(s, n, j + 1)

\* Where sweep is that has passed i objects that survive.
Passed(s, n, i, r, prev, obj) ==
    i \in 0..n /\ r = {s[j] : j \in i + 1..n} /\ prev = At(s, n, i) /\ obj = At(s, n, i + 1)

ListInv ==
    /\ next \in [Addresses -> Addresses \cup {NULL}]
    /\ \E n \in Nat : \E s, i : Chain(s, n, objects, first, next)
                                /\ (phase = "sweep" => Passed(s, n, i, rest, previous, object))

\* Nothing happens to a list that nothing is done to.
LEMMA ListStays ==
    ASSUME ListInv, UNCHANGED <<objects, list>>, phase' # "sweep"
    PROVE  ListInv'
BY DEF ListInv, list

\* A new object comes first.
LEMMA ListAllocateStep ==
    ASSUME ListInv, listAllocate
    PROVE  ListInv' /\ Next
<1>1. PICK o \in Addresses \ objects : objects' = objects \cup {o}
  BY DEF listAllocate, allocateObject
<1>2. Push(o) /\ phase' # "sweep" /\ Next
  BY <1>1 DEF listAllocate, allocateObject, collector, Next, Mutate
<1>3. PICK n \in Nat : \E s : Chain(s, n, objects, first, next)
  BY DEF ListInv
<1>4. PICK s : Chain(s, n, objects, first, next)
  BY <1>3
<1>5. next \in [Addresses -> Addresses \cup {NULL}] /\ first \in Addresses \cup {NULL}
  BY <1>4 DEF ListInv, Chain, At
<1>6. next' = [next EXCEPT ![o] = first] /\ first' = o
  BY <1>2 DEF Push
<1> DEFINE t == [j \in 1..n + 1 |-> IF j = 1 THEN o ELSE s[j - 1]]
<1>7. /\ s \in [1..n -> Addresses] /\ \A j, k \in 1..n : s[j] = s[k] => j = k
      /\ objects = {s[j] : j \in 1..n}
      /\ first = At(s, n, 1) /\ \A j \in 1..n : next[s[j]] = At(s, n, j + 1)
  BY <1>4 DEF Chain
<1>8. t[1] = o /\ \A j \in 2..n + 1 : j - 1 \in 1..n /\ t[j] = s[j - 1] /\ t[j] # o
  BY <1>1, <1>7
<1>9. \A j \in 1..n + 1 : j = 1 \/ j \in 2..n + 1
  OBVIOUS
<1>10. t \in [1..n + 1 -> Addresses]
  BY <1>1, <1>7, <1>9
<1>11. \A j, k \in 1..n + 1 : t[j] = t[k] => j = k
  <2> HIDE DEF t
  <2> QED
    BY <1>7, <1>8, <1>9
<1>12. objects' = {t[j] : j \in 1..n + 1}
  <2>1. \A j \in 1..n : j + 1 \in 2..n + 1 /\ (j + 1) - 1 = j /\ j + 1 \in 1..n + 1
    OBVIOUS
  <2>2. 1 \in 1..n + 1
    OBVIOUS
  <2> HIDE DEF t
  <2>3. ASSUME NEW a \in objects' PROVE \E j \in 1..n + 1 : t[j] = a
    <3>1. CASE a = o
      BY <1>8, <2>2, <3>1
    <3>2. CASE a # o
      <4>1. PICK k \in 1..n : s[k] = a
        BY <1>1, <1>7, <3>2
      <4>2. t[k + 1] = s[k]
        BY <1>8, <2>1
      <4> QED
        BY <2>1, <4>1, <4>2
    <3> QED
      BY <3>1, <3>2
  <2>4. \A j \in 1..n + 1 : t[j] \in objects'
    BY <1>1, <1>7, <1>8, <1>9
  <2> QED
    BY <2>3, <2>4
<1>13. \A j \in 1..n + 1 : next'[t[j]] = At(t, n + 1, j + 1)
  <2>1. next'[t[1]] = At(t, n + 1, 2)
    <3>1. next'[o] = At(s, n, 1)
      BY <1>1, <1>5, <1>6, <1>7
    <3>2. At(s, n, 1) = At(t, n + 1, 2)
      BY <1>8 DEF At
    <3> QED
      BY <1>8, <3>1, <3>2
  <2>2. ASSUME NEW j \in 2..n + 1 PROVE next'[t[j]] = At(t, n + 1, j + 1)
    <3>1. next'[t[j]] = next[s[j - 1]]
      BY <1>1, <1>5, <1>6, <1>7, <1>8
    <3>2. next[s[j - 1]] = At(s, n, (j - 1) + 1)
      BY <1>7, <1>8
    <3>3. At(s, n, (j - 1) + 1) = At(t, n + 1, j + 1)
      BY <1>8 DEF At
    <3> QED
      BY <3>1, <3>2, <3>3
  <2> HIDE DEF t
  <2> QED
    BY <1>9, <2>1, <2>2
<1>14. first' = At(t, n + 1, 1)
  BY <1>6, <1>8 DEF At
<1>15. next' \in [Addresses -> Addresses \cup {NULL}]
  BY <1>5, <1>6
<1> HIDE DEF t
<1>16. Chain(t, n + 1, objects', first', next')
  BY <1>10, <1>11, <1>12, <1>13, <1>14 DEF Chain
<1> QED
  BY <1>2, <1>15, <1>16 DEF ListInv

\* The walk begins at the first object.
LEMMA ListTraceStep ==
    ASSUME ListInv, listTrace
    PROVE  ListInv' /\ Next
<1>1. traceReferences /\ UNCHANGED <<objects, list>> /\ Next
  BY DEF listTrace, traceReferences, program, Next, Collect
<1>2. CASE phase' # "sweep"
  BY <1>1, <1>2, ListStays
<1>3. CASE phase' = "sweep"
  <2>1. rest' = objects /\ previous' = NULL /\ object' = first
    BY <1>1, <1>3 DEF listTrace, traceReferences
  <2>2. PICK n \in Nat : \E s : Chain(s, n, objects, first, next)
    BY DEF ListInv
  <2>3. PICK s : Chain(s, n, objects, first, next)
    BY <2>2
  <2>4. Passed(s, n, 0, rest', previous', object')
    BY <2>1, <2>3 DEF Passed, Chain, At
  <2> QED
    BY <1>1, <2>3, <2>4 DEF ListInv, list
<1> QED
  BY <1>1, <1>2, <1>3

\* An object is visited, which stays or goes; or there is none, and none was left.
LEMMA ListSweepStep ==
    ASSUME ListInv, listSweep
    PROVE  ListInv' /\ Next
<1>1. phase = "sweep" /\ UNCHANGED <<roots, gcRoots, grayStack>>
  BY DEF listSweep
<1>2. PICK n \in Nat : \E s, i : Chain(s, n, objects, first, next) /\ Passed(s, n, i, rest, previous, object)
  BY <1>1 DEF ListInv
<1>3. PICK s, i : Chain(s, n, objects, first, next) /\ Passed(s, n, i, rest, previous, object)
  BY <1>2
<1>4. /\ s \in [1..n -> Addresses] /\ \A j, k \in 1..n : s[j] = s[k] => j = k
      /\ objects = {s[j] : j \in 1..n}
      /\ first = At(s, n, 1) /\ \A j \in 1..n : next[s[j]] = At(s, n, j + 1)
  BY <1>3 DEF Chain
<1>5. i \in 0..n /\ rest = {s[j] : j \in i + 1..n} /\ previous = At(s, n, i) /\ object = At(s, n, i + 1)
  BY <1>3 DEF Passed
<1>6. next \in [Addresses -> Addresses \cup {NULL}]
  BY DEF ListInv
<1>7. CASE object = NULL
  <2>1. i = n
    BY <1>4, <1>5, <1>7, ObjectListAssumption DEF At
  <2>2. rest = {}
    BY <1>5, <2>1
  <2>3. sweep /\ phase' = "program" /\ UNCHANGED <<objects, list>>
    BY <1>1, <1>7, <2>2 DEF listSweep, sweep
  <2> QED
    BY <2>3, ListStays DEF Next, Collect
<1>8. CASE object # NULL
  <2>1. i + 1 \in 1..n /\ object = s[i + 1] /\ object \in rest /\ object \in objects /\ i + 1 \in i + 1..n
    BY <1>4, <1>5, <1>8 DEF At
  <2>2. /\ SweepOne(object) /\ rest' = rest \ {object} /\ object' = next[object] /\ phase' = phase
        /\ IF object \in marked THEN previous' = object /\ UNCHANGED list ELSE Unlink(object)
    BY <1>8 DEF listSweep, After
  <2>3. sweep
    BY <1>1, <2>1, <2>2 DEF sweep
  <2>4. Next
    BY <2>3 DEF Next, Collect
  <2>5. rest' = {s[j] : j \in i + 2..n}
    <3>1. \A j \in i + 1..n : j \in 1..n /\ (j = i + 1 \/ j \in i + 2..n)
      BY <1>5
    <3>2. \A j \in i + 2..n : j \in i + 1..n /\ j # i + 1
      BY <1>5
    <3> QED
      BY <1>4, <1>5, <2>1, <2>2, <3>1, <3>2
  <2>6. object' = At(s, n, i + 2)
    BY <1>4, <1>5, <2>1, <2>2
  <2>7. CASE object \in marked
    <3>1. objects' = objects /\ previous' = object /\ UNCHANGED list
      BY <2>2, <2>7 DEF SweepOne, Unmark
    <3>2. Passed(s, n, i + 1, rest', previous', object')
      <4>1. i + 1 \in 0..n /\ (i + 1) + 1 = i + 2
        BY <1>5, <2>1
      <4> QED
        BY <2>1, <2>5, <2>6, <3>1, <4>1 DEF Passed, At
    <3> QED
      BY <1>3, <1>6, <2>4, <3>1, <3>2 DEF ListInv, list
  <2>8. CASE object \notin marked
    <3>1. objects' = objects \ {object} /\ Unlink(object)
      BY <2>2, <2>8 DEF SweepOne, Free
    <3>2. previous' = previous /\ next' = Relink(object) /\ first' = IF previous = NULL THEN next[object] ELSE first
      BY <3>1 DEF Unlink
    <3> DEFINE m == n - 1
               t == [j \in 1..m |-> IF j <= i THEN s[j] ELSE s[j + 1]]
    <3>3. m \in Nat /\ m + 1 = n /\ i \in 0..m
      BY <1>5, <2>1
    <3> HIDE DEF m
    <3>4. \A j \in 1..m : IF j <= i THEN j \in 1..n /\ t[j] = s[j] ELSE j + 1 \in 1..n /\ t[j] = s[j + 1]
      BY <3>3
    <3>5. \A j \in 1..n : IF j <= i THEN j \in 1..m ELSE j = i + 1 \/ (j - 1 \in 1..m /\ ~(j - 1 <= i) /\ (j - 1) + 1 = j)
      BY <1>5, <3>3
    <3>6. t \in [1..m -> Addresses]
      BY <1>4, <3>4
    <3> HIDE DEF t
    <3>7. \A j, k \in 1..m : t[j] = t[k] => j = k
      <4> SUFFICES ASSUME NEW j \in 1..m, NEW k \in 1..m, t[j] = t[k] PROVE j = k
        OBVIOUS
      <4> QED
        BY <1>4, <1>5, <3>3, <3>4
    <3>8. \A j \in 1..m : t[j] # object
      <4> SUFFICES ASSUME NEW j \in 1..m PROVE t[j] # object
        OBVIOUS
      <4> QED
        BY <1>4, <1>5, <2>1, <3>3, <3>4
    <3>9. objects' = {t[j] : j \in 1..m}
      <4>1. ASSUME NEW a \in objects' PROVE \E j \in 1..m : t[j] = a
        <5>1. PICK k \in 1..n : s[k] = a
          BY <1>4, <3>1
        <5>2. k # i + 1
          BY <2>1, <3>1, <5>1
        <5>3. CASE k <= i
          BY <3>4, <3>5, <5>1, <5>3
        <5>4. CASE ~(k <= i)
          <6>1. k - 1 \in 1..m /\ t[k - 1] = s[(k - 1) + 1] /\ (k - 1) + 1 = k
            BY <3>4, <3>5, <5>2, <5>4
          <6> QED
            BY <5>1, <6>1
        <5> QED
          BY <5>3, <5>4
      <4>2. \A j \in 1..m : t[j] \in objects
        BY <1>4, <3>4
      <4> QED
        BY <3>1, <3>8, <4>1, <4>2
    <3>10. next[object] = At(t, m, i + 1)
      <4>1. next[object] = At(s, n, i + 2)
        BY <2>2, <2>6
      <4>2. CASE i = m
        BY <3>3, <4>1, <4>2 DEF At
      <4>3. CASE i # m
        <5>1. i + 1 \in 1..m /\ i + 2 \in 1..n /\ t[i + 1] = s[i + 2]
          BY <3>3, <3>4, <4>3
        <5> QED
          BY <4>1, <5>1 DEF At
      <4> QED
        BY <4>2, <4>3
    <3>11. \A j \in 1..m : next'[t[j]] = At(t, m, j + 1)
      <4> SUFFICES ASSUME NEW j \in 1..m PROVE next'[t[j]] = At(t, m, j + 1)
        OBVIOUS
      <4>1. t[j] \in Addresses /\ t[j] # object /\ next'[t[j]] = IF t[j] = previous THEN next[object] ELSE next[t[j]]
        BY <3>2, <3>6, <3>8 DEF Relink
      <4>2. CASE j = i
        <5>1. t[j] = previous
          BY <1>5, <3>4, <4>2 DEF At
        <5> QED
          BY <3>10, <4>1, <4>2, <5>1
      <4>3. CASE j < i
        <5>1. t[j] = s[j] /\ j \in 1..n /\ j + 1 \in 1..m /\ j + 1 \in 1..n /\ t[j + 1] = s[j + 1]
          BY <3>3, <3>4, <4>3
        <5>2. t[j] # previous
          BY <1>4, <1>5, <4>3, <5>1 DEF At
        <5>3. next[s[j]] = At(s, n, j + 1)
          BY <1>4, <5>1
        <5> QED
          BY <4>1, <5>1, <5>2, <5>3 DEF At
      <4>4. CASE i < j
        <5>1. t[j] = s[j + 1] /\ j + 1 \in 1..n
          BY <3>3, <3>4, <4>4
        <5>2. t[j] # previous
          <6>1. CASE i = 0
            BY <1>5, <4>1, <6>1, ObjectListAssumption DEF At
          <6>2. CASE i # 0
            BY <1>4, <1>5, <4>4, <5>1, <6>2 DEF At
          <6> QED
            BY <6>1, <6>2
        <5>3. next[s[j + 1]] = At(s, n, (j + 1) + 1)
          BY <1>4, <5>1
        <5>4. At(s, n, (j + 1) + 1) = At(t, m, j + 1)
          <6>1. CASE j = m
            BY <3>3, <6>1 DEF At
          <6>2. CASE j # m
            <7>1. j + 1 \in 1..m /\ (j + 1) + 1 \in 1..n /\ t[j + 1] = s[(j + 1) + 1]
              BY <3>3, <3>4, <4>4, <6>2
            <7> QED
              BY <7>1 DEF At
          <6> QED
            BY <6>1, <6>2
        <5> QED
          BY <4>1, <5>1, <5>2, <5>3, <5>4
      <4> QED
        BY <3>3, <4>2, <4>3, <4>4
    <3>12. first' = At(t, m, 1)
      <4>1. CASE i = 0
        <5>1. previous = NULL
          BY <4>1, <1>5 DEF At
        <5> QED
          BY <3>2, <3>10, <4>1, <5>1
      <4>2. CASE i # 0
        <5>1. i \in 1..n /\ 1 \in 1..n /\ 1 \in 1..m /\ t[1] = s[1]
          BY <1>5, <3>3, <3>4, <4>2
        <5>2. previous # NULL
          BY <1>4, <1>5, <5>1, ObjectListAssumption DEF At
        <5> QED
          BY <1>4, <3>2, <5>1, <5>2 DEF At
      <4> QED
        BY <4>1, <4>2
    <3>13. rest' = {t[j] : j \in i + 1..m}
      <4>1. \A j \in i + 1..m : j \in 1..m /\ ~(j <= i) /\ j + 1 \in i + 2..n
        BY <3>3
      <4>2. \A j \in i + 2..n : j - 1 \in i + 1..m /\ (j - 1) + 1 = j
        BY <3>3
      <4> QED
        BY <2>5, <3>4, <4>1, <4>2
    <3>14. previous' = At(t, m, i)
      <4>1. i \in 1..m => i \in 1..n /\ t[i] = s[i]
        BY <3>3, <3>4
      <4>2. i \in 1..n <=> i \in 1..m
        BY <3>3
      <4> QED
        BY <1>5, <3>2, <4>1, <4>2 DEF At
    <3>15. Chain(t, m, objects', first', next')
      BY <3>6, <3>7, <3>9, <3>11, <3>12 DEF Chain
    <3>16. Passed(t, m, i, rest', previous', object')
      BY <2>2, <3>3, <3>10, <3>13, <3>14 DEF Passed
    <3>17. next' \in [Addresses -> Addresses \cup {NULL}]
      <4>1. object \in Addresses
        BY <1>4, <2>1
      <4> QED
        BY <1>6, <3>2, <4>1 DEF Relink
    <3> QED
      BY <2>4, <3>3, <3>15, <3>16, <3>17 DEF ListInv
  <2> QED
    BY <2>7, <2>8
<1> QED
  BY <1>7, <1>8

\* Every step keeps the list, and is one of Collector.
LEMMA ListStep ==
    ASSUME ListInv, [ListNext]_listVars
    PROVE  ListInv' /\ [Next]_vars
<1>1. CASE UNCHANGED listVars
  <2>1. UNCHANGED vars /\ UNCHANGED <<objects, rest, phase, first, next, previous, object>>
    BY <1>1 DEF listVars, vars, list, walk
  <2> QED
    BY <2>1 DEF ListInv
<1>2. CASE (Assign \/ Hold \/ pushGCRoot \/ popGCRoot \/ collectGarbage \/ markRoots) /\ UNCHANGED <<list, walk>>
  <2>1. UNCHANGED objects /\ phase' # "sweep"
    BY <1>2 DEF Assign, Hold, pushGCRoot, popGCRoot, collectGarbage, markRoots, program, collector
  <2>2. Next
    BY <1>2 DEF Next, Mutate, Collect
  <2> QED
    BY <1>2, <2>1, <2>2, ListStays
<1> QED
  BY <1>1, <1>2, ListAllocateStep, ListTraceStep, ListSweepStep DEF ListNext, ListMutate, ListCollect

\* No object, and a list that leads to none.
LEMMA ListStart ==
    ASSUME ListInit
    PROVE  Init /\ ListInv
<1>1. Init /\ objects = {} /\ phase = "program" /\ first = NULL /\ next = [o \in Addresses |-> NULL]
  BY DEF ListInit, Init
<1> DEFINE s == [j \in 1..0 |-> NULL]
<1>2. Chain(s, 0, objects, first, next)
  BY <1>1 DEF Chain, At
<1> HIDE DEF s
<1> QED
  BY <1>1, <1>2 DEF ListInv

\* A place of the list leads to what stands there and behind it: a closed set that
\* leaves some of that out has a first that it leaves out, which it cannot.
LEMMA FromPlace ==
    ASSUME NEW s, NEW n \in Nat, NEW i \in 0..n, Chain(s, n, objects, first, next)
    PROVE  From(At(s, n, i + 1)) = {s[j] : j \in i + 1..n}
<1> DEFINE r == [a \in Addresses |-> {next[a]} \ {NULL}]
           R == {At(s, n, i + 1)} \ {NULL}
           T == {s[j] : j \in i + 1..n}
<1>1. s \in [1..n -> Addresses] /\ \A j \in 1..n : next[s[j]] = At(s, n, j + 1)
  BY DEF Chain
<1>2. \A j \in i + 1..n : j \in 1..n
  OBVIOUS
<1>3. T \subseteq Addresses
  BY <1>1, <1>2
<1>4. R \subseteq T
  <2>1. CASE i + 1 \in 1..n
    <3>1. i + 1 \in i + 1..n
      BY <2>1
    <3> QED
      BY <2>1, <3>1 DEF At
  <2>2. CASE i + 1 \notin 1..n
    BY <2>2 DEF At
  <2> QED
    BY <2>1, <2>2
<1>5. Closed(r, T)
  <2> SUFFICES ASSUME NEW j \in i + 1..n PROVE r[s[j]] \subseteq T
    BY DEF Closed
  <2>1. r[s[j]] = {At(s, n, j + 1)} \ {NULL}
    BY <1>1, <1>2
  <2>2. CASE j + 1 \in 1..n
    <3>1. j + 1 \in i + 1..n
      BY <2>2
    <3> QED
      BY <2>1, <2>2, <3>1 DEF At
  <2>3. CASE j + 1 \notin 1..n
    BY <2>1, <2>3 DEF At
  <2> QED
    BY <2>2, <2>3
<1>6. ASSUME NEW S \in SUBSET Addresses, R \subseteq S, Closed(r, S)
      PROVE  T \subseteq S
  <2> SUFFICES ASSUME \E j \in i + 1..n : s[j] \notin S PROVE FALSE
    OBVIOUS
  <2> DEFINE Out == {j \in i + 1..n : s[j] \notin S}
  <2>1. PICK j \in Out : \A k \in Out : j <= k
    <3>1. Out \in SUBSET Nat /\ Out # {}
      OBVIOUS
    <3> HIDE DEF Out
    <3> QED
      BY <3>1, LeastNatural
  <2>2. s[j] \in Addresses /\ s[j] # NULL
    BY <1>1, <1>2, <2>1, ObjectListAssumption
  <2>3. CASE j = i + 1
    BY <1>6, <1>2, <2>1, <2>2, <2>3 DEF At
  <2>4. CASE j # i + 1
    <3>1. j - 1 \in i + 1..n /\ ~(j <= j - 1) /\ (j - 1) + 1 = j /\ j - 1 \in 1..n /\ j \in 1..n
      BY <2>1, <2>4
    <3>2. s[j - 1] \in S
      BY <2>1, <3>1
    <3>3. r[s[j - 1]] = {s[j]}
      BY <1>1, <2>2, <3>1 DEF At
    <3> QED
      BY <1>6, <2>1, <3>2, <3>3 DEF Closed
  <2> QED
    BY <2>3, <2>4
<1>7. From(At(s, n, i + 1)) = Reachable(r, R)
  BY DEF From
<1> HIDE DEF r, R, T
<1>8. Reachable(r, R) = T
  BY <1>3, <1>4, <1>5, <1>6 DEF Reachable
<1> QED
  BY <1>7, <1>8 DEF T

\* The list is inductive by itself, whatever the collection marks.
LEMMA ListInductive == ListSpec => []ListInv /\ ImplementsCollector
<1>1. ListInit => Init /\ ListInv
  BY ListStart
<1>2. ListInv /\ [ListNext]_listVars => ListInv' /\ [Next]_vars
  BY ListStep
<1> QED
  BY <1>1, <1>2, PTL DEF ListSpec, ImplementsCollector

\* The walk along the list, which takes it apart, is a sweep of a set.
THEOREM ListImplementsCollector == ListSpec => ImplementsCollector
BY ListInductive, PTL

\* The list leads to the objects and the walk to what it has still to visit,
\* however many objects there are and whichever of them go.
THEOREM ListAlwaysObjects == ListSpec => []ListIsObjects
<1>1. ASSUME ListInv PROVE ListIsObjects
  <2>1. PICK n \in Nat : \E s, i : Chain(s, n, objects, first, next)
                                   /\ (phase = "sweep" => Passed(s, n, i, rest, previous, object))
    BY <1>1 DEF ListInv
  <2>2. PICK s, i : Chain(s, n, objects, first, next)
                    /\ (phase = "sweep" => Passed(s, n, i, rest, previous, object))
    BY <2>1
  <2>3. \A k \in 0..n : From(At(s, n, k + 1)) = {s[j] : j \in k + 1..n}
    BY <2>2, FromPlace
  <2>4. From(first) = objects
    <3>1. 0 \in 0..n /\ 0 + 1 = 1
      OBVIOUS
    <3>2. From(At(s, n, 1)) = {s[j] : j \in 1..n}
      BY <2>3, <3>1
    <3> QED
      BY <2>2, <3>2 DEF Chain
  <2>5. CASE phase = "sweep"
    BY <2>2, <2>3, <2>4, <2>5 DEF Passed, ListIsObjects
  <2>6. CASE phase # "sweep"
    BY <2>4, <2>6 DEF ListIsObjects
  <2> QED
    BY <2>5, <2>6
<1> QED
  BY <1>1, ListInductive, PTL

\* What is shown of the sweep of a set holds of the walk.
LEMMA EitherSweep == Spec \/ ListSpec => ImplementsCollector
BY ListImplementsCollector, PTL DEF Spec, ImplementsCollector
-----------------------------------------------------------------------------

\* The inductive invariant holds in every state, if the code keeps in a root
\* what it holds by pushGCRoot.
THEOREM CollectorInductive == ASSUME GCRootsAlone = FALSE PROVE Spec \/ ListSpec => []IInv
<1>1. Init => IInv
  BY InitStep
<1>2. IInv /\ [Next]_vars => IInv'
  BY NextStep
<1> QED
  BY <1>1, <1>2, EitherSweep, PTL DEF ImplementsCollector

\* Only objects are marked and only marked objects are gray, in every collection.
THEOREM CollectorTypes == ASSUME GCRootsAlone = FALSE PROVE Spec \/ ListSpec => []TypeOK
<1>1. IInv => TypeOK
  BY DEF IInv
<1> QED
  BY <1>1, CollectorInductive, PTL

\* The collector frees nothing that the program can use: whatever the program
\* links and lets go of, and however often it collects.
THEOREM NothingDangles == ASSUME GCRootsAlone = FALSE PROVE Spec \/ ListSpec => []NoDanglingPointers
<1>1. IInv => NoDanglingPointers
  BY UsableIsLive DEF NoDanglingPointers
<1> QED
  BY <1>1, CollectorInductive, PTL
-----------------------------------------------------------------------------
\* The references that Heap sees are those of the survivors, and lead it to the
\* same objects.
HeapRefs == [o \in Addresses |-> IF o \in Survivors THEN refs[o] ELSE {}]

\* Heap, which sees the survivors only, reaches the same objects.
LEMMA HeapReachable ==
    ASSUME IInv
    PROVE  HeapSpec!Reachable(HeapRefs, roots \cup InGCRoots) = Live
<1>1. refs \in Graphs /\ HeapRefs \in Graphs /\ roots \cup InGCRoots \in SUBSET Addresses
  BY UsableIsLive DEF IInv, TypeOK, Graphs, HeapRefs
<1>2. Reachable(refs, roots \cup InGCRoots) = Live
  BY UsableIsLive DEF Usable
<1>3. \A o \in Live : HeapRefs[o] = refs[o]
  BY UsableIsLive DEF HeapRefs
<1>4. Reachable(HeapRefs, roots \cup InGCRoots) = Live
  BY <1>1, <1>2, <1>3, ReachableAgrees
<1> QED
  BY <1>4 DEF Reachable, Closed, HeapSpec!Reachable, HeapSpec!Closed

\* Every step of the program is the same step of Heap.
LEMMA ProgramImplements ==
    ASSUME IInv, IInv', Mutate
    PROVE  HeapSpec!Next
<1>1. phase = "program" /\ phase' = "program" /\ Survivors = objects /\ Survivors' = objects'
  BY DEF Mutate, allocateObject, Assign, Hold, pushGCRoot, popGCRoot, collector, Survivors
<1>2. Usable = Live /\ Live \subseteq objects /\ objects \subseteq Addresses
  BY UsableIsLive DEF IInv, TypeOK
<1>3. HeapSpec!Reachable(HeapRefs, roots \cup InGCRoots) = Live
  BY HeapReachable
<1>4. CASE allocateObject
  <2>1. PICK o \in Addresses \ objects, S \in SUBSET Live :
           objects' = objects \cup {o} /\ refs' = [refs EXCEPT ![o] = S] /\ roots' = roots \cup {o}
    BY <1>2, <1>4 DEF allocateObject
  <2>2. HeapRefs' = [HeapRefs EXCEPT ![o] = S]
    BY <2>1, <1>1 DEF HeapRefs, IInv, TypeOK
  <2>3. (roots \cup InGCRoots)' = (roots \cup InGCRoots) \cup {o}
    BY <2>1, <1>4 DEF allocateObject, InGCRoots
  <2> QED
    BY <2>1, <2>2, <2>3, <1>1, <1>3 DEF HeapSpec!Next, HeapSpec!Allocate, HeapRefs
<1>5. CASE Assign
  <2>1. PICK o \in Live, S \in SUBSET Live :
           refs' = [refs EXCEPT ![o] = S] /\ UNCHANGED <<objects, roots, gcRoots>>
    BY <1>2, <1>5 DEF Assign
  <2>2. HeapRefs' = [HeapRefs EXCEPT ![o] = S]
    <3>1. objects' = objects /\ o \in objects
      BY <2>1, <1>2
    <3>2. HeapRefs = [p \in Addresses |-> IF p \in objects THEN refs[p] ELSE {}]
      BY <1>1 DEF HeapRefs
    <3>3. HeapRefs' = [p \in Addresses |-> IF p \in objects THEN refs'[p] ELSE {}]
      BY <3>1, <1>1 DEF HeapRefs
    <3> QED
      BY <3>1, <3>2, <3>3, <2>1 DEF IInv, TypeOK
  <2> QED
    BY <2>1, <2>2, <1>1, <1>3 DEF HeapSpec!Next, HeapSpec!Assign, HeapRefs, InGCRoots
<1>6. CASE Hold \/ pushGCRoot \/ popGCRoot
  <2>1. UNCHANGED <<objects, refs>>
    BY <1>6 DEF Hold, pushGCRoot, popGCRoot
  <2>2. HeapRefs' = HeapRefs
    BY <2>1, <1>1 DEF HeapRefs
  <2>3. roots' \cup InGCRoots' \in SUBSET Live
    <3>1. roots' \in SUBSET Live
      BY <1>2, <1>6, UsableIsLive DEF Hold, pushGCRoot, popGCRoot
    <3>2. Live' \subseteq Live
      BY <3>1, <2>1, ReachableFromReachable DEF Live, IInv, TypeOK, Graphs
    <3> QED
      BY <3>1, <3>2 DEF IInv
  <2> QED
    BY <2>1, <2>2, <2>3, <1>1, <1>3 DEF HeapSpec!Next, HeapSpec!Hold, HeapRefs
<1> QED
  BY <1>4, <1>5, <1>6 DEF Mutate

\* A step of the collector is nothing to Heap, but for the one that ends the
\* tracing, which is its Collect.
LEMMA CollectImplements ==
    ASSUME IInv, IInv', collectGarbage \/ Collect
    PROVE  HeapSpec!Next \/ UNCHANGED HeapSpec!vars
<1>1. UNCHANGED <<roots, gcRoots>>
  BY DEF collectGarbage, Collect, markRoots, traceReferences, sweep, program
<1>2. CASE collectGarbage \/ markRoots \/ (traceReferences /\ grayStack # {})
  <2>1. UNCHANGED <<objects, refs>> /\ phase # "sweep" /\ phase' # "sweep"
    BY <1>2 DEF collectGarbage, markRoots, traceReferences, program
  <2> QED
    BY <1>1, <2>1 DEF HeapSpec!vars, Survivors, InGCRoots
<1>3. CASE traceReferences /\ grayStack = {}
  <2>1. phase = "traceReferences" /\ phase' = "sweep" /\ rest' = objects
        /\ UNCHANGED <<objects, refs, marked>>
    BY <1>3 DEF traceReferences, program
  <2>2. Survivors = objects /\ Survivors' = Live /\ Live \subseteq objects
    BY <1>3, <2>1, AllMarked, UsableIsLive DEF Survivors
  <2>3. HeapSpec!Reachable(HeapRefs, roots \cup InGCRoots) = Live
    BY HeapReachable
  <2>4. HeapRefs' = [o \in Addresses |-> IF o \in Survivors' THEN HeapRefs[o] ELSE {}]
    BY <2>1, <2>2 DEF HeapRefs
  <2>5. (roots \cup InGCRoots)' = roots \cup InGCRoots
    BY <1>1 DEF InGCRoots
  <2> QED
    BY <2>2, <2>3, <2>4, <2>5 DEF HeapSpec!Next, HeapSpec!Collect, HeapRefs
<1>4. CASE sweep
  <2>1. Survivors' = Survivors /\ \A p \in Survivors : refs'[p] = refs[p]
    <3>1. CASE rest = {}
      BY <1>4, <3>1 DEF sweep, Survivors
    <3>2. CASE rest # {}
      BY <1>4, <3>2, SweepOneStep DEF sweep
    <3> QED
      BY <3>1, <3>2
  <2> QED
    BY <1>1, <2>1 DEF HeapSpec!vars, InGCRoots
<1> QED
  BY <1>2, <1>3, <1>4 DEF Collect

\* Marking and sweeping object by object is, for the program, the removal of
\* everything that it cannot use in one step: no more, no less, and only then.
THEOREM CollectorImplementsHeap == ASSUME GCRootsAlone = FALSE PROVE Spec \/ ListSpec => ImplementsHeap
<1>1. Init => HeapSpec!Init
  BY DEF Init, HeapSpec!Init, Survivors, InGCRoots
<1>2. IInv /\ IInv' /\ [Next]_vars => [HeapSpec!Next]_(HeapSpec!vars)
  <2>1. CASE UNCHANGED vars
    BY <2>1 DEF vars, HeapSpec!vars, Survivors, InGCRoots
  <2>2. CASE Next
    BY <2>2, ProgramImplements, CollectImplements DEF Next
  <2> QED
    BY <2>1, <2>2
<1> QED
  BY <1>1, <1>2, CollectorInductive, EitherSweep, PTL DEF ImplementsCollector, ImplementsHeap, HeapSpec!Spec
=============================================================================
