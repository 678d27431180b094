------------------------- MODULE CompilationProofs -------------------------
(***************************************************************************)
(* For any number of functions and inputs, as long as no collection runs   *)
(* while pushGCRoot alone holds a function: no collection takes a function *)
(* that a compilation works on or that the program can call; and until the *)
(* segment is compacted, the code of all functions is intact, executable   *)
(* and accounted for. In a segment with room for all inputs it never is.   *)
(***************************************************************************)
EXTENDS Compilation, Recursion, FiniteSetTheorems, SequenceTheorems, TLAPS

-----------------------------------------------------------------------------
(* The space that functions take, and segments in order. *)

\* The sequences of functions are taken apart and extended at their ends.
LEMMA Ends ==
    ASSUME NEW A, NEW s \in Seq(A), s # <<>>
    PROVE  /\ Front(s) \in Seq(A) /\ Last(s) \in A
           /\ ToSet(s) = ToSet(Front(s)) \cup {Last(s)}
           /\ Len(s) > 1 => Front(s) # <<>>
<1>1. Len(s) \in Nat \ {0} /\ DOMAIN s = 1..Len(s) /\ Last(s) \in A
  BY DEF Last
<1>2. Front(s) = SubSeq(s, 1, Len(s) - 1)
  BY DEF Front
<1>3. Front(s) \in Seq(A) /\ DOMAIN Front(s) = 1..(Len(s) - 1)
      /\ \A i \in 1..(Len(s) - 1) : Front(s)[i] = s[i]
  BY <1>1, <1>2
<1>4. ToSet(s) = ToSet(Front(s)) \cup {Last(s)}
  BY <1>1, <1>3 DEF ToSet, Last
<1> QED
  BY <1>1, <1>3, <1>4

\* What Append adds.
LEMMA Appended ==
    ASSUME NEW A, NEW s \in Seq(A), NEW a \in A
    PROVE  /\ Append(s, a) \in Seq(A) /\ Append(s, a) # <<>>
           /\ ToSet(Append(s, a)) = ToSet(s) \cup {a}
<1>1. /\ Append(s, a) \in Seq(A) /\ Append(s, a) # <<>>
      /\ DOMAIN s = 1..Len(s) /\ DOMAIN Append(s, a) = 1..(Len(s) + 1) /\ Len(s) \in Nat
      /\ \A i \in 1..Len(s) : Append(s, a)[i] = s[i]
      /\ Append(s, a)[Len(s) + 1] = a
  OBVIOUS
<1> QED
  BY <1>1 DEF ToSet

\* Members of a sequence over A are in A.
LEMMA Within ==
    ASSUME NEW A, NEW s \in Seq(A)
    PROVE  /\ ToSet(s) \subseteq A
           /\ \A B : ToSet(s) \subseteq B => s \in Seq(B)
<1>1. DOMAIN s = 1..Len(s) /\ Len(s) \in Nat /\ s \in [1..Len(s) -> A]
  OBVIOUS
<1>2. ASSUME NEW B, ToSet(s) \subseteq B PROVE s \in Seq(B)
  <2>1. s \in [1..Len(s) -> B]
    BY <1>1, <1>2 DEF ToSet
  <2> QED
    BY <1>1, <2>1
<1> QED
  BY <1>1, <1>2 DEF ToSet
-----------------------------------------------------------------------------
(* Sizes.                                                                  *)

\* The cells that the functions of S take, as pairs; finitely many or not.
Spaces(S) == UNION {Space(f) : f \in S}
Measured(S) == IsFiniteSet(Spaces(S))

\* A function takes its instructions and a red zone.
LEMMA SpaceOfOne ==
    ASSUME CodeSegmentAssumption, NEW f \in Functions
    PROVE  /\ Size[f] \in Nat \ {0} /\ Footprint(f) = Size[f] + 1
           /\ IsFiniteSet(Space(f)) /\ Cardinality(Space(f)) = Footprint(f)
<1> DEFINE n == Footprint(f)
           b == [i \in 0..(n - 1) |-> <<f, i>>]
<1>1. Size[f] \in Nat \ {0} /\ n = Size[f] + 1
  BY DEF CodeSegmentAssumption, Footprint, JIT_RED_ZONE
<1>2. n \in Nat /\ IsFiniteSet(0..(n - 1)) /\ Cardinality(0..(n - 1)) = n
  BY <1>1, FS_Interval
<1> HIDE DEF n
<1>3. Space(f) = {f} \X (0..(n - 1))
  BY DEF Space, n
<1>4. b \in Bijection(0..(n - 1), Space(f))
  <2>1. b \in [0..(n - 1) -> Space(f)]
    BY <1>3
  <2>2. \A i, j \in 0..(n - 1) : b[i] = b[j] => i = j
    OBVIOUS
  <2>3. \A t \in Space(f) : \E i \in 0..(n - 1) : b[i] = t
    BY <1>3
  <2> HIDE DEF b
  <2> QED
    BY <2>1, <2>2, <2>3 DEF Bijection, Injection, Surjection, IsInjective
<1>5. IsFiniteSet(Space(f)) /\ Cardinality(Space(f)) = n
  BY <1>2, <1>4, FS_Bijection DEF ExistsBijection
<1> QED
  BY <1>1, <1>5 DEF n

\* No functions take no space.
LEMMA NothingMeasured == Measured({}) /\ TotalFootprint({}) = 0
<1>1. Spaces({}) = {}
  BY DEF Spaces
<1> QED
  BY <1>1, FS_EmptySet DEF Measured, TotalFootprint, Spaces

\* Space is a number.
LEMMA Measures == ASSUME NEW S, Measured(S) PROVE TotalFootprint(S) \in Nat
  BY FS_CardinalityType DEF Measured, TotalFootprint, Spaces

\* The sizes of disjoint sets add up.
LEMMA SizesAdd ==
    ASSUME NEW S, NEW T, Measured(S), Measured(T), S \cap T = {}
    PROVE  /\ Measured(S \cup T)
           /\ TotalFootprint(S \cup T) = TotalFootprint(S) + TotalFootprint(T)
<1>1. Spaces(S \cup T) = Spaces(S) \cup Spaces(T)
  BY DEF Spaces
<1>2. Spaces(S) \cap Spaces(T) = {}
  BY DEF Spaces, Space
<1>3. Cardinality({}) = 0 /\ Cardinality(Spaces(S)) \in Nat /\ Cardinality(Spaces(T)) \in Nat
  BY FS_EmptySet, FS_CardinalityType DEF Measured
<1>4. IsFiniteSet(Spaces(S \cup T))
      /\ Cardinality(Spaces(S \cup T)) = Cardinality(Spaces(S)) + Cardinality(Spaces(T))
  <2>1. IsFiniteSet(Spaces(S)) /\ IsFiniteSet(Spaces(T))
    BY DEF Measured
  <2>2. /\ IsFiniteSet(Spaces(S) \cup Spaces(T))
        /\ Cardinality(Spaces(S) \cup Spaces(T)) =
              Cardinality(Spaces(S)) + Cardinality(Spaces(T)) - Cardinality(Spaces(S) \cap Spaces(T))
    BY <2>1, FS_Union
  <2>3. /\ IsFiniteSet(Spaces(S \cup T))
        /\ Cardinality(Spaces(S \cup T)) = Cardinality(Spaces(S)) + Cardinality(Spaces(T)) - 0
    BY <1>1, <1>2, <1>3, <2>2, Zenon
  <2> QED
    BY <1>3, <2>3
<1> QED
  BY <1>4 DEF Measured, TotalFootprint, Spaces

\* A part of S is measured, too.
LEMMA PartMeasured ==
    ASSUME NEW S, Measured(S), NEW T \in SUBSET S PROVE Measured(T)
<1>1. Spaces(T) \in SUBSET Spaces(S)
  BY DEF Spaces
<1> QED
  BY <1>1, FS_Subset DEF Measured

\* A part of S takes no more space than S.
LEMMA PartSmaller ==
    ASSUME NEW S, Measured(S), NEW T \in SUBSET S
    PROVE  TotalFootprint(T) <= TotalFootprint(S)
<1>1. Spaces(T) \in SUBSET Spaces(S)
  BY DEF Spaces
<1>2. Cardinality(Spaces(T)) <= Cardinality(Spaces(S))
  BY <1>1, FS_Subset DEF Measured
<1> QED
  BY <1>2 DEF TotalFootprint, Spaces

\* A function that joins S adds its footprint.
LEMMA OneMore ==
    ASSUME CodeSegmentAssumption, NEW S, Measured(S), NEW f \in Functions, f \notin S
    PROVE  /\ Measured(S \cup {f})
           /\ TotalFootprint(S \cup {f}) = TotalFootprint(S) + Footprint(f)
<1>1. Spaces({f}) = Space(f)
  BY DEF Spaces
<1>2. Measured({f}) /\ TotalFootprint({f}) = Footprint(f)
  BY <1>1, SpaceOfOne DEF Measured, TotalFootprint, Spaces
<1> QED
  BY <1>2, SizesAdd

\* What is taken from S and what stays take the space of S.
LEMMA SizesSplit ==
    ASSUME NEW S, Measured(S), NEW D
    PROVE  /\ Measured(S \ D) /\ Measured(D \cap S)
           /\ TotalFootprint(S) = TotalFootprint(S \ D) + TotalFootprint(D \cap S)
<1>1. Measured(S \ D) /\ Measured(D \cap S)
  BY PartMeasured
<1>2. (S \ D) \cap (D \cap S) = {} /\ (S \ D) \cup (D \cap S) = S
  OBVIOUS
<1> QED
  BY <1>1, <1>2, SizesAdd
-----------------------------------------------------------------------------
(* The functions in the segment.                                           *)

\* What a cell of memory may hold.
Words == {UDF, Zero} \cup UNION {{f} \X (0..(Size[f] - 1)) : f \in Functions}

\* vm.code over n cells of memory.
Segments(n) ==
    [memory : [0..(n - 1) -> Words], exec : SUBSET Int, free : Nat, writable : Nat,
     available : Int, functions : Seq(Functions), capacity : Nat,
     place : [Functions -> Nat \cup {Nowhere}]]

\* The code of f is where f says, with a red zone on both sides.
IntactAt(c, f, at) ==
    /\ \A x \in Cells(f, at) : c.memory[x] = <<f, x - at>>
    /\ c.memory[at - 1] = UDF /\ c.memory[at + Size[f]] = UDF

\* f lies between the first red zone and the free space.
Lies(c, f) ==
    /\ c.place[f] \in Nat /\ c.place[f] >= 1
    /\ c.place[f] + Footprint(f) <= c.free
    /\ IntactAt(c, f, c.place[f])

\* What is in the segment, and nothing else, is on the list, in the same order.
Ordered(c, list) ==
    \A i, j \in DOMAIN list : i < j => c.place[list[i]] + Footprint(list[i]) <= c.place[list[j]]

\* The list is that of the functions in the segment, each where it says.
Listed(c, list) ==
    /\ list \in Seq(Functions)
    /\ \A f \in Functions : c.place[f] # Nowhere <=> f \in ToSet(list)
    /\ \A f \in ToSet(list) : Lies(c, f)
    /\ Ordered(c, list)

\* What is free is what the listed functions do not take.
Accounted(c, n, S) ==
    /\ Measured(S)
    /\ c.available = n - 1 - TotalFootprint(S)
    /\ c.free >= 1 + TotalFootprint(S)

\* A segment of n cells in order.
Laid(c, n, list) ==
    /\ c.free \in 1..n /\ c.memory[c.free - 1] = UDF
    /\ Listed(c, list) /\ Accounted(c, n, ToSet(list))

\* A segment over n cells ends after n cells.
LEMMA EndOf == ASSUME NEW n \in Nat, NEW c \in Segments(n) PROVE End(c) = n
<1>1. DOMAIN c.memory = 0..(n - 1)
  BY DEF Segments
<1>2. Cardinality(0..(n - 1)) = n
  BY FS_Interval
<1> QED
  BY <1>1, <1>2, Zenon DEF End

\* One function is written: d is c with f at the beginning of the free space.
WroteOne(c, d, n, f) ==
    /\ d \in Segments(n)
    /\ d.free = c.free + Footprint(f) /\ d.available = c.available - Footprint(f)
    /\ d.exec = c.exec /\ d.writable = c.writable
    /\ d.functions = c.functions /\ d.capacity = c.capacity
    /\ d.place = [c.place EXCEPT ![f] = c.free]
    /\ \A x \in 0..(c.free - 1) : d.memory[x] = c.memory[x]
    /\ \A x \in Cells(f, c.free) : d.memory[x] = <<f, x - c.free>>
    /\ d.memory[c.free + Size[f]] = UDF

\* Writing one function keeps a segment in order.
LEMMA WriteOne ==
    ASSUME CodeSegmentAssumption, NEW n \in Nat, NEW c \in Segments(n), NEW f \in Functions
    PROVE  /\ writeOne(c, f) \in Segments(n)
           /\ c.free \in 1..n /\ c.free + Footprint(f) <= n => WroteOne(c, writeOne(c, f), n, f)
<1> DEFINE at == c.free
           w == [x \in DOMAIN c.memory |->
                    IF x \in Cells(f, at) THEN <<f, x - at>>
                    ELSE IF x \in (at + Size[f])..(at + Footprint(f) - 1) THEN UDF
                    ELSE c.memory[x]]
           p == [c.place EXCEPT ![f] = at]
           d == [memory |-> w, exec |-> c.exec, free |-> at + Footprint(f),
                 writable |-> c.writable, available |-> c.available - Footprint(f),
                 functions |-> c.functions, capacity |-> c.capacity, place |-> p]
<1>1. writeOne(c, f) = d
  <2> DEFINE e == Write(c, f, at)
  <2>1. e = [c EXCEPT !.place = p, !.memory = w]
    BY DEF Write, Segments
  <2> HIDE DEF w, p
  <2> DEFINE r == [memory |-> w, exec |-> c.exec, free |-> c.free, writable |-> c.writable,
                   available |-> c.available, functions |-> c.functions,
                   capacity |-> c.capacity, place |-> p]
  <2>2. e = r
    BY <2>1 DEF Segments
  <2>3. [r EXCEPT !.free = @ + Footprint(f), !.available = @ - Footprint(f)] = d
    <3> DEFINE q == [memory |-> w, exec |-> c.exec, free |-> at + Footprint(f),
                     writable |-> c.writable, available |-> c.available,
                     functions |-> c.functions, capacity |-> c.capacity, place |-> p]
    <3>1. [r EXCEPT !.free = @ + Footprint(f)] = q
      OBVIOUS
    <3>2. [q EXCEPT !.available = @ - Footprint(f)] = d
      OBVIOUS
    <3> HIDE DEF r, q, d
    <3>3. [[r EXCEPT !.free = @ + Footprint(f)] EXCEPT !.available = @ - Footprint(f)] = d
      BY <3>1, <3>2
    <3> QED
      BY <3>3
  <2> HIDE DEF e, r
  <2>4. writeOne(c, f) = [e EXCEPT !.free = @ + Footprint(f), !.available = @ - Footprint(f)]
    BY Zenon DEF writeOne, e
  <2> QED
    BY <2>2, <2>3, <2>4, Zenon
<1>2. Size[f] \in Nat \ {0} /\ Footprint(f) = Size[f] + 1 /\ at \in Nat
  BY SpaceOfOne DEF Segments
<1>3. DOMAIN c.memory = 0..(n - 1) /\ c.memory \in [0..(n - 1) -> Words]
  BY DEF Segments
<1>4. \A x \in Cells(f, at) : <<f, x - at>> \in Words
  <2>1. \A x \in Cells(f, at) : x \in Int /\ at <= x /\ x <= at + Size[f] - 1
    BY <1>2 DEF Cells
  <2>2. \A x \in Cells(f, at) : x - at \in 0..(Size[f] - 1)
    BY <1>2, <2>1
  <2> QED
    BY <2>2 DEF Words
<1>5. w \in [0..(n - 1) -> Words]
  BY <1>3, <1>4 DEF Words
<1>6. ASSUME at \in 1..n, at + Footprint(f) <= n
      PROVE  /\ \A x \in 0..(at - 1) : w[x] = c.memory[x]
             /\ \A x \in Cells(f, at) : w[x] = <<f, x - at>>
             /\ w[at + Size[f]] = UDF
  <2>1. ASSUME NEW x \in 0..(at - 1) PROVE w[x] = c.memory[x]
    <3>1. x \in 0..(n - 1) /\ x \notin Cells(f, at) /\ x \notin (at + Size[f])..(at + Footprint(f) - 1)
      BY <1>2, <1>6 DEF Cells
    <3> QED
      BY <1>3, <3>1
  <2>2. \A x \in Cells(f, at) : w[x] = <<f, x - at>>
    <3>1. \A x \in Cells(f, at) : x \in 0..(n - 1)
      BY <1>2, <1>6 DEF Cells
    <3> QED
      BY <1>3, <3>1
  <2>3. at + Size[f] \in 0..(n - 1) /\ at + Size[f] \notin Cells(f, at)
        /\ at + Size[f] \in (at + Size[f])..(at + Footprint(f) - 1)
    BY <1>2, <1>6 DEF Cells
  <2>4. w[at + Size[f]] = UDF
    BY <1>3, <2>3
  <2> QED
    BY <2>1, <2>2, <2>4
<1> HIDE DEF w
<1>7. p \in [Functions -> Nat \cup {Nowhere}]
  BY <1>2 DEF Segments
<1>8. /\ d \in Segments(n) /\ d.free = at + Footprint(f) /\ d.available = c.available - Footprint(f)
      /\ d.exec = c.exec /\ d.writable = c.writable
      /\ d.functions = c.functions /\ d.capacity = c.capacity
      /\ d.place = p /\ d.memory = w
  <2> HIDE DEF p
  <2> QED
    BY <1>2, <1>5, <1>7 DEF Segments
<1> HIDE DEF d
<1>9. ASSUME at \in 1..n, at + Footprint(f) <= n PROVE WroteOne(c, d, n, f)
  <2>1. /\ \A x \in 0..(at - 1) : d.memory[x] = c.memory[x]
        /\ \A x \in Cells(f, at) : d.memory[x] = <<f, x - at>>
        /\ d.memory[at + Size[f]] = UDF
    BY <1>6, <1>8, <1>9
  <2> QED
    BY <1>8, <2>1, Zenon DEF WroteOne
<1> QED
  BY <1>1, <1>8, <1>9, Zenon

\* A function that is written joins the list, and what was there stays.
LEMMA WrittenIsLaid ==
    ASSUME CodeSegmentAssumption, NEW n \in Nat, NEW c \in Segments(n), NEW list,
           Laid(c, n, list), NEW f \in Functions \ ToSet(list), NEW d, WroteOne(c, d, n, f),
           c.free + Footprint(f) <= n
    PROVE  Laid(d, n, Append(list, f))
<1> DEFINE new == Append(list, f)
           at == c.free
<1>1. /\ Size[f] \in Nat \ {0} /\ Footprint(f) = Size[f] + 1 /\ at \in Nat /\ at >= 1 /\ at <= n
      /\ list \in Seq(Functions) /\ c.memory[at - 1] = UDF
      /\ c.place \in [Functions -> Nat \cup {Nowhere}]
      /\ \A g \in Functions : c.place[g] # Nowhere <=> g \in ToSet(list)
      /\ \A g \in ToSet(list) : Lies(c, g)
      /\ Ordered(c, list)
  BY SpaceOfOne DEF Laid, Listed, Segments
<1>2. /\ d.free = at + Footprint(f) /\ d.available = c.available - Footprint(f)
      /\ d.place = [c.place EXCEPT ![f] = at]
      /\ \A x \in 0..(at - 1) : d.memory[x] = c.memory[x]
      /\ \A x \in Cells(f, at) : d.memory[x] = <<f, x - at>>
      /\ d.memory[at + Size[f]] = UDF
  BY DEF WroteOne
<1>3. /\ d.place[f] = at /\ \A g \in Functions \ {f} : d.place[g] = c.place[g]
  BY <1>1, <1>2
<1>4. new \in Seq(Functions) /\ ToSet(new) = ToSet(list) \cup {f}
  BY <1>1, Appended
<1>5. \A g \in Functions : d.place[g] # Nowhere <=> g \in ToSet(new)
  <2>1. at # Nowhere
    BY <1>1 DEF CodeSegmentAssumption
  <2> QED
    BY <1>1, <1>3, <1>4, <2>1
<1>6. Lies(d, f)
  <2>1. d.memory[at - 1] = UDF
    <3>1. at - 1 \in 0..(at - 1)
      BY <1>1
    <3> QED
      BY <1>1, <1>2, <3>1
  <2>2. IntactAt(d, f, at)
    BY <1>2, <2>1 DEF IntactAt
  <2> QED
    BY <1>1, <1>2, <1>3, <2>2 DEF Lies
<1>7. ASSUME NEW g \in ToSet(list) PROVE Lies(d, g) /\ d.place[g] = c.place[g] /\ g \in Functions
  <2>1. g \in Functions /\ g # f
    BY <1>1, Within
  <2>2. /\ d.place[g] = c.place[g] /\ c.place[g] \in Nat /\ c.place[g] >= 1
        /\ c.place[g] + Footprint(g) <= at /\ IntactAt(c, g, c.place[g])
        /\ Size[g] \in Nat \ {0} /\ Footprint(g) = Size[g] + 1
    BY <1>1, <1>3, <2>1, SpaceOfOne DEF Lies
  <2>3. IntactAt(d, g, c.place[g])
    <3>1. \A x \in Cells(g, c.place[g]) : x \in 0..(at - 1)
      <4> DEFINE p == c.place[g]
                 z == Size[g]
      <4>1. p \in Nat /\ z \in Nat /\ p + (z + 1) <= at /\ at \in Nat
        BY <1>1, <2>2
      <4>2. Cells(g, p) = p..(p + z - 1)
        BY DEF Cells
      <4> HIDE DEF p, z
      <4>3. \A x \in p..(p + z - 1) : x \in 0..(at - 1)
        BY <4>1
      <4> QED
        BY <4>2, <4>3 DEF p
    <3>2. c.place[g] - 1 \in 0..(at - 1) /\ c.place[g] + Size[g] \in 0..(at - 1)
      <4> DEFINE p == c.place[g]
                 z == Size[g]
      <4>1. p \in Nat /\ p >= 1 /\ z \in Nat \ {0} /\ p + (z + 1) <= at /\ at \in Nat
        BY <1>1, <2>2
      <4> HIDE DEF p, z, at
      <4>2. p - 1 \in 0..(at - 1) /\ p + z \in 0..(at - 1)
        BY <4>1
      <4> QED
        BY <4>2 DEF p, z
    <3> QED
      BY <1>2, <2>2, <3>1, <3>2 DEF IntactAt
  <2> QED
    BY <1>1, <1>2, <2>1, <2>2, <2>3 DEF Lies
<1>8. Ordered(d, new)
  <2>1. DOMAIN list = 1..Len(list) /\ Len(list) \in Nat /\ DOMAIN new = 1..(Len(list) + 1)
        /\ new[Len(list) + 1] = f /\ \A i \in 1..Len(list) : new[i] = list[i] /\ list[i] \in ToSet(list)
    BY <1>1 DEF ToSet
  <2>2. SUFFICES ASSUME NEW i \in DOMAIN new, NEW j \in DOMAIN new, i < j
                 PROVE  d.place[new[i]] + Footprint(new[i]) <= d.place[new[j]]
    BY DEF Ordered
  <2>3. i \in 1..Len(list) /\ new[i] = list[i] /\ list[i] \in ToSet(list)
    BY <2>1, <2>2
  <2>4. CASE j \in 1..Len(list)
    <3>1. c.place[list[i]] + Footprint(list[i]) <= c.place[list[j]]
      BY <1>1, <2>1, <2>2, <2>3, <2>4 DEF Ordered
    <3> QED
      BY <1>7, <2>1, <2>3, <2>4, <3>1
  <2>5. CASE j = Len(list) + 1
    <3>1. c.place[list[i]] + Footprint(list[i]) <= at
      BY <1>1, <2>3 DEF Lies
    <3> QED
      BY <1>3, <1>7, <2>1, <2>3, <2>5, <3>1
  <2> QED
    BY <2>1, <2>2, <2>4, <2>5
<1>9. Listed(d, new)
  BY <1>4, <1>5, <1>6, <1>7, <1>8 DEF Listed
<1>10. Accounted(d, n, ToSet(new))
  <2> DEFINE S == ToSet(list)
  <2>1. /\ Measured(S) /\ c.available = n - 1 - TotalFootprint(S)
        /\ c.free >= 1 + TotalFootprint(S)
    BY DEF Laid, Accounted
  <2>2. f \in Functions /\ f \notin S
    OBVIOUS
  <2> HIDE DEF S
  <2>3. /\ Measured(S \cup {f}) /\ TotalFootprint(S \cup {f}) = TotalFootprint(S) + Footprint(f)
        /\ TotalFootprint(S) \in Nat
    BY <2>1, <2>2, OneMore, Measures
  <2>4. /\ Measured(ToSet(new)) /\ TotalFootprint(ToSet(new)) = TotalFootprint(S) + Footprint(f)
    BY <1>4, <2>3, Zenon DEF S
  <2> DEFINE m == TotalFootprint(S)
             e == Footprint(f)
  <2>5. /\ m \in Nat /\ e \in Nat /\ at \in Nat /\ c.available = n - 1 - m /\ at >= 1 + m
        /\ d.available = c.available - e /\ d.free = at + e
    BY <1>1, <1>2, <2>1, <2>3
  <2> HIDE DEF m, e, at
  <2>6. d.available = n - 1 - (m + e) /\ d.free >= 1 + (m + e)
    BY <2>5
  <2> QED
    BY <2>4, <2>6 DEF Accounted, m, e
<1>11. d.free \in 1..n /\ d.memory[d.free - 1] = UDF
  <2> DEFINE z == Size[f]
  <2>1. /\ z \in Nat \ {0} /\ at \in Nat /\ at >= 1 /\ d.free = at + (z + 1) /\ at + (z + 1) <= n
        /\ d.memory[at + z] = UDF
    BY <1>1, <1>2
  <2> HIDE DEF z, at
  <2>2. d.free \in 1..n /\ d.free - 1 = at + z
    BY <2>1
  <2> QED
    BY <2>1, <2>2
<1> QED
  BY <1>9, <1>10, <1>11 DEF Laid

\* writeNewFunctions is its loop.
LEMMA WriteLoop ==
    ASSUME CodeSegmentAssumption, NEW n \in Nat, NEW c \in Segments(n), NEW batch \in Seq(Functions)
    PROVE  \E w \in [0..Len(batch) -> Segments(n)] :
              /\ w[0] = c /\ \A k \in 1..Len(batch) : w[k] = writeOne(w[k - 1], batch[k])
              /\ writeNewFunctions(c, batch) = w[Len(batch)]
<1> DEFINE m == Len(batch)
           A == Segments(n)
           written[k \in 0..m] == IF k = 0 THEN c ELSE writeOne(written[k - 1], batch[k])
           step == [k \in 1..m |-> [x \in A |-> writeOne(x, batch[k])]]
<1>1. m \in Nat /\ \A k \in 1..m : batch[k] \in Functions
  OBVIOUS
<1>2. step \in [1..m -> [A -> A]]
  BY <1>1, WriteOne
<1>3. PICK f \in [0..m -> A] : FollowsLoop(f, m, c, step)
  <2> HIDE DEF step, A, m
  <2>1. c \in A
    BY DEF A
  <2> QED
    BY <1>1, <1>2, <2>1, LoopRecursion
<1>4. \A k \in 1..m : f[k - 1] \in A /\ step[k][f[k - 1]] = writeOne(f[k - 1], batch[k])
  <2>1. \A k \in 1..m : k - 1 \in 0..m
    BY <1>1
  <2> QED
    BY <1>3, <2>1
<1>5. f = [k \in 0..m |-> IF k = 0 THEN c ELSE writeOne(f[k - 1], batch[k])]
  <2>1. \A k \in 0..m : f[k] = IF k = 0 THEN c ELSE writeOne(f[k - 1], batch[k])
    <3> HIDE DEF step, A, m
    <3>1. \A k \in 0..m : k # 0 => k \in 1..m
      BY <1>1
    <3>2. \A k \in 0..m : f[k] = IF k = 0 THEN c ELSE step[k][f[k - 1]]
      BY <1>3 DEF FollowsLoop
    <3> QED
      BY <1>4, <3>1, <3>2
  <2> QED
    BY <1>3, <2>1
<1>6. written = [k \in 0..m |-> IF k = 0 THEN c ELSE writeOne(written[k - 1], batch[k])]
  <2> HIDE DEF step, A, m
  <2> QED
    BY <1>5
<1>7. writeNewFunctions(c, batch) = written[m]
  BY Zenon DEF writeNewFunctions
<1> HIDE DEF written, m, A
<1>8. /\ written[0] = c
      /\ \A k \in 1..m : k - 1 \in 0..m /\ k \in 0..m /\ written[k] = writeOne(written[k - 1], batch[k])
  <2>1. 0 \in 0..m /\ \A k \in 1..m : k - 1 \in 0..m /\ k \in 0..m /\ k # 0
    BY <1>1
  <2> QED
    BY <1>6, <2>1
<1> DEFINE Bad == {k \in 0..m : written[k] \notin A}
<1>9. Bad = {}
  <2>1. SUFFICES ASSUME Bad # {} PROVE FALSE
    OBVIOUS
  <2>2. PICK k \in Bad : \A j \in Bad : k <= j
    <3>1. Bad \in SUBSET Nat
      BY <1>1
    <3> HIDE DEF Bad
    <3> QED
      BY <2>1, <3>1, LeastNatural
  <2>3. k # 0 /\ k \in 1..m /\ k - 1 \in 0..m /\ ~(k <= k - 1)
    BY <1>1, <1>8, <2>2 DEF A
  <2>4. written[k - 1] \in A
    BY <2>2, <2>3
  <2>5. written[k] \in A
    BY <1>1, <1>8, <2>3, <2>4, WriteOne DEF A
  <2> QED
    BY <2>2, <2>5
<1>10. written \in [0..m -> A]
  BY <1>6, <1>9
<1> QED
  BY <1>7, <1>8, <1>10 DEF m, A

\* The first k functions of a batch, behind those of a list.
Joined(list, batch, k) ==
    [i \in 1..(Len(list) + k) |-> IF i <= Len(list) THEN list[i] ELSE batch[i - Len(list)]]

\* No function is listed twice.
Distinct(s) == \A i, j \in DOMAIN s : i < j => s[i] # s[j]

\* One more function of the batch joins the list.
Joins(list, batch, k, f) ==
    /\ Joined(list, batch, k) \in Seq(Functions)
    /\ Joined(list, batch, k + 1) = Append(Joined(list, batch, k), f)

LEMMA JoinedOneMore ==
    ASSUME NEW list \in Seq(Functions), NEW batch \in Seq(Functions), NEW k \in Nat, k < Len(batch)
    PROVE  Joins(list, batch, k, batch[k + 1])
<1> DEFINE l == Len(list)
           s == Joined(list, batch, k)
           t == Joined(list, batch, k + 1)
           u == Append(s, batch[k + 1])
<1>1. l \in Nat /\ l + k \in Nat /\ l + (k + 1) = l + k + 1
  OBVIOUS
<1>2. /\ \A i \in 1..l : list[i] \in Functions
      /\ \A i \in 1..(k + 1) : batch[i] \in Functions
  OBVIOUS
<1>3. /\ s \in [1..(l + k) -> Functions] /\ t \in [1..(l + k + 1) -> Functions]
      /\ \A i \in 1..(l + k) : t[i] = s[i]
      /\ t[l + k + 1] = batch[k + 1]
  <2>1. \A i \in 1..(l + k + 1) : i <= l => i \in 1..l
    BY <1>1
  <2>2. \A i \in 1..(l + k + 1) : ~(i <= l) => i - l \in 1..(k + 1)
    BY <1>1
  <2>3. s \in [1..(l + k) -> Functions] /\ t \in [1..(l + k + 1) -> Functions]
    BY <1>1, <1>2, <2>1, <2>2 DEF Joined
  <2>4. \A i \in 1..(l + k) : t[i] = s[i]
    BY <1>1 DEF Joined
  <2>5. t[l + k + 1] = batch[k + 1]
    <3>1. l + k + 1 \in 1..(l + k + 1) /\ ~(l + k + 1 <= l) /\ l + k + 1 - l = k + 1
      BY <1>1
    <3> QED
      BY <1>1, <3>1 DEF Joined
  <2> QED
    BY <2>3, <2>4, <2>5
<1> HIDE DEF s, t, l
<1>4. s \in Seq(Functions) /\ Len(s) = l + k /\ t \in Seq(Functions) /\ Len(t) = l + k + 1
  BY <1>1, <1>3
<1>5. u \in Seq(Functions) /\ Len(u) = l + k + 1 /\ u[l + k + 1] = batch[k + 1]
      /\ \A i \in 1..(l + k) : u[i] = s[i]
  BY <1>1, <1>2, <1>4, AppendProperties
<1>6. t = u
  <2>1. \A i \in 1..(l + k + 1) : t[i] = u[i]
    BY <1>1, <1>3, <1>5
  <2> HIDE DEF u
  <2> QED
    BY <1>4, <1>5, <2>1, SeqEqual
<1> QED
  BY <1>4, <1>6 DEF s, t, Joins

\* The whole batch joins the list.
LEMMA JoinedAll ==
    ASSUME NEW list \in Seq(Functions), NEW batch \in Seq(Functions)
    PROVE  Joined(list, batch, 0) = list /\ Joined(list, batch, Len(batch)) = list \o batch
<1> DEFINE s == Joined(list, batch, 0)
           t == Joined(list, batch, Len(batch))
<1>1. s = list
  BY DEF Joined
<1>2. t = list \o batch
  <2> DEFINE n == Len(list) + Len(batch)
             u == list \o batch
  <2>1. n \in Nat /\ t \in [1..n -> Functions]
    BY DEF Joined
  <2>2. t \in Seq(Functions) /\ Len(t) = n
    BY <2>1
  <2>3. u \in Seq(Functions) /\ Len(u) = n
        /\ \A i \in 1..n : u[i] = IF i <= Len(list) THEN list[i] ELSE batch[i - Len(list)]
    BY ConcatProperties
  <2>4. \A i \in 1..n : t[i] = u[i]
    BY <2>3 DEF Joined
  <2> HIDE DEF t, u, n
  <2>5. t = u
    BY <2>2, <2>3, <2>4, SeqEqual
  <2> QED
    BY <2>5 DEF u
<1> QED
  BY <1>1, <1>2

\* The first k functions of the batch.
FirstOf(batch, k) == {batch[i] : i \in 1..k}

\* A batch that is written joins the list.
LEMMA BatchIsLaid ==
    ASSUME CodeSegmentAssumption, NEW n \in Nat, NEW c \in Segments(n), NEW list,
           Laid(c, n, list), NEW batch \in Seq(Functions), Distinct(batch),
           ToSet(batch) \cap ToSet(list) = {}, Measured(ToSet(batch)),
           c.free + TotalFootprint(ToSet(batch)) <= n
    PROVE  LET d == writeNewFunctions(c, batch)
           IN  /\ d \in Segments(n) /\ Laid(d, n, list \o batch)
               /\ d.free = c.free + TotalFootprint(ToSet(batch))
               /\ d.exec = c.exec /\ d.writable = c.writable
               /\ d.functions = c.functions /\ d.capacity = c.capacity
<1> DEFINE m == Len(batch)
<1>1. m \in Nat /\ DOMAIN batch = 1..m /\ list \in Seq(Functions) /\ c.free \in Nat
      /\ \A k \in 1..m : batch[k] \in Functions
  BY DEF Laid, Listed, Segments
<1>2. PICK w \in [0..m -> Segments(n)] :
              /\ w[0] = c /\ \A k \in 1..m : w[k] = writeOne(w[k - 1], batch[k])
              /\ writeNewFunctions(c, batch) = w[m]
  BY WriteLoop
<1> DEFINE Good(k) ==
             /\ Laid(w[k], n, Joined(list, batch, k))
             /\ w[k].free = c.free + TotalFootprint(FirstOf(batch, k))
             /\ w[k].exec = c.exec /\ w[k].writable = c.writable
             /\ w[k].functions = c.functions /\ w[k].capacity = c.capacity
             /\ ToSet(Joined(list, batch, k)) = ToSet(list) \cup FirstOf(batch, k)
           Bad == {k \in 0..m : ~Good(k)}
<1>3. Good(0)
  <2>1. FirstOf(batch, 0) = {} /\ Joined(list, batch, 0) = list
    BY <1>1, JoinedAll DEF FirstOf
  <2>2. TotalFootprint(FirstOf(batch, 0)) = 0
    BY <2>1, NothingMeasured, Zenon
  <2>3. Laid(w[0], n, Joined(list, batch, 0))
    BY <1>2, <2>1, Zenon
  <2>4. ToSet(Joined(list, batch, 0)) = ToSet(list) \cup FirstOf(batch, 0)
    <3>1. ToSet(Joined(list, batch, 0)) = ToSet(list)
      BY <2>1, Zenon
    <3> QED
      BY <2>1, <3>1
  <2>5. c.free + TotalFootprint(FirstOf(batch, 0)) = c.free
    BY <1>1, <2>2
  <2>6. w[0] = c
    BY <1>2
  <2> QED
    BY <2>3, <2>4, <2>5, <2>6
<1>4. ASSUME NEW k \in 0..(m - 1), Good(k) PROVE Good(k + 1)
  <2> DEFINE f == batch[k + 1]
             S == FirstOf(batch, k)
  <2>1. k \in Nat /\ k + 1 \in 1..m /\ k + 1 - 1 = k /\ k < m /\ f \in Functions /\ k \in 0..m
        /\ k + 1 \in 0..m
    BY <1>1
  <2>2. S \in SUBSET ToSet(batch) /\ f \in ToSet(batch) /\ f \notin S
        /\ FirstOf(batch, k + 1) = S \cup {f}
    <3>1. \A i \in 1..k : i \in 1..m /\ i < k + 1
      BY <1>1, <2>1
    <3>2. 1..(k + 1) = (1..k) \cup {k + 1}
      BY <2>1
    <3>3. S \in SUBSET ToSet(batch) /\ f \in ToSet(batch)
      BY <1>1, <2>1, <3>1 DEF FirstOf, ToSet
    <3>4. f \notin S
      <4>1. \A i \in 1..k : batch[i] # f
        BY <1>1, <2>1, <3>1 DEF Distinct
      <4> QED
        BY <4>1 DEF FirstOf
    <3>5. FirstOf(batch, k + 1) = S \cup {f}
      BY <3>2 DEF FirstOf
    <3> QED
      BY <3>3, <3>4, <3>5
  <2>3. Measured(S) /\ TotalFootprint(S \cup {f}) = TotalFootprint(S) + Footprint(f)
        /\ S \cup {f} \in SUBSET ToSet(batch)
    BY <2>1, <2>2, PartMeasured, OneMore
  <2>4. TotalFootprint(S \cup {f}) <= TotalFootprint(ToSet(batch))
    BY <2>3, PartSmaller
  <2>5. TotalFootprint(S) \in Nat /\ TotalFootprint(ToSet(batch)) \in Nat /\ Footprint(f) \in Nat
    BY <2>1, <2>3, Measures, SpaceOfOne
  <2>6. Good(k)
    BY <1>4
  <2> HIDE DEF f, S
  <2>7. w[k].free + Footprint(f) <= n /\ w[k].free \in 1..n
    <3> DEFINE free == w[k].free
               all == TotalFootprint(ToSet(batch))
               some == TotalFootprint(S)
               first == c.free
               z == Footprint(f)
    <3>1. free = first + some /\ free \in 1..n
      BY <2>6 DEF S, Laid
    <3>2. some + z <= all /\ some \in Nat /\ all \in Nat /\ z \in Nat
      BY <2>3, <2>4, <2>5
    <3>3. first + all <= n /\ first \in Nat /\ n \in Nat
      BY <1>1
    <3> HIDE DEF free, all, some, first, z
    <3>4. free + z <= n
      BY <3>1, <3>2, <3>3
    <3> QED
      BY <3>1, <3>4 DEF free, z
  <2>8. w[k + 1] = writeOne(w[k], f) /\ w[k] \in Segments(n)
    <3> DEFINE j == k + 1
    <3>1. j \in 1..m /\ j - 1 = k /\ w[k] \in Segments(n)
      <4>1. k \in 0..m /\ k \in Nat /\ j \in 1..m
        BY <2>1
      <4>2. w[k] \in Segments(n)
        <5> HIDE DEF m
        <5> QED
          BY <1>2, <4>1
      <4>3. j - 1 = k
        BY <4>1
      <4> QED
        BY <4>1, <4>2, <4>3
    <3> HIDE DEF j
    <3>2. w[j] = writeOne(w[j - 1], batch[j])
      BY <1>2, <3>1
    <3>3. w[j] = writeOne(w[k], batch[j])
      BY <3>1, <3>2, Zenon
    <3> QED
      BY <3>1, <3>3 DEF j, f
  <2>9. WroteOne(w[k], w[k + 1], n, f)
    BY <2>1, <2>7, <2>8, WriteOne
  <2>10. f \in Functions \ ToSet(Joined(list, batch, k))
    BY <2>1, <2>2, <2>6 DEF S
  <2>11. Joined(list, batch, k) \in Seq(Functions)
         /\ Joined(list, batch, k + 1) = Append(Joined(list, batch, k), f)
    <3>1. list \in Seq(Functions) /\ batch \in Seq(Functions) /\ k \in Nat /\ k < Len(batch)
      BY <1>1, <2>1
    <3>2. Joins(list, batch, k, batch[k + 1])
      BY <3>1, JoinedOneMore
    <3> QED
      BY <3>2 DEF f, Joins
  <2>12. Laid(w[k + 1], n, Joined(list, batch, k + 1))
    <3>1. Laid(w[k], n, Joined(list, batch, k))
      BY <2>6
    <3>2. Laid(w[k + 1], n, Append(Joined(list, batch, k), f))
      BY <3>1, <2>7, <2>8, <2>9, <2>10, WrittenIsLaid
    <3> QED
      BY <2>11, <3>2, Zenon
  <2>13. ToSet(Joined(list, batch, k + 1)) = ToSet(list) \cup FirstOf(batch, k + 1)
    <3>1. ToSet(Append(Joined(list, batch, k), f)) = ToSet(Joined(list, batch, k)) \cup {f}
      BY <2>1, <2>11, Appended
    <3> QED
      BY <2>2, <2>6, <2>11, <3>1 DEF S
  <2>14. w[k + 1].free = c.free + TotalFootprint(FirstOf(batch, k + 1))
    <3>1. w[k + 1].free = w[k].free + Footprint(f)
      BY <2>9 DEF WroteOne
    <3>2. TotalFootprint(FirstOf(batch, k + 1)) = TotalFootprint(S) + Footprint(f)
      BY <2>2, <2>3, Zenon
    <3> QED
      BY <1>1, <2>5, <2>6, <3>1, <3>2 DEF S
  <2> QED
    BY <2>6, <2>9, <2>12, <2>13, <2>14 DEF WroteOne
<1>5. Good(m)
  <2>1. SUFFICES ASSUME ~Good(m) PROVE FALSE
    OBVIOUS
  <2> HIDE DEF Good
  <2>2. m \in Bad /\ Bad \in SUBSET Nat
    BY <1>1, <2>1
  <2>3. PICK k \in Bad : \A j \in Bad : k <= j
    <3> HIDE DEF Bad
    <3> QED
      BY <2>2, LeastNatural
  <2>4. k \in 0..m /\ ~Good(k) /\ k # 0
    BY <1>3, <2>3
  <2>5. k - 1 \in 0..(m - 1) /\ k - 1 \in 0..m /\ k - 1 + 1 = k /\ ~(k <= k - 1)
    BY <1>1, <2>4
  <2>6. Good(k - 1)
    BY <2>3, <2>5
  <2>7. Good(k - 1 + 1)
    BY <1>4, <2>5, <2>6
  <2> QED
    BY <2>4, <2>5, <2>7
<1>6. FirstOf(batch, m) = ToSet(batch) /\ Joined(list, batch, m) = list \o batch
  BY <1>1, JoinedAll DEF FirstOf, ToSet
<1>7. w[m] \in Segments(n)
  BY <1>1, <1>2
<1> QED
  BY <1>2, <1>5, <1>6, <1>7

-----------------------------------------------------------------------------
(* What a collection leaves of the list. *)

\* Taking the dead off the list keeps the rest of it, in its order.
KeptPart(s, list, k, dead) ==
    /\ s \in Seq(Functions)
    /\ ToSet(s) = FirstOf(list, k) \ dead
    /\ Len(s) <= k

\* The loop of codeRemoveWhite ends with what it kept of all.
LEMMA KeptLoop ==
    ASSUME NEW list \in Seq(Functions), NEW dead
    PROVE  \E kept \in [0..Len(list) -> Seq(Functions)] :
              /\ kept[0] = <<>>
              /\ \A k \in 1..Len(list) :
                    kept[k] = IF list[k] \in dead THEN kept[k - 1] ELSE Append(kept[k - 1], list[k])
              /\ Kept(list, dead) = kept[Len(list)]
<1> DEFINE m == Len(list)
           A == Seq(Functions)
           keep(x, k) == IF list[k] \in dead THEN x ELSE Append(x, list[k])
           kept[k \in 0..m] ==
              IF k = 0 THEN <<>>
              ELSE IF list[k] \in dead THEN kept[k - 1] ELSE Append(kept[k - 1], list[k])
           step == [k \in 1..m |-> [x \in A |-> keep(x, k)]]
<1>1. m \in Nat /\ \A k \in 1..m : list[k] \in Functions
  OBVIOUS
<1>2. step \in [1..m -> [A -> A]] /\ <<>> \in A /\ \A x \in A, k \in 1..m : Append(x, list[k]) \in A
  <2>1. \A x \in A, g \in Functions : Append(x, g) \in A
    OBVIOUS
  <2>2. \A k \in 1..m : \A x \in A : keep(x, k) \in A
    BY <1>1, <2>1
  <2> QED
    BY <1>1, <2>1, <2>2
<1>3. PICK f \in [0..m -> A] : FollowsLoop(f, m, <<>>, step)
  <2>1. <<>> \in A
    OBVIOUS
  <2> HIDE DEF step, A, m
  <2> QED
    BY <1>1, <1>2, <2>1, LoopRecursion
<1>4. \A k \in 1..m : f[k - 1] \in A /\ step[k][f[k - 1]] = keep(f[k - 1], k)
  <2>1. \A k \in 1..m : k - 1 \in 0..m
    BY <1>1
  <2> HIDE DEF keep
  <2> QED
    BY <1>3, <2>1
<1>5. \A k \in 0..m : f[k] = IF k = 0 THEN <<>> ELSE keep(f[k - 1], k)
  <2> HIDE DEF step, A, m, keep
  <2>1. \A k \in 0..m : k # 0 => k \in 1..m
    BY <1>1
  <2>2. \A k \in 0..m : f[k] = IF k = 0 THEN <<>> ELSE step[k][f[k - 1]]
    BY <1>3 DEF FollowsLoop
  <2> QED
    BY <1>4, <2>1, <2>2
<1>6. f = [k \in 0..m |-> IF k = 0 THEN <<>>
                           ELSE IF list[k] \in dead THEN f[k - 1] ELSE Append(f[k - 1], list[k])]
  <2> HIDE DEF m, A
  <2> QED
    BY <1>3, <1>5
<1>7. kept = [k \in 0..m |-> IF k = 0 THEN <<>>
                    ELSE IF list[k] \in dead THEN kept[k - 1] ELSE Append(kept[k - 1], list[k])]
  <2> HIDE DEF step, A, m, keep
  <2> QED
    BY <1>6
<1>8. Kept(list, dead) = kept[m]
  BY Zenon DEF Kept
<1> HIDE DEF kept, m, A
<1>9. /\ kept[0] = <<>>
      /\ \A k \in 1..m : k - 1 \in 0..m /\ k \in 0..m
            /\ kept[k] = IF list[k] \in dead THEN kept[k - 1] ELSE Append(kept[k - 1], list[k])
  <2>1. 0 \in 0..m /\ \A k \in 1..m : k - 1 \in 0..m /\ k \in 0..m /\ k # 0
    BY <1>1
  <2> QED
    BY <1>7, <2>1
<1> DEFINE Bad == {k \in 0..m : kept[k] \notin A}
<1>10. Bad = {}
  <2>1. SUFFICES ASSUME Bad # {} PROVE FALSE
    OBVIOUS
  <2>2. PICK k \in Bad : \A j \in Bad : k <= j
    <3>1. Bad \in SUBSET Nat
      BY <1>1
    <3> HIDE DEF Bad
    <3> QED
      BY <2>1, <3>1, LeastNatural
  <2>3. k # 0 /\ k \in 1..m /\ k - 1 \in 0..m /\ ~(k <= k - 1)
    <3>1. k # 0
      <4>1. kept[k] \notin A
        BY <2>2
      <4> QED
        BY <1>2, <1>9, <4>1
    <3> QED
      BY <1>1, <2>2, <3>1
  <2>4. kept[k - 1] \in A
    BY <2>2, <2>3
  <2>5. kept[k] \in A
    BY <1>2, <1>9, <2>3, <2>4
  <2> QED
    BY <2>2, <2>5
<1>11. kept \in [0..m -> A]
  <2>1. kept = [k \in 0..m |-> kept[k]]
    BY <1>7
  <2> QED
    BY <1>10, <2>1
<1> QED
  BY <1>8, <1>9, <1>11 DEF m, A

\* A list stays in order when it goes on behind its end.
LEMMA OrderedMore ==
    ASSUME NEW c, NEW s \in Seq(Functions), Ordered(c, s), NEW f \in Functions,
           \A g \in ToSet(s) : c.place[g] + Footprint(g) <= c.place[f]
    PROVE  Ordered(c, Append(s, f))
<1> DEFINE new == Append(s, f)
<1>1. DOMAIN s = 1..Len(s) /\ Len(s) \in Nat /\ DOMAIN new = 1..(Len(s) + 1)
      /\ new[Len(s) + 1] = f /\ \A i \in 1..Len(s) : new[i] = s[i] /\ s[i] \in ToSet(s)
  BY DEF ToSet
<1> HIDE DEF new
<1>2. SUFFICES ASSUME NEW i \in DOMAIN new, NEW j \in DOMAIN new, i < j
               PROVE  c.place[new[i]] + Footprint(new[i]) <= c.place[new[j]]
  BY DEF Ordered, new
<1>3. i \in 1..Len(s)
  BY <1>1, <1>2
<1>4. CASE j \in 1..Len(s)
  BY <1>1, <1>2, <1>3, <1>4 DEF Ordered
<1>5. CASE j = Len(s) + 1
  BY <1>1, <1>3, <1>5
<1> QED
  BY <1>1, <1>2, <1>4, <1>5

\* What is kept is what was listed and lives, in its order.
LEMMA KeptOnes ==
    ASSUME NEW c, NEW list \in Seq(Functions), Ordered(c, list), NEW dead
    PROVE  LET kept == Kept(list, dead)
           IN  /\ kept \in Seq(Functions) /\ Len(kept) <= Len(list)
               /\ ToSet(kept) = ToSet(list) \ dead
               /\ Ordered(c, kept)
<1> DEFINE m == Len(list)
<1>1. m \in Nat /\ DOMAIN list = 1..m /\ \A k \in 1..m : list[k] \in Functions
  OBVIOUS
<1>2. PICK kept \in [0..m -> Seq(Functions)] :
              /\ kept[0] = <<>>
              /\ \A k \in 1..m :
                    kept[k] = IF list[k] \in dead THEN kept[k - 1] ELSE Append(kept[k - 1], list[k])
              /\ Kept(list, dead) = kept[m]
  BY KeptLoop
<1> DEFINE Good(k) == KeptPart(kept[k], list, k, dead) /\ Ordered(c, kept[k])
           Bad == {k \in 0..m : ~Good(k)}
<1>3. Good(0)
  <2>1. ToSet(<<>>) = {} /\ FirstOf(list, 0) = {} /\ Len(<<>>) = 0 /\ DOMAIN <<>> = {}
        /\ <<>> \in Seq(Functions)
    BY DEF ToSet, FirstOf
  <2>2. KeptPart(<<>>, list, 0, dead)
    BY <2>1 DEF KeptPart
  <2>3. Ordered(c, <<>>)
    BY DEF Ordered
  <2> QED
    BY <1>2, <2>2, <2>3
<1>4. ASSUME NEW k \in 1..m, Good(k - 1) PROVE Good(k)
  <2> DEFINE s == kept[k - 1]
             f == list[k]
             S == FirstOf(list, k - 1)
  <2>1. k \in Nat /\ k - 1 \in 0..m /\ k - 1 \in Nat /\ f \in Functions
    BY <1>1
  <2>2. s \in Seq(Functions) /\ ToSet(s) = S \ dead /\ Len(s) <= k - 1 /\ Ordered(c, s)
    BY <1>4 DEF KeptPart
  <2>3. FirstOf(list, k) = S \cup {f}
    <3>1. 1..k = (1..(k - 1)) \cup {k}
      BY <2>1
    <3> QED
      BY <3>1 DEF FirstOf
  <2>4. \A g \in S : c.place[g] + Footprint(g) <= c.place[f]
    <3>1. \A i \in 1..(k - 1) : i \in 1..m /\ i < k
      BY <1>1, <2>1
    <3> QED
      BY <1>1, <3>1 DEF FirstOf, Ordered
  <2>5. kept[k] = IF f \in dead THEN s ELSE Append(s, f)
    BY <1>2
  <2> HIDE DEF s, f, S
  <2>6. CASE f \in dead
    <3>1. kept[k] = s /\ ToSet(s) = FirstOf(list, k) \ dead
      BY <2>2, <2>3, <2>5, <2>6
    <3>2. Len(s) <= k
      BY <2>1, <2>2
    <3>3. KeptPart(s, list, k, dead)
      BY <2>2, <3>1, <3>2 DEF KeptPart
    <3> QED
      BY <2>2, <3>1, <3>3
  <2>7. CASE f \notin dead
    <3>1. /\ kept[k] = Append(s, f) /\ Append(s, f) \in Seq(Functions)
          /\ ToSet(Append(s, f)) = ToSet(s) \cup {f}
      BY <2>1, <2>2, <2>5, <2>7, Appended
    <3>2. ToSet(Append(s, f)) = FirstOf(list, k) \ dead
      BY <2>2, <2>3, <2>7, <3>1
    <3>3. Len(Append(s, f)) <= k
      BY <2>1, <2>2
    <3>4. KeptPart(Append(s, f), list, k, dead)
      BY <3>1, <3>2, <3>3 DEF KeptPart
    <3>5. Ordered(c, Append(s, f))
      <4>1. \A g \in ToSet(s) : c.place[g] + Footprint(g) <= c.place[f]
        BY <2>2, <2>4
      <4> QED
        BY <2>1, <2>2, <4>1, OrderedMore
    <3> QED
      BY <3>1, <3>4, <3>5
  <2> QED
    BY <2>6, <2>7
<1>5. Good(m)
  <2>1. SUFFICES ASSUME ~Good(m) PROVE FALSE
    OBVIOUS
  <2> HIDE DEF Good
  <2>2. m \in Bad /\ Bad \in SUBSET Nat
    BY <1>1, <2>1
  <2>3. PICK k \in Bad : \A j \in Bad : k <= j
    <3> HIDE DEF Bad
    <3> QED
      BY <2>2, LeastNatural
  <2>4. k \in 0..m /\ ~Good(k) /\ k # 0
    BY <1>3, <2>3
  <2>5. k \in 1..m /\ k - 1 \in 0..m /\ ~(k <= k - 1)
    BY <1>1, <2>4
  <2>6. Good(k - 1)
    BY <2>3, <2>5
  <2> QED
    BY <1>4, <2>4, <2>5, <2>6
<1>6. FirstOf(list, m) = ToSet(list)
  BY <1>1 DEF FirstOf, ToSet
<1> QED
  BY <1>2, <1>5, <1>6 DEF KeptPart

\* What codeRemoveWhite changes.
Emptied(c, dead) ==
    [memory |-> c.memory, exec |-> c.exec, free |-> c.free, writable |-> c.writable,
     available |-> c.available + TotalFootprint(dead \cap ToSet(c.functions)),
     functions |-> Kept(c.functions, dead), capacity |-> c.capacity,
     place |-> [f \in Functions |-> IF f \in dead THEN Nowhere ELSE c.place[f]]]

\* A collection, field by field.
LEMMA WithoutIs ==
    ASSUME NEW n, code \in Segments(n), NEW dead PROVE Without(dead) = Emptied(code, dead)
<1> DEFINE list == code.functions
           kept == Kept(list, dead)
           back == TotalFootprint(dead \cap ToSet(list))
           p == [f \in Functions |-> IF f \in dead THEN Nowhere ELSE code.place[f]]
           d == [memory |-> code.memory, exec |-> code.exec, free |-> code.free,
                 writable |-> code.writable, available |-> code.available + back,
                 functions |-> kept, capacity |-> code.capacity, place |-> p]
<1>1. Without(dead) = d
  <2> DEFINE a == [memory |-> code.memory, exec |-> code.exec, free |-> code.free,
                   writable |-> code.writable, available |-> code.available + back,
                   functions |-> kept, capacity |-> code.capacity, place |-> code.place]
             b == [memory |-> code.memory, exec |-> code.exec, free |-> code.free,
                   writable |-> code.writable, available |-> code.available,
                   functions |-> kept, capacity |-> code.capacity, place |-> code.place]
  <2> HIDE DEF kept, back, list
  <2>1. [code EXCEPT !.functions = kept] = b
    <3> DEFINE e == [memory |-> code.memory, exec |-> code.exec, free |-> code.free,
                     writable |-> code.writable, available |-> code.available,
                     functions |-> code.functions, capacity |-> code.capacity,
                     place |-> code.place]
    <3>1. code = e
      BY DEF Segments
    <3>2. [e EXCEPT !.functions = kept] = b
      OBVIOUS
    <3> HIDE DEF e, b
    <3> QED
      BY <3>1, <3>2, Zenon
  <2>2. [b EXCEPT !.available = @ + back] = a
    OBVIOUS
  <2>3. codeRemoveWhite(dead) = [[code EXCEPT !.functions = kept] EXCEPT !.available = @ + back]
    BY Zenon DEF codeRemoveWhite, kept, back, list
  <2>4. codeRemoveWhite(dead) = a
    <3> HIDE DEF a, b
    <3> QED
      BY <2>1, <2>2, <2>3, Zenon
  <2>5. [a EXCEPT !.place = p] = d
    OBVIOUS
  <2>6. a.place = code.place
    OBVIOUS
  <2> DEFINE r == codeRemoveWhite(dead)
  <2>7. Without(dead) = [r EXCEPT !.place = [f \in Functions |-> IF f \in dead THEN Nowhere ELSE r.place[f]]]
    BY Zenon DEF Without
  <2> HIDE DEF a, d
  <2>8. r = a
    BY <2>4
  <2> HIDE DEF r
  <2>9. [f \in Functions |-> IF f \in dead THEN Nowhere ELSE r.place[f]] = p
    BY <2>6, <2>8
  <2> HIDE DEF p
  <2> QED
    BY <2>5, <2>7, <2>8, <2>9, Zenon
<1> QED
  BY <1>1, Zenon DEF Emptied

\* The functions of dead leave the segment.
LEMMA WithoutIsLaid ==
    ASSUME CodeSegmentAssumption, NEW n \in Nat, NEW c \in Segments(n), Laid(c, n, c.functions),
           NEW dead \in SUBSET Functions
    PROVE  /\ Emptied(c, dead) \in Segments(n)
           /\ Laid(Emptied(c, dead), n, Emptied(c, dead).functions)
<1> DEFINE list == c.functions
           kept == Kept(list, dead)
           back == TotalFootprint(dead \cap ToSet(list))
           p == [f \in Functions |-> IF f \in dead THEN Nowhere ELSE c.place[f]]
           d == [memory |-> c.memory, exec |-> c.exec, free |-> c.free,
                 writable |-> c.writable, available |-> c.available + back,
                 functions |-> kept, capacity |-> c.capacity, place |-> p]
<1>1. Emptied(c, dead) = d
  BY Zenon DEF Emptied
<1>2. /\ list \in Seq(Functions) /\ c.free \in 1..n /\ c.memory[c.free - 1] = UDF
      /\ \A f \in Functions : c.place[f] # Nowhere <=> f \in ToSet(list)
      /\ \A f \in ToSet(list) : Lies(c, f)
      /\ Ordered(c, list)
      /\ c.place \in [Functions -> Nat \cup {Nowhere}]
  BY DEF Laid, Listed, Segments
<1>3. /\ kept \in Seq(Functions) /\ Len(kept) <= Len(list) /\ ToSet(kept) = ToSet(list) \ dead
      /\ Ordered(c, kept)
  BY <1>2, KeptOnes
<1>4. /\ Measured(ToSet(list)) /\ c.available = n - 1 - TotalFootprint(ToSet(list))
      /\ c.free >= 1 + TotalFootprint(ToSet(list)) /\ c.free \in Nat
  BY <1>2 DEF Laid, Accounted
<1>5. /\ Measured(ToSet(kept)) /\ back \in Nat /\ TotalFootprint(ToSet(kept)) \in Nat
      /\ TotalFootprint(ToSet(list)) = TotalFootprint(ToSet(kept)) + back
  <2> DEFINE S == ToSet(list)
  <2>1. Measured(S \ dead) /\ Measured(dead \cap S) /\ TotalFootprint(S) = TotalFootprint(S \ dead) + back
    BY <1>4, SizesSplit
  <2>2. TotalFootprint(S \ dead) \in Nat /\ back \in Nat
    BY <2>1, Measures
  <2> HIDE DEF back, kept
  <2> QED
    BY <1>3, <2>1, <2>2
<1>6. p \in [Functions -> Nat \cup {Nowhere}]
  BY <1>2
<1> HIDE DEF kept, back, p, list
<1>7. d \in Segments(n) /\ d.memory = c.memory /\ d.place = p /\ d.free = c.free
      /\ d.available = c.available + back /\ d.functions = kept
      /\ d.exec = c.exec /\ d.writable = c.writable /\ d.capacity = c.capacity
  BY <1>3, <1>5, <1>6 DEF Segments
<1> HIDE DEF d
<1>8. Accounted(d, n, ToSet(kept))
  BY <1>4, <1>5, <1>7 DEF Accounted
<1>9. \A f \in ToSet(kept) : f \in Functions /\ f \in ToSet(list) /\ d.place[f] = c.place[f]
  BY <1>2, <1>3, <1>7, Within DEF p
<1>10. Listed(d, kept)
  <2>1. \A f \in Functions : d.place[f] # Nowhere <=> f \in ToSet(kept)
    BY <1>2, <1>3, <1>7 DEF p
  <2>2. \A f \in ToSet(kept) : Lies(d, f)
    BY <1>2, <1>7, <1>9 DEF Lies, IntactAt
  <2>3. Ordered(d, kept)
    <3>1. \A i \in DOMAIN kept : kept[i] \in ToSet(kept)
      BY <1>3 DEF ToSet
    <3> QED
      BY <1>3, <1>9, <3>1 DEF Ordered
  <2> QED
    BY <1>3, <2>1, <2>2, <2>3 DEF Listed
<1>11. Laid(d, n, kept)
  BY <1>2, <1>7, <1>8, <1>10 DEF Laid
<1> QED
  BY <1>1, <1>7, <1>11

-----------------------------------------------------------------------------
(* Pages, and the segment before and after it is mapped. *)

\* Borders between pages.
Multiple(i) == i \in Nat /\ i % PageSize = 0

\* Borders between pages.
LEMMA Rounding ==
    ASSUME CodeSegmentAssumption, NEW i \in Nat
    PROVE  /\ Multiple(RoundUp(i)) /\ RoundUp(i) >= i
           /\ Multiple(RoundDown(i)) /\ RoundDown(i) <= i
           /\ \A n : Multiple(n) /\ i <= n => RoundUp(i) <= n
<1> DEFINE p == PageSize
<1>1. p \in Nat /\ p >= 1
  BY DEF CodeSegmentAssumption
<1> HIDE DEF p
<1>2. \A j \in Nat : (j \div p) * p \in Nat /\ ((j \div p) * p) % p = 0 /\ (j \div p) * p <= j
  <2>1. \A j \in Nat : (j \div p) \in Nat
    BY <1>1
  <2>2. \A k \in Nat : k * p \in Nat /\ (k * p) % p = 0
    BY <1>1
  <2>3. \A j \in Nat : (j \div p) * p <= j
    BY <1>1
  <2> QED
    BY <2>1, <2>2, <2>3
<1>3. i + p - 1 \in Nat
  BY <1>1
<1>4. (((i + p - 1) \div p) * p) >= i
  BY <1>1
<1>5. ASSUME NEW n \in Nat, n % p = 0, i <= n PROVE ((i + p - 1) \div p) * p <= n
  <2>1. PICK k \in Nat : n = k * p
    <3>1. n = (n \div p) * p /\ n \div p \in Nat
      BY <1>1, <1>5
    <3> QED
      BY <3>1
  <2>2. i + p - 1 < (k + 1) * p
    BY <1>1, <1>5, <2>1
  <2>3. (i + p - 1) \div p < k + 1
    BY <1>1, <2>2
  <2>4. (i + p - 1) \div p <= k /\ (i + p - 1) \div p \in Nat
    BY <1>1, <2>3
  <2> QED
    BY <1>1, <2>1, <2>4
<1> QED
  BY <1>2, <1>3, <1>4, <1>5 DEF Multiple, RoundUp, RoundDown, p

\* No cell before a border shares its page with one behind it.
LEMMA PageBorder ==
    ASSUME CodeSegmentAssumption, NEW from, Multiple(from), NEW i \in Nat, NEW j \in Nat,
           i < from, from <= j
    PROVE  i \div PageSize # j \div PageSize
<1> DEFINE p == PageSize
<1>1. p \in Nat /\ p >= 1 /\ from \in Nat /\ from % p = 0
  BY DEF CodeSegmentAssumption, Multiple
<1> HIDE DEF p
<1>2. PICK k \in Nat : from = k * p
  <2>1. from = (from \div p) * p /\ from \div p \in Nat
    BY <1>1
  <2> QED
    BY <2>1
<1>3. i \div p < k
  BY <1>1, <1>2
<1>4. ~(j \div p < k)
  BY <1>1, <1>2
<1> QED
  BY <1>3, <1>4 DEF p

\* No page behind "writable" can be executed, and all before it can.
Paged(c) == Multiple(c.writable) /\ c.exec = Pages(0..(c.writable - 1))

\* setWritable moves the border, and nothing else.
LEMMA BorderMoves ==
    ASSUME CodeSegmentAssumption, NEW n \in Nat, NEW c \in Segments(n), Paged(c),
           NEW from, Multiple(from)
    PROVE  LET d == setWritable(c, from)
           IN  /\ d \in Segments(n) /\ Paged(d) /\ d.writable = from
               /\ d.memory = c.memory /\ d.free = c.free /\ d.available = c.available
               /\ d.functions = c.functions /\ d.capacity = c.capacity /\ d.place = c.place
<1> DEFINE w == c.writable
           e == IF w > from THEN c.exec \ Pages(from..(w - 1)) ELSE c.exec \cup Pages(w..(from - 1))
           b == [memory |-> c.memory, exec |-> c.exec, free |-> c.free, writable |-> from,
                 available |-> c.available, functions |-> c.functions,
                 capacity |-> c.capacity, place |-> c.place]
           d == [memory |-> c.memory, exec |-> e, free |-> c.free, writable |-> from,
                 available |-> c.available, functions |-> c.functions,
                 capacity |-> c.capacity, place |-> c.place]
<1>1. setWritable(c, from) = d
  <2>1. [c EXCEPT !.writable = from] = b
    <3> DEFINE r == [memory |-> c.memory, exec |-> c.exec, free |-> c.free,
                     writable |-> c.writable, available |-> c.available,
                     functions |-> c.functions, capacity |-> c.capacity, place |-> c.place]
    <3>1. c = r
      BY DEF Segments
    <3>2. [r EXCEPT !.writable = from] = b
      OBVIOUS
    <3> HIDE DEF r, b
    <3> QED
      BY <3>1, <3>2, Zenon
  <2> HIDE DEF e
  <2>2. [b EXCEPT !.exec = e] = d
    OBVIOUS
  <2>3. setWritable(c, from) = [[c EXCEPT !.writable = from] EXCEPT !.exec = IF w > from THEN @ \ Pages(from..(w - 1)) ELSE @ \cup Pages(w..(from - 1))]
    BY Zenon DEF setWritable
  <2>4. b.exec = c.exec
    OBVIOUS
  <2> HIDE DEF b, d
  <2>5. setWritable(c, from) = [b EXCEPT !.exec = IF w > from THEN b.exec \ Pages(from..(w - 1)) ELSE b.exec \cup Pages(w..(from - 1))]
    BY <2>1, <2>3, Zenon
  <2>6. (IF w > from THEN b.exec \ Pages(from..(w - 1)) ELSE b.exec \cup Pages(w..(from - 1))) = e
    BY <2>4 DEF e
  <2> QED
    BY <2>2, <2>5, <2>6, Zenon
<1>2. w \in Nat /\ Multiple(w) /\ c.exec = Pages(0..(w - 1)) /\ from \in Nat
  BY DEF Paged, Multiple
<1>3. e = Pages(0..(from - 1))
  <2>1. CASE w > from
    <3>1. 0..(w - 1) = (0..(from - 1)) \cup (from..(w - 1))
      BY <1>2, <2>1
    <3>2. \A i \in 0..(from - 1), j \in from..(w - 1) : i \div PageSize # j \div PageSize
      <4>1. \A i \in 0..(from - 1) : i \in Nat /\ i < from
        BY <1>2
      <4>2. \A j \in from..(w - 1) : j \in Nat /\ from <= j
        BY <1>2
      <4> QED
        BY <4>1, <4>2, PageBorder
    <3>3. e = Pages(0..(w - 1)) \ Pages(from..(w - 1))
      BY <1>2, <2>1
    <3> QED
      BY <3>1, <3>2, <3>3 DEF Pages
  <2>2. CASE ~(w > from)
    <3>1. 0..(from - 1) = (0..(w - 1)) \cup (w..(from - 1))
      BY <1>2, <2>2
    <3>2. e = Pages(0..(w - 1)) \cup Pages(w..(from - 1))
      BY <1>2, <2>2
    <3> QED
      BY <3>1, <3>2 DEF Pages
  <2> QED
    BY <2>1, <2>2
<1>4. e \in SUBSET Int
  <2>1. PageSize \in Nat \ {0} /\ \A i \in 0..(from - 1) : i \in Int
    BY <1>2 DEF CodeSegmentAssumption
  <2>2. \A i \in 0..(from - 1) : i \div PageSize \in Int
    BY <2>1
  <2> QED
    BY <1>3, <2>2 DEF Pages
<1> HIDE DEF e
<1>5. /\ d \in Segments(n) /\ d.writable = from /\ d.exec = e
      /\ d.memory = c.memory /\ d.free = c.free /\ d.available = c.available
      /\ d.functions = c.functions /\ d.capacity = c.capacity /\ d.place = c.place
  BY <1>2, <1>4 DEF Segments
<1> HIDE DEF d
<1> QED
  BY <1>1, <1>3, <1>5 DEF Paged

\* The segment holds n cells: none before the first input is compiled.
SegmentOf(c, n) ==
    /\ c \in Segments(n) /\ Multiple(n) /\ Paged(c) /\ c.writable <= n
    /\ n = 0 => /\ c.free = 0 /\ c.available = 0 /\ c.capacity = 0
                /\ c.functions = <<>> /\ \A f \in Functions : c.place[f] = Nowhere
    /\ n > 0 => Laid(c, n, c.functions)

\* Whenever the program goes on, all code is before the border.
SegmentInv ==
    /\ SegmentOf(code, End(code))
    /\ status = "ok" => code.free <= code.writable

\* The segment is as long as its memory.
LEMMA SegmentSuffices ==
    ASSUME NEW n, NEW c, SegmentOf(c, n)
    PROVE  SegmentOf(c, End(c)) /\ End(c) = n /\ n \in Nat
<1>1. n \in Nat /\ c \in Segments(n)
  BY DEF SegmentOf, Multiple
<1>2. End(c) = n
  BY <1>1, EndOf
<1> QED
  BY <1>1, <1>2

\* The first call maps a segment that ends with a page and begins with a red zone.
LEMMA SegmentSizeFits ==
    ASSUME CodeSegmentAssumption, NEW required \in Nat
    PROVE  /\ Multiple(SegmentSize(required)) /\ SegmentSize(required) > required
           /\ isREPL => SegmentSize(required) >= MinSegment
<1> DEFINE size == required + 1
           asked == IF ~isREPL THEN size ELSE IF size < MinSegment THEN MinSegment ELSE 2 * size
<1>1. /\ isREPL \in BOOLEAN /\ MinSegment \in Nat
  BY DEF CodeSegmentAssumption
<1>2. asked \in Nat /\ asked >= size /\ (isREPL => asked >= MinSegment)
  BY <1>1
<1>3. SegmentSize(required) = RoundUp(asked)
  BY DEF SegmentSize, JIT_RED_ZONE
<1> HIDE DEF asked
<1>4. Multiple(RoundUp(asked)) /\ RoundUp(asked) >= asked /\ RoundUp(asked) \in Nat
  BY <1>2, Rounding DEF Multiple
<1> QED
  BY <1>1, <1>2, <1>3, <1>4

\* The segment that createInitialSegment maps is in order.
LEMMA InitialSegment ==
    ASSUME CodeSegmentAssumption, NEW c \in Segments(0), Paged(c), c.writable = 0,
           c.functions = <<>>, \A f \in Functions : c.place[f] = Nowhere,
           NEW n \in Nat \ {0}
    PROVE  LET d == createInitialSegment(c, n)
           IN  /\ d \in Segments(n) /\ Paged(d) /\ d.writable = 0
               /\ d.functions = c.functions /\ d.place = c.place /\ d.capacity = c.capacity
               /\ d.free = 1 /\ Laid(d, n, <<>>)
<1> DEFINE w == [i \in 0..(n - 1) |-> IF i < 1 THEN UDF ELSE Zero]
           r0 == [memory |-> c.memory, exec |-> c.exec, free |-> c.free, writable |-> c.writable,
                  available |-> c.available, functions |-> c.functions,
                  capacity |-> c.capacity, place |-> c.place]
           r1 == [memory |-> w, exec |-> c.exec, free |-> c.free, writable |-> c.writable,
                  available |-> c.available, functions |-> c.functions,
                  capacity |-> c.capacity, place |-> c.place]
           r2 == [memory |-> w, exec |-> c.exec, free |-> 1, writable |-> c.writable,
                  available |-> c.available, functions |-> c.functions,
                  capacity |-> c.capacity, place |-> c.place]
           r3 == [memory |-> w, exec |-> c.exec, free |-> 1, writable |-> 0,
                  available |-> c.available, functions |-> c.functions,
                  capacity |-> c.capacity, place |-> c.place]
           d == [memory |-> w, exec |-> c.exec, free |-> 1, writable |-> 0,
                  available |-> n - 1, functions |-> c.functions,
                  capacity |-> c.capacity, place |-> c.place]
<1>1. createInitialSegment(c, n) = d
  <2>1. createInitialSegment(c, n) =
          [[[[c EXCEPT !.memory = w] EXCEPT !.free = 1] EXCEPT !.writable = 0] EXCEPT !.available = n - 1]
    BY Zenon DEF createInitialSegment, JIT_RED_ZONE
  <2>2. c = r0
    BY DEF Segments
  <2> HIDE DEF w
  <2>3. [r0 EXCEPT !.memory = w] = r1 /\ [r1 EXCEPT !.free = 1] = r2
        /\ [r2 EXCEPT !.writable = 0] = r3 /\ [r3 EXCEPT !.available = n - 1] = d
    OBVIOUS
  <2> HIDE DEF r0, r1, r2, r3, d
  <2> QED
    BY <2>1, <2>2, <2>3, Zenon
<1>2. w \in [0..(n - 1) -> Words] /\ w[0] = UDF
  BY DEF Words
<1> HIDE DEF w
<1>3. /\ d \in Segments(n) /\ d.memory = w /\ d.exec = c.exec /\ d.free = 1 /\ d.writable = 0
      /\ d.available = n - 1 /\ d.functions = c.functions /\ d.capacity = c.capacity
      /\ d.place = c.place
  BY <1>2 DEF Segments
<1> HIDE DEF d
<1>4. Paged(d)
  BY <1>3 DEF Paged
<1>5. ToSet(<<>>) = {} /\ <<>> \in Seq(Functions) /\ DOMAIN <<>> = {}
  BY DEF ToSet
<1>6. Listed(d, <<>>)
  BY <1>3, <1>5 DEF Listed, Ordered
<1>7. Accounted(d, n, ToSet(<<>>))
  <2>1. Measured(ToSet(<<>>)) /\ TotalFootprint(ToSet(<<>>)) = 0
    BY <1>5, NothingMeasured, Zenon
  <2> QED
    BY <1>3, <2>1 DEF Accounted
<1>8. d.free \in 1..n /\ d.memory[d.free - 1] = UDF
  BY <1>2, <1>3
<1>9. Laid(d, n, <<>>)
  BY <1>6, <1>7, <1>8 DEF Laid
<1> QED
  BY <1>1, <1>3, <1>4, <1>9

\* The segment that a push finds is in order, mapped by itself or before.
LEMMA Mapping ==
    ASSUME CodeSegmentAssumption, SegmentInv, NEW required \in Nat
    PROVE  LET c == Mapped(required)
               n == End(c)
           IN  /\ n = IF End(code) = 0 THEN SegmentSize(required) ELSE End(code)
               /\ n \in Nat \ {0} /\ Multiple(n)
               /\ c \in Segments(n) /\ Paged(c) /\ c.writable <= n /\ Laid(c, n, c.functions)
               /\ c.functions = code.functions /\ c.place = code.place
               /\ c.capacity = code.capacity
               /\ c.free = IF End(code) = 0 THEN 1 ELSE code.free
<1> DEFINE n == End(code)
<1>1. /\ n \in Nat /\ code \in Segments(n) /\ Multiple(n) /\ Paged(code) /\ code.writable <= n
      /\ n = 0 => /\ code.free = 0 /\ code.available = 0 /\ code.capacity = 0
                  /\ code.functions = <<>> /\ \A f \in Functions : code.place[f] = Nowhere
      /\ n > 0 => Laid(code, n, code.functions)
  BY SegmentSuffices DEF SegmentInv, SegmentOf
<1>2. End(code) = n
  OBVIOUS
<1> HIDE DEF n
<1>3. CASE n = 0
  <2> DEFINE size == SegmentSize(required)
             c == createInitialSegment(code, size)
  <2>1. size \in Nat \ {0} /\ Multiple(size)
    BY SegmentSizeFits DEF Multiple
  <2>2. Mapped(required) = c
    BY <1>2, <1>3 DEF Mapped
  <2> HIDE DEF size
  <2>3. /\ c \in Segments(size) /\ Paged(c) /\ c.writable = 0
        /\ c.functions = code.functions /\ c.place = code.place /\ c.capacity = code.capacity
        /\ c.free = 1 /\ Laid(c, size, <<>>) /\ code.functions = <<>>
    <3>1. code \in Segments(0) /\ Paged(code) /\ code.writable = 0 /\ code.writable \in Nat
          /\ code.functions = <<>> /\ \A f \in Functions : code.place[f] = Nowhere
      BY <1>1, <1>3 DEF Paged, Multiple
    <3> QED
      BY <2>1, <3>1, InitialSegment
  <2> HIDE DEF c
  <2>4. Laid(c, size, c.functions) /\ c.writable <= size /\ End(code) = 0 /\ End(c) = size
    BY <1>2, <1>3, <2>1, <2>3, EndOf
  <2> QED
    BY <2>1, <2>2, <2>3, <2>4 DEF size
<1>4. CASE n # 0
  <2>1. Mapped(required) = code
    BY <1>2, <1>4 DEF Mapped
  <2>2. n \in Nat \ {0} /\ Laid(code, n, code.functions) /\ End(code) # 0
    BY <1>1, <1>2, <1>4
  <2> QED
    BY <1>1, <1>2, <2>1, <2>2
<1> QED
  BY <1>3, <1>4

-----------------------------------------------------------------------------
(* What a push does. *)

\* Order is a matter of memory, places and free space alone.
LEMMA LaidAlike ==
    ASSUME NEW c, NEW d, NEW n, NEW list, Laid(c, n, list),
           d.memory = c.memory, d.free = c.free, d.available = c.available, d.place = c.place
    PROVE  Laid(d, n, list)
<1>1. Listed(d, list)
  BY DEF Laid, Listed, Lies, IntactAt, Ordered
<1>2. Accounted(d, n, ToSet(list))
  BY DEF Laid, Accounted
<1> QED
  BY <1>1, <1>2 DEF Laid

\* What follows on a batch that joins the list.
Grown(capacity, n) == IF capacity < n THEN GrowCapacity(capacity) ELSE capacity

Extended(c, d, n, batch) ==
    /\ d \in Segments(n) /\ Paged(d) /\ d.writable <= n /\ d.free <= d.writable
    /\ Laid(d, n, d.functions) /\ d.functions = c.functions \o batch
    /\ d.free = c.free + TotalFootprint(ToSet(batch))
    /\ d.capacity = Grown(c.capacity, Len(c.functions) + Len(batch))

\* A batch that fits joins a segment in order, and leaves it so.
LEMMA AppendIsLaid ==
    ASSUME CodeSegmentAssumption, NEW n \in Nat, Multiple(n), NEW c \in Segments(n), Paged(c),
           c.writable <= n, Laid(c, n, c.functions),
           NEW batch \in Seq(Functions), Distinct(batch),
           ToSet(batch) \cap ToSet(c.functions) = {}, Measured(ToSet(batch)),
           c.free + TotalFootprint(ToSet(batch)) <= n
    PROVE  LET d == append(c, batch)
           IN  Extended(c, d, n, batch)
<1> DEFINE list == c.functions
           from == RoundDown(c.free)
           a == setWritable(c, from)
           b == writeNewFunctions(a, batch)
           upto == RoundUp(b.free)
           e == setWritable(b, upto)
           l == list \o batch
           k == Grown(e.capacity, Len(list) + Len(batch))
           d == [memory |-> e.memory, exec |-> e.exec, free |-> e.free, writable |-> e.writable,
                 available |-> e.available, functions |-> l, capacity |-> k, place |-> e.place]
<1>1. c.free \in Nat /\ list \in Seq(Functions) /\ c.free \in 1..n
  BY DEF Segments, Laid
<1>2. Multiple(from) /\ from <= c.free
  BY <1>1, Rounding
<1> HIDE DEF from
<1>3. /\ a \in Segments(n) /\ Paged(a) /\ a.writable = from
      /\ a.memory = c.memory /\ a.free = c.free /\ a.available = c.available
      /\ a.functions = c.functions /\ a.capacity = c.capacity /\ a.place = c.place
  BY <1>2, BorderMoves
<1> HIDE DEF a
<1>4. Laid(a, n, list)
  BY <1>3, LaidAlike
<1>5. /\ b \in Segments(n) /\ Laid(b, n, l)
      /\ b.free = c.free + TotalFootprint(ToSet(batch))
      /\ b.exec = a.exec /\ b.writable = a.writable
      /\ b.functions = list /\ b.capacity = c.capacity
  <2>1. a.free + TotalFootprint(ToSet(batch)) <= n
    BY <1>3
  <2> QED
    BY <1>3, <1>4, <2>1, BatchIsLaid
<1> HIDE DEF b
<1>6. Paged(b) /\ b.free \in Nat /\ b.free <= n
  BY <1>3, <1>5 DEF Paged, Laid, Segments
<1>7. Multiple(upto) /\ upto >= b.free /\ upto <= n
  BY <1>6, Rounding
<1> HIDE DEF upto
<1>8. /\ e \in Segments(n) /\ Paged(e) /\ e.writable = upto
      /\ e.memory = b.memory /\ e.free = b.free /\ e.available = b.available
      /\ e.functions = b.functions /\ e.capacity = b.capacity /\ e.place = b.place
  BY <1>5, <1>6, <1>7, BorderMoves
<1>9. ToExecutable(b) = e
  BY DEF ToExecutable, e, upto
<1> HIDE DEF e
<1>10. append(c, batch) = d
  <2> DEFINE r0 == [memory |-> e.memory, exec |-> e.exec, free |-> e.free, writable |-> e.writable,
                    available |-> e.available, functions |-> e.functions,
                    capacity |-> e.capacity, place |-> e.place]
             r1 == [memory |-> e.memory, exec |-> e.exec, free |-> e.free, writable |-> e.writable,
                    available |-> e.available, functions |-> l,
                    capacity |-> e.capacity, place |-> e.place]
             m == Len(list) + Len(batch)
  <2>1. append(c, batch) = [ToExecutable(b) EXCEPT
            !.functions = @ \o batch,
            !.capacity = IF @ < m THEN GrowCapacity(@) ELSE @]
    BY Zenon DEF append, b, a, from, list
  <2>2. append(c, batch) = [e EXCEPT
            !.functions = @ \o batch,
            !.capacity = IF @ < m THEN GrowCapacity(@) ELSE @]
    BY <1>9, <2>1, Zenon
  <2>3. e = r0
    BY <1>8 DEF Segments
  <2>4. e.functions \o batch = l
    BY <1>5, <1>8
  <2> HIDE DEF l, k
  <2>5. [r0 EXCEPT !.functions = l] = r1 /\ [r1 EXCEPT !.capacity = k] = d /\ r1.capacity = e.capacity
    OBVIOUS
  <2>6. (IF e.capacity < m THEN GrowCapacity(e.capacity) ELSE e.capacity) = k
    BY DEF k, Grown
  <2>7. [[e EXCEPT !.functions = l] EXCEPT !.capacity = k] = d
    <3> HIDE DEF r0, r1, d
    <3> QED
      BY <2>3, <2>5, Zenon
  <2>8. [e EXCEPT !.functions = @ \o batch, !.capacity = IF @ < m THEN GrowCapacity(@) ELSE @]
          = [[e EXCEPT !.functions = l] EXCEPT !.capacity = k]
    <3> DEFINE q == [e EXCEPT !.functions = l]
    <3>1. q = r1
      <4> HIDE DEF r0, r1
      <4> QED
        BY <2>3, <2>5, Zenon
    <3>2. q.capacity = e.capacity
      <4> HIDE DEF r1, q
      <4> QED
        BY <2>5, <3>1
    <3> QED
      BY <2>4, <2>6, <3>2, Zenon
  <2> QED
    BY <2>2, <2>7, <2>8, Zenon
<1>11. k \in Nat /\ l \in Seq(Functions)
  <2>1. e.capacity \in Nat /\ Len(list) + Len(batch) \in Nat /\ MinCapacity \in Nat
    BY <1>1, <1>8 DEF Segments, CodeSegmentAssumption
  <2> QED
    BY <1>1, <2>1 DEF Grown, GrowCapacity
<1> HIDE DEF l, k
<1>12. /\ d \in Segments(n) /\ d.memory = e.memory /\ d.exec = e.exec /\ d.free = e.free
       /\ d.writable = e.writable /\ d.available = e.available /\ d.functions = l
       /\ d.capacity = k /\ d.place = e.place
  BY <1>8, <1>11 DEF Segments
<1> HIDE DEF d
<1>13. Laid(e, n, l)
  BY <1>5, <1>8, LaidAlike
<1>14. Laid(d, n, l)
  BY <1>12, <1>13, LaidAlike
<1>15. Paged(d) /\ d.writable <= n /\ d.free <= d.writable
  BY <1>7, <1>8, <1>12 DEF Paged
<1>16. k = Grown(c.capacity, Len(list) + Len(batch))
  BY <1>5, <1>8, Zenon DEF k
<1>17. Extended(c, d, n, batch)
  BY <1>5, <1>8, <1>12, <1>14, <1>15, <1>16 DEF l, Extended
<1> QED
  BY <1>10, <1>17, Zenon

\* The batch of a push, which fits where it is to go.
Batch(batch, required) ==
    /\ batch \in Seq(Functions) /\ Distinct(batch)
    /\ Measured(ToSet(batch)) /\ TotalFootprint(ToSet(batch)) <= required
    /\ required \in Nat

\* The push that rewrites the segment.
CompactionIn(required) ==
    Compacts(Mapped(required), required) /\ ~RunsOverEnd(Mapped(required))

\* A push that appends: the functions join the list.
LEMMA PushAppends ==
    ASSUME CodeSegmentAssumption, SegmentInv, NEW batch, NEW combinedSize,
           NEW required, required = RequiredCells(batch, combinedSize), Batch(batch, required),
           ToSet(batch) \cap ToSet(code.functions) = {},
           codePushFunctions(batch, combinedSize), Appends(Mapped(required), required)
    PROVE  /\ SegmentInv' /\ End(code') = End(Mapped(required))
           /\ code'.functions = code.functions \o batch
           /\ code'.free = Mapped(required).free + TotalFootprint(ToSet(batch))
           /\ code'.capacity = Grown(code.capacity, Len(code.functions) + Len(batch))
           /\ status' = IF ListTakes(code, Len(batch)) THEN "ok" ELSE "hung"
<1> DEFINE c == Mapped(required)
           n == End(c)
           size == TotalFootprint(ToSet(batch))
           d == append(c, batch)
<1>1. /\ n \in Nat \ {0} /\ Multiple(n)
      /\ c \in Segments(n) /\ Paged(c) /\ c.writable <= n /\ Laid(c, n, c.functions)
      /\ c.functions = code.functions /\ c.capacity = code.capacity
  BY Mapping DEF Batch
<1>2. /\ batch \in Seq(Functions) /\ Distinct(batch) /\ Measured(ToSet(batch))
      /\ size <= required /\ required \in Nat /\ size \in Nat
  BY Measures DEF Batch
<1>3. c.free \in Nat /\ n - c.free > required
  BY <1>1 DEF Appends, Segments
<1> HIDE DEF c
<1>4. c.free + size <= n
  <2> HIDE DEF size, n
  <2> QED
    BY <1>1, <1>2, <1>3
<1>5. /\ d \in Segments(n) /\ Paged(d) /\ d.writable <= n /\ d.free <= d.writable
      /\ Laid(d, n, d.functions) /\ d.functions = c.functions \o batch
      /\ d.free = c.free + size
      /\ d.capacity = Grown(c.capacity, Len(c.functions) + Len(batch))
  <2>1. ToSet(batch) \cap ToSet(c.functions) = {}
    BY <1>1
  <2>2. n \in Nat
    BY <1>1
  <2> HIDE DEF n
  <2>3. Extended(c, d, n, batch)
    BY <1>1, <1>2, <1>4, <2>1, <2>2, AppendIsLaid
  <2> QED
    BY <2>3 DEF Extended
<1> HIDE DEF d, n
<1>6. /\ code' = d
      /\ status' = IF ~CanWrite(setWritable(c, RoundDown(c.free)), c.free..(c.free + size - 1)) THEN "fault"
                   ELSE IF ListTakes(c, Len(batch)) THEN "ok" ELSE "hung"
  BY Zenon DEF codePushFunctions, Compacts, c, d, size
<1>7. CanWrite(setWritable(c, RoundDown(c.free)), c.free..(c.free + size - 1))
  <2> DEFINE from == RoundDown(c.free)
             a == setWritable(c, from)
  <2>1. Multiple(from) /\ from <= c.free /\ from \in Nat
    BY <1>3, Rounding DEF Multiple
  <2> HIDE DEF from
  <2>2. a.exec = Pages(0..(from - 1))
    <3>1. Paged(a) /\ a.writable = from
      BY <1>1, <2>1, BorderMoves
    <3> HIDE DEF a
    <3> QED
      BY <3>1 DEF Paged
  <2>3. \A i \in 0..(from - 1), j \in c.free..(c.free + size - 1) : i \div PageSize # j \div PageSize
    <3>1. \A i \in 0..(from - 1) : i \in Nat /\ i < from
      BY <2>1
    <3>2. \A j \in c.free..(c.free + size - 1) : j \in Nat /\ from <= j
      BY <1>2, <1>3, <2>1
    <3> QED
      BY <2>1, <3>1, <3>2, PageBorder
  <2>4. Pages(c.free..(c.free + size - 1)) \cap Pages(0..(from - 1)) = {}
    BY <2>3 DEF Pages
  <2> HIDE DEF a
  <2> QED
    BY <2>2, <2>4 DEF CanWrite, a, from
<1>8. ListTakes(c, Len(batch)) = ListTakes(code, Len(batch))
  BY <1>1 DEF ListTakes
<1>9. status' = IF ListTakes(code, Len(batch)) THEN "ok" ELSE "hung"
  BY <1>6, <1>7, <1>8, Zenon
<1>10. SegmentOf(d, n)
  BY <1>1, <1>5 DEF SegmentOf
<1>11. SegmentOf(d, End(d)) /\ End(d) = n
  BY <1>10, SegmentSuffices
<1>12. SegmentOf(code', End(code')) /\ End(code') = n /\ code'.free <= code'.writable
  BY <1>5, <1>6, <1>11
<1>13. SegmentInv' /\ End(code') = n
  BY <1>12 DEF SegmentInv
<1> QED
  BY <1>1, <1>5, <1>6, <1>9, <1>13 DEF c, n, size

\* A push that does not: nothing is written, and the program stops.
LEMMA PushFails ==
    ASSUME CodeSegmentAssumption, SegmentInv, NEW batch, NEW combinedSize,
           NEW required, required = RequiredCells(batch, combinedSize), required \in Nat,
           codePushFunctions(batch, combinedSize), ~Appends(Mapped(required), required),
           ~CompactionIn(required)
    PROVE  /\ SegmentInv' /\ status' \in {"undefined", "aborted"}
           /\ code'.functions = code.functions /\ code'.place = code.place
<1> DEFINE c == Mapped(required)
           n == End(c)
<1>1. /\ n \in Nat \ {0} /\ Multiple(n)
      /\ c \in Segments(n) /\ Paged(c) /\ c.writable <= n /\ Laid(c, n, c.functions)
      /\ c.functions = code.functions /\ c.place = code.place
  BY Mapping
<1>2. code' = c /\ status' \in {"undefined", "aborted"}
  BY DEF codePushFunctions, CompactionIn
<1> HIDE DEF c
<1>3. SegmentOf(c, n)
  BY <1>1 DEF SegmentOf
<1>4. SegmentOf(code', End(code')) /\ status' # "ok"
  BY <1>2, <1>3
<1>5. SegmentInv'
  BY <1>4 DEF SegmentInv
<1> QED
  BY <1>1, <1>2, <1>5

\* A collection moves nothing.
LEMMA EmptiedSegment ==
    ASSUME CodeSegmentAssumption, NEW n, NEW c, SegmentOf(c, n), NEW dead \in SUBSET Functions
    PROVE  LET d == Emptied(c, dead)
           IN  /\ SegmentOf(d, n) /\ d.free = c.free /\ d.writable = c.writable
               /\ d.capacity = c.capacity /\ Len(d.functions) <= Len(c.functions)
               /\ d.place = [f \in Functions |-> IF f \in dead THEN Nowhere ELSE c.place[f]]
<1> DEFINE list == c.functions
           kept == Kept(list, dead)
           back == TotalFootprint(dead \cap ToSet(list))
           d == Emptied(c, dead)
<1>1. /\ c \in Segments(n) /\ n \in Nat /\ Multiple(n) /\ Paged(c) /\ c.writable <= n
      /\ n = 0 => /\ c.free = 0 /\ c.available = 0 /\ c.capacity = 0
                  /\ list = <<>> /\ \A f \in Functions : c.place[f] = Nowhere
      /\ n > 0 => Laid(c, n, list)
  BY DEF SegmentOf, Multiple
<1>2. /\ d.memory = c.memory /\ d.exec = c.exec /\ d.free = c.free /\ d.writable = c.writable
      /\ d.available = c.available + back /\ d.functions = kept /\ d.capacity = c.capacity
      /\ d.place = [f \in Functions |-> IF f \in dead THEN Nowhere ELSE c.place[f]]
  BY DEF Emptied
<1>3. list \in Seq(Functions) /\ Ordered(c, list)
  <2>1. CASE n = 0
    <3>1. list = <<>>
      BY <1>1, <2>1
    <3> HIDE DEF list
    <3>2. DOMAIN <<>> = {} /\ <<>> \in Seq(Functions)
      OBVIOUS
    <3> QED
      BY <3>1, <3>2 DEF Ordered
  <2>2. CASE n > 0
    BY <1>1, <2>2 DEF Laid, Listed
  <2> QED
    BY <1>1, <2>1, <2>2
<1>4. kept \in Seq(Functions) /\ Len(kept) <= Len(list)
  BY <1>3, KeptOnes
<1>5. Paged(d) /\ d.writable <= n
  BY <1>1, <1>2 DEF Paged
<1> HIDE DEF d, kept, back
<1>6. CASE n = 0
  <2>1. list = <<>> /\ Len(list) = 0 /\ kept = <<>>
    <3>1. Len(list) = 0 /\ Len(kept) \in Nat /\ Len(kept) <= 0
      BY <1>1, <1>4, <1>6
    <3> QED
      BY <1>1, <1>4, <1>6, <3>1
  <2>2. back = 0
    <3>1. dead \cap ToSet(list) = {}
      BY <2>1 DEF ToSet
    <3> QED
      BY <3>1, NothingMeasured, Zenon DEF back
  <2>3. d \in Segments(n)
    <3>1. d.memory \in [0..(n - 1) -> Words] /\ d.exec \in SUBSET Int /\ d.free \in Nat
          /\ d.writable \in Nat /\ d.available \in Int /\ d.functions \in Seq(Functions)
          /\ d.capacity \in Nat /\ d.place \in [Functions -> Nat \cup {Nowhere}]
      <4>1. c.memory \in [0..(n - 1) -> Words] /\ c.exec \in SUBSET Int /\ c.free \in Nat
            /\ c.writable \in Nat /\ c.capacity \in Nat
            /\ c.place \in [Functions -> Nat \cup {Nowhere}]
        BY <1>1 DEF Segments
      <4>2. d.place \in [Functions -> Nat \cup {Nowhere}]
        BY <1>2, <4>1
      <4>3. d.available = 0
        BY <1>1, <1>2, <1>6, <2>2
      <4> QED
        BY <1>2, <1>4, <4>1, <4>2, <4>3
    <3>2. d = [memory |-> d.memory, exec |-> d.exec, free |-> d.free, writable |-> d.writable,
               available |-> d.available, functions |-> d.functions,
               capacity |-> d.capacity, place |-> d.place]
      BY DEF d, Emptied
    <3> QED
      BY <3>1, <3>2 DEF Segments
  <2>4. /\ d.free = 0 /\ d.available = 0 /\ d.capacity = 0 /\ d.functions = <<>>
        /\ \A f \in Functions : d.place[f] = Nowhere
    BY <1>1, <1>2, <1>6, <2>1, <2>2
  <2>5. SegmentOf(d, n)
    BY <1>1, <1>5, <1>6, <2>3, <2>4 DEF SegmentOf
  <2> QED
    BY <1>2, <1>4, <2>5 DEF d
<1>7. CASE n > 0
  <2>1. d \in Segments(n) /\ Laid(d, n, d.functions)
    BY <1>1, <1>7, WithoutIsLaid DEF d
  <2>2. SegmentOf(d, n)
    BY <1>1, <1>5, <1>7, <2>1 DEF SegmentOf
  <2> QED
    BY <1>2, <1>4, <2>2 DEF d
<1> QED
  BY <1>1, <1>6, <1>7

\* The list is the list of what is in the segment.
LEMMA ListIsPlaced ==
    ASSUME NEW c, SegmentOf(c, End(c))
    PROVE  /\ {f \in Functions : c.place[f] # Nowhere} = ToSet(c.functions)
           /\ c.functions \in Seq(Functions)
<1>1. CASE End(c) = 0
  <2>1. c.functions = <<>> /\ \A f \in Functions : c.place[f] = Nowhere
    BY <1>1 DEF SegmentOf
  <2>2. ToSet(<<>>) = {} /\ <<>> \in Seq(Functions)
    BY DEF ToSet
  <2> QED
    BY <2>1, <2>2
<1>2. CASE End(c) # 0
  <2>1. Listed(c, c.functions)
    BY <1>2 DEF SegmentOf, Multiple, Laid
  <2>2. ToSet(c.functions) \subseteq Functions
    BY <2>1, Within DEF Listed
  <2> QED
    BY <2>1, <2>2 DEF Listed
<1> QED
  BY <1>1, <1>2

-----------------------------------------------------------------------------
(* What exists refers to what exists. *)

\* What an ObjFunction may hold.
Descriptions ==
    [code : {NULL, Segment} \cup Functions, isExecutable : BOOLEAN, constants : SUBSET Functions]

\* What exists refers to what exists.
HeapInv ==
    /\ DOMAIN functions \subseteq Functions
    /\ functions \in [DOMAIN functions -> Descriptions]
    /\ Closed(functions, DOMAIN functions)
    /\ current \in Seq(DOMAIN functions) /\ gcRoots \in Seq(DOMAIN functions)
    /\ held \subseteq DOMAIN functions

\* What was finished in this compilation is in the reach of its compilers.
Compiling == phase \in {"parsing", "addConstant"}

CompiledInv ==
    /\ compiledFunctions \in [functions : Seq(Functions), combinedSize : Nat]
    /\ Compiling =>
         /\ current # <<>>
         /\ ToSet(compiledFunctions.functions)
                \subseteq Reach(functions, ToSet(current) \cup ToSet(gcRoots))

\* Where pushGCRoot holds a function.
PhaseInv ==
    /\ phase \in {"prompt", "parsing", "addConstant", "interpret", "running"}
    /\ phase \in {"prompt", "interpret", "running"} => current = <<>>
    /\ phase \in {"prompt", "parsing"} => gcRoots = <<>>
    /\ phase = "addConstant" => \E f \in DOMAIN functions : gcRoots = <<f>>
    /\ phase = "running" => ToSet(gcRoots) \subseteq held

\* The inductive invariant of what exists.
IInv == HeapInv /\ CompiledInv /\ PhaseInv

\* What is in reach is closed, and holds what it is reached from.
LEMMA ReachIsClosed ==
    ASSUME NEW fs, fs \in [DOMAIN fs -> Descriptions], NEW S \in SUBSET Functions
    PROVE  /\ S \subseteq Reach(fs, S)
           /\ Closed(fs, Reach(fs, S))
           /\ Reach(fs, S) \in SUBSET Functions
<1>1. S \subseteq Reach(fs, S) /\ Reach(fs, S) \in SUBSET Functions
  BY DEF Reach
<1>2. ASSUME NEW f \in Reach(fs, S) \cap DOMAIN fs, NEW g \in fs[f].constants
      PROVE  g \in Reach(fs, S)
  <2>1. fs[f] \in Descriptions
    OBVIOUS
  <2>2. g \in Functions
    BY <2>1 DEF Descriptions
  <2>3. ASSUME NEW T \in SUBSET Functions, S \subseteq T, Closed(fs, T) PROVE g \in T
    BY <2>3 DEF Reach, Closed
  <2> QED
    BY <2>2, <2>3 DEF Reach
<1> QED
  BY <1>1, <1>2 DEF Closed

\* It is the least such set.
LEMMA ReachIsLeast ==
    ASSUME NEW fs, NEW S, NEW T \in SUBSET Functions, S \subseteq T, Closed(fs, T)
    PROVE  Reach(fs, S) \subseteq T
  BY DEF Reach

\* More functions, and more constants, bring more into reach.
LEMMA ReachGrows ==
    ASSUME NEW fs, NEW gs, fs \in [DOMAIN fs -> Descriptions], gs \in [DOMAIN gs -> Descriptions],
           NEW S \in SUBSET Functions, NEW R \in SUBSET Functions,
           \A f \in DOMAIN fs : f \in DOMAIN gs /\ fs[f].constants \subseteq gs[f].constants,
           S \subseteq Reach(gs, R)
    PROVE  Reach(fs, S) \subseteq Reach(gs, R)
<1>1. Closed(gs, Reach(gs, R)) /\ Reach(gs, R) \in SUBSET Functions
  BY ReachIsClosed
<1>2. Closed(fs, Reach(gs, R))
  BY <1>1 DEF Closed
<1> QED
  BY <1>1, <1>2, ReachIsLeast

\* Without the functions out of reach, the same is in reach.
LEMMA ReachRemains ==
    ASSUME NEW fs, fs \in [DOMAIN fs -> Descriptions],
           NEW R \in SUBSET Functions, NEW S \in SUBSET R,
           NEW K \in SUBSET DOMAIN fs, K = Reach(fs, R),
           NEW gs \in [K -> Descriptions], \A f \in K : gs[f] = fs[f]
    PROVE  Reach(fs, S) \subseteq Reach(gs, S)
<1>1. gs \in [DOMAIN gs -> Descriptions] /\ S \in SUBSET Functions
  OBVIOUS
<1>2. Reach(fs, R) \in SUBSET Functions /\ Closed(fs, Reach(fs, R)) /\ R \subseteq Reach(fs, R)
  BY ReachIsClosed
<1>3. S \subseteq Reach(gs, S) /\ Closed(gs, Reach(gs, S)) /\ Reach(gs, S) \in SUBSET Functions
  BY <1>1, ReachIsClosed
<1>4. Closed(fs, Reach(gs, S) \cap Reach(fs, R))
  BY <1>2, <1>3 DEF Closed
<1>5. S \subseteq Reach(gs, S) \cap Reach(fs, R)
  BY <1>2, <1>3
<1> QED
  BY <1>3, <1>4, <1>5, ReachIsLeast

-----------------------------------------------------------------------------
\* The invariant leaves nothing dangling.
LEMMA InvariantSuffices == IInv => NoDanglingFunctions
<1> SUFFICES ASSUME IInv PROVE NoDanglingFunctions
  OBVIOUS
<1> DEFINE compiled == IF Compiling THEN compiledFunctions.functions ELSE <<>>
           all == held \cup ToSet(current) \cup ToSet(gcRoots) \cup ToSet(compiled)
<1>1. ToSet(current) \subseteq DOMAIN functions /\ ToSet(gcRoots) \subseteq DOMAIN functions
  BY DEF IInv, HeapInv, ToSet
<1>2. Reach(functions, ToSet(current) \cup ToSet(gcRoots)) \subseteq DOMAIN functions
  BY <1>1, ReachIsLeast DEF IInv, HeapInv
<1>3. ToSet(compiled) \subseteq DOMAIN functions
  <2>1. CASE Compiling
    BY <2>1, <1>2 DEF IInv, CompiledInv
  <2>2. CASE ~Compiling
    BY <2>2 DEF ToSet
  <2> QED
    BY <2>1, <2>2
<1>4. all \subseteq DOMAIN functions
  BY <1>1, <1>3 DEF IInv, HeapInv
<1>5. Reach(functions, all) \subseteq DOMAIN functions
  BY <1>4, ReachIsLeast DEF IInv, HeapInv
<1> QED
  BY <1>5 DEF NoDanglingFunctions, Compiling
-----------------------------------------------------------------------------
\* Before the first input there is nothing.
LEMMA InitStep == Init => IInv
<1> SUFFICES ASSUME Init PROVE IInv
  OBVIOUS
<1>1. functions = [f \in {} |-> NULL] /\ DOMAIN functions = {}
  BY DEF Init
<1>2. functions \in [DOMAIN functions -> Descriptions]
  BY <1>1
<1>3. HeapInv
  BY <1>1, <1>2 DEF Init, HeapInv, Closed
<1>4. CompiledInv /\ PhaseInv
  BY DEF Init, CompiledInv, PhaseInv, Compiling
<1> QED
  BY <1>3, <1>4 DEF IInv

\* A new function is known to its compiler, and refers to nothing yet.
LEMMA NewFunction ==
    ASSUME CompilationAssumption, HeapInv, initCompiler, UNCHANGED <<gcRoots, held>>
    PROVE  /\ HeapInv' /\ current' # <<>>
           /\ ToSet(current) \subseteq ToSet(current')
           /\ \A f \in DOMAIN functions : f \in DOMAIN functions' /\ functions'[f] = functions[f]
<1>1. PICK f \in Fresh, garbage \in Garbage :
         /\ functions' = [g \in DOMAIN functions \cup {f} |->
               IF g = f THEN [code |-> NULL, isExecutable |-> garbage, constants |-> {}]
               ELSE functions[g]]
         /\ current' = Append(current, f)
  BY DEF initCompiler
<1>2. f \in Functions /\ f \notin DOMAIN functions /\ garbage \in BOOLEAN
  BY <1>1 DEF Fresh, CompilationAssumption
<1>3. DOMAIN functions' = DOMAIN functions \cup {f}
      /\ functions'[f] = [code |-> NULL, isExecutable |-> garbage, constants |-> {}]
      /\ \A g \in DOMAIN functions : functions'[g] = functions[g]
  BY <1>1, <1>2
<1>4. functions'[f] \in Descriptions /\ functions'[f].constants = {}
  BY <1>2, <1>3 DEF Descriptions
<1>5. functions' \in [DOMAIN functions' -> Descriptions]
  BY <1>1, <1>3, <1>4 DEF HeapInv
<1>6. Closed(functions', DOMAIN functions')
  BY <1>3, <1>4 DEF HeapInv, Closed
<1>7. current \in Seq(DOMAIN functions') /\ gcRoots \in Seq(DOMAIN functions')
  BY <1>3 DEF HeapInv
<1>8. current' \in Seq(DOMAIN functions') /\ current' # <<>> /\ ToSet(current) \subseteq ToSet(current')
  BY <1>1, <1>3, <1>7, Appended
<1>9. HeapInv'
  BY <1>2, <1>3, <1>5, <1>6, <1>7, <1>8 DEF HeapInv
<1> QED
  BY <1>3, <1>8, <1>9

\* compile() makes the script.
LEMMA CompileStep == ASSUME CompilationAssumption, IInv, compile PROVE IInv'
<1>1. HeapInv' /\ current' # <<>>
  BY NewFunction DEF compile, IInv
<1>2. compiledFunctions' \in [functions : Seq(Functions), combinedSize : Nat]
      /\ compiledFunctions'.functions = <<>>
  <2>1. compiledFunctions \in [functions : Seq(Functions), combinedSize : Nat]
    BY DEF IInv, CompiledInv
  <2>2. compiledFunctions' = [compiledFunctions EXCEPT !.functions = <<>>]
    BY DEF compile
  <2>3. <<>> \in Seq(Functions)
    OBVIOUS
  <2> QED
    BY <2>1, <2>2, <2>3
<1>3. CompiledInv'
  BY <1>1, <1>2 DEF CompiledInv, ToSet
<1>4. PhaseInv'
  BY DEF compile, IInv, PhaseInv
<1> QED
  BY <1>1, <1>3, <1>4 DEF IInv

\* What the compilers reach, they reach from the new one as well.
LEMMA FunctionStep == ASSUME CompilationAssumption, IInv, function PROVE IInv'
<1>1. /\ HeapInv' /\ current' # <<>>
      /\ ToSet(current) \subseteq ToSet(current')
      /\ \A f \in DOMAIN functions : f \in DOMAIN functions' /\ functions'[f] = functions[f]
  BY NewFunction DEF function, IInv
<1>2. UNCHANGED <<compiledFunctions, gcRoots, phase>> /\ phase = "parsing"
  BY DEF function
<1> DEFINE held1 == ToSet(current) \cup ToSet(gcRoots)
           held2 == ToSet(current') \cup ToSet(gcRoots')
<1>3. held1 \in SUBSET Functions /\ held2 \in SUBSET Functions /\ held1 \subseteq held2
  BY <1>1, <1>2, Within DEF IInv, HeapInv
<1>4. held2 \subseteq Reach(functions', held2)
  BY <1>1, <1>3, ReachIsClosed DEF HeapInv
<1>5. Reach(functions, held1) \subseteq Reach(functions', held2)
  <2> HIDE DEF held1, held2
  <2> QED
    BY <1>1, <1>3, <1>4, ReachGrows DEF IInv, HeapInv
<1>6. CompiledInv'
  BY <1>1, <1>2, <1>5 DEF IInv, CompiledInv, Compiling
<1>7. PhaseInv'
  BY <1>2 DEF IInv, PhaseInv
<1> QED
  BY <1>1, <1>6, <1>7 DEF IInv

\* A function gets its code, which refers to nothing.
LEMMA InBlockKeeps ==
    ASSUME HeapInv, NEW f \in DOMAIN functions
    PROVE  /\ InBlock(f) \in [DOMAIN functions -> Descriptions]
           /\ \A g \in DOMAIN functions : InBlock(f)[g].constants = functions[g].constants
  BY DEF HeapInv, InBlock, Descriptions

\* Installing changes no constants.
LEMMA InstalledKeeps ==
    ASSUME NEW fs, fs \in [DOMAIN fs -> Descriptions], NEW moved
    PROVE  /\ Installed(fs, moved) \in [DOMAIN fs -> Descriptions]
           /\ \A g \in DOMAIN fs : Installed(fs, moved)[g].constants = fs[g].constants
  BY DEF Installed, Descriptions

\* pushCompiledFunction appends.
LEMMA Pushed ==
    ASSUME CodeSegmentAssumption, CompiledInv, NEW f \in Functions
    PROVE  /\ pushCompiledFunction(f) \in [functions : Seq(Functions), combinedSize : Nat]
           /\ ToSet(pushCompiledFunction(f).functions) = ToSet(compiledFunctions.functions) \cup {f}
<1>1. compiledFunctions.functions \in Seq(Functions) /\ compiledFunctions.combinedSize \in Nat
  BY DEF CompiledInv
<1>2. Size[f] \in Nat
  BY DEF CodeSegmentAssumption
<1> QED
  BY <1>1, <1>2, Appended DEF pushCompiledFunction, BytesPerInstruction

\* The function that is finished is held in place of its compiler.
LEMMA EndCompilerStep == ASSUME CodeSegmentAssumption, IInv, endCompiler PROVE IInv'
<1> DEFINE f == Last(current)
           before == ToSet(current) \cup ToSet(gcRoots)
           after == ToSet(current') \cup ToSet(gcRoots')
<1>1. /\ functions' = InBlock(f) /\ compiledFunctions' = pushCompiledFunction(f)
      /\ current' = Front(current) /\ gcRoots' = <<f>> /\ Len(current) > 1
      /\ phase = "parsing" /\ phase' = "addConstant" /\ UNCHANGED held
  BY DEF endCompiler
<1>2. gcRoots = <<>> /\ current \in Seq(DOMAIN functions) /\ current # <<>>
  BY <1>1 DEF IInv, PhaseInv, HeapInv, CompiledInv, Compiling
<1>3. /\ f \in DOMAIN functions /\ current' \in Seq(DOMAIN functions) /\ current' # <<>>
      /\ ToSet(current) = ToSet(current') \cup {f}
  BY <1>1, <1>2, Ends
<1>4. functions' \in [DOMAIN functions -> Descriptions]
      /\ \A g \in DOMAIN functions : functions'[g].constants = functions[g].constants
  BY <1>1, <1>3, InBlockKeeps DEF IInv
<1>5. DOMAIN functions' = DOMAIN functions
  BY <1>4
<1>6. Closed(functions', DOMAIN functions')
  BY <1>4, <1>5 DEF IInv, HeapInv, Closed
<1>7. gcRoots' \in Seq(DOMAIN functions) /\ gcRoots' # <<>> /\ ToSet(gcRoots') = {f}
  BY <1>1, <1>3 DEF ToSet
<1>8. HeapInv'
  BY <1>1, <1>3, <1>4, <1>5, <1>6, <1>7 DEF IInv, HeapInv
<1>9. before = after /\ f \in before /\ before \in SUBSET Functions
  <2>1. ToSet(gcRoots) = {} /\ ToSet(current) \subseteq DOMAIN functions
    BY <1>2, Within DEF ToSet
  <2> QED
    BY <1>3, <1>7, <2>1 DEF IInv, HeapInv
<1>10. before \subseteq Reach(functions', after)
  BY <1>4, <1>5, <1>9, ReachIsClosed
<1>11. Reach(functions, before) \subseteq Reach(functions', after)
  <2> HIDE DEF before, after
  <2> QED
    BY <1>4, <1>5, <1>9, <1>10, ReachGrows DEF IInv, HeapInv
<1>12. CompiledInv'
  <2>1. f \in Functions
    BY <1>3 DEF IInv, HeapInv
  <2>2. /\ compiledFunctions' \in [functions : Seq(Functions), combinedSize : Nat]
        /\ ToSet(compiledFunctions'.functions) = ToSet(compiledFunctions.functions) \cup {f}
    BY <1>1, <2>1, Pushed DEF IInv
  <2>3. ToSet(compiledFunctions.functions) \subseteq Reach(functions, before)
    BY <1>1 DEF IInv, CompiledInv, Compiling
  <2>4. ToSet(compiledFunctions'.functions) \subseteq Reach(functions', after)
    BY <2>2, <2>3, <1>9, <1>10, <1>11
  <2> QED
    BY <2>2, <2>4, <1>3 DEF CompiledInv
<1>13. PhaseInv'
  BY <1>1, <1>3, <1>5 DEF PhaseInv
<1> QED
  BY <1>8, <1>12, <1>13 DEF IInv

\* It becomes a constant of the function of the enclosing compiler.
LEMMA AddConstantStep == ASSUME IInv, addConstant PROVE IInv'
<1> DEFINE f == Last(current)
           g == Last(gcRoots)
           before == ToSet(current) \cup ToSet(gcRoots)
           after == ToSet(current') \cup ToSet(gcRoots')
<1>1. /\ functions' = [functions EXCEPT ![f].constants = @ \cup {g}]
      /\ gcRoots' = <<>> /\ phase = "addConstant" /\ phase' = "parsing"
      /\ UNCHANGED <<current, compiledFunctions, held>>
  BY DEF addConstant
<1>2. current \in Seq(DOMAIN functions) /\ current # <<>>
  BY <1>1 DEF IInv, HeapInv, CompiledInv, Compiling
<1>3. f \in DOMAIN functions /\ g \in DOMAIN functions /\ gcRoots = <<g>>
  <2>1. PICK h \in DOMAIN functions : gcRoots = <<h>>
    BY <1>1 DEF IInv, PhaseInv
  <2>2. g = h
    BY <2>1 DEF Last
  <2> QED
    BY <1>2, <2>1, <2>2, Ends
<1>4. /\ functions' \in [DOMAIN functions -> Descriptions]
      /\ functions'[f].constants = functions[f].constants \cup {g}
      /\ \A h \in DOMAIN functions \ {f} : functions'[h].constants = functions[h].constants
  <2>1. functions[f] \in Descriptions /\ g \in Functions
    BY <1>3 DEF IInv, HeapInv
  <2>2. [functions[f] EXCEPT !.constants = @ \cup {g}] \in Descriptions
    BY <2>1 DEF Descriptions
  <2> QED
    BY <1>1, <1>3, <2>1, <2>2 DEF IInv, HeapInv, Descriptions
<1>5. DOMAIN functions' = DOMAIN functions
  BY <1>4
<1>6. Closed(functions', DOMAIN functions')
  BY <1>3, <1>4, <1>5 DEF IInv, HeapInv, Closed
<1>7. HeapInv'
  <2>1. gcRoots' \in Seq(DOMAIN functions)
    BY <1>1
  <2> QED
    BY <1>1, <1>4, <1>5, <1>6, <2>1 DEF IInv, HeapInv
<1>8. ToSet(gcRoots') = {} /\ ToSet(gcRoots) = {g} /\ ToSet(current) \subseteq DOMAIN functions
      /\ f \in ToSet(current)
  <2>1. ToSet(gcRoots') = {} /\ ToSet(gcRoots) = {g}
    BY <1>1, <1>3 DEF ToSet
  <2> QED
    BY <2>1, <1>2, Within, Ends
<1>9. before \in SUBSET Functions /\ after \in SUBSET Functions /\ f \in after
      /\ before = after \cup {g}
  BY <1>1, <1>3, <1>8 DEF IInv, HeapInv
<1>10. before \subseteq Reach(functions', after)
  <2>1. after \subseteq Reach(functions', after) /\ Closed(functions', Reach(functions', after))
    BY <1>4, <1>5, <1>9, ReachIsClosed
  <2>2. g \in Reach(functions', after)
    BY <1>3, <1>4, <1>5, <1>9, <2>1 DEF Closed
  <2> QED
    BY <1>9, <2>1, <2>2
<1>11. Reach(functions, before) \subseteq Reach(functions', after)
  <2>1. \A h \in DOMAIN functions :
           h \in DOMAIN functions' /\ functions[h].constants \subseteq functions'[h].constants
    BY <1>4, <1>5
  <2> HIDE DEF before, after, f, g
  <2> QED
    BY <1>4, <1>5, <1>9, <1>10, <2>1, ReachGrows DEF IInv, HeapInv
<1>12. CompiledInv'
  BY <1>1, <1>2, <1>11 DEF IInv, CompiledInv, Compiling
<1>13. PhaseInv'
  BY <1>1 DEF PhaseInv
<1> QED
  BY <1>7, <1>12, <1>13 DEF IInv

\* The script is finished, the list is passed on, and no compiler is left.
LEMMA ScriptStep ==
    ASSUME CodeSegmentAssumption, IInv, finish \/ reject
    PROVE  IInv'
<1> DEFINE f == Last(current)
<1>1. /\ phase = "parsing" /\ Len(current) = 1 /\ current' = <<>>
      /\ compiledFunctions' = pushCompiledFunction(f) /\ UNCHANGED held
  BY DEF finish, reject
<1>2. gcRoots = <<>> /\ current \in Seq(DOMAIN functions) /\ current # <<>>
  BY <1>1 DEF IInv, PhaseInv, HeapInv, CompiledInv, Compiling
<1>3. f \in DOMAIN functions /\ f \in Functions
  BY <1>2, Ends DEF IInv, HeapInv
<1>4. /\ functions' \in [DOMAIN functions -> Descriptions]
      /\ \A g \in DOMAIN functions : functions'[g].constants = functions[g].constants
  <2>1. InBlock(f) \in [DOMAIN functions -> Descriptions]
        /\ DOMAIN InBlock(f) = DOMAIN functions
        /\ \A g \in DOMAIN functions : InBlock(f)[g].constants = functions[g].constants
    BY <1>3, InBlockKeeps DEF IInv
  <2>2. CASE reject
    BY <2>1, <2>2 DEF reject
  <2>3. CASE finish
    <3>1. PICK moved : functions' = Installed(InBlock(f), moved)
      BY <2>3 DEF finish
    <3> QED
      BY <2>1, <3>1, InstalledKeeps
  <2> QED
    BY <2>2, <2>3
<1>5. DOMAIN functions' = DOMAIN functions
  BY <1>4
<1>6. Closed(functions', DOMAIN functions')
  BY <1>4, <1>5 DEF IInv, HeapInv, Closed
<1>7. (phase' = "prompt" /\ gcRoots' = gcRoots) \/ (phase' = "interpret" /\ gcRoots' = current)
  BY DEF finish, reject
<1>8. HeapInv'
  BY <1>1, <1>2, <1>4, <1>5, <1>6, <1>7 DEF IInv, HeapInv
<1>9. CompiledInv'
  BY <1>1, <1>3, <1>7, Pushed DEF IInv, CompiledInv, Compiling
<1>10. PhaseInv'
  BY <1>1, <1>2, <1>7 DEF PhaseInv
<1> QED
  BY <1>8, <1>9, <1>10 DEF IInv

\* From pushGCRoot to the stack, where the closure stays until the end.
LEMMA ScriptRuns == ASSUME IInv, start_script \/ endOfScript PROVE IInv'
<1>1. /\ UNCHANGED <<functions, current, compiledFunctions>>
      /\ phase' \in {"running", "prompt"} /\ current = <<>>
  BY DEF start_script, endOfScript, IInv, PhaseInv
<1>2. ToSet(gcRoots) \subseteq DOMAIN functions /\ held \in SUBSET Functions
  BY Within DEF IInv, HeapInv
<1>3. Reach(functions, held) \subseteq DOMAIN functions
  BY <1>2, ReachIsLeast DEF IInv, HeapInv
<1>4. HeapInv'
  <2>1. CASE start_script
    BY <1>1, <1>2, <2>1 DEF start_script, IInv, HeapInv
  <2>2. CASE endOfScript
    <3>1. gcRoots' \in Seq(DOMAIN functions)
      BY <2>2 DEF endOfScript
    <3> QED
      BY <1>1, <1>3, <2>2, <3>1 DEF endOfScript, IInv, HeapInv
  <2> QED
    BY <2>1, <2>2
<1>5. CompiledInv'
  BY <1>1 DEF IInv, CompiledInv, Compiling
<1>6. PhaseInv'
  BY <1>1 DEF start_script, endOfScript, PhaseInv
<1> QED
  BY <1>4, <1>5, <1>6 DEF IInv

\* An error is remembered, no more.
LEMMA ErrorStep == ASSUME IInv, errorAt PROVE IInv'
  BY DEF errorAt, IInv, HeapInv, CompiledInv, PhaseInv, Compiling

\* A collection keeps what the program and the compilers reach.
LEMMA CollectStep ==
    ASSUME GrowthCollects = FALSE, IInv, collectGarbage
    PROVE  IInv'
<1> DEFINE roots == held \cup markCompilerRoots(current)
           kept == Reach(functions, roots)
           compiling == ToSet(current) \cup ToSet(gcRoots)
<1>1. /\ phase \in {"prompt", "parsing", "running"}
      /\ functions' = [f \in DOMAIN functions \ (DOMAIN functions \ kept) |-> functions[f]]
      /\ UNCHANGED <<current, compiledFunctions, gcRoots, held, phase>>
  BY DEF collectGarbage
<1>2. roots \in SUBSET DOMAIN functions /\ ToSet(current) \subseteq roots /\ held \subseteq roots
      /\ ToSet(gcRoots) \subseteq roots /\ roots \in SUBSET Functions
  <2>1. ToSet(current) \subseteq DOMAIN functions /\ markCompilerRoots(current) = ToSet(current)
    BY Within DEF IInv, HeapInv, markCompilerRoots
  <2>2. ToSet(gcRoots) \subseteq held
    <3>1. CASE gcRoots = <<>>
      BY <3>1 DEF ToSet
    <3>2. CASE phase = "running"
      BY <3>2 DEF IInv, PhaseInv
    <3> QED
      BY <1>1, <3>1, <3>2 DEF IInv, PhaseInv
  <2> QED
    BY <2>1, <2>2 DEF IInv, HeapInv
<1>3. roots \subseteq kept /\ Closed(functions, kept) /\ kept \in SUBSET Functions
  BY <1>2, ReachIsClosed DEF IInv, HeapInv
<1>4. kept \subseteq DOMAIN functions
  BY <1>2, ReachIsLeast DEF IInv, HeapInv
<1> HIDE DEF kept
<1>5. /\ DOMAIN functions' = kept /\ functions' \in [kept -> Descriptions]
      /\ \A f \in kept : functions'[f] = functions[f]
  BY <1>1, <1>4 DEF IInv, HeapInv
<1>6. Closed(functions', DOMAIN functions')
  BY <1>3, <1>4, <1>5 DEF Closed
<1>7. current' \in Seq(kept) /\ gcRoots' \in Seq(kept)
  <2>1. ToSet(current) \subseteq kept /\ ToSet(gcRoots) \subseteq kept
    BY <1>2, <1>3
  <2>2. current \in Seq(kept) /\ gcRoots \in Seq(kept)
    BY <2>1, Within DEF IInv, HeapInv
  <2> QED
    BY <1>1, <2>2
<1>8. HeapInv'
  BY <1>1, <1>2, <1>3, <1>5, <1>6, <1>7 DEF HeapInv
<1>9. Reach(functions, compiling) \subseteq Reach(functions', compiling)
  <2>1. kept = Reach(functions, roots)
    BY DEF kept
  <2>2. compiling \in SUBSET roots
    BY <1>2
  <2>3. functions \in [DOMAIN functions -> Descriptions]
    BY DEF IInv, HeapInv
  <2>4. roots \in SUBSET Functions /\ kept \in SUBSET DOMAIN functions
    BY <1>2, <1>4
  <2> HIDE DEF roots, compiling
  <2> QED
    BY <1>5, <2>1, <2>2, <2>3, <2>4, ReachRemains
<1>10. CompiledInv'
  BY <1>1, <1>9 DEF IInv, CompiledInv, Compiling
<1>11. PhaseInv'
  BY <1>1 DEF IInv, PhaseInv
<1> QED
  BY <1>8, <1>10, <1>11 DEF IInv

\* Every step keeps the invariant.
LEMMA NextStep ==
    ASSUME CodeSegmentAssumption, CompilationAssumption, GrowthCollects = FALSE,
           IInv, [Next]_vars
    PROVE  IInv'
<1>1. CASE compile
  BY <1>1, CompileStep
<1>2. CASE function
  BY <1>2, FunctionStep
<1>3. CASE errorAt
  BY <1>3, ErrorStep
<1>4. CASE endCompiler
  BY <1>4, EndCompilerStep
<1>5. CASE addConstant
  BY <1>5, AddConstantStep
<1>6. CASE finish \/ reject
  BY <1>6, ScriptStep
<1>7. CASE start_script \/ endOfScript
  BY <1>7, ScriptRuns
<1>8. CASE collectGarbage
  BY <1>8, CollectStep
<1>9. CASE UNCHANGED vars
  BY <1>9 DEF vars, IInv, HeapInv, CompiledInv, PhaseInv, Compiling
<1> QED
  BY <1>1, <1>2, <1>3, <1>4, <1>5, <1>6, <1>7, <1>8, <1>9 DEF Next

\* No collection, at whichever allocation of whichever compilation, takes a
\* function that is being compiled, that is still to be installed or that the
\* program can call, nor what these refer to, if no collection runs while only
\* pushGCRoot holds one (compiler.c:1144 to 1163, vm.c:57 to 62).
THEOREM CompilationKeepsFunctions ==
    ASSUME GrowthCollects = FALSE
    PROVE  Spec => []NoDanglingFunctions
<1>1. Init => IInv
  BY InitStep
<1>2. IInv /\ [Next]_vars => IInv'
  BY NextStep, CodeSegmentAssumption, CompilationAssumption
<1>3. IInv => NoDanglingFunctions
  BY InvariantSuffices
<1> QED
  BY <1>1, <1>2, <1>3, PTL DEF Spec

-----------------------------------------------------------------------------
(* Where the code of every function is. *)

\* The functions of the input that have an end, and wait for their installation.
Finished == IF Compiling THEN ToSet(compiledFunctions.functions) ELSE {}

\* Every block has its function, but for those of inputs with errors.
PlacesInv ==
    /\ blocks \subseteq Functions /\ rejected \subseteq Functions
    /\ \A f \in DOMAIN functions : functions[f].code \in {NULL, Segment, f}
    /\ BlocksAccounted
    /\ status = "ok" =>
         \A f \in DOMAIN functions : functions[f].code = f => f \in rejected \cup Finished
    /\ status # "ok" => phase = "interpret"

\* combinedSize is never too small for the functions that it is to count.
BatchInv ==
    LET list == compiledFunctions.functions
    IN  /\ Distinct(list) /\ Measured(ToSet(list))
        /\ TotalFootprint(ToSet(list)) <= Len(list) + compiledFunctions.combinedSize
        /\ Compiling =>
             /\ Distinct(current)
             /\ \A f \in ToSet(current) : functions[f].code = NULL
             /\ \A f \in ToSet(list) : functions[f].code = f

\* The inductive invariant of the code.
CodeInv == IInv /\ SegmentInv /\ PlacesInv /\ BatchInv

\* The step that compacts the segment.
Compaction ==
    /\ finish
    /\ CompactionIn(RequiredCells(compiledFunctions'.functions, compiledFunctions'.combinedSize))

\* A sequence of distinct functions and another one.
LEMMA DistinctMore ==
    ASSUME NEW A, NEW s \in Seq(A), Distinct(s), NEW a \in A, a \notin ToSet(s)
    PROVE  Distinct(Append(s, a))
<1> DEFINE t == Append(s, a)
<1>1. DOMAIN s = 1..Len(s) /\ Len(s) \in Nat /\ DOMAIN t = 1..(Len(s) + 1)
      /\ t[Len(s) + 1] = a /\ \A i \in 1..Len(s) : t[i] = s[i] /\ s[i] # a
  BY DEF ToSet
<1> HIDE DEF t
<1>2. SUFFICES ASSUME NEW i \in DOMAIN t, NEW j \in DOMAIN t, i < j PROVE t[i] # t[j]
  BY DEF Distinct, t
<1>3. i \in 1..Len(s)
  BY <1>1, <1>2
<1>4. CASE j \in 1..Len(s)
  BY <1>1, <1>2, <1>3, <1>4 DEF Distinct
<1>5. CASE j = Len(s) + 1
  BY <1>1, <1>3, <1>5
<1> QED
  BY <1>1, <1>2, <1>4, <1>5

\* Front of a sequence of distinct functions.
LEMMA DistinctLess ==
    ASSUME NEW A, NEW s \in Seq(A), Distinct(s), s # <<>>
    PROVE  Distinct(Front(s)) /\ Last(s) \notin ToSet(Front(s))
<1>1. Len(s) \in Nat \ {0} /\ DOMAIN s = 1..Len(s)
  OBVIOUS
<1>2. Front(s) = SubSeq(s, 1, Len(s) - 1)
  BY DEF Front
<1>3. DOMAIN Front(s) = 1..(Len(s) - 1) /\ \A i \in 1..(Len(s) - 1) : Front(s)[i] = s[i]
  BY <1>1, <1>2
<1>4. Distinct(Front(s))
  BY <1>1, <1>3 DEF Distinct
<1>5. \A i \in 1..(Len(s) - 1) : s[i] # s[Len(s)]
  BY <1>1 DEF Distinct
<1> QED
  BY <1>3, <1>4, <1>5 DEF ToSet, Last

\* What is finished exists.
LEMMA FinishedExist == IInv => Finished \subseteq DOMAIN functions
<1> SUFFICES ASSUME IInv, Compiling
             PROVE  ToSet(compiledFunctions.functions) \subseteq DOMAIN functions
  BY DEF Finished
<1>1. ToSet(current) \cup ToSet(gcRoots) \subseteq DOMAIN functions
  BY Within DEF IInv, HeapInv
<1>2. Reach(functions, ToSet(current) \cup ToSet(gcRoots)) \subseteq DOMAIN functions
  BY <1>1, ReachIsLeast DEF IInv, HeapInv
<1> QED
  BY <1>2 DEF IInv, CompiledInv
-----------------------------------------------------------------------------
\* Before the first input nothing is mapped.
LEMMA CodeInit == ASSUME CodeSegmentAssumption, Init PROVE CodeInv
<1>1. IInv
  BY InitStep
<1>2. /\ code = [memory |-> [i \in {} |-> Zero], exec |-> {}, free |-> 0, writable |-> 0,
                 available |-> 0, functions |-> <<>>, capacity |-> 0,
                 place |-> [f \in Functions |-> Nowhere]]
      /\ status = "ok"
  BY DEF Init, initCode
<1>3. /\ code.memory = [i \in {} |-> Zero] /\ code.exec = {} /\ code.free = 0 /\ code.writable = 0
      /\ code.available = 0 /\ code.functions = <<>> /\ code.capacity = 0
      /\ code.place = [f \in Functions |-> Nowhere]
  BY <1>2
<1>4. code \in Segments(0)
  <2>1. 0..(0 - 1) = {}
    OBVIOUS
  <2>2. [i \in {} |-> Zero] \in [0..(0 - 1) -> Words] /\ <<>> \in Seq(Functions)
        /\ [f \in Functions |-> Nowhere] \in [Functions -> Nat \cup {Nowhere}]
    BY <2>1
  <2> HIDE <2>1
  <2> QED
    BY <1>2, <2>2 DEF Segments
<1>5. Multiple(0) /\ Paged(code)
  <2>1. 0 % PageSize = 0
    BY DEF CodeSegmentAssumption
  <2>2. 0..(0 - 1) = {}
    OBVIOUS
  <2> QED
    BY <1>3, <2>1, <2>2 DEF Multiple, Paged, Pages
<1>6. SegmentOf(code, 0)
  BY <1>3, <1>4, <1>5 DEF SegmentOf
<1>7. SegmentInv
  BY <1>3, <1>6, SegmentSuffices DEF SegmentInv
<1>8. /\ functions = [f \in {} |-> NULL] /\ DOMAIN functions = {} /\ blocks = {} /\ rejected = {}
      /\ current = <<>> /\ compiledFunctions.functions = <<>> /\ compiledFunctions.combinedSize = 0
      /\ phase = "prompt"
  BY DEF Init
<1>9. Live = {}
  BY <1>3 DEF Live
<1>10. PlacesInv
  BY <1>2, <1>8, <1>9 DEF PlacesInv, BlocksAccounted
<1>11. BatchInv
  <2>1. ToSet(<<>>) = {} /\ DOMAIN <<>> = {} /\ Len(<<>>) = 0
    BY DEF ToSet
  <2>2. Measured(ToSet(<<>>)) /\ TotalFootprint(ToSet(<<>>)) = 0
    BY <2>1, NothingMeasured, Zenon
  <2> QED
    BY <1>8, <2>1, <2>2 DEF BatchInv, Distinct, Compiling
<1> QED
  BY <1>1, <1>7, <1>10, <1>11 DEF CodeInv

\* The segment only changes when functions are installed or collected.
LEMMA SegmentStays == ASSUME SegmentInv, UNCHANGED <<code, status>> PROVE SegmentInv' /\ Live' = Live
  BY DEF SegmentInv, Live

\* A new function has no code.
LEMMA NewPlaces ==
    ASSUME CompilationAssumption, IInv, PlacesInv, initCompiler, UNCHANGED <<code, status, blocks>>,
           phase \in {"prompt", "parsing"}, phase' = "parsing",
           phase = "parsing" => UNCHANGED compiledFunctions
    PROVE  PlacesInv'
<1>1. PICK f \in Fresh, garbage \in Garbage :
         /\ functions' = [g \in DOMAIN functions \cup {f} |->
               IF g = f THEN [code |-> NULL, isExecutable |-> garbage, constants |-> {}]
               ELSE functions[g]]
         /\ rejected' = rejected \ {f}
  BY DEF initCompiler
<1>2. f \in Functions /\ f \notin DOMAIN functions /\ f \notin blocks /\ f # NULL /\ NULL # Segment
  BY <1>1 DEF Fresh, CompilationAssumption
<1>3. DOMAIN functions' = DOMAIN functions \cup {f} /\ functions'[f].code = NULL
      /\ \A g \in DOMAIN functions : functions'[g] = functions[g] /\ g # f
  BY <1>1, <1>2
<1>4. Live' = Live /\ status = "ok" /\ status' = "ok"
  BY DEF Live, PlacesInv
<1>5. Finished \subseteq Finished'
  BY DEF Finished, Compiling
<1>6. BlocksAccounted'
  <2>1. \A g \in Live' : g \in DOMAIN functions' /\ functions'[g].code = Segment /\ functions'[g].isExecutable
    BY <1>3, <1>4 DEF PlacesInv, BlocksAccounted
  <2>2. \A g \in DOMAIN functions' :
          /\ functions'[g].code = Segment => g \in Live' /\ g \notin blocks'
          /\ functions'[g].code = g => g \in blocks'
    BY <1>2, <1>3, <1>4 DEF PlacesInv, BlocksAccounted
  <2>3. {g \in blocks' : g \in DOMAIN functions' => functions'[g].code # g} \subseteq rejected'
    BY <1>1, <1>2, <1>3 DEF PlacesInv, BlocksAccounted
  <2> QED
    BY <2>1, <2>2, <2>3 DEF BlocksAccounted
<1>7. \A g \in DOMAIN functions' : functions'[g].code = g => g \in rejected' \cup Finished'
  <2>1. SUFFICES ASSUME NEW g \in DOMAIN functions', functions'[g].code = g
                 PROVE  g \in rejected' \cup Finished'
    OBVIOUS
  <2>2. g # f /\ g \in DOMAIN functions /\ functions[g].code = g
    BY <1>2, <1>3, <2>1
  <2>3. g \in rejected \cup Finished
    BY <1>4, <2>2 DEF PlacesInv
  <2> QED
    BY <1>1, <1>5, <2>2, <2>3
<1>8. \A g \in DOMAIN functions' : functions'[g].code \in {NULL, Segment, g}
  BY <1>3 DEF PlacesInv
<1>9. blocks' \subseteq Functions /\ rejected' \subseteq Functions
  BY <1>1 DEF PlacesInv
<1> QED
  BY <1>4, <1>6, <1>7, <1>8, <1>9 DEF PlacesInv

\* A new function is at work, and nothing of its input waits yet or more than before.
LEMMA NewBatch ==
    ASSUME CompilationAssumption, IInv, BatchInv, compile \/ function
    PROVE  BatchInv'
<1> DEFINE list == compiledFunctions.functions
<1>1. PICK f \in Fresh, garbage \in Garbage :
         /\ functions' = [g \in DOMAIN functions \cup {f} |->
               IF g = f THEN [code |-> NULL, isExecutable |-> garbage, constants |-> {}]
               ELSE functions[g]]
         /\ current' = Append(current, f)
  BY DEF compile, function, initCompiler
<1>2. f \in Functions /\ f \notin DOMAIN functions
  BY <1>1 DEF Fresh
<1>3. DOMAIN functions' = DOMAIN functions \cup {f} /\ functions'[f].code = NULL
      /\ \A g \in DOMAIN functions : functions'[g] = functions[g]
  BY <1>1, <1>2
<1>4. /\ current \in Seq(DOMAIN functions) /\ ToSet(current) \subseteq DOMAIN functions
      /\ current \in Seq(Functions) /\ DOMAIN functions \subseteq Functions
  BY Within DEF IInv, HeapInv
<1>5. Distinct(current) /\ \A g \in ToSet(current) : functions[g].code = NULL
  <2>1. CASE compile
    <3>1. current = <<>>
      BY <2>1 DEF compile, IInv, PhaseInv
    <3> QED
      BY <3>1 DEF Distinct, ToSet
  <2>2. CASE function
    BY <2>2 DEF function, Compiling, BatchInv
  <2> QED
    BY <2>1, <2>2
<1>6. f \notin ToSet(current)
  BY <1>2, <1>4
<1>7. Distinct(current') /\ ToSet(current') = ToSet(current) \cup {f}
  BY <1>1, <1>2, <1>4, <1>5, <1>6, DistinctMore, Appended
<1>8. \A g \in ToSet(current') : functions'[g].code = NULL
  BY <1>3, <1>4, <1>5, <1>7
<1>9. CASE compile
  <2>1. compiledFunctions' = [functions |-> <<>>, combinedSize |-> compiledFunctions.combinedSize]
        /\ compiledFunctions.combinedSize \in Nat
    BY <1>9 DEF compile, IInv, CompiledInv
  <2>2. ToSet(<<>>) = {} /\ DOMAIN <<>> = {} /\ Len(<<>>) = 0
    BY DEF ToSet
  <2>3. Measured(ToSet(<<>>)) /\ TotalFootprint(ToSet(<<>>)) = 0
    BY <2>2, NothingMeasured, Zenon
  <2>4. /\ compiledFunctions'.functions = <<>>
        /\ compiledFunctions'.combinedSize = compiledFunctions.combinedSize
    BY <2>1
  <2> QED
    BY <1>7, <1>8, <2>1, <2>2, <2>3, <2>4 DEF BatchInv, Distinct
<1>10. CASE function
  <2>1. compiledFunctions' = compiledFunctions /\ Compiling /\ Finished = ToSet(list)
    BY <1>10 DEF function, Compiling, Finished
  <2>2. ToSet(list) \subseteq DOMAIN functions
    BY <2>1, FinishedExist
  <2>3. \A g \in ToSet(list) : functions'[g].code = g
    BY <1>3, <2>1, <2>2 DEF BatchInv
  <2> QED
    BY <1>7, <1>8, <2>1, <2>3 DEF BatchInv
<1> QED
  BY <1>9, <1>10

\* The innermost compiler, at work.
LEMMA LastCompiler ==
    ASSUME CompilationAssumption, IInv, PlacesInv, BatchInv, phase = "parsing"
    PROVE  /\ Last(current) \in DOMAIN functions /\ Last(current) \in Functions
           /\ Last(current) \notin ToSet(compiledFunctions.functions)
           /\ Last(current) \notin Live /\ functions[Last(current)].code = NULL
           /\ Distinct(Front(current)) /\ Last(current) \notin ToSet(Front(current))
           /\ Front(current) \in Seq(Functions)
           /\ ToSet(current) = ToSet(Front(current)) \cup {Last(current)}
           /\ status = "ok" /\ Finished = ToSet(compiledFunctions.functions)
           /\ Finished \subseteq DOMAIN functions
           /\ \A g \in Finished : functions[g].code = g /\ g \notin Live
<1>1. Compiling /\ status = "ok"
  BY DEF Compiling, PlacesInv
<1>2. Finished = ToSet(compiledFunctions.functions) /\ Finished \subseteq DOMAIN functions
  BY <1>1, FinishedExist DEF Finished
<1>3. current \in Seq(DOMAIN functions) /\ current # <<>> /\ DOMAIN functions \subseteq Functions
      /\ current \in Seq(Functions)
  BY <1>1 DEF IInv, HeapInv, CompiledInv
<1>4. /\ Last(current) \in DOMAIN functions /\ Front(current) \in Seq(Functions)
      /\ ToSet(current) = ToSet(Front(current)) \cup {Last(current)}
  BY <1>3, Ends
<1>5. /\ Distinct(current) /\ \A g \in ToSet(current) : functions[g].code = NULL
      /\ \A g \in Finished : functions[g].code = g
  BY <1>1, <1>2 DEF BatchInv
<1>6. Distinct(Front(current)) /\ Last(current) \notin ToSet(Front(current))
  BY <1>3, <1>5, DistinctLess
<1>7. functions[Last(current)].code = NULL
  BY <1>4, <1>5
<1>8. NULL # Segment /\ \A g \in Functions : g # NULL /\ g # Segment
  BY DEF CompilationAssumption
<1>9. Last(current) \notin Finished
  BY <1>3, <1>4, <1>5, <1>7, <1>8
<1>10. Last(current) \notin Live /\ \A g \in Finished : g \notin Live
  BY <1>2, <1>3, <1>5, <1>7, <1>8 DEF PlacesInv, BlocksAccounted
<1> QED
  BY <1>1, <1>2, <1>3, <1>4, <1>5, <1>6, <1>7, <1>9, <1>10

\* InBlock changes the code of one function.
LEMMA InBlockIs ==
    ASSUME HeapInv, NEW f \in DOMAIN functions
    PROVE  /\ DOMAIN InBlock(f) = DOMAIN functions /\ InBlock(f)[f].code = f
           /\ \A g \in DOMAIN functions \ {f} : InBlock(f)[g] = functions[g]
  BY DEF HeapInv, InBlock, Descriptions

\* The list with one more function is counted right.
LEMMA PushedIsCounted ==
    ASSUME CodeSegmentAssumption, IInv, BatchInv, NEW f \in Functions,
           f \notin ToSet(compiledFunctions.functions)
    PROVE  LET pushed == pushCompiledFunction(f)
           IN  /\ pushed.functions = Append(compiledFunctions.functions, f)
               /\ pushed.functions \in Seq(Functions) /\ pushed.combinedSize \in Nat
               /\ Distinct(pushed.functions)
               /\ ToSet(pushed.functions) = ToSet(compiledFunctions.functions) \cup {f}
               /\ Measured(ToSet(pushed.functions))
               /\ TotalFootprint(ToSet(pushed.functions))
                     <= Len(pushed.functions) + pushed.combinedSize
<1> DEFINE list == compiledFunctions.functions
           size == compiledFunctions.combinedSize
           new == Append(list, f)
           S == ToSet(list)
<1>1. list \in Seq(Functions) /\ size \in Nat /\ Len(list) \in Nat
  BY DEF IInv, CompiledInv
<1>2. Distinct(list) /\ Measured(S) /\ TotalFootprint(S) <= Len(list) + size
  BY DEF BatchInv
<1>3. /\ new \in Seq(Functions) /\ ToSet(new) = S \cup {f} /\ Len(new) = Len(list) + 1
      /\ Distinct(new)
  BY <1>1, <1>2, Appended, DistinctMore
<1>4. /\ pushCompiledFunction(f) = [functions |-> new, combinedSize |-> size + 4 * Size[f]]
      /\ pushCompiledFunction(f).functions = new
      /\ pushCompiledFunction(f).combinedSize = size + 4 * Size[f]
  BY DEF pushCompiledFunction, BytesPerInstruction
<1> HIDE DEF new, S
<1>5. f \notin S
  BY DEF S
<1>6. Measured(ToSet(new)) /\ TotalFootprint(ToSet(new)) = TotalFootprint(S) + Footprint(f)
  <2>1. Measured(S \cup {f}) /\ TotalFootprint(S \cup {f}) = TotalFootprint(S) + Footprint(f)
    BY <1>2, <1>5, OneMore
  <2> QED
    BY <1>3, <2>1, Zenon
<1>7. Size[f] \in Nat /\ Footprint(f) = Size[f] + 1 /\ TotalFootprint(S) \in Nat
  BY <1>2, SpaceOfOne, Measures
<1>8. TotalFootprint(ToSet(new)) <= Len(new) + (size + 4 * Size[f])
  BY <1>1, <1>2, <1>3, <1>6, <1>7
<1>9. size + 4 * Size[f] \in Nat
  BY <1>1, <1>7
<1> QED
  BY <1>3, <1>4, <1>6, <1>8, <1>9 DEF new, S

\* A function that is finished waits in its block.
LEMMA EndCompilerPlaces ==
    ASSUME CodeSegmentAssumption, CompilationAssumption, IInv, PlacesInv, BatchInv, endCompiler
    PROVE  PlacesInv' /\ BatchInv'
<1> DEFINE f == Last(current)
           list == compiledFunctions.functions
<1>1. /\ functions' = InBlock(f) /\ blocks' = blocks \cup {f}
      /\ compiledFunctions' = pushCompiledFunction(f) /\ current' = Front(current)
      /\ phase = "parsing" /\ phase' = "addConstant" /\ UNCHANGED <<code, status, rejected>>
  BY DEF endCompiler
<1>2. /\ f \in DOMAIN functions /\ f \in Functions /\ f \notin ToSet(list)
      /\ f \notin Live /\ functions[f].code = NULL
      /\ Distinct(Front(current)) /\ f \notin ToSet(Front(current))
      /\ ToSet(current) = ToSet(Front(current)) \cup {f}
      /\ status = "ok" /\ Finished = ToSet(list) /\ Finished \subseteq DOMAIN functions
      /\ \A g \in Finished : functions[g].code = g
  BY <1>1, LastCompiler
<1>3. /\ ToSet(compiledFunctions'.functions) = ToSet(list) \cup {f}
      /\ compiledFunctions'.functions \in Seq(Functions)
      /\ Distinct(compiledFunctions'.functions)
      /\ Measured(ToSet(compiledFunctions'.functions))
      /\ TotalFootprint(ToSet(compiledFunctions'.functions))
            <= Len(compiledFunctions'.functions) + compiledFunctions'.combinedSize
  BY <1>1, <1>2, PushedIsCounted
<1>4. DOMAIN functions' = DOMAIN functions /\ functions'[f].code = f
      /\ \A g \in DOMAIN functions \ {f} : functions'[g] = functions[g]
  BY <1>1, <1>2, InBlockIs DEF IInv
<1>5. Live' = Live /\ Finished' = Finished \cup {f} /\ status' = "ok"
  BY <1>1, <1>2, <1>3 DEF Live, Finished, Compiling
<1>6. f # Segment /\ f # NULL
  BY <1>2 DEF CompilationAssumption
<1> HIDE DEF f, list
<1>7. BlocksAccounted'
  <2>1. \A g \in Live' : g \in DOMAIN functions' /\ functions'[g].code = Segment /\ functions'[g].isExecutable
    BY <1>2, <1>4, <1>5 DEF PlacesInv, BlocksAccounted
  <2>2. \A g \in DOMAIN functions' :
          /\ functions'[g].code = Segment => g \in Live' /\ g \notin blocks'
          /\ functions'[g].code = g => g \in blocks'
    BY <1>1, <1>2, <1>4, <1>5, <1>6 DEF PlacesInv, BlocksAccounted
  <2>3. {g \in blocks' : g \in DOMAIN functions' => functions'[g].code # g} \subseteq rejected'
    BY <1>1, <1>2, <1>4 DEF PlacesInv, BlocksAccounted
  <2> QED
    BY <2>1, <2>2, <2>3 DEF BlocksAccounted
<1>8. PlacesInv'
  <2>1. \A g \in DOMAIN functions' : functions'[g].code \in {NULL, Segment, g}
    BY <1>2, <1>4 DEF PlacesInv
  <2>2. \A g \in DOMAIN functions' : functions'[g].code = g => g \in rejected' \cup Finished'
    BY <1>1, <1>2, <1>4, <1>5 DEF PlacesInv
  <2>3. blocks' \subseteq Functions /\ rejected' \subseteq Functions
    BY <1>1, <1>2 DEF PlacesInv
  <2> QED
    BY <1>5, <1>7, <2>1, <2>2, <2>3 DEF PlacesInv
<1>9. BatchInv'
  <2>1. \A g \in ToSet(current') : functions'[g].code = NULL
    <3>1. Compiling /\ \A g \in ToSet(current) : functions[g].code = NULL
      BY <1>1 DEF Compiling, BatchInv
    <3>2. ToSet(current) \subseteq DOMAIN functions
      BY Within DEF IInv, HeapInv
    <3> QED
      BY <1>1, <1>2, <1>4, <3>1, <3>2
  <2>2. \A g \in ToSet(compiledFunctions'.functions) : functions'[g].code = g
    BY <1>2, <1>3, <1>4
  <2> QED
    BY <1>1, <1>2, <1>3, <2>1, <2>2 DEF BatchInv
<1> QED
  BY <1>8, <1>9

\* A function with errors in its input keeps its block for good.
LEMMA RejectPlaces ==
    ASSUME CodeSegmentAssumption, CompilationAssumption, IInv, PlacesInv, BatchInv, reject
    PROVE  PlacesInv' /\ BatchInv'
<1> DEFINE f == Last(current)
           list == compiledFunctions.functions
<1>1. /\ functions' = InBlock(f) /\ blocks' = blocks \cup {f}
      /\ compiledFunctions' = pushCompiledFunction(f) /\ current' = <<>>
      /\ rejected' = rejected \cup ToSet(compiledFunctions'.functions)
      /\ phase = "parsing" /\ phase' = "prompt" /\ UNCHANGED <<code, status>>
  BY DEF reject
<1>2. /\ f \in DOMAIN functions /\ f \in Functions /\ f \notin ToSet(list)
      /\ f \notin Live /\ functions[f].code = NULL
      /\ status = "ok" /\ Finished = ToSet(list) /\ Finished \subseteq DOMAIN functions
  BY <1>1, LastCompiler
<1>3. /\ ToSet(compiledFunctions'.functions) = ToSet(list) \cup {f}
      /\ compiledFunctions'.functions \in Seq(Functions)
      /\ Distinct(compiledFunctions'.functions)
      /\ Measured(ToSet(compiledFunctions'.functions))
      /\ TotalFootprint(ToSet(compiledFunctions'.functions))
            <= Len(compiledFunctions'.functions) + compiledFunctions'.combinedSize
  BY <1>1, <1>2, PushedIsCounted
<1>4. DOMAIN functions' = DOMAIN functions /\ functions'[f].code = f
      /\ \A g \in DOMAIN functions \ {f} : functions'[g] = functions[g]
  BY <1>1, <1>2, InBlockIs DEF IInv
<1>5. Live' = Live /\ status' = "ok" /\ rejected' = rejected \cup Finished \cup {f}
  BY <1>1, <1>2, <1>3 DEF Live
<1>6. f # Segment /\ f # NULL
  BY <1>2 DEF CompilationAssumption
<1> HIDE DEF f, list
<1>7. BlocksAccounted'
  <2>1. \A g \in Live' : g \in DOMAIN functions' /\ functions'[g].code = Segment /\ functions'[g].isExecutable
    BY <1>2, <1>4, <1>5 DEF PlacesInv, BlocksAccounted
  <2>2. \A g \in DOMAIN functions' :
          /\ functions'[g].code = Segment => g \in Live' /\ g \notin blocks'
          /\ functions'[g].code = g => g \in blocks'
    BY <1>1, <1>2, <1>4, <1>5, <1>6 DEF PlacesInv, BlocksAccounted
  <2>3. {g \in blocks' : g \in DOMAIN functions' => functions'[g].code # g} \subseteq rejected'
    BY <1>1, <1>2, <1>4, <1>5 DEF PlacesInv, BlocksAccounted
  <2> QED
    BY <2>1, <2>2, <2>3 DEF BlocksAccounted
<1>8. PlacesInv'
  <2>1. \A g \in DOMAIN functions' : functions'[g].code \in {NULL, Segment, g}
    BY <1>2, <1>4 DEF PlacesInv
  <2>2. \A g \in DOMAIN functions' : functions'[g].code = g => g \in rejected' \cup Finished'
    BY <1>1, <1>2, <1>4, <1>5 DEF PlacesInv
  <2>3. blocks' \subseteq Functions /\ rejected' \subseteq Functions
    <3>1. Finished \subseteq Functions
      BY <1>2 DEF IInv, HeapInv
    <3> QED
      BY <1>1, <1>2, <1>5, <3>1 DEF PlacesInv
  <2> QED
    BY <1>5, <1>7, <2>1, <2>2, <2>3 DEF PlacesInv
<1>9. BatchInv'
  BY <1>1, <1>3 DEF BatchInv, Compiling
<1> QED
  BY <1>8, <1>9

\* Steps that leave the code of all functions where it is.
LEMMA SamePlaces ==
    ASSUME PlacesInv, UNCHANGED <<code, status, blocks, rejected>>,
           DOMAIN functions' = DOMAIN functions,
           \A f \in DOMAIN functions :
              functions'[f].code = functions[f].code
              /\ functions'[f].isExecutable = functions[f].isExecutable,
           Finished \subseteq Finished', status = "ok" \/ UNCHANGED phase
    PROVE  PlacesInv'
<1>1. Live' = Live
  BY DEF Live
<1>2. BlocksAccounted'
  BY <1>1 DEF PlacesInv, BlocksAccounted
<1> QED
  BY <1>2 DEF PlacesInv

\* addConstant changes only what the function refers to.
LEMMA AddConstantPlaces ==
    ASSUME IInv, PlacesInv, BatchInv, addConstant
    PROVE  PlacesInv' /\ BatchInv'
<1> DEFINE f == Last(current)
<1>1. /\ functions' = [functions EXCEPT ![f].constants = @ \cup {Last(gcRoots)}]
      /\ phase = "addConstant" /\ phase' = "parsing"
      /\ UNCHANGED <<code, status, blocks, rejected, current, compiledFunctions>>
  BY DEF addConstant
<1>2. DOMAIN functions' = DOMAIN functions
  BY <1>1
<1>3. \A g \in DOMAIN functions : functions'[g].code = functions[g].code
                              /\ functions'[g].isExecutable = functions[g].isExecutable
  BY <1>1 DEF IInv, HeapInv, Descriptions
<1>4. Finished' = Finished /\ status = "ok"
  BY <1>1 DEF Finished, Compiling, PlacesInv
<1>5. PlacesInv'
  BY <1>1, <1>2, <1>3, <1>4, SamePlaces
<1>6. ToSet(current) \subseteq DOMAIN functions /\ ToSet(compiledFunctions.functions) \subseteq DOMAIN functions
  BY <1>1, Within, FinishedExist DEF IInv, HeapInv, Finished, Compiling
<1>7. BatchInv'
  BY <1>1, <1>2, <1>3, <1>6 DEF BatchInv, Compiling
<1> QED
  BY <1>5, <1>7

\* Errors, the script and its end change no code.
LEMMA OtherPlaces ==
    ASSUME IInv, PlacesInv, BatchInv, errorAt \/ start_script \/ endOfScript \/ UNCHANGED vars
    PROVE  PlacesInv' /\ BatchInv'
<1>1. /\ UNCHANGED <<code, status, functions, blocks, rejected, current, compiledFunctions>>
      /\ (status = "ok" \/ UNCHANGED phase)
  BY DEF errorAt, start_script, endOfScript, vars, PlacesInv
<1>2. Compiling' = Compiling
  BY DEF errorAt, start_script, endOfScript, vars, Compiling
<1>3. Finished' = Finished
  BY <1>1, <1>2 DEF Finished
<1>4. PlacesInv'
  BY <1>1, <1>3, SamePlaces
<1>5. BatchInv'
  BY <1>1, <1>2 DEF BatchInv
<1> QED
  BY <1>4, <1>5

\* The members of two sequences in one.
LEMMA ConcatSet ==
    ASSUME NEW A, NEW s \in Seq(A), NEW t \in Seq(A)
    PROVE  ToSet(s \o t) = ToSet(s) \cup ToSet(t)
<1> DEFINE u == s \o t
<1>1. /\ u \in Seq(A) /\ Len(u) = Len(s) + Len(t) /\ Len(s) \in Nat /\ Len(t) \in Nat
      /\ \A i \in 1..(Len(s) + Len(t)) : u[i] = IF i <= Len(s) THEN s[i] ELSE t[i - Len(s)]
  BY ConcatProperties
<1> HIDE DEF u
<1>2. DOMAIN u = 1..(Len(s) + Len(t)) /\ DOMAIN s = 1..Len(s) /\ DOMAIN t = 1..Len(t)
  BY <1>1
<1>3. ToSet(u) \subseteq ToSet(s) \cup ToSet(t)
  <2>1. SUFFICES ASSUME NEW i \in DOMAIN u PROVE u[i] \in ToSet(s) \cup ToSet(t)
    BY DEF ToSet
  <2>2. CASE i <= Len(s)
    <3>1. i \in DOMAIN s /\ u[i] = s[i]
      BY <1>1, <1>2, <2>1, <2>2
    <3> QED
      BY <3>1 DEF ToSet
  <2>3. CASE ~(i <= Len(s))
    <3>1. i - Len(s) \in DOMAIN t /\ u[i] = t[i - Len(s)]
      BY <1>1, <1>2, <2>1, <2>3
    <3> QED
      BY <3>1 DEF ToSet
  <2> QED
    BY <2>2, <2>3
<1>4. ToSet(s) \subseteq ToSet(u)
  <2>1. \A i \in DOMAIN s : i \in DOMAIN u /\ u[i] = s[i]
    BY <1>1, <1>2
  <2> QED
    BY <2>1 DEF ToSet
<1>5. ToSet(t) \subseteq ToSet(u)
  <2>1. \A i \in DOMAIN t : Len(s) + i \in DOMAIN u /\ u[Len(s) + i] = t[i]
    BY <1>1, <1>2
  <2> QED
    BY <2>1 DEF ToSet
<1> QED
  BY <1>3, <1>4, <1>5 DEF u

\* The batch that finish installs.
LEMMA FinishBatch ==
    ASSUME CodeSegmentAssumption, CompilationAssumption, IInv, SegmentInv, PlacesInv, BatchInv, finish
    PROVE  LET batch == compiledFunctions'.functions
               required == RequiredCells(batch, compiledFunctions'.combinedSize)
           IN  /\ Batch(batch, required) /\ ToSet(batch) = Finished \cup {Last(current)}
               /\ ToSet(batch) \cap Live = {}
               /\ batch = Append(compiledFunctions.functions, Last(current))
<1> DEFINE f == Last(current)
           batch == compiledFunctions'.functions
           combined == compiledFunctions'.combinedSize
<1>1. compiledFunctions' = pushCompiledFunction(f) /\ phase = "parsing"
  BY DEF finish
<1>2. /\ f \in Functions /\ f \notin ToSet(compiledFunctions.functions) /\ f \notin Live
      /\ Finished = ToSet(compiledFunctions.functions) /\ \A g \in Finished : g \notin Live
  BY <1>1, LastCompiler
<1>3. /\ ToSet(batch) = Finished \cup {f} /\ batch \in Seq(Functions) /\ combined \in Nat
      /\ Distinct(batch) /\ Measured(ToSet(batch))
      /\ TotalFootprint(ToSet(batch)) <= Len(batch) + combined
      /\ batch = Append(compiledFunctions.functions, f)
  BY <1>1, <1>2, PushedIsCounted
<1>4. /\ RequiredCells(batch, combined) = Len(batch) + combined /\ Len(batch) + combined \in Nat
  BY <1>3 DEF RequiredCells, JIT_RED_ZONE
<1>5. Batch(batch, RequiredCells(batch, combined))
  BY <1>3, <1>4 DEF Batch
<1> QED
  BY <1>2, <1>3, <1>5

\* A finished compilation installs all of its functions, or none and stops.
LEMMA FinishSegment ==
    ASSUME CodeSegmentAssumption, CompilationAssumption, IInv, SegmentInv, PlacesInv, BatchInv,
           finish, ~Compaction
    PROVE  LET batch == compiledFunctions'.functions
               moved == {f \in ToSet(batch) : code'.place[f] # Nowhere}
           IN  SegmentInv' /\ Live' = Live \cup moved
               /\ (status' = "ok" => moved = ToSet(batch))
<1> DEFINE batch == compiledFunctions'.functions
           combined == compiledFunctions'.combinedSize
           moved == {f \in ToSet(batch) : code'.place[f] # Nowhere}
<1>1. PICK required : required = RequiredCells(batch, combined)
  OBVIOUS
<1>2. /\ codePushFunctions(batch, combined) /\ ~CompactionIn(required)
  BY <1>1 DEF finish, Compaction
<1>3. /\ Batch(batch, required) /\ ToSet(batch) \cap Live = {} /\ required \in Nat
      /\ batch \in Seq(Functions)
  BY <1>1, FinishBatch DEF Batch
<1>4. Live = ToSet(code.functions) /\ code.functions \in Seq(Functions)
  BY ListIsPlaced DEF SegmentInv, Live
<1>5. moved = ToSet(batch) \cap Live'
  <2>1. ToSet(batch) \subseteq Functions
    BY <1>3, Within
  <2> QED
    BY <2>1 DEF Live
<1> HIDE DEF batch, combined, moved
<1>6. CASE Appends(Mapped(required), required)
  <2>1. SegmentInv' /\ code'.functions = code.functions \o batch
    <3>1. ToSet(batch) \cap ToSet(code.functions) = {}
      BY <1>3, <1>4
    <3> QED
      BY <1>1, <1>2, <1>3, <1>6, <3>1, PushAppends
  <2>2. Live' = ToSet(code'.functions)
    BY <2>1, ListIsPlaced DEF SegmentInv, Live
  <2>3. Live' = Live \cup ToSet(batch)
    <3>1. ToSet(code.functions \o batch) = ToSet(code.functions) \cup ToSet(batch)
      BY <1>3, <1>4, ConcatSet
    <3> QED
      BY <1>4, <2>1, <2>2, <3>1
  <2> QED
    BY <1>5, <2>1, <2>3 DEF batch, moved
<1>7. CASE ~Appends(Mapped(required), required)
  <2>1. SegmentInv' /\ status' \in {"undefined", "aborted"} /\ code'.place = code.place
    BY <1>1, <1>2, <1>3, <1>7, PushFails
  <2>2. Live' = Live
    BY <2>1 DEF Live
  <2>3. moved = {} /\ status' # "ok"
    BY <1>3, <1>5, <2>1, <2>2
  <2> QED
    BY <2>1, <2>2, <2>3 DEF batch, moved
<1> QED
  BY <1>6, <1>7

\* The functions leave their blocks for the segment.
LEMMA FinishPlaces ==
    ASSUME CodeSegmentAssumption, CompilationAssumption, IInv, SegmentInv, PlacesInv, BatchInv,
           finish, ~Compaction
    PROVE  SegmentInv' /\ PlacesInv' /\ BatchInv'
<1> DEFINE f == Last(current)
           list == compiledFunctions.functions
           batch == compiledFunctions'.functions
           moved == {g \in ToSet(batch) : code'.place[g] # Nowhere}
<1>1. /\ functions' = Installed(InBlock(f), moved)
      /\ blocks' = BlocksAfter(blocks \cup {f}, moved)
      /\ compiledFunctions' = pushCompiledFunction(f) /\ current' = <<>>
      /\ phase = "parsing" /\ phase' = "interpret" /\ UNCHANGED rejected
  BY Zenon DEF finish
<1>2. /\ f \in DOMAIN functions /\ f \in Functions /\ f \notin ToSet(list)
      /\ f \notin Live /\ functions[f].code = NULL
      /\ status = "ok" /\ Finished = ToSet(list) /\ Finished \subseteq DOMAIN functions
      /\ \A g \in Finished : functions[g].code = g /\ g \notin Live
  BY <1>1, LastCompiler
<1>3. /\ ToSet(batch) = Finished \cup {f} /\ batch \in Seq(Functions)
      /\ Distinct(batch) /\ Measured(ToSet(batch))
      /\ TotalFootprint(ToSet(batch)) <= Len(batch) + compiledFunctions'.combinedSize
  BY <1>1, <1>2, PushedIsCounted
<1>4. SegmentInv' /\ Live' = Live \cup moved /\ (status' = "ok" => moved = ToSet(batch))
  BY FinishSegment
<1>5. moved \subseteq Finished \cup {f} /\ moved \cap Live = {}
  BY <1>2, <1>3
<1> HIDE DEF moved
<1>6. /\ DOMAIN functions' = DOMAIN functions
      /\ \A g \in DOMAIN functions \cap moved : functions'[g].code = Segment /\ functions'[g].isExecutable
      /\ \A g \in DOMAIN functions \ moved : functions'[g] = InBlock(f)[g]
  <2>1. InBlock(f) \in [DOMAIN functions -> Descriptions]
    BY <1>2, InBlockKeeps DEF IInv
  <2>2. DOMAIN Installed(InBlock(f), moved) = DOMAIN functions
    BY <2>1 DEF Installed
  <2>3. \A g \in DOMAIN functions : InBlock(f)[g] \in Descriptions
    BY <2>1
  <2>4. \A g \in DOMAIN functions \cap moved :
           Installed(InBlock(f), moved)[g].code = Segment /\ Installed(InBlock(f), moved)[g].isExecutable
    <3>1. \A d \in Descriptions : [d EXCEPT !.code = Segment, !.isExecutable = TRUE].code = Segment
                               /\ [d EXCEPT !.code = Segment, !.isExecutable = TRUE].isExecutable = TRUE
      BY DEF Descriptions
    <3>2. \A g \in DOMAIN functions \cap moved : Installed(InBlock(f), moved)[g]
             = [InBlock(f)[g] EXCEPT !.code = Segment, !.isExecutable = TRUE]
      BY <2>1 DEF Installed
    <3>3. ASSUME NEW g \in DOMAIN functions \cap moved
          PROVE  Installed(InBlock(f), moved)[g].code = Segment
                 /\ Installed(InBlock(f), moved)[g].isExecutable
      <4>1. PICK d \in Descriptions : d = InBlock(f)[g]
        BY <2>3
      <4>2. Installed(InBlock(f), moved)[g] = [d EXCEPT !.code = Segment, !.isExecutable = TRUE]
        BY <3>2, <4>1
      <4> QED
        BY <3>1, <4>2
    <3> QED
      BY <3>3
  <2>5. \A g \in DOMAIN functions \ moved : Installed(InBlock(f), moved)[g] = InBlock(f)[g]
    BY <2>1 DEF Installed
  <2> QED
    BY <1>1, <2>2, <2>4, <2>5
<1>7. InBlock(f)[f].code = f /\ \A g \in DOMAIN functions \ {f} : InBlock(f)[g] = functions[g]
  BY <1>2, InBlockIs DEF IInv
<1>8. blocks' = (blocks \cup {f}) \ moved
  BY <1>1 DEF BlocksAfter
<1>9. f # Segment /\ \A g \in DOMAIN functions : g # Segment
  BY <1>2 DEF CompilationAssumption, IInv, HeapInv
<1> HIDE DEF f, list, batch
<1>10. \A g \in DOMAIN functions \ moved :
          functions'[g].code = IF g = f THEN f ELSE functions[g].code
  BY <1>6, <1>7
<1>11. BlocksAccounted'
  <2>1. \A g \in Live' : g \in DOMAIN functions' /\ functions'[g].code = Segment /\ functions'[g].isExecutable
    <3>1. SUFFICES ASSUME NEW g \in Live'
                   PROVE  g \in DOMAIN functions' /\ functions'[g].code = Segment /\ functions'[g].isExecutable
      OBVIOUS
    <3>2. CASE g \in moved
      BY <1>2, <1>5, <1>6, <3>2
    <3>3. CASE g \notin moved
      <4>1. g \in Live /\ g # f /\ g \in DOMAIN functions /\ functions[g].code = Segment
            /\ functions[g].isExecutable
        BY <1>2, <1>4, <3>1, <3>3 DEF PlacesInv, BlocksAccounted
      <4> QED
        BY <1>6, <1>7, <3>3, <4>1
    <3> QED
      BY <3>2, <3>3
  <2>2. \A g \in DOMAIN functions' :
          /\ functions'[g].code = Segment => g \in Live' /\ g \notin blocks'
          /\ functions'[g].code = g => g \in blocks'
    <3>1. SUFFICES ASSUME NEW g \in DOMAIN functions
                   PROVE  /\ functions'[g].code = Segment => g \in Live' /\ g \notin blocks'
                          /\ functions'[g].code = g => g \in blocks'
      BY <1>6
    <3>2. CASE g \in moved
      BY <1>4, <1>6, <1>8, <1>9, <3>2
    <3>3. CASE g \notin moved
      BY <1>4, <1>8, <1>9, <1>10, <3>3 DEF PlacesInv, BlocksAccounted
    <3> QED
      BY <3>2, <3>3
  <2>3. {g \in blocks' : g \in DOMAIN functions' => functions'[g].code # g} \subseteq rejected'
    <3>1. SUFFICES ASSUME NEW g \in blocks', g \in DOMAIN functions => functions'[g].code # g
                   PROVE  g \in rejected
      BY <1>1, <1>6
    <3>2. g \notin moved /\ g # f /\ g \in blocks
      BY <1>2, <1>8, <1>10, <3>1
    <3> QED
      BY <1>10, <3>1, <3>2 DEF PlacesInv, BlocksAccounted
  <2> QED
    BY <2>1, <2>2, <2>3 DEF BlocksAccounted
<1>12. PlacesInv'
  <2>1. \A g \in DOMAIN functions' : functions'[g].code \in {NULL, Segment, g}
    BY <1>6, <1>10 DEF PlacesInv
  <2>2. status' = "ok" => \A g \in DOMAIN functions' : functions'[g].code = g => g \in rejected' \cup Finished'
    <3>1. SUFFICES ASSUME moved = ToSet(batch), NEW g \in DOMAIN functions, functions'[g].code = g
                   PROVE  g \in rejected
      BY <1>1, <1>4, <1>6
    <3>2. g \notin moved
      BY <1>6, <1>9, <3>1
    <3>3. g \notin Finished /\ functions[g].code = g
      BY <1>3, <1>10, <3>1, <3>2
    <3> QED
      BY <1>2, <3>3 DEF PlacesInv
  <2>3. blocks' \subseteq Functions /\ rejected' \subseteq Functions
    BY <1>1, <1>2, <1>8 DEF PlacesInv
  <2> QED
    BY <1>1, <1>11, <2>1, <2>2, <2>3 DEF PlacesInv
<1>13. BatchInv'
  BY <1>1, <1>3 DEF BatchInv, Compiling, batch
<1> QED
  BY <1>4, <1>12, <1>13

\* A collection takes the code of what it frees, and nothing else.
LEMMA CollectPlaces ==
    ASSUME CodeSegmentAssumption, GrowthCollects = FALSE, IInv, SegmentInv, PlacesInv, BatchInv,
           collectGarbage
    PROVE  /\ SegmentInv' /\ PlacesInv' /\ BatchInv' /\ status' = "ok"
           /\ End(code') = End(code) /\ code'.free = code.free /\ code'.capacity = code.capacity
           /\ Len(code'.functions) <= Len(code.functions)
<1> DEFINE kept == Reach(functions, held \cup markCompilerRoots(current))
           dead == DOMAIN functions \ kept
           list == compiledFunctions.functions
<1>1. /\ status = "ok" /\ phase \in {"prompt", "parsing", "running"}
      /\ code' = Without(dead)
      /\ status' = IF \E f \in Freed(dead) : functions[f].code = Segment THEN "undefined" ELSE "ok"
      /\ blocks' = blocks \ Freed(dead)
      /\ functions' = [f \in DOMAIN functions \ dead |-> functions[f]]
      /\ UNCHANGED <<current, compiledFunctions, phase, rejected>>
  BY DEF collectGarbage
<1>2. held \cup ToSet(current) \in SUBSET Functions /\ DOMAIN functions \subseteq Functions
      /\ functions \in [DOMAIN functions -> Descriptions] /\ ToSet(current) \subseteq DOMAIN functions
      /\ kept = Reach(functions, held \cup ToSet(current))
  BY Within DEF IInv, HeapInv, markCompilerRoots
<1>3. ToSet(current) \subseteq kept /\ Finished \subseteq kept /\ Finished \subseteq DOMAIN functions
  <2>1. held \cup ToSet(current) \subseteq kept
    BY <1>2, ReachIsClosed
  <2>2. Finished \subseteq kept
    <3>1. SUFFICES ASSUME Compiling PROVE ToSet(list) \subseteq kept
      BY DEF Finished
    <3>2. gcRoots = <<>> /\ ToSet(gcRoots) = {}
      BY <1>1, <3>1 DEF Compiling, IInv, PhaseInv, ToSet
    <3>3. ToSet(list) \subseteq Reach(functions, ToSet(current))
      BY <3>1, <3>2 DEF IInv, CompiledInv
    <3>4. ToSet(current) \subseteq Reach(functions, held \cup ToSet(current))
      BY <1>2, <2>1
    <3>5. Reach(functions, ToSet(current)) \subseteq Reach(functions, held \cup ToSet(current))
      <4> DEFINE R == held \cup ToSet(current)
                 S == ToSet(current)
      <4>1. R \in SUBSET Functions /\ S \in SUBSET Functions
        BY <1>2
      <4>2. S \subseteq Reach(functions, R)
        BY <3>4
      <4> HIDE DEF R, S
      <4> QED
        BY <1>2, <4>1, <4>2, ReachGrows DEF R, S
    <3> QED
      BY <1>2, <3>3, <3>5
  <2> QED
    BY <2>1, <2>2, FinishedExist
<1> HIDE DEF kept
<1>4. DOMAIN functions' = DOMAIN functions \cap kept
      /\ \A f \in DOMAIN functions \cap kept : functions'[f] = functions[f]
  BY <1>1
<1>5. dead \in SUBSET Functions
  BY <1>2
<1>6. /\ SegmentOf(code', End(code')) /\ code'.free = code.free /\ code'.writable = code.writable
      /\ End(code') = End(code) /\ code'.capacity = code.capacity
      /\ Len(code'.functions) <= Len(code.functions)
      /\ code'.place = [f \in Functions |-> IF f \in dead THEN Nowhere ELSE code.place[f]]
  <2> DEFINE n == End(code)
             d == Emptied(code, dead)
  <2>1. SegmentOf(code, n) /\ code \in Segments(n)
    BY DEF SegmentInv, SegmentOf
  <2>2. code' = d
    BY <1>1, <2>1, WithoutIs
  <2> HIDE DEF n, dead
  <2>3. /\ SegmentOf(d, n) /\ d.free = code.free /\ d.writable = code.writable
        /\ d.capacity = code.capacity /\ Len(d.functions) <= Len(code.functions)
        /\ d.place = [f \in Functions |-> IF f \in dead THEN Nowhere ELSE code.place[f]]
    BY <1>5, <2>1, EmptiedSegment
  <2> HIDE DEF d
  <2>4. SegmentOf(d, End(d)) /\ End(d) = n
    BY <2>3, SegmentSuffices
  <2> QED
    BY <2>2, <2>3, <2>4 DEF d, n
<1>7. SegmentInv'
  BY <1>1, <1>6 DEF SegmentInv
<1>8. Live' = Live \ dead
  BY <1>5, <1>6 DEF Live
<1>9. status' = "ok"
  <2>1. \A f \in Freed(dead) : functions[f].code # Segment
    BY DEF Freed, PlacesInv, BlocksAccounted
  <2> QED
    BY <1>1, <2>1
<1>10. Freed(dead) \subseteq dead
  BY DEF Freed
<1>11. Finished' = Finished
  BY <1>1 DEF Finished, Compiling
<1>12. BlocksAccounted'
  <2>1. \A g \in Live' : g \in DOMAIN functions' /\ functions'[g].code = Segment /\ functions'[g].isExecutable
    BY <1>4, <1>8 DEF PlacesInv, BlocksAccounted
  <2>2. \A g \in DOMAIN functions' :
          /\ functions'[g].code = Segment => g \in Live' /\ g \notin blocks'
          /\ functions'[g].code = g => g \in blocks'
    BY <1>1, <1>4, <1>8, <1>10 DEF PlacesInv, BlocksAccounted
  <2>3. {g \in blocks' : g \in DOMAIN functions' => functions'[g].code # g} \subseteq rejected'
    <3>1. SUFFICES ASSUME NEW g \in blocks, g \in DOMAIN functions' => functions'[g].code # g
                   PROVE  g \in rejected
      BY <1>1
    <3>2. CASE g \in DOMAIN functions => functions[g].code # g
      BY <3>1, <3>2 DEF PlacesInv, BlocksAccounted
    <3>3. CASE g \in DOMAIN functions /\ functions[g].code = g
      BY <1>1, <1>3, <1>4, <3>1, <3>3 DEF PlacesInv
    <3> QED
      BY <3>2, <3>3
  <2> QED
    BY <2>1, <2>2, <2>3 DEF BlocksAccounted
<1>13. PlacesInv'
  BY <1>1, <1>4, <1>9, <1>11, <1>12 DEF PlacesInv
<1>14. BatchInv'
  <2>1. Compiling' = Compiling /\ (Compiling => ToSet(list) \subseteq DOMAIN functions \cap kept)
    BY <1>1, <1>3 DEF Compiling, Finished
  <2> QED
    BY <1>1, <1>2, <1>3, <1>4, <2>1 DEF BatchInv
<1> QED
  BY <1>6, <1>7, <1>9, <1>13, <1>14

\* Every step but a compaction keeps the invariant.
LEMMA CodeStep ==
    ASSUME CodeSegmentAssumption, CompilationAssumption, GrowthCollects = FALSE,
           CodeInv, [Next]_vars, ~Compaction
    PROVE  CodeInv'
<1>1. IInv'
  BY NextStep DEF CodeInv
<1>2. IInv /\ SegmentInv /\ PlacesInv /\ BatchInv
  BY DEF CodeInv
<1>3. CASE compile \/ function
  <2>1. initCompiler /\ UNCHANGED <<code, status, blocks>> /\ phase \in {"prompt", "parsing"}
        /\ phase' = "parsing" /\ (phase = "parsing" => UNCHANGED compiledFunctions)
    BY <1>3 DEF compile, function
  <2>2. PlacesInv' /\ BatchInv'
    BY <1>2, <1>3, <2>1, NewPlaces, NewBatch
  <2>3. SegmentInv'
    BY <1>2, <2>1, SegmentStays
  <2> QED
    BY <1>1, <2>2, <2>3 DEF CodeInv
<1>4. CASE endCompiler
  <2>1. SegmentInv'
    BY <1>2, <1>4, SegmentStays DEF endCompiler
  <2> QED
    BY <1>1, <1>2, <1>4, <2>1, EndCompilerPlaces DEF CodeInv
<1>5. CASE addConstant
  <2>1. SegmentInv'
    BY <1>2, <1>5, SegmentStays DEF addConstant
  <2> QED
    BY <1>1, <1>2, <1>5, <2>1, AddConstantPlaces DEF CodeInv
<1>6. CASE reject
  <2>1. SegmentInv'
    BY <1>2, <1>6, SegmentStays DEF reject
  <2> QED
    BY <1>1, <1>2, <1>6, <2>1, RejectPlaces DEF CodeInv
<1>7. CASE finish
  BY <1>1, <1>2, <1>7, FinishPlaces DEF CodeInv
<1>8. CASE collectGarbage
  BY <1>1, <1>2, <1>8, CollectPlaces DEF CodeInv
<1>9. CASE errorAt \/ start_script \/ endOfScript \/ UNCHANGED vars
  <2>1. UNCHANGED <<code, status>>
    BY <1>9 DEF errorAt, start_script, endOfScript, vars
  <2>2. SegmentInv'
    BY <1>2, <2>1, SegmentStays
  <2> QED
    BY <1>1, <1>2, <1>9, <2>2, OtherPlaces DEF CodeInv
<1> QED
  BY <1>3, <1>4, <1>5, <1>6, <1>7, <1>8, <1>9 DEF Next

-----------------------------------------------------------------------------
(* The properties of the segment, until it is compacted. *)

\* In the segment code lies as the properties say.
LEMMA SegmentShows ==
    ASSUME CodeSegmentAssumption, SegmentInv
    PROVE  CodeIntact /\ CodeExecutable /\ FunctionsSorted /\ AvailableExact
<1> DEFINE n == End(code)
           list == code.functions
<1>1. /\ code \in Segments(n) /\ n \in Nat /\ Paged(code)
      /\ n > 0 => Laid(code, n, list)
      /\ Live = ToSet(list) /\ list \in Seq(Functions)
      /\ n = 0 => \A f \in Functions : code.place[f] = Nowhere
  BY ListIsPlaced DEF SegmentInv, SegmentOf, Multiple, Live
<1>2. ASSUME NEW f \in Live
      PROVE  /\ n > 0 /\ Laid(code, n, list) /\ Lies(code, f) /\ f \in ToSet(list)
             /\ Size[f] \in Nat \ {0} /\ Footprint(f) = Size[f] + 1
             /\ code.place[f] \in Nat /\ code.place[f] + Footprint(f) <= code.free
  <2>1. f \in Functions /\ code.place[f] # Nowhere
    BY DEF Live
  <2>2. n > 0 /\ Laid(code, n, list) /\ f \in ToSet(list)
    BY <1>1, <2>1
  <2>3. Lies(code, f)
    BY <2>2 DEF Laid, Listed
  <2> QED
    BY <2>1, <2>2, <2>3, SpaceOfOne DEF Lies
<1> HIDE DEF n
<1>3. CodeIntact
  <2>1. \A f \in Live : IntactAt(code, f, code.place[f])
    BY <1>2 DEF Lies
  <2> QED
    BY <2>1 DEF CodeIntact, IntactAt
<1>4. CodeExecutable
  <2>1. SUFFICES ASSUME status = "ok"
                 PROVE  /\ \A f \in Live : Pages(Cells(f, code.place[f])) \subseteq code.exec
                        /\ code.exec = Pages(0..(code.writable - 1))
    BY DEF CodeExecutable
  <2>2. code.exec = Pages(0..(code.writable - 1))
    BY <1>1 DEF Paged
  <2>3. ASSUME NEW f \in Live PROVE Cells(f, code.place[f]) \subseteq 0..(code.writable - 1)
    <3> DEFINE p == code.place[f]
               z == Size[f]
    <3>1. p \in Nat /\ z \in Nat /\ p + (z + 1) <= code.free
      BY <1>2
    <3>2. code.free \in Nat /\ code.writable \in Nat /\ code.free <= code.writable
      BY <1>1, <2>1 DEF SegmentInv, Segments
    <3>3. Cells(f, p) = p..(p + z - 1)
      BY DEF Cells
    <3> HIDE DEF p, z
    <3>4. p..(p + z - 1) \subseteq 0..(code.writable - 1)
      BY <3>1, <3>2
    <3> QED
      BY <3>3, <3>4 DEF p
  <2> QED
    BY <2>2, <2>3 DEF Pages
<1>5. FunctionsSorted
  <2>1. SUFFICES ASSUME NEW i \in DOMAIN list, NEW j \in DOMAIN list, i < j
                 PROVE  code.place[list[i]] < code.place[list[j]]
    BY <1>1 DEF FunctionsSorted
  <2>2. list[i] \in Live /\ list[j] \in Live
    BY <1>1, <2>1 DEF ToSet
  <2>3. /\ Laid(code, n, list) /\ Size[list[i]] \in Nat \ {0}
        /\ Footprint(list[i]) = Size[list[i]] + 1
        /\ code.place[list[i]] \in Nat /\ code.place[list[j]] \in Nat
    BY <1>2, <2>2
  <2>4. code.place[list[i]] + Footprint(list[i]) <= code.place[list[j]]
    BY <2>1, <2>3 DEF Laid, Listed, Ordered
  <2> QED
    BY <2>3, <2>4
<1>6. AvailableExact
  <2>1. SUFFICES ASSUME n > 0 PROVE code.available = n - 1 - TotalFootprint(Live)
    BY DEF AvailableExact, JIT_RED_ZONE, n
  <2> QED
    BY <1>1, <2>1 DEF Laid, Accounted
<1> QED
  BY <1>3, <1>4, <1>5, <1>6

\* As long as the segment is not compacted.
LEMMA CodeAlways ==
    ASSUME GrowthCollects = FALSE
    PROVE  Spec /\ [][~Compaction]_vars => []CodeInv
<1>1. Init => CodeInv
  BY CodeInit, CodeSegmentAssumption
<1>2. CodeInv /\ [Next]_vars /\ [~Compaction]_vars => CodeInv'
  <2>1. SUFFICES ASSUME CodeInv, [Next]_vars, [~Compaction]_vars PROVE CodeInv'
    OBVIOUS
  <2>2. CASE ~Compaction
    BY <2>1, <2>2, CodeStep, CodeSegmentAssumption, CompilationAssumption
  <2>3. CASE UNCHANGED vars
    <3>1. Compaction => FALSE
      BY <2>1, <2>3 DEF Compaction, finish, vars
    <3> QED
      BY <2>1, <2>2, <3>1
  <2> QED
    BY <2>1, <2>2, <2>3
<1> QED
  BY <1>1, <1>2, PTL DEF Spec

\* The code of every function that exists lies where its chunk says, complete and
\* between red zones, whatever is compiled, installed and collected in whichever
\* order, until the segment is compacted: no write of writeNewFunctions touches
\* other code (code.c:205 to 228, 284 to 309, 324 to 344).
THEOREM CodeStaysIntact ==
    ASSUME GrowthCollects = FALSE
    PROVE  Spec /\ [][~Compaction]_vars => []CodeIntact
<1>1. CodeInv => CodeIntact
  BY SegmentShows, CodeSegmentAssumption DEF CodeInv
<1> QED
  BY <1>1, CodeAlways, PTL

\* As long as the program goes on, exactly the pages up to "writable" can be
\* executed, and all code is there (code.c:36 to 52, 290).
THEOREM CodeStaysExecutable ==
    ASSUME GrowthCollects = FALSE
    PROVE  Spec /\ [][~Compaction]_vars => []CodeExecutable
<1>1. CodeInv => CodeExecutable
  BY SegmentShows, CodeSegmentAssumption DEF CodeInv
<1> QED
  BY <1>1, CodeAlways, PTL

\* The list is that of the functions in the segment, sorted by address, and
\* "available" is what they leave free (code.h:19, code.c:212 to 225, 324 to 344).
THEOREM ListStaysSorted ==
    ASSUME GrowthCollects = FALSE
    PROVE  Spec /\ [][~Compaction]_vars => [](FunctionsSorted /\ AvailableExact)
<1>1. CodeInv => FunctionsSorted /\ AvailableExact
  BY SegmentShows, CodeSegmentAssumption DEF CodeInv
<1> QED
  BY <1>1, CodeAlways, PTL

\* Every function has its code in the segment, flagged executable, or in a block
\* of its own, no block is lost but those of rejected inputs, and no freed function
\* leaves code behind (code.c:219 to 227, chunk.c:19 to 27).
THEOREM BlocksStayAccounted ==
    ASSUME GrowthCollects = FALSE
    PROVE  Spec /\ [][~Compaction]_vars => []BlocksAccounted
<1>1. CodeInv => BlocksAccounted
  BY DEF CodeInv, PlacesInv
<1> QED
  BY <1>1, CodeAlways, PTL

-----------------------------------------------------------------------------
(* A segment with room for all inputs. *)

\* What one input of the longest functions takes, in cells and in combinedSize.
InputSize(longest) == MaxBatch * (5 * longest + 1)

\* A segment that is large enough for all inputs, and lists that double enough.
Roomy ==
    /\ isREPL /\ MaxBatch \in 1..MinCapacity /\ MaxCompiles \in Nat
    /\ \E longest \in Nat :
          /\ \A f \in Functions : Size[f] <= longest
          /\ MinSegment > 1 + MaxCompiles * InputSize(longest)

\* Where the next function is to go.
FirstFree == IF End(code) = 0 THEN 1 ELSE code.free

\* The inputs that were finished have taken their share at most.
RoomAfter(l) ==
    FirstFree + compiledFunctions.combinedSize <= 1 + compiles * InputSize(l)

\* So has the input that is compiled, as far as it is.
RoomWhile(l) ==
    LET n == Len(compiledFunctions.functions)
    IN  /\ compiles >= 1 /\ Len(current) + n <= MaxBatch
        /\ FirstFree + compiledFunctions.combinedSize
              <= 1 + (compiles - 1) * InputSize(l) + 4 * l * n

\* What all inputs take leaves room for the next, and the list has doubled as it must.
RoomInv(l) ==
    /\ compiles \in 0..MaxCompiles
    /\ Compiling => RoomWhile(l)
    /\ ~Compiling => RoomAfter(l)
    /\ TotalFootprint(ToSet(compiledFunctions.functions))
          <= (l + 1) * Len(compiledFunctions.functions)
    /\ End(code) # 0 => End(code) >= MinSegment
    /\ Len(code.functions) <= code.capacity
    /\ code.capacity # 0 => code.capacity >= MinCapacity
    /\ status = "ok"

\* Products in the bounds.
LEMMA OneTimesMore ==
    ASSUME NEW x \in Nat, NEW y \in Nat PROVE (x + 1) * y = x * y + y /\ x * y \in Nat
  OBVIOUS

\* A larger factor, a larger product.
LEMMA TimesGrows ==
    ASSUME NEW x \in Nat, NEW z \in Nat, x <= z, NEW y \in Nat PROVE x * y <= z * y
  OBVIOUS

\* One more function takes its share of the input.
LEMMA InputShare ==
    ASSUME NEW longest \in Nat, MaxBatch \in Nat, NEW n \in Nat, n + 1 <= MaxBatch
    PROVE  /\ 4 * longest * (n + 1) = 4 * longest * n + 4 * longest
           /\ (longest + 1) * (n + 1) = (longest + 1) * n + (longest + 1)
           /\ 4 * longest * (n + 1) + (longest + 1) * (n + 1) <= InputSize(longest)
           /\ 4 * longest * (n + 1) + (n + 1) <= InputSize(longest)
           /\ 4 * longest * n \in Nat /\ (longest + 1) * n \in Nat /\ InputSize(longest) \in Nat
<1> DEFINE y == 5 * longest + 1
<1>1. y \in Nat /\ n + 1 \in Nat /\ (n + 1) * y <= MaxBatch * y /\ MaxBatch * y \in Nat
  BY TimesGrows
<1>2. 4 * longest * (n + 1) + (longest + 1) * (n + 1) = (n + 1) * y
  OBVIOUS
<1>3. longest * (n + 1) \in Nat
  OBVIOUS
<1>4. 4 * longest * (n + 1) + (n + 1) <= (n + 1) * y
  <2>1. (n + 1) * y = 4 * longest * (n + 1) + (n + 1) + longest * (n + 1)
    OBVIOUS
  <2> DEFINE a == 4 * longest * (n + 1)
             b == longest * (n + 1)
  <2>2. a \in Nat /\ b \in Nat /\ (n + 1) * y = a + (n + 1) + b
    BY <2>1
  <2> HIDE DEF a, b, y
  <2>3. a + (n + 1) <= (n + 1) * y
    BY <2>2
  <2> QED
    BY <2>3 DEF a
<1>5. 4 * longest * (n + 1) = 4 * longest * n + 4 * longest
      /\ (longest + 1) * (n + 1) = (longest + 1) * n + (longest + 1)
      /\ 4 * longest * n \in Nat /\ (longest + 1) * n \in Nat
  OBVIOUS
<1>6. InputSize(longest) = MaxBatch * y
  BY DEF InputSize
<1> HIDE DEF y
<1>7. 4 * longest * (n + 1) + (longest + 1) * (n + 1) <= InputSize(longest)
  BY <1>1, <1>2, <1>6
<1>8. 4 * longest * (n + 1) + (n + 1) <= InputSize(longest)
  <2> DEFINE a == 4 * longest * (n + 1) + (n + 1)
  <2>1. a \in Nat /\ a <= (n + 1) * y /\ (n + 1) * y \in Nat
    BY <1>1, <1>4
  <2> HIDE DEF a
  <2>2. a <= InputSize(longest)
    BY <1>1, <1>6, <2>1
  <2> QED
    BY <2>2 DEF a
<1> QED
  BY <1>1, <1>5, <1>6, <1>7, <1>8

\* The sizes that Roomy speaks of.
Longest(l) ==
    /\ l \in Nat /\ \A f \in Functions : Size[f] <= l
    /\ MinSegment > 1 + MaxCompiles * InputSize(l)

\* At first nothing is taken.
LEMMA RoomInit ==
    ASSUME CodeSegmentAssumption, Init, Roomy, NEW l, Longest(l) PROVE RoomInv(l)
<1>1. /\ compiles = 0 /\ MaxCompiles \in Nat /\ ~Compiling /\ status = "ok"
      /\ code.functions = <<>> /\ code.capacity = 0
      /\ compiledFunctions.functions = <<>> /\ compiledFunctions.combinedSize = 0
  BY DEF Init, initCode, Roomy, Compiling
<1>2. End(code) = 0
  <2>1. SegmentInv /\ code.memory = [i \in {} |-> Zero]
    BY CodeInit DEF CodeInv, Init, initCode
  <2>2. DOMAIN code.memory = {}
    BY <2>1
  <2> QED
    BY <2>2, FS_EmptySet DEF End
<1>3. ToSet(<<>>) = {} /\ Len(<<>>) = 0
  BY DEF ToSet
<1>4. TotalFootprint(ToSet(<<>>)) = 0
  BY <1>3, NothingMeasured, Zenon
<1>5. InputSize(l) \in Nat /\ l \in Nat
  BY DEF InputSize, Roomy, Longest
<1>6. 0 * InputSize(l) = 0 /\ (l + 1) * 0 = 0
  BY <1>5
<1>7. FirstFree = 1
  BY <1>2 DEF FirstFree
<1>8. TotalFootprint(ToSet(compiledFunctions.functions)) <= (l + 1) * Len(compiledFunctions.functions)
  <2>1. TotalFootprint(ToSet(compiledFunctions.functions)) = 0 /\ Len(compiledFunctions.functions) = 0
    BY <1>1, <1>3, <1>4, Zenon
  <2> QED
    BY <1>6, <2>1
<1> QED
  BY <1>1, <1>2, <1>3, <1>6, <1>7, <1>8 DEF RoomInv, RoomAfter

\* Steps that neither compile more nor touch the segment.
LEMMA RoomStays ==
    ASSUME NEW l, RoomInv(l), UNCHANGED <<code, status, compiledFunctions, current, compiles>>,
           Compiling' = Compiling
    PROVE  RoomInv(l)'
  BY DEF RoomInv, RoomWhile, RoomAfter, FirstFree

\* All bounds are numbers.
LEMMA RoomTypes ==
    ASSUME CodeSegmentAssumption, CodeInv, Roomy, NEW l, Longest(l)
    PROVE  /\ l \in Nat /\ InputSize(l) \in Nat /\ FirstFree \in Nat /\ MaxBatch \in Nat
           /\ MaxCompiles \in Nat /\ MinCapacity \in Nat /\ MinSegment \in Nat
           /\ compiledFunctions.functions \in Seq(Functions)
           /\ compiledFunctions.combinedSize \in Nat
           /\ current \in Seq(Functions) /\ End(code) \in Nat
           /\ Measured(ToSet(compiledFunctions.functions))
           /\ TotalFootprint(ToSet(compiledFunctions.functions)) \in Nat
<1>1. l \in Nat /\ MaxBatch \in Nat /\ MaxCompiles \in Nat /\ MinCapacity \in Nat /\ MinSegment \in Nat
  BY DEF Longest, Roomy, CodeSegmentAssumption
<1>2. InputSize(l) \in Nat
  BY <1>1 DEF InputSize
<1>3. End(code) \in Nat /\ code \in Segments(End(code))
  BY DEF CodeInv, SegmentInv, SegmentOf, Multiple
<1>4. FirstFree \in Nat
  BY <1>3 DEF FirstFree, Segments
<1>5. /\ compiledFunctions.functions \in Seq(Functions) /\ compiledFunctions.combinedSize \in Nat
      /\ current \in Seq(Functions) /\ Measured(ToSet(compiledFunctions.functions))
  BY DEF CodeInv, IInv, HeapInv, CompiledInv, BatchInv
<1> QED
  BY <1>1, <1>2, <1>3, <1>4, <1>5, Measures

\* An input begins with no function of its own.
LEMMA RoomCompile ==
    ASSUME CodeSegmentAssumption, CodeInv, Roomy, NEW l, Longest(l), RoomInv(l), compile
    PROVE  RoomInv(l)'
<1>1. /\ compiles < MaxCompiles /\ compiles' = compiles + 1 /\ ~Compiling /\ Compiling'
      /\ compiledFunctions' = [compiledFunctions EXCEPT !.functions = <<>>]
      /\ UNCHANGED <<code, status>> /\ current = <<>>
      /\ \E f \in Fresh : current' = Append(current, f)
  BY DEF compile, initCompiler, Compiling, CodeInv, IInv, PhaseInv
<1>2. /\ l \in Nat /\ InputSize(l) \in Nat /\ MaxBatch \in Nat /\ MaxBatch >= 1 /\ FirstFree \in Nat
      /\ compiles \in Nat /\ compiles <= MaxCompiles /\ MaxCompiles \in Nat
      /\ compiledFunctions.combinedSize \in Nat
  BY RoomTypes DEF Roomy, RoomInv
<1>3. compiledFunctions'.functions = <<>>
      /\ compiledFunctions'.combinedSize = compiledFunctions.combinedSize
  BY <1>1 DEF CodeInv, IInv, CompiledInv
<1>4. ToSet(<<>>) = {} /\ Len(<<>>) = 0
  BY DEF ToSet
<1>5. TotalFootprint(ToSet(<<>>)) = 0
  BY <1>4, NothingMeasured, Zenon
<1>6. Len(current') = 1
  BY <1>1
<1>7. FirstFree' = FirstFree /\ compiles' - 1 = compiles /\ Len(compiledFunctions'.functions) = 0
  BY <1>1, <1>2, <1>3, <1>4 DEF FirstFree
<1>8. 4 * l * 0 = 0 /\ (l + 1) * 0 = 0 /\ compiles * InputSize(l) \in Nat
  BY <1>2
<1>9. RoomWhile(l)'
  <2>1. FirstFree + compiledFunctions.combinedSize <= 1 + compiles * InputSize(l)
    BY <1>1 DEF RoomInv, RoomAfter
  <2>2. FirstFree' + compiledFunctions'.combinedSize <= 1 + (compiles' - 1) * InputSize(l) + 0
    BY <1>2, <1>3, <1>7, <1>8, <2>1
  <2> QED
    BY <1>1, <1>2, <1>6, <1>7, <1>8, <2>2 DEF RoomWhile
<1>10. TotalFootprint(ToSet(compiledFunctions'.functions)) = 0
  BY <1>3, <1>5, Zenon
<1>11. TotalFootprint(ToSet(compiledFunctions'.functions)) <= (l + 1) * Len(compiledFunctions'.functions)
  BY <1>7, <1>8, <1>10
<1>12. compiles' \in 0..MaxCompiles
  BY <1>1, <1>2
<1> QED
  BY <1>1, <1>9, <1>11, <1>12 DEF RoomInv

\* An inner function is at work.
LEMMA RoomFunction ==
    ASSUME CodeSegmentAssumption, CodeInv, Roomy, NEW l, Longest(l), RoomInv(l), function
    PROVE  RoomInv(l)'
<1>1. /\ Len(current) + Len(compiledFunctions.functions) < MaxBatch
      /\ Compiling /\ Compiling' /\ UNCHANGED <<code, status, compiledFunctions, compiles>>
      /\ \E f \in Fresh : current' = Append(current, f)
  BY DEF function, initCompiler, Compiling
<1>2. /\ current \in Seq(Functions) /\ Len(compiledFunctions.functions) \in Nat /\ MaxBatch \in Nat
  BY RoomTypes
<1>3. Len(current') = Len(current) + 1 /\ Len(current) \in Nat
  BY <1>1, <1>2
<1>4. Len(current') + Len(compiledFunctions'.functions) <= MaxBatch
  <2> DEFINE a == Len(current)
             n == Len(compiledFunctions.functions)
  <2>1. a + n < MaxBatch /\ a \in Nat /\ n \in Nat /\ Len(current') = a + 1
        /\ Len(compiledFunctions'.functions) = n /\ MaxBatch \in Nat
    BY <1>1, <1>2, <1>3
  <2> HIDE DEF a, n
  <2> QED
    BY <2>1
<1>5. RoomWhile(l)'
  BY <1>1, <1>4 DEF RoomInv, RoomWhile, FirstFree
<1> QED
  BY <1>1, <1>5 DEF RoomInv

\* The function that is pushed is counted within the share of its input.
LEMMA RoomPushed ==
    ASSUME CodeSegmentAssumption, CompilationAssumption, CodeInv, Roomy, NEW l, Longest(l),
           RoomInv(l), phase = "parsing", current # <<>>,
           compiledFunctions' = pushCompiledFunction(Last(current))
    PROVE  LET n == Len(compiledFunctions.functions)
           IN  /\ Len(compiledFunctions'.functions) = n + 1 /\ n \in Nat
               /\ n + 1 + (Len(current) - 1) <= MaxBatch /\ n + 1 <= MaxBatch
               /\ compiledFunctions'.combinedSize \in Nat
               /\ TotalFootprint(ToSet(compiledFunctions'.functions)) \in Nat
               /\ TotalFootprint(ToSet(compiledFunctions'.functions)) <= (l + 1) * (n + 1)
               /\ FirstFree + compiledFunctions'.combinedSize
                     <= 1 + (compiles - 1) * InputSize(l) + 4 * l * (n + 1)
<1> DEFINE f == Last(current)
           list == compiledFunctions.functions
           n == Len(list)
           S == ToSet(list)
<1>1. /\ f \in Functions /\ f \notin S
  BY LastCompiler DEF CodeInv
<1>2. /\ l \in Nat /\ InputSize(l) \in Nat /\ FirstFree \in Nat /\ MaxBatch \in Nat
      /\ list \in Seq(Functions) /\ n \in Nat /\ compiledFunctions.combinedSize \in Nat
      /\ current \in Seq(Functions) /\ Len(current) \in Nat \ {0} /\ Measured(S)
      /\ TotalFootprint(S) \in Nat
  <2>1. Len(current) \in Nat \ {0}
    BY RoomTypes
  <2> QED
    BY <2>1, RoomTypes
<1>3. /\ compiledFunctions'.functions = Append(list, f)
      /\ compiledFunctions'.combinedSize = compiledFunctions.combinedSize + 4 * Size[f]
  BY DEF pushCompiledFunction, BytesPerInstruction
<1>4. /\ ToSet(Append(list, f)) = S \cup {f} /\ Len(Append(list, f)) = n + 1
      /\ Size[f] \in Nat /\ Footprint(f) = Size[f] + 1 /\ Size[f] <= l
  BY <1>1, <1>2, Appended, SpaceOfOne DEF Longest
<1>5. TotalFootprint(ToSet(compiledFunctions'.functions)) = TotalFootprint(S) + Footprint(f)
  <2>1. TotalFootprint(S \cup {f}) = TotalFootprint(S) + Footprint(f)
    BY <1>1, <1>2, OneMore
  <2> QED
    BY <1>3, <1>4, <2>1, Zenon
<1>6. /\ compiles \in Nat /\ compiles >= 1 /\ Len(current) + n <= MaxBatch
      /\ FirstFree + compiledFunctions.combinedSize
            <= 1 + (compiles - 1) * InputSize(l) + 4 * l * n
      /\ TotalFootprint(S) <= (l + 1) * n
  BY DEF RoomInv, RoomWhile, Compiling
<1>7. n + 1 <= MaxBatch /\ n + 1 + (Len(current) - 1) <= MaxBatch
  BY <1>2, <1>6
<1>8. /\ 4 * l * (n + 1) = 4 * l * n + 4 * l /\ (l + 1) * (n + 1) = (l + 1) * n + (l + 1)
      /\ 4 * l * n \in Nat /\ (l + 1) * n \in Nat
  BY <1>2, <1>7, InputShare
<1>9. (compiles - 1) * InputSize(l) \in Nat
  <2> DEFINE j == compiles - 1
             K == InputSize(l)
  <2>1. j \in Nat /\ K \in Nat
    BY <1>2, <1>6
  <2> HIDE DEF j, K
  <2>2. j * K \in Nat
    BY <2>1
  <2> QED
    BY <2>2 DEF j, K
<1> DEFINE T == TotalFootprint(S)
           P == (compiles - 1) * InputSize(l)
           Q == 4 * l * n
           U == (l + 1) * n
           c == compiledFunctions.combinedSize
           z == Size[f]
<1>10. T + (z + 1) <= U + (l + 1) /\ T + (z + 1) \in Nat
  <2>1. T \in Nat /\ U \in Nat /\ z \in Nat /\ z <= l /\ l \in Nat /\ T <= U
    BY <1>2, <1>4, <1>6, <1>8
  <2> HIDE DEF T, U, z
  <2> QED
    BY <2>1
<1>11. FirstFree + (c + 4 * z) <= 1 + P + (Q + 4 * l) /\ c + 4 * z \in Nat
  <2>1. FirstFree \in Nat /\ c \in Nat /\ z \in Nat /\ z <= l /\ l \in Nat /\ P \in Nat /\ Q \in Nat
        /\ FirstFree + c <= 1 + P + Q
    BY <1>2, <1>4, <1>6, <1>8, <1>9
  <2> HIDE DEF c, z, P, Q
  <2> QED
    BY <2>1
<1>12. Len(compiledFunctions'.functions) = n + 1
  BY <1>3, <1>4, Zenon
<1>13. /\ TotalFootprint(ToSet(compiledFunctions'.functions)) \in Nat
       /\ TotalFootprint(ToSet(compiledFunctions'.functions)) <= (l + 1) * (n + 1)
  <2>1. TotalFootprint(ToSet(compiledFunctions'.functions)) = T + (z + 1)
    BY <1>4, <1>5
  <2> HIDE DEF T, z
  <2> QED
    BY <1>8, <1>10, <2>1
<1>14. FirstFree + compiledFunctions'.combinedSize <= 1 + P + 4 * l * (n + 1)
  BY <1>3, <1>8, <1>11
<1>15. compiledFunctions'.combinedSize \in Nat
  BY <1>3, <1>11
<1> QED
  BY <1>2, <1>7, <1>12, <1>13, <1>14, <1>15

\* Front is shorter by one.
LEMMA LenFront ==
    ASSUME NEW A, NEW s \in Seq(A), s # <<>>
    PROVE  Len(Front(s)) = Len(s) - 1 /\ Len(s) - 1 \in Nat
<1> DEFINE k == Len(s) - 1
<1>1. k \in Nat /\ Len(s) = k + 1 /\ \A i \in 1..k : s[i] \in A
  OBVIOUS
<1>2. Front(s) = SubSeq(s, 1, k)
  BY DEF Front
<1> HIDE DEF k
<1>3. Len(SubSeq(s, 1, k)) = IF 1 <= k THEN k - 1 + 1 ELSE 0
  BY <1>1, SubSeqProperties
<1>4. Len(SubSeq(s, 1, k)) = k
  BY <1>1, <1>3
<1> QED
  BY <1>1, <1>2, <1>4 DEF k

\* An inner function is finished.
LEMMA RoomEndCompiler ==
    ASSUME CodeSegmentAssumption, CompilationAssumption, CodeInv, Roomy, NEW l, Longest(l),
           RoomInv(l), endCompiler
    PROVE  RoomInv(l)'
<1> DEFINE n == Len(compiledFunctions.functions)
<1>1. /\ phase = "parsing" /\ phase' = "addConstant" /\ current # <<>>
      /\ compiledFunctions' = pushCompiledFunction(Last(current)) /\ current' = Front(current)
      /\ UNCHANGED <<code, status, compiles>>
  BY DEF endCompiler, CodeInv, IInv, CompiledInv, Compiling
<1>2. /\ Len(compiledFunctions'.functions) = n + 1 /\ n \in Nat
      /\ n + 1 + (Len(current) - 1) <= MaxBatch
      /\ TotalFootprint(ToSet(compiledFunctions'.functions)) <= (l + 1) * (n + 1)
      /\ FirstFree + compiledFunctions'.combinedSize
            <= 1 + (compiles - 1) * InputSize(l) + 4 * l * (n + 1)
  BY <1>1, RoomPushed
<1>3. Len(current') = Len(current) - 1 /\ Len(current) - 1 \in Nat
  <2>1. current \in Seq(Functions) /\ current # <<>>
    BY <1>1, RoomTypes
  <2>2. Len(Front(current)) = Len(current) - 1 /\ Len(current) - 1 \in Nat
    BY <2>1, LenFront
  <2> QED
    BY <1>1, <2>2
<1> HIDE DEF n
<1>4. Compiling /\ Compiling' /\ FirstFree' = FirstFree
  BY <1>1 DEF Compiling, FirstFree
<1>5. RoomWhile(l)'
  <2>1. Len(current') + Len(compiledFunctions'.functions) <= MaxBatch
    <3> DEFINE a == Len(current) - 1
    <3>1. Len(current') = a /\ a \in Nat /\ n + 1 + a <= MaxBatch /\ MaxBatch \in Nat
      BY <1>2, <1>3, RoomTypes
    <3> HIDE DEF a
    <3> QED
      BY <1>2, <3>1
  <2> QED
    BY <1>1, <1>2, <1>4, <2>1 DEF RoomInv, RoomWhile
<1> QED
  BY <1>1, <1>2, <1>4, <1>5 DEF RoomInv

\* What an input that ends has taken, whether it is installed or not.
LEMMA RoomTaken ==
    ASSUME CodeSegmentAssumption, CompilationAssumption, CodeInv, Roomy, NEW l, Longest(l),
           RoomInv(l), phase = "parsing", current # <<>>,
           compiledFunctions' = pushCompiledFunction(Last(current))
    PROVE  LET n == Len(compiledFunctions'.functions)
               total == TotalFootprint(ToSet(compiledFunctions'.functions))
               combined == compiledFunctions'.combinedSize
           IN  /\ n \in 1..MaxBatch /\ combined \in Nat /\ total \in Nat
               /\ total <= (l + 1) * n
               /\ FirstFree + combined + total <= 1 + compiles * InputSize(l)
               /\ FirstFree + combined + n <= 1 + compiles * InputSize(l)
               /\ FirstFree + combined + n < MinSegment
               /\ compiles * InputSize(l) \in Nat
<1> DEFINE m == Len(compiledFunctions.functions)
           n == Len(compiledFunctions'.functions)
           total == TotalFootprint(ToSet(compiledFunctions'.functions))
           combined == compiledFunctions'.combinedSize
           K == InputSize(l)
           before == (compiles - 1) * K
           all == compiles * K
           input == 4 * l * n
           kept == (l + 1) * n
           end == MaxCompiles * K
<1>1. /\ n = m + 1 /\ m \in Nat /\ m + 1 <= MaxBatch /\ combined \in Nat /\ total \in Nat
      /\ m + 1 + (Len(current) - 1) <= MaxBatch
      /\ total <= (l + 1) * (m + 1)
      /\ FirstFree + combined <= 1 + before + 4 * l * (m + 1)
  BY RoomPushed
<1>2. /\ l \in Nat /\ K \in Nat /\ FirstFree \in Nat /\ MaxBatch \in Nat /\ MaxCompiles \in Nat
      /\ MinSegment \in Nat
  BY RoomTypes
<1>3. compiles \in Nat /\ compiles >= 1 /\ compiles <= MaxCompiles
  BY <1>2 DEF RoomInv, RoomWhile, Compiling
<1>4. compiles - 1 \in Nat /\ (compiles - 1) + 1 = compiles
  BY <1>3
<1>5. all = before + K /\ before \in Nat /\ all \in Nat /\ all <= end /\ end \in Nat
  <2> DEFINE j == compiles - 1
  <2> HIDE DEF j, K
  <2>1. j \in Nat /\ compiles = j + 1
    BY <1>4 DEF j
  <2>2. (j + 1) * K = j * K + K /\ j * K \in Nat
    BY <1>2, <2>1, OneTimesMore
  <2>3. compiles * K <= MaxCompiles * K
    BY <1>2, <1>3, TimesGrows
  <2>4. compiles * K \in Nat /\ MaxCompiles * K \in Nat
    BY <1>2, <1>3
  <2> QED
    BY <2>1, <2>2, <2>3, <2>4 DEF j
<1>6. MinSegment > 1 + end
  BY DEF Longest
<1>7. /\ input + kept <= K /\ input + n <= K /\ input \in Nat /\ kept \in Nat
  <2>1. /\ 4 * l * (m + 1) + (l + 1) * (m + 1) <= InputSize(l)
        /\ 4 * l * (m + 1) + (m + 1) <= InputSize(l)
    BY <1>1, <1>2, InputShare
  <2>2. 4 * l * (m + 1) \in Nat /\ (l + 1) * (m + 1) \in Nat
    <3> DEFINE k == m + 1
    <3>1. k \in Nat /\ l \in Nat
      BY <1>1, <1>2
    <3> HIDE DEF k
    <3>2. 4 * l * k \in Nat /\ (l + 1) * k \in Nat
      BY <3>1
    <3> QED
      BY <3>2 DEF k
  <2>3. m + 1 = n
    BY <1>1
  <2> HIDE DEF n, m
  <2>4. 4 * l * n + (l + 1) * n <= InputSize(l) /\ 4 * l * n + n <= InputSize(l)
    BY <2>1, <2>3, Zenon
  <2>5. 4 * l * n \in Nat /\ (l + 1) * n \in Nat
    BY <2>2, <2>3, Zenon
  <2> QED
    BY <2>4, <2>5
<1>8. total <= kept /\ FirstFree + combined <= 1 + before + input /\ n \in Nat
  BY <1>1
<1>9. n \in 1..MaxBatch
  BY <1>1, <1>2
<1> HIDE DEF total, combined, K, before, all, input, kept, end, n, m
<1>10. FirstFree + combined + total <= 1 + all
  BY <1>1, <1>2, <1>5, <1>7, <1>8
<1>11. FirstFree + combined + n <= 1 + all
  BY <1>1, <1>2, <1>5, <1>7, <1>8
<1>12. FirstFree + combined + n < MinSegment
  BY <1>1, <1>2, <1>5, <1>6, <1>8, <1>11
<1>13. total <= (l + 1) * n
  BY <1>8 DEF kept
<1> QED
  BY <1>1, <1>5, <1>9, <1>10, <1>11, <1>12, <1>13 DEF n, total, combined, all, K

\* An input with errors is still counted by combinedSize.
LEMMA RoomReject ==
    ASSUME CodeSegmentAssumption, CompilationAssumption, CodeInv, Roomy, NEW l, Longest(l),
           RoomInv(l), reject
    PROVE  RoomInv(l)'
<1>1. /\ phase = "parsing" /\ phase' = "prompt" /\ current # <<>>
      /\ compiledFunctions' = pushCompiledFunction(Last(current))
      /\ UNCHANGED <<code, status, compiles>>
  BY DEF reject, CodeInv, IInv, CompiledInv, Compiling
<1> DEFINE n == Len(compiledFunctions'.functions)
           total == TotalFootprint(ToSet(compiledFunctions'.functions))
           combined == compiledFunctions'.combinedSize
<1>2. /\ combined \in Nat /\ total \in Nat /\ total <= (l + 1) * n
      /\ FirstFree + combined + total <= 1 + compiles * InputSize(l)
      /\ compiles * InputSize(l) \in Nat /\ FirstFree \in Nat
  BY <1>1, RoomTaken, RoomTypes
<1>3. ~Compiling' /\ FirstFree' = FirstFree
  BY <1>1 DEF Compiling, FirstFree
<1> HIDE DEF total, combined, n
<1>4. FirstFree + combined <= 1 + compiles * InputSize(l)
  <2> DEFINE k == compiles * InputSize(l)
  <2>1. k \in Nat /\ FirstFree + combined + total <= 1 + k
    BY <1>2
  <2> HIDE DEF k
  <2>2. FirstFree + combined <= 1 + k
    BY <1>2, <2>1
  <2> QED
    BY <2>2 DEF k
<1>5. RoomAfter(l)'
  BY <1>1, <1>3, <1>4 DEF RoomAfter, combined
<1> QED
  BY <1>1, <1>2, <1>3, <1>5 DEF RoomInv, total, n

\* Doubling once is enough for one input.
LEMMA RoomOnList ==
    ASSUME NEW len \in Nat, NEW capacity \in Nat, NEW n \in Nat, MinCapacity \in Nat,
           len <= capacity, capacity # 0 => capacity >= MinCapacity, n >= 1, n <= MinCapacity
    PROVE  LET d == Grown(capacity, len + n)
           IN  /\ capacity >= len + n \/ GrowCapacity(capacity) >= len + n
               /\ len + n <= d /\ d >= MinCapacity /\ d \in Nat
  BY DEF Grown, GrowCapacity

\* An input that is installed finds room behind the others, and on the list.
LEMMA RoomFinish ==
    ASSUME CodeSegmentAssumption, CompilationAssumption, CodeInv, Roomy, NEW l, Longest(l),
           RoomInv(l), finish
    PROVE  RoomInv(l)' /\ ~Compaction
<1> DEFINE batch == compiledFunctions'.functions
           combined == compiledFunctions'.combinedSize
           n == Len(batch)
           total == TotalFootprint(ToSet(batch))
<1>1. /\ phase = "parsing" /\ phase' = "interpret" /\ current # <<>>
      /\ compiledFunctions' = pushCompiledFunction(Last(current))
      /\ codePushFunctions(batch, combined) /\ UNCHANGED compiles
  BY DEF finish, CodeInv, IInv, CompiledInv, Compiling
<1>2. /\ n \in 1..MaxBatch /\ combined \in Nat /\ total \in Nat /\ total <= (l + 1) * n
      /\ FirstFree + combined + total <= 1 + compiles * InputSize(l)
      /\ FirstFree + combined + n < MinSegment
      /\ compiles * InputSize(l) \in Nat
  BY <1>1, RoomTaken
<1>3. /\ FirstFree \in Nat /\ MinCapacity \in Nat /\ MinSegment \in Nat /\ MaxBatch \in Nat
      /\ MaxBatch <= MinCapacity /\ isREPL
  BY RoomTypes DEF Roomy
<1>4. PICK required : required = RequiredCells(batch, combined)
  OBVIOUS
<1>5. required = n + combined /\ required \in Nat
  BY <1>2, <1>4 DEF RequiredCells, JIT_RED_ZONE
<1>6. SegmentInv /\ IInv /\ PlacesInv /\ BatchInv
  BY DEF CodeInv
<1>7. /\ Mapped(required).free = FirstFree
      /\ Mapped(required).capacity = code.capacity
      /\ Mapped(required).functions = code.functions
      /\ End(Mapped(required)) = IF End(code) = 0 THEN SegmentSize(required) ELSE End(code)
      /\ End(Mapped(required)) \in Nat \ {0}
  BY <1>5, <1>6, Mapping DEF FirstFree
<1>8. End(Mapped(required)) >= MinSegment
  <2>1. SegmentSize(required) >= MinSegment
    BY <1>3, <1>5, SegmentSizeFits
  <2> QED
    BY <1>7, <2>1 DEF RoomInv
<1> DEFINE end == End(Mapped(required))
<1>9. Appends(Mapped(required), required)
  <2>1. end \in Nat /\ end >= MinSegment
    BY <1>7, <1>8
  <2> HIDE DEF n, combined, total, end
  <2>2. end - FirstFree > required
    BY <1>2, <1>3, <1>5, <2>1
  <2> QED
    BY <1>7, <2>2 DEF Appends, end
<1>10. ~Compaction
  BY <1>4, <1>9 DEF Compaction, CompactionIn, Compacts
<1>11. /\ code.functions \in Seq(Functions) /\ Len(code.functions) \in Nat /\ code.capacity \in Nat
       /\ Live = ToSet(code.functions)
  <2>1. code.functions \in Seq(Functions) /\ Live = ToSet(code.functions)
    BY <1>6, ListIsPlaced DEF SegmentInv, Live
  <2>2. code.capacity \in Nat
    BY <1>6 DEF SegmentInv, SegmentOf, Segments
  <2> QED
    BY <2>1, <2>2
<1>12. Batch(batch, required) /\ ToSet(batch) \cap ToSet(code.functions) = {}
       /\ batch \in Seq(Functions)
  BY <1>4, <1>6, <1>11, FinishBatch DEF Batch
<1> DEFINE len == Len(code.functions)
           capacity == Grown(code.capacity, len + n)
<1>13. /\ End(code') = end
       /\ code'.functions = code.functions \o batch
       /\ code'.free = FirstFree + total
       /\ code'.capacity = capacity
       /\ status' = IF ListTakes(code, n) THEN "ok" ELSE "hung"
  BY <1>1, <1>4, <1>6, <1>7, <1>9, <1>12, PushAppends
<1>14. /\ code.capacity >= len + n \/ GrowCapacity(code.capacity) >= len + n
       /\ len + n <= capacity /\ capacity >= MinCapacity /\ capacity \in Nat
  <2>1. /\ len \in Nat /\ len <= code.capacity
        /\ code.capacity # 0 => code.capacity >= MinCapacity
    BY <1>11 DEF RoomInv
  <2>2. n \in Nat /\ n >= 1 /\ n <= MinCapacity
    <3> HIDE DEF n
    <3> QED
      BY <1>2, <1>3
  <2> HIDE DEF n, len
  <2> QED
    BY <1>3, <1>11, <2>1, <2>2, RoomOnList
<1>15. status' = "ok"
  BY <1>13, <1>14 DEF ListTakes
<1>16. Len(code'.functions) = len + n
  BY <1>11, <1>12, <1>13, ConcatProperties
<1>17. ~Compiling' /\ End(code') # 0 /\ FirstFree' = FirstFree + total
  <2>1. end \in Nat \ {0}
    BY <1>7
  <2>2. End(code') # 0
    BY <1>13, <2>1
  <2> QED
    BY <1>1, <1>13, <2>2 DEF Compiling, FirstFree
<1> HIDE DEF n, total, combined, len, capacity, end
<1>18. RoomAfter(l)'
  <2> DEFINE k == compiles * InputSize(l)
  <2>1. k \in Nat /\ FirstFree + combined + total <= 1 + k
    BY <1>2
  <2> HIDE DEF k
  <2>2. (FirstFree + total) + combined <= 1 + k
    BY <1>2, <1>3, <2>1
  <2>3. FirstFree' + combined <= 1 + k
    BY <1>17, <2>2
  <2> QED
    BY <1>1, <2>3 DEF RoomAfter, k, combined
<1>19. /\ Len(code'.functions) <= code'.capacity
       /\ code'.capacity # 0 => code'.capacity >= MinCapacity
  BY <1>13, <1>14, <1>16
<1>20. End(code') >= MinSegment
  BY <1>8, <1>13 DEF end
<1>21. TotalFootprint(ToSet(compiledFunctions'.functions)) <= (l + 1) * Len(compiledFunctions'.functions)
  BY <1>2 DEF total, n
<1> QED
  BY <1>1, <1>10, <1>15, <1>17, <1>18, <1>19, <1>20, <1>21 DEF RoomInv

\* A collection takes nothing more.
LEMMA RoomCollect ==
    ASSUME CodeSegmentAssumption, GrowthCollects = FALSE, CodeInv, Roomy, NEW l, Longest(l),
           RoomInv(l), collectGarbage
    PROVE  RoomInv(l)'
<1>1. /\ status' = "ok" /\ End(code') = End(code) /\ code'.free = code.free
      /\ code'.capacity = code.capacity /\ Len(code'.functions) <= Len(code.functions)
      /\ SegmentInv'
  BY CollectPlaces DEF CodeInv
<1>2. UNCHANGED <<compiledFunctions, current, compiles>> /\ Compiling' = Compiling
  BY DEF collectGarbage, Compiling
<1>3. FirstFree' = FirstFree
  BY <1>1 DEF FirstFree
<1>4. Len(code'.functions) <= code'.capacity
  <2>1. /\ Len(code.functions) \in Nat /\ code.capacity \in Nat
        /\ Len(code'.functions) \in Nat
    <3>1. code.functions \in Seq(Functions) /\ code.capacity \in Nat
      BY DEF CodeInv, SegmentInv, SegmentOf, Segments
    <3>2. code'.functions \in Seq(Functions)
      BY <1>1 DEF SegmentInv, SegmentOf, Segments
    <3> QED
      BY <3>1, <3>2
  <2> QED
    BY <1>1, <2>1 DEF RoomInv
<1> QED
  BY <1>1, <1>2, <1>3, <1>4 DEF RoomInv, RoomWhile, RoomAfter

\* With enough room no step compacts, and every step leaves enough.
LEMMA RoomStep ==
    ASSUME CodeSegmentAssumption, CompilationAssumption, GrowthCollects = FALSE,
           Roomy, NEW l, Longest(l), CodeInv, RoomInv(l), [Next]_vars
    PROVE  CodeInv' /\ RoomInv(l)'
<1>1. CASE compile
  <2>1. ~Compaction
    BY <1>1 DEF compile, Compaction, finish
  <2> QED
    BY <1>1, <2>1, RoomCompile, CodeStep
<1>2. CASE function
  <2>1. ~Compaction
    BY <1>2 DEF function, Compaction, finish
  <2> QED
    BY <1>2, <2>1, RoomFunction, CodeStep
<1>3. CASE endCompiler
  <2>1. ~Compaction
    BY <1>3 DEF endCompiler, Compaction, finish
  <2> QED
    BY <1>3, <2>1, RoomEndCompiler, CodeStep
<1>4. CASE reject
  <2>1. ~Compaction
    BY <1>4 DEF reject, Compaction, finish
  <2> QED
    BY <1>4, <2>1, RoomReject, CodeStep
<1>5. CASE finish
  BY <1>5, RoomFinish, CodeStep
<1>6. CASE collectGarbage
  <2>1. ~Compaction
    BY <1>6 DEF collectGarbage, Compaction, finish
  <2> QED
    BY <1>6, <2>1, RoomCollect, CodeStep
<1>7. CASE addConstant \/ errorAt \/ start_script \/ endOfScript \/ UNCHANGED vars
  <2>1. /\ UNCHANGED <<code, status, compiledFunctions, current, compiles>>
        /\ Compiling' = Compiling
    BY <1>7 DEF addConstant, errorAt, start_script, endOfScript, vars, Compiling
  <2>2. ~Compaction
    BY <1>7 DEF addConstant, errorAt, start_script, endOfScript, vars, Compaction, finish
  <2> QED
    BY <2>1, <2>2, RoomStays, CodeStep
<1> QED
  BY <1>1, <1>2, <1>3, <1>4, <1>5, <1>6, <1>7 DEF Next

\* The invariants have all variables in their types.
LEMMA RoomTypeOK ==
    ASSUME CodeSegmentAssumption, CompilationAssumption, CodeInv, NEW l, RoomInv(l)
    PROVE  TypeOK
<1> DEFINE n == End(code)
<1>1. /\ code \in Segments(n) /\ n \in Nat /\ Paged(code) /\ code.writable <= n
      /\ Multiple(code.writable)
      /\ n = 0 => code.free = 0 /\ code.available = 0
      /\ n > 0 => Laid(code, n, code.functions)
  BY DEF CodeInv, SegmentInv, SegmentOf, Multiple, Paged
<1>2. DOMAIN code.memory = 0..(n - 1) /\ \A i \in DOMAIN code.memory : code.memory[i] \in Words
  BY <1>1 DEF Segments
<1> HIDE DEF n
<1>3. code.free \in 0..n /\ code.available \in 0..n
  <2>1. CASE n = 0
    BY <1>1, <2>1
  <2>2. CASE n > 0
    <3>1. /\ code.free \in 1..n /\ code.free >= 1 + TotalFootprint(ToSet(code.functions))
          /\ code.available = n - 1 - TotalFootprint(ToSet(code.functions))
          /\ TotalFootprint(ToSet(code.functions)) \in Nat
      BY <1>1, <2>2, Measures DEF Laid, Accounted
    <3> QED
      BY <1>1, <3>1
  <2> QED
    BY <1>1, <2>1, <2>2
<1>4. code.exec \subseteq Pages(DOMAIN code.memory)
  <2>1. code.writable \in Nat /\ code.exec = Pages(0..(code.writable - 1))
    BY <1>1 DEF Segments, Paged
  <2>2. 0..(code.writable - 1) \subseteq 0..(n - 1)
    BY <1>1, <2>1
  <2> QED
    BY <1>2, <2>1, <2>2 DEF Pages
<1>5. code.writable \in 0..n /\ code.writable % PageSize = 0
  BY <1>1 DEF Multiple
<1>6. code.place \in [Functions -> Nat \cup {Nowhere}]
  BY <1>1 DEF Segments
<1>7. CodeSegmentTypeOK
  BY <1>2, <1>3, <1>4, <1>5, <1>6 DEF CodeSegmentTypeOK, RoomInv, Words, n
<1>8. /\ HeapInv /\ CompiledInv /\ PhaseInv /\ PlacesInv
  BY DEF CodeInv, IInv
<1>9. \A f \in DOMAIN functions :
          functions[f] \in [code : {NULL, Segment, f}, isExecutable : BOOLEAN,
                            constants : SUBSET Functions]
  BY <1>8 DEF HeapInv, PlacesInv, Descriptions
<1>10. current \in Seq(Functions) /\ gcRoots \in Seq(Functions) /\ held \subseteq Functions
  BY <1>8 DEF HeapInv
<1> QED
  BY <1>7, <1>8, <1>9, <1>10 DEF TypeOK, HeapInv, PhaseInv, PlacesInv

\* With room for all inputs, nothing ever fails.
LEMMA RoomAlways ==
    ASSUME GrowthCollects = FALSE, Roomy
    PROVE  Spec => [](CodeInv /\ PushesSucceed /\ TypeOK)
<1>1. PICK l : Longest(l)
  BY DEF Roomy, Longest
<1>2. Init => CodeInv /\ RoomInv(l)
  BY <1>1, CodeInit, RoomInit, CodeSegmentAssumption
<1>3. CodeInv /\ RoomInv(l) /\ [Next]_vars => CodeInv' /\ RoomInv(l)'
  BY <1>1, RoomStep, CodeSegmentAssumption, CompilationAssumption
<1>4. CodeInv /\ RoomInv(l) => CodeInv /\ PushesSucceed /\ TypeOK
  BY RoomTypeOK, CodeSegmentAssumption, CompilationAssumption DEF RoomInv, PushesSucceed
<1> QED
  BY <1>2, <1>3, <1>4, PTL DEF Spec

\* If the segment has room for all inputs and no input has more functions than
\* the list has room for at first, then no push hangs, faults, compacts or aborts
\* (code.c:260 to 322).
THEOREM PushesAlwaysSucceed ==
    ASSUME GrowthCollects = FALSE, Roomy
    PROVE  Spec => []PushesSucceed
<1>1. Spec => [](CodeInv /\ PushesSucceed /\ TypeOK)
  BY RoomAlways
<1> QED
  BY <1>1, PTL

\* Then all variables keep their types as well: a function has its code nowhere, in the
\* segment or in a block of its own, and the list and the roots are of functions.
THEOREM CompilationTypes ==
    ASSUME GrowthCollects = FALSE, Roomy
    PROVE  Spec => []TypeOK
<1>1. Spec => [](CodeInv /\ PushesSucceed /\ TypeOK)
  BY RoomAlways
<1> QED
  BY <1>1, PTL

\* Nor is any hypothesis on the steps needed then: code is intact and executable,
\* the list is sorted, and space and blocks are accounted for.
THEOREM CodeIsManaged ==
    ASSUME GrowthCollects = FALSE, Roomy
    PROVE  Spec => [](CodeIntact /\ CodeExecutable /\ FunctionsSorted /\ AvailableExact
                      /\ BlocksAccounted)
<1>1. Spec => [](CodeInv /\ PushesSucceed /\ TypeOK)
  BY RoomAlways
<1>2. CodeInv => CodeIntact /\ CodeExecutable /\ FunctionsSorted /\ AvailableExact /\ BlocksAccounted
  BY SegmentShows, CodeSegmentAssumption DEF CodeInv, PlacesInv
<1> QED
  BY <1>1, <1>2, PTL
=============================================================================
