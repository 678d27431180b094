---------------------------- MODULE CodeSegment ----------------------------
(***************************************************************************)
(* The memory that holds the machine code of all functions (code.c): the   *)
(* functions of one compilation are copied behind the older ones, each     *)
(* followed by a red zone, pages are flipped between writable and          *)
(* executable, the collector takes dead functions off the list, and the    *)
(* segment is compacted when the space left at its end runs out.           *)
(*                                                                         *)
(* Addresses are cells of one instruction, counted from code->start.       *)
(***************************************************************************)
EXTENDS Integers, Sequences, SequencesExt, FiniteSetsExt

CONSTANTS
    Functions,
    Size,           \* the number of instructions of each function
    PageSize,       \* cells in a page
    MinSegment,     \* MINIMUM_SEGMENT_SIZE, in cells
    MinCapacity,    \* the 8 of GROW_CAPACITY
    isREPL,         \* are more lines to follow the first?
    UDF,            \* the undefined instruction that fills red zones
    Zero,           \* what mmap fills pages with
    Nowhere         \* the place of a function that is not in the segment

ASSUME CodeSegmentAssumption ==
    /\ Size \in [Functions -> Nat \ {0}]
    /\ PageSize \in Nat \ {0} /\ MinCapacity \in Nat \ {0} /\ isREPL \in BOOLEAN
    /\ MinSegment \in Nat /\ MinSegment % PageSize = 0
    /\ Nowhere \notin Nat

VARIABLES
    code,       \* vm.code, the memory it points to and its protection
    status      \* "ok" until the program stops, or does not

JIT_RED_ZONE == 1

RoundUp(n) == ((n + PageSize - 1) \div PageSize) * PageSize
RoundDown(n) == (n \div PageSize) * PageSize

End(c) == Cardinality(DOMAIN c.memory)
Footprint(f) == Size[f] + JIT_RED_ZONE

\* The cells that f takes, as pairs: those of several functions can be counted.
Space(f) == {f} \X (0..(Footprint(f) - 1))
TotalFootprint(S) == Cardinality(UNION {Space(f) : f \in S})
Cells(f, at) == at..(at + Size[f] - 1)
Pages(cells) == {i \div PageSize : i \in cells}

\* Cells whose page mprotect has made PROT_EXEC cannot be written.
CanWrite(c, cells) == Pages(cells) \cap c.exec = {}

\* Copies the code of f to a cell of c, and fills the red zone after it.
Write(c, f, at) ==
    [c EXCEPT !.place[f] = at,
              !.memory = [i \in DOMAIN @ |->
                    IF i \in Cells(f, at) THEN <<f, i - at>>
                    ELSE IF i \in (at + Size[f])..(at + Footprint(f) - 1) THEN UDF
                    ELSE @[i]]]
-----------------------------------------------------------------------------
createInitialSegment(c, size) ==
    [c EXCEPT !.memory = [i \in 0..(size - 1) |-> IF i < JIT_RED_ZONE THEN UDF ELSE Zero],
              !.free = JIT_RED_ZONE,
              !.writable = 0,
              !.available = size - JIT_RED_ZONE]

\* Fault: pages are only ever made executable.
setWritable_RightOnly(c, from) ==
    IF c.writable < from
    THEN [c EXCEPT !.writable = from, !.exec = @ \cup Pages(c.writable..(from - 1))]
    ELSE c

\* Moves the border between executable and writable pages.
setWritable(c, from) ==
    [c EXCEPT !.writable = from,
              !.exec = IF c.writable > from THEN @ \ Pages(from..(c.writable - 1))
                       ELSE @ \cup Pages(c.writable..(from - 1))]

makeSegmentWritable(c) == [c EXCEPT !.exec = {}, !.writable = 0]

\* Faults: no red zone between two functions; the space used is not deducted.
writeOne_NoRedZone(c, f) ==
    [Write(c, f, c.free) EXCEPT !.free = @ + Size[f], !.available = @ - Size[f]]

writeOne_KeepsAvailable(c, f) == [Write(c, f, c.free) EXCEPT !.free = @ + Footprint(f)]

\* One round of the loop of writeNewFunctions.
writeOne(c, f) ==
    [Write(c, f, c.free) EXCEPT !.free = @ + Footprint(f), !.available = @ - Footprint(f)]

\* Writes the functions of the batch from c.free on, in order.
writeNewFunctions(c, batch) ==
    LET written[n \in 0..Len(batch)] ==
          IF n = 0 THEN c ELSE writeOne(written[n - 1], batch[n])
    IN  written[Len(batch)]

\* Where function i of the list comes to lie when all before it are packed.
Packed(c, i) == JIT_RED_ZONE + TotalFootprint(ToSet(SubSeq(c.functions, 1, i - 1)))

\* The first function that is not at its packed place. The loop that looks for
\* it (code.c:171) has no end of its own: none is the function after the last.
FirstMoved(c) ==
    Min({i \in 1..Len(c.functions) : c.place[c.functions[i]] # Packed(c, i)}
        \cup {Len(c.functions) + 1})

\* The second loop advances twice, at code.c:175 and at code.c:189: it moves
\* every other function, and steps over the end if their number is odd.
RunsOverEnd(c) ==
    LET n == Len(c.functions) - FirstMoved(c) + 1
    IN  n = 0 \/ n % 2 = 1

copyFunctionCode(c) ==
    LET first == FirstMoved(c)
        move(sofar, k) ==
          LET f == c.functions[first + 2 * (k - 1)]
          IN  [sofar EXCEPT
                 !.place[f] = sofar.free,
                 !.free = @ + Footprint(f),
                 !.memory = [i \in DOMAIN @ |->
                    IF i \in Cells(f, sofar.free) THEN @[sofar.place[f] + (i - sofar.free)]
                    ELSE IF i \in (sofar.free + Size[f])..(sofar.free + Footprint(f) - 1) THEN UDF
                    ELSE @[i]]]
        moved == FoldLeft(move, [c EXCEPT !.free = Packed(c, first)],
                          [k \in 1..((Len(c.functions) - first + 1) \div 2) |-> k])
    IN  [moved EXCEPT !.available = End(c) - moved.free]

compactExisting(c) == copyFunctionCode(makeSegmentWritable(c))

GrowCapacity(n) == IF n < MinCapacity THEN MinCapacity ELSE 2 * n

\* Fault: the last page stays writable.
ToExecutable_RoundDown(c) == setWritable(c, RoundDown(c.free))

ToExecutable(c) == setWritable(c, RoundUp(c.free))

\* The three ways through codePushFunctions once there is a segment.
Appends(c, required) == End(c) - c.free > required
Compacts(c, required) == ~Appends(c, required) /\ c.available >= required

\* The list must take them too: its new capacity is computed from the old one
\* in every round of the loop, which never ends if one doubling is too little.
ListTakes(c, n) ==
    c.capacity >= Len(c.functions) + n \/ GrowCapacity(c.capacity) >= Len(c.functions) + n

append(c, batch) ==
    LET written == writeNewFunctions(setWritable(c, RoundDown(c.free)), batch)
        n == Len(c.functions) + Len(batch)
    IN  [ToExecutable(written) EXCEPT
            !.functions = @ \o batch,
            !.capacity = IF @ < n THEN GrowCapacity(@) ELSE @]

\* The new functions do not join the list.
compactAndWrite(c, batch) == ToExecutable(writeNewFunctions(compactExisting(c), batch))

\* The batch and its red zones; combinedSize counts bytes, yet is multiplied
\* by the size of an instruction once more.
RequiredCells(batch, combinedSize) == Len(batch) * JIT_RED_ZONE + combinedSize

SegmentSize(required) ==
    LET size == required + JIT_RED_ZONE
    IN  RoundUp(IF ~isREPL THEN size ELSE IF size < MinSegment THEN MinSegment ELSE 2 * size)

\* The first call maps the segment.
Mapped(required) ==
    IF End(code) = 0 THEN createInitialSegment(code, SegmentSize(required)) ELSE code

codePushFunctions(batch, combinedSize) ==
    LET required == RequiredCells(batch, combinedSize)
        c == Mapped(required)
        target == c.free..(c.free + TotalFootprint(ToSet(batch)) - 1)
    IN  \/ /\ Appends(c, required)
           /\ code' = append(c, batch)
           /\ status' = IF ~CanWrite(setWritable(c, RoundDown(c.free)), target) THEN "fault"
                        ELSE IF ListTakes(c, Len(batch)) THEN "ok" ELSE "hung"
        \/ /\ Compacts(c, required) /\ RunsOverEnd(c)
           /\ code' = c /\ status' = "undefined"
        \/ /\ Compacts(c, required) /\ ~RunsOverEnd(c)
           /\ code' = compactAndWrite(c, batch) /\ status' = "ok"
        \/ /\ ~Appends(c, required) /\ ~Compacts(c, required)
           /\ code' = c /\ status' = "aborted"
-----------------------------------------------------------------------------
Live == {f \in Functions : code.place[f] # Nowhere}

initCode ==
    /\ code = [memory |-> [i \in {} |-> Zero], exec |-> {}, free |-> 0, writable |-> 0,
               available |-> 0, functions |-> <<>>, capacity |-> 0,
               place |-> [f \in Functions |-> Nowhere]]
    /\ status = "ok"

\* What the loop of codeRemoveWhite leaves on the list, in the order it had.
Kept(list, dead) ==
    LET kept[n \in 0..Len(list)] ==
          IF n = 0 THEN <<>>
          ELSE IF list[n] \in dead THEN kept[n - 1]
          ELSE Append(kept[n - 1], list[n])
    IN  kept[Len(list)]

\* Faults: the space of dead functions stays lost; functionCount stays.
codeRemoveWhite_KeepsAvailable(dead) == [code EXCEPT !.functions = Kept(@, dead)]

codeRemoveWhite_KeepsCount(dead) ==
    [code EXCEPT !.available = @ + TotalFootprint(dead \cap ToSet(code.functions))]

\* Dead functions leave the list, and their space is available again.
codeRemoveWhite(dead) ==
    [code EXCEPT !.functions = Kept(@, dead),
                 !.available = @ + TotalFootprint(dead \cap ToSet(code.functions))]

\* The same, and the functions themselves are gone.
Without(dead) ==
    [codeRemoveWhite(dead) EXCEPT
        !.place = [f \in Functions |-> IF f \in dead THEN Nowhere ELSE @[f]]]
-----------------------------------------------------------------------------
(* Properties *)

CodeSegmentTypeOK ==
    /\ \A i \in DOMAIN code.memory :
          code.memory[i] \in {UDF, Zero} \cup UNION {{f} \X (0..(Size[f] - 1)) : f \in Functions}
    /\ code.exec \subseteq Pages(DOMAIN code.memory)
    /\ code.free \in 0..End(code) /\ code.available \in 0..End(code)
    /\ code.writable \in 0..End(code) /\ code.writable % PageSize = 0
    /\ code.place \in [Functions -> Nat \cup {Nowhere}]
    /\ Len(code.functions) <= code.capacity
    /\ status \in {"ok", "hung", "fault", "undefined", "aborted"}

\* The code of every live function is where the function says it is, complete,
\* with a red zone of invalid instructions on both sides (code.h:7-9).
CodeIntact ==
    \A f \in Live :
        LET at == code.place[f]
        IN  /\ \A i \in Cells(f, at) : code.memory[i] = <<f, i - at>>
            /\ code.memory[at - 1] = UDF /\ code.memory[at + Size[f]] = UDF

\* Between compilations every page with code can be executed, and no page
\* behind "writable" can, so that the next write does not fault.
CodeExecutable ==
    status = "ok" =>
        /\ \A f \in Live : Pages(Cells(f, code.place[f])) \subseteq code.exec
        /\ code.exec = Pages(0..(code.writable - 1))

\* The list holds the live functions, sorted by code start address (code.h:19).
FunctionsSorted ==
    /\ ToSet(code.functions) = Live
    /\ \A i, j \in DOMAIN code.functions :
          i < j => code.place[code.functions[i]] < code.place[code.functions[j]]

\* "available" is what a perfect compaction would free.
AvailableExact ==
    End(code) > 0 => code.available = End(code) - JIT_RED_ZONE - TotalFootprint(Live)

\* Installing code neither hangs nor ends the program.
PushesSucceed == status = "ok"
=============================================================================
