---------------------------- MODULE Compilation ----------------------------
(***************************************************************************)
(* One input after the other through compile and interpret, allocation by  *)
(* allocation: functions are made from the outside in and finished from    *)
(* the inside out, become constants of the enclosing function, and move    *)
(* from blocks of malloc to the segment of CodeSegment. Every allocation   *)
(* may collect garbage, which finds functions through the compilers in     *)
(* progress (markCompilerRoots) and through what the program still holds.  *)
(***************************************************************************)
EXTENDS CodeSegment

CONSTANTS
    NULL,           \* chunk.code before the first instruction
    Segment,        \* chunk.code points into vm.code, to the place of the function
    Garbage,        \* what isExecutable of a new function may read as
    GrowthCollects, \* can a collection start while only pushGCRoot holds a function?
    MaxBatch,       \* bound: functions in one input
    MaxCompiles     \* bound: inputs

ASSUME CompilationAssumption ==
    /\ Garbage \subseteq BOOLEAN /\ GrowthCollects \in BOOLEAN
    /\ NULL # Segment /\ {NULL, Segment} \cap Functions = {}

VARIABLES
    functions,          \* the ObjFunctions that exist
    blocks,             \* malloc's blocks for chunk.code, by the function they were for
    current,            \* the functions of the compilers in progress, innermost last
    compiledFunctions,  \* the compiler's list, emptied when a compilation starts
    gcRoots,            \* the functions that are held by pushGCRoot
    held,               \* the functions with a closure in a global or on the stack
    phase,              \* where compile and interpret are
    hadError,
    rejected,           \* history: functions of inputs that had errors
    compiles

vars == <<code, status, functions, blocks, current, compiledFunctions, gcRoots, held,
          phase, hadError, rejected, compiles>>

\* What the functions in S reach in fs through the constants of their chunks: the
\* least set of functions that has them and is closed.
Closed(fs, T) == \A f \in T \cap DOMAIN fs : fs[f].constants \subseteq T
Reach(fs, S) ==
    {f \in Functions :
        \A T \in SUBSET Functions : (S \subseteq T /\ Closed(fs, T)) => f \in T}

BytesPerInstruction == 4

Fresh == Functions \ (DOMAIN functions \cup blocks)
-----------------------------------------------------------------------------
Init ==
    /\ initCode
    /\ functions = [f \in {} |-> NULL] /\ blocks = {}
    /\ current = <<>> /\ compiledFunctions = [functions |-> <<>>, combinedSize |-> 0]
    /\ gcRoots = <<>> /\ held = {}
    /\ phase = "prompt" /\ hadError = FALSE /\ rejected = {}
    /\ compiles = 0

\* newFunction sets all but isExecutable, and the function has a compiler at once.
initCompiler ==
    \E f \in Fresh, garbage \in Garbage :
        /\ functions' = [g \in DOMAIN functions \cup {f} |->
              IF g = f THEN [code |-> NULL, isExecutable |-> garbage, constants |-> {}]
              ELSE functions[g]]
        /\ current' = Append(current, f)
        /\ rejected' = rejected \ {f}

\* compile() up to its loop. It empties the list, but keeps combinedSize.
compile ==
    /\ status = "ok" /\ phase = "prompt"
    /\ compiles < MaxCompiles /\ (isREPL \/ compiles = 0)
    /\ initCompiler
    /\ compiledFunctions' = [compiledFunctions EXCEPT !.functions = <<>>]
    /\ hadError' = FALSE
    /\ compiles' = compiles + 1
    /\ phase' = "parsing"
    /\ UNCHANGED <<code, status, blocks, gcRoots, held>>

\* function() up to the end of the body.
function ==
    /\ phase = "parsing"
    /\ Len(current) + Len(compiledFunctions.functions) < MaxBatch
    /\ initCompiler
    /\ UNCHANGED <<code, status, blocks, compiledFunctions, gcRoots, held, phase, hadError,
                   compiles>>

errorAt ==
    /\ phase = "parsing" /\ ~hadError
    /\ hadError' = TRUE
    /\ UNCHANGED <<code, status, functions, blocks, current, compiledFunctions, gcRoots, held,
                   phase, rejected, compiles>>

\* writeChunk has put the code into a block of malloc, the return at the latest.
InBlock(f) == [functions EXCEPT ![f].code = f]

pushCompiledFunction(f) ==
    [functions |-> Append(compiledFunctions.functions, f),
     combinedSize |-> compiledFunctions.combinedSize + BytesPerInstruction * Size[f]]

\* endCompiler of an inner function, which then waits for its place among the
\* constants. A collection within finds it through its compiler, as before.
endCompiler ==
    /\ phase = "parsing" /\ Len(current) > 1
    /\ functions' = InBlock(Last(current))
    /\ blocks' = blocks \cup {Last(current)}
    /\ compiledFunctions' = pushCompiledFunction(Last(current))
    /\ current' = Front(current)
    /\ gcRoots' = <<Last(current)>>
    /\ phase' = "addConstant"
    /\ UNCHANGED <<code, status, held, hadError, rejected, compiles>>

addConstant ==
    /\ phase = "addConstant"
    /\ functions' = [functions EXCEPT ![Last(current)].constants = @ \cup {Last(gcRoots)}]
    /\ gcRoots' = <<>>
    /\ phase' = "parsing"
    /\ UNCHANGED <<code, status, blocks, current, compiledFunctions, held, hadError, rejected,
                   compiles>>

\* Faults of writeNewFunctions: the flag stays as it was; the block stays allocated.
Installed_NotExecutable(fs, moved) ==
    [f \in DOMAIN fs |-> IF f \in moved THEN [fs[f] EXCEPT !.code = Segment] ELSE fs[f]]

BlocksAfter_Kept(before, moved) == before

\* What writeNewFunctions does to the functions it copies, and to their blocks.
Installed(fs, moved) ==
    [f \in DOMAIN fs |->
        IF f \in moved THEN [fs[f] EXCEPT !.code = Segment, !.isExecutable = TRUE] ELSE fs[f]]

BlocksAfter(before, moved) == before \ moved

\* endCompiler of the script, the end of compile(), and pushGCRoot in interpret().
finish ==
    /\ phase = "parsing" /\ Len(current) = 1 /\ ~hadError
    /\ compiledFunctions' = pushCompiledFunction(Last(current))
    /\ codePushFunctions(compiledFunctions'.functions, compiledFunctions'.combinedSize)
    /\ LET moved == {f \in ToSet(compiledFunctions'.functions) : code'.place[f] # Nowhere}
       IN  /\ functions' = Installed(InBlock(Last(current)), moved)
           /\ blocks' = BlocksAfter(blocks \cup {Last(current)}, moved)
    /\ current' = <<>>
    /\ gcRoots' = current
    /\ phase' = "interpret"
    /\ UNCHANGED <<held, hadError, rejected, compiles>>

\* The same with errors: interpret() returns, and the functions are left alone.
reject ==
    /\ phase = "parsing" /\ Len(current) = 1 /\ hadError
    /\ compiledFunctions' = pushCompiledFunction(Last(current))
    /\ functions' = InBlock(Last(current))
    /\ blocks' = blocks \cup {Last(current)}
    /\ rejected' = rejected \cup ToSet(compiledFunctions'.functions)
    /\ current' = <<>>
    /\ phase' = "prompt"
    /\ UNCHANGED <<code, status, gcRoots, held, hadError, compiles>>

\* newClosure and the entry of start_script: the closure is on the stack, and
\* held by pushGCRoot as well until the script is over.
start_script ==
    /\ status = "ok" /\ phase = "interpret"
    /\ held' = held \cup ToSet(gcRoots)
    /\ phase' = "running"
    /\ UNCHANGED <<code, status, functions, blocks, current, compiledFunctions, gcRoots,
                   hadError, rejected, compiles>>

\* Until the script ends, by itself or by a runtime error, it has made closures
\* of functions it could reach, and dropped others.
endOfScript ==
    /\ phase = "running"
    /\ held' \in SUBSET (Reach(functions, held) \ ToSet(gcRoots))
    /\ gcRoots' = <<>>
    /\ phase' = "prompt"
    /\ UNCHANGED <<code, status, functions, blocks, current, compiledFunctions, hadError,
                   rejected, compiles>>
-----------------------------------------------------------------------------
\* Fault: only the innermost compiler is visited.
markCompilerRoots_Innermost(compilers) == {Last(compilers) : i \in DOMAIN compilers}

markCompilerRoots(compilers) == ToSet(compilers)

\* freeChunk leaves code alone that it takes for executable.
Freed(dead) == {f \in dead : ~functions[f].isExecutable /\ functions[f].code # NULL}

\* Allocations are made by newFunction, by what the parser writes and interns,
\* by addConstant, by newClosure and by the program. gcRoots is not marked.
collectGarbage ==
    /\ status = "ok"
    /\ phase \in {"prompt", "parsing", "running"}
                \cup (IF GrowthCollects THEN {"addConstant", "interpret"} ELSE {})
    /\ LET dead == DOMAIN functions \ Reach(functions, held \cup markCompilerRoots(current))
       IN  /\ code' = Without(dead)
           /\ status' = IF \E f \in Freed(dead) : functions[f].code = Segment
                        THEN "undefined" ELSE "ok"
           /\ blocks' = blocks \ Freed(dead)
           /\ functions' = [f \in DOMAIN functions \ dead |-> functions[f]]
    /\ UNCHANGED <<current, compiledFunctions, gcRoots, held, phase, hadError, rejected,
                   compiles>>

Next ==
    \/ compile \/ function \/ errorAt \/ endCompiler \/ addConstant \/ finish \/ reject
    \/ start_script \/ endOfScript \/ collectGarbage

Spec == Init /\ [][Next]_vars
-----------------------------------------------------------------------------
(* Properties *)

TypeOK ==
    /\ CodeSegmentTypeOK
    /\ DOMAIN functions \subseteq Functions /\ blocks \subseteq Functions
    /\ \A f \in DOMAIN functions :
          functions[f] \in [code : {NULL, Segment, f}, isExecutable : BOOLEAN,
                           constants : SUBSET Functions]
    /\ current \in Seq(Functions) /\ gcRoots \in Seq(Functions)
    /\ held \subseteq Functions /\ rejected \subseteq Functions
    /\ phase \in {"prompt", "parsing", "addConstant", "interpret", "running"}

\* Whatever collections a compilation lives through, the functions that it is
\* making, those it will install, the constants of both and all that the program
\* can call still exist (compiler.c:1144 to 1163, 1165).
NoDanglingFunctions ==
    LET compiled == IF phase \in {"parsing", "addConstant"} THEN compiledFunctions.functions ELSE <<>>
    IN  Reach(functions, held \cup ToSet(current) \cup ToSet(gcRoots) \cup ToSet(compiled))
            \subseteq DOMAIN functions

\* freeChunk does what the place of the code asks for: code in the segment is
\* that of a function that exists, is marked so and has no block any more, other
\* code is in a block of its own; and no block is lost but those of inputs that
\* were rejected, for which isExecutable was never set (chunk.c:8, chunk.c:19).
BlocksAccounted ==
    /\ \A f \in Live :
          f \in DOMAIN functions /\ functions[f].code = Segment /\ functions[f].isExecutable
    /\ \A f \in DOMAIN functions :
          /\ functions[f].code = Segment => f \in Live /\ f \notin blocks
          /\ functions[f].code = f => f \in blocks
    /\ {f \in blocks : f \in DOMAIN functions => functions[f].code # f} \subseteq rejected
=============================================================================
