# Verification of asmlox

asmlox compiles Lox straight to AArch64 code, with no syntax tree and no bytecode, and runs that code on the
machine stack. This directory holds TLA+ specifications of its parts, TLC runs of small instances, and
proofs about seven of them that TLAPS checks.

- [Inventory](#inventory): the parts of the program, their state, and what makes them correct
- [Modules](#modules): which module is which part, and how states and actions correspond to the code
- [Runs](#runs): what each run checks, with which bounds, and what it shows
- [Disagreements](#disagreements): what the code does and its documentation does not say
- [Fairness](#fairness), [Proofs](#proofs), [Plan](#plan), [What is left out](#what-is-left-out)

To repeat a run, take its module and cfg from `PROJECT.json` ("runs"): `tlc -config MCFrames.cfg MCFrames`,
`tlc -config MCCollector.cfg ObjectList`. To check the proofs: `tlapm FramesProofs.tla`, and so on for `CallsProofs`, `CollectorProofs`,
`CompilationProofs`, `GlobalsProofs`, `OperatorsProofs`, `Arm64Proofs` and `Recursion`.

## Inventory

The program is one process with one thread. Nothing is concurrent in it, but four activities interleave on
shared memory: the compiler writes code and allocates; generated code runs and calls handlers; handlers
allocate; and any allocation may start a collection, which reads the native stack, the tables and the compilers
in progress, and frees objects and code. A runtime error leaves all of it by `longjmp`. That is where the hard
behaviours are.

| Part | State | Operations | Correct when |
|---|---|---|---|
| calls and frames (`native/arm64.c`, `call.sx`, `return.sx`, `global.sx`, `print.sx`, `ops.c`, `vm.c`) | the machine stack, x29, x19 (closure), x20 (constants), x21 (`OP_TABLE`), x0/x1 | what each emitter makes; `op_call`, `op_return`, `start_script`, `runtimeError` | every function has its own variables, callers find theirs unchanged, C finds its registers unchanged |
| stack walk (`memory.c` `walkStack`) | none; reads frames | one walk in each collection | it marks every Value on the stack and nothing else |
| hash table (`table.c`) | count, capacity, entries with tombstones | set, get, delete, growth | present keys are found, searches end |
| globals (`global.sx`, `ops/global.c`) | `vm.globals` | define, get, set | names are bound as Lox says; a failed assignment leaves no trace |
| strings (`object.c`, `table.c`) | `vm.strings`, heap, `vm.initString` | `copyString`, `takeString`, `tableRemoveWhite` | equal texts are one object; no key is a freed object |
| code segment (`code.c`) | memory, page protection, `free`, `writable`, `available`, the list of functions | `codePushFunctions`, `codeRemoveWhite`, compaction | code of live functions is intact and executable, and the space is accounted for |
| collector (`memory.c`) | `vm.objects`, marks, the gray stack, `gcRoots` | `reallocate`, `collectGarbage`, `pushGCRoot`, `popGCRoot` | nothing usable is freed, all else is, and it ends |
| scanner (`scanner.c`) | start, current, line | `scanToken` | the tokens are the longest lexemes, with the lines they end on |
| compiler (`compiler.c`) | the parser: two tokens, `hadError`, `panicMode`; `current`: scopes, locals, arguments, the chunk | one function per construct | jumps go where they should, the locals it counts are on the stack, names mean what Lox says, errors are Lox's, but for the variable that may hide a parameter, and are reported where they are |
| ownership of functions (`compiler.c`, `chunk.c`, `code.c`, `vm.c`) | `current`, `compiledFunctions`, `chunk.code`, `isExecutable` | `initCompiler`, `endCompiler`, `addConstant`, `writeNewFunctions`, `freeChunk`, `interpret` | a function that is in use exists; its code is freed once, by who owns it |
| operators (`native/arm64/*.sx`, `ops.c`) | the Values on the stack, x0/x1 | one handler per operator, literals, the test of a condition | they compute what Lox promises, whatever the bits of nil, zero and NaN are |
| instruction encodings (`native/arm64.c`) | none | one function per instruction | a field holds the operand or the emitter refuses |
| value arrays, disassembler, build tools | | | see [What is left out](#what-is-left-out) |

How they interact:

- `compile()` fills `compiledFunctions`; `codePushFunctions` copies them into the segment at the end.
  Until then their code is in chunks, which belong to functions.
- Generated code keeps what `native/arm64/README.md` prescribes, and reaches handlers through `OP_TABLE`.
- A collection calls, in this order: `markRoots` (which calls `walkStack`), `traceReferences`,
  `tableRemoveWhite`, `codeRemoveWhite`, `sweep`. Each has its module; the seams are stated under
  [Modules](#modules).
- `interpret()` is called for a file or for every line of the REPL. `vm` survives a runtime error, and so do
  `compiledFunctions.combinedSize`, `gcRoots` and both tables.

`hazards` in PROJECT.json lists, line by line, what can go wrong here and a test would hardly reach.

## Modules

Every component has a module of its own. `MCx` modules only give constants their values. Operators whose
name has a suffix (`EndScope_NoPop`, with a comment that begins "Fault:") are plausible mistakes in the
definition they are named for. They are part of no specification; with one put in the place of its original, the run
that is named with it in PROJECT.json finds a violation.

### Frames, FramesRoots, FramesRefinement, LoxCalls: calls

`Frames` is the machine stack as a sequence of 16-byte slots with sp at its end, the registers of the calling
convention and the pc. A slot is a Value, a frame (x29 and return address), a spill (x19 and x20), or the
x21 that `start_script` saves. A pc is what the compiler knew when it emitted the instruction: the function, its number of
locals, its number of temporaries. There is one action per emitter or handler, and which one comes next is left open, as long
as the compiler could have emitted it: `GetLocal` for `emitGetLocal`, `Discard` for what pops one
value, `Operate` for unary and binary handlers, `Call`, `Return`, `Finish` for the end of the script,
`Unwind` for the `longjmp`. Slots are addressed as `arm64.c` computes them (`LocalSlot`, `ArgumentSlot`).

`LoxCalls` is what a Lox programmer is promised: a stack of activations, each with arguments, locals and
temporaries. `FramesRefinement` recovers the activations by following saved frame pointers from x29, and
`ImplementsLox` says that this is a behaviour of `LoxCalls`.

`FramesRoots` has `walkStack`, started in the frame of a handler, as it is wherever a handler
allocates. It and `FramesRefinement` follow the chain by recursive functions over the slots that hold frames
(`FrameSlots`): a frame leads to one in a lower slot.

### Table, Strings, Globals, GlobalVariables: tables

`Table` has no variables: it is `table.c` as operators on a record, with the real probing order and the
early `return` at a tombstone. `Strings` has interning over `vm.strings`, and the part of a collection that is about
strings; it takes what a collection has marked as a parameter. A collection is one action there; `Collector` is why it may be.

`Globals` composes the two tables: it extends `Strings` with `vm.globals` and the handlers of `global.sx`. Names are
addresses of strings in both tables, their hashes are read from the heap, and `markTable(globals)` is among the roots, so a
global keeps its name interned, a collection may come between any two handlers, and an address may be used again for
another text. It implements `GlobalVariables`, a function from texts, not from addresses, to values.

### CodeSegment, Compilation: code.c and who owns code

`CodeSegment` is `code.c`, as operators and one action on `vm.code`. Memory is cells of one instruction; a page is executable or
writable; `append` and `compactAndWrite` are the two ways through `codePushFunctions`. `writeOne` is a round of the loop of
`writeNewFunctions`, `Kept` what the loop of `codeRemoveWhite` leaves of the list. What hangs, faults, aborts or has
undefined behaviour in the code ends with that `status`.

`Compilation` extends it with the life of functions from `newFunction` to `freeChunk`: one input after the other, with one
action for each stretch of `compile` and `interpret` between two allocations. `current` is the stack of compilers in
progress. `collectGarbage` may come at each allocation; it marks what `markCompilerRoots` and the running program
reach through constants, and then does what `codeRemoveWhite` and `freeObject` do. `Garbage` is what
the uninitialized `isExecutable` of a new function may read as. `phase` "addConstant" and "interpret" are the two moments
when a function is held by `pushGCRoot` alone.

### Collector, ObjectList, Heap: memory.c

`Collector` is one object per step: `markRoots`, `traceReferences` and `sweep` visit their
objects in any order. `roots` is what `markRoots` visits; the program takes and drops roots (`Hold`), allocates, changes
references (`Assign`), and calls `pushGCRoot` and `popGCRoot`. An allocation does not have to collect, and
`collectGarbage` may come at any time, so the byte count that triggers it is not needed.

`ObjectList` extends it with the pointers: `vm.objects` (`first`), the `next` of every object, and the two local variables of
`sweep`. `Push` is what `allocateObject` does to the list, and `listSweep` a round of the loop of `sweep`, which takes the list apart where it
stands. `ImplementsCollector` says that this walk is a sweep of the set, in one of the orders that `Collector` leaves open.

`Heap` is the promise: unreachable objects vanish at once. `ImplementsHeap` maps a collection to
one `Heap!Collect`, at the step where `traceReferences` ends: an object is gone as soon as it is certain that `sweep` will free it.

The seams: that the values on the stack are among `roots` is `WalkMarksExactlyTheValues` of `FramesRoots`; what happens
between `traceReferences` and `sweep` is `collectGarbage` of `Strings` and of `Compilation`.

### Scanner, Compiler, Arm64, CompiledCode, LoxSyntax, LoxStatements: from characters to events

`Scanner` has one operator per function of `scanner.c`, over strings of characters. `Compiler` has one per
function of `compiler.c`, from a compiler record to the next: the two tokens of the parser, panic and recovery, precedences,
`canAssign`, functions in functions, captured variables up to the assertion they end at, and the limits of 256. An emitter of
`arm64.c` adds one instruction, whatever its number of words; its operand is an address or an offset as
`Arm64` computes it: with the width and the sign of the field of the real instruction, and with the other sequence that is
emitted beyond the 30th local and the 31st argument. An instruction keeps the numbers of locals and of
temporaries that the compiler counts on: the points of `Frames`.

`CompiledCode` is the whole way in three steps: `scan`, `interpret` (which compiles), and then `Run`, one instruction after the other on the
stack of activations. `events` is what the code prints, tests, calls and returns. Operators are not computed: a
value tells what was applied to what.

The other side is written without looking at how the code does it. `LoxSyntax` has the lexemes of a text as longest matches, and the
grammar of Lox as sets of trees that a sequence of tokens may stand for (`Meanings`). `LoxStatements` says, over a tree, which
events are right (`Events`) and what is forbidden (`Forbidden`). Two peculiarities of asmlox are taken over there: words of
classes, `and` and `or` are no part of the grammar, as the compiler stops at an assertion for them; and a variable of a function may have
the name of a parameter, which is wrong in Lox, if `MayHideParameter` is TRUE.

`Frames` leaves open which action comes next, and relies on the points; `CompiledCode` has real control flow and
shows (`HeightsMatch`) that the points are true on every path.

### Operators, LoxOperators, Doubles: the operators

`Operators` is the data that `Frames` leaves open: a Value is a type and a word, and a handler is a function of two of them by way of
comparisons and condition flags. Literals, assignments and conditions are there because they make and read the words: `emitNil` leaves x1 as it
was, and an assignment then stores it. `LoxOperators` has one nil, and the operators by their meaning. `Doubles` stands for
the processor's arithmetic, with three magnitudes and NaN; both sides use it, so what is compared is the order of operands, the types,
the conditions and the words, not arithmetic.

## Runs

Runs that pass:

| Run | States | Bounds | Shows |
|---|---|---|---|
| MCFrames | 165,632 | functions of one and two parameters, one local and three temporaries each, a call only with at most 12 slots in use | the whole of `Frames` and its refinement |
| MCGlobals | 157,176 | four texts and "init", five addresses, two values, both tables of capacity 4 growing to 8, as GROW_CAPACITY but from 4 | strings and variables under a collector |
| MCCodeSegment | 94,879 | functions of one, two and three instructions, pages of four, three inputs of at most two functions, `isExecutable` read as either value | appending, page protection, dead and rejected functions |
| MCCollector | 1,075,138 | three objects, in a list of any order, any references, `gcRoots` of depth 1 | any number of collections of any graph |
| MCCompiler | 103,137 | 11,152 sources; functions of 1, 29 and 30 locals, of 30 to 40 parameters, and up to 257 constants; eight events | from characters to what a program does |
| MCOperators | 34,621 | three values at a time; doubles are zero, one, infinity, NaN with both signs; five texts, two functions | types, words and flags in the handlers |

Why the bounds are enough:

- MCFrames: offsets depend on the arity of a function, its locals, and the function that calls. Twelve slots
  hold the script, a call from it and a call from there, so a frame is left
  into a function and into the script, with every combination of arities, a local below and temporaries in
  between. A frame treats those below it alike, and `FramesProofs` lifts the bounds.
- MCGlobals: there are chains, a chain that wraps around, a name whose home is in the middle of another chain,
  tombstones, growth with a tombstone in the table, and addresses that are used again for another text. The next growth
  would copy in the same way. `Places` gives each text the addresses it may have, such that only some texts ever die, and no two of
  them in the same chain: what happens otherwise is MCStringsChain. `GlobalsProofs` lifts the bounds, and needs
  this about mortal strings for `NoDanglingKeys` alone.
- MCCodeSegment: sizes make code end at, before and after a page boundary. `MinSegment` is enough for
  all inputs, so that nothing is compacted (it satisfies the `Roomy` of `CompilationProofs`), and no input has more functions than one doubling of the list has room for; the two
  Disagreements below are what happens otherwise. Three inputs are enough for an accepted one after a rejected one and
  a call of an old function after both; two functions are enough for one to wait while the other is being compiled.
  `CompilationProofs` lifts these bounds.
- MCCollector: with three objects there are cycles, a cycle that hangs on a root, one that does not, garbage that refers to
  live objects, and reuse of an address; the first, a middle and the last object of the list go, alone or together, or all of
  them. `CollectorProofs` lifts the bound.
- MCOperators: every pair of operands occurs, in every way to make them, and a local below. `OperatorsProofs` lifts the
  bounds on the stack, on texts and on functions.
- MCCompiler: its sources are several families, each for one question. `Statements`: two deep, over two names, so that there is
  shadowing, and every construct stands within every other. `Calls`: operators within operators, and as arguments. `Functions`: functions
  in functions, with the variables of both. `Lexical`: characters and near keywords in any order, four at most. `Edits`: right programs with a token
  left out, put in or replaced. The word `tar` is left out, and is `MCTar`. `Lines`: right and wrong lines in any order, for `Recovers`; there each line ends with a semicolon, and none
  begins with what could continue the one before. `AtLimits`: around the
  numbers at which the emitters change to another sequence, and at which `makeConstant` refuses. Eight events are enough for a loop to
  test and print in several rounds; a program that goes on is compared up to there.

The `GrowthCollects = FALSE` of MCGlobals and MCCodeSegment excludes collections at the moments when only `pushGCRoot` holds an
object. It holds nothing, which is MCCollectorRoots.

MCCompiler, MCCompilerManyLocals, MCCodeSegmentBatch and MCCodeSegmentCompact do not check for deadlock: a program ends, and so
does one that has aborted or hung, or that has had its last input. No other run turns the check off.

Properties (each is stated in its module, above its definition):

- `TypeOK` in every module.
- Frames: `StackDiscipline`, `RegistersMatchCode`, `TopInAcc`, `WalkMarksExactlyTheValues`,
  `RunningClosuresRooted`, and `ImplementsLox`.
- Tables: `SearchesEnd`, `NamesFound`, `ImplementsGlobalVariables`, `InternedOnce`, `NoDanglingKeys`.
- Code: `CodeIntact`, `CodeExecutable`, `FunctionsSorted`, `AvailableExact`, `PushesSucceed`,
  `NoDanglingFunctions`, `BlocksAccounted`.
- Collector: `NoDanglingPointers`, `ListIsObjects`, `ImplementsCollector`, `ImplementsHeap`, `CollectionEnds`.
- Operators: `ImplementsLoxOperators`.
- Compiler: `TokensRight`, `EventsAgree`, `HeightsMatch`, `Rejections`, `Recovers`, `Finishes`.

## Disagreements

Six runs are expected to find a violation. Each shows a place where the code does something else than its documentation says.

| Run | Property | What happens |
|---|---|---|
| MCFramesScriptLocals | `ImplementsLox` | a variable in a block of top-level code is the script's closure: `call_closure_no_args` pushes one slot more than `emitGetLocal` counts on |
| MCCompilerManyLocals | `EventsAgree` | the 31st local of a function is read one slot too low, and an assignment to it stores another value in another variable |
| MCStringsChain | `NoDanglingKeys` | two strings of one chain die together; `tableDelete` of the second stops at the tombstone of the first, and a freed key stays |
| MCCodeSegmentBatch | `PushesSucceed` | more new functions than one doubling of the list has room for: the loop at `code.c:298` never ends |
| MCCodeSegmentCompact | `CodeIntact` | compaction moves every other function, as its loop advances twice |
| MCCollectorRoots | `NoDanglingPointers` | `markRoots` does not visit `gcRoots` |

The passing runs hold on the other side of each line: `ScriptLocals = FALSE`, at most 30 locals where they are used, `Places` that
keep mortal strings apart, small inputs, `GrowthCollects = FALSE` and `GCRootsAlone = FALSE`. MCCompiler stays on this side of two
of those below: `MayHideParameter = TRUE`, and no `tar`.

More that other constants show, or the proofs, and that has no run:

- `GrowthCollects = TRUE` in Globals: the string that `allocateString` holds by `pushGCRoot` is freed
  when `tableSet` collects. In Compilation: the script is freed before it has its closure (`vm.c:57`), and an inner function
  before it is a constant (`chunk.c:43`). The cause is that of MCCollectorRoots.
- A conditional jump over 32768 instructions or more goes to a wrong place: `branch_conditional` (`arm64.c:117`) keeps 15 bits of an offset,
  `patchConditionalJump` (`arm64.c:363`) accepts 26, and no caller looks at a `GenResult`. No source of a run is that
  long; the theorem `ConditionalJumpExact` says it of all.
- A function of a rejected input whose `isExecutable` happens to read as true loses its code: `freeChunk` takes it for the segment's (`chunk.c:8`, `chunk.c:19`).
  This is why `BlocksAccounted` speaks of rejected inputs.
- `MayHideParameter = FALSE` in MCCompiler: `Rejections` is violated by `fun f(x){ ... var x=3; }`, which is accepted. `declareVariable` compares with the
  locals only, and the comment in it (`compiler.c:454`) says "TODO: Make sure this doesn't shadow an argument, if we want to adhere to the
  semantics of lox." So the rejections of MCCompiler are Lox's but for this one. What such a program then does is checked (`EventsAgree`).
- `Programs <- MCTar` in MCCompiler: `TokensRight` is violated, as `tar` is taken for `var` (`scanner.c:148`, a missing `break`), where it is
  an identifier.
- `var 1 = 2;` reports its error, sees no `=` and takes the declaration for one without initializer, which ends at the assertion in
  `emitByte` (`compiler.c:940`), as `var x;` does.
- `isREPL = FALSE`, `MinSegment = 80`, `MinCapacity = 3`, `MaxBatch = 3`, `MaxCompiles = 1` in Compilation: the segment for a file is as
  large as required, the test `>` at `code.c:282` wants one more, and the list that is compacted is empty. It takes code that fills its pages.
- `MinSegment = 24`, four functions, `MaxCompiles = 3`: the REPL aborts at `expandOrMoveSegment` before the segment is full, because `combinedSize` is in bytes, is multiplied by
  four, and is never reset.

## Fairness

Only two specifications assume any.

- `Collector`: `WF_vars(Collect)`, and `ObjectList` the same of its `ListCollect`. `collectGarbage` is a C function that nothing interrupts, so a collection that has
  begun goes on. Nothing says that one begins.
- `CompiledCode`: `WF_vars(Run)`. Generated code is sequential and nothing stops it.

## Proofs

The modules whose names end in `Proofs` prove for all constants what the runs show for some. Out of the
prover's reach are liveness, `ENABLED`, induction with an operator as a parameter, and `RECURSIVE` operators; `CollectionEnds`, `Finishes`
and the whole of `Compiler`, whose parser is recursive, stay with TLC for one of these reasons.

Recursive functions over data are within reach by a detour that **Recursion** takes once for all. A recursive function of TLA+ is chosen
among the solutions of its equation, so nothing can be said of it before it is known that there is one. `ChainRecursion` shows
that there is for a recursion that follows a link to a smaller number (from a frame to its caller's), `LoopRecursion` for a loop that
counts up (over a batch of functions); both are put together from solutions on initial segments, by `LeastNatural`, a set of numbers
has a least member. Inductions are then arguments by the least counterexample.

**FramesProofs**, for any functions, arities up to 31, values and bounds, under `FramesAssumption` and `ScriptLocals = FALSE` (otherwise the
theorem is false, see MCFramesScriptLocals). The assumption includes that no address in generated code is one of the three
return addresses outside of it. Theorems: `TypeCorrect`, `FramesChained`,
`RegistersRestored`, `OperandInRegisters`, all from `Inductive`. The invariant `IInv` is `TypeOK`, `StackDiscipline`,
`RegistersMatchCode` and `TopInAcc`, which rely on each other (a return is right because the chain is right, and x19
because the spill slot is), and `ScriptOnce`: the script's closure is in its own slot and nowhere else. Without it a
call could re-enter the script, whose frame has three slots where a function's has two. Lemmas treat the three ways a
stack changes: above the last frame, by a new frame, by a dropped frame.

**CallsProofs** goes on from the same invariant and under the same hypotheses.

- `WalkExact`: what `walkStack` marks is every Value on the stack and nothing else. That the newest frame is the frame of a call is in
  the invariant; that every one is (`EveryFrameIsACall`) follows with the least counterexample, counted from the top. `WalkStack` is then unfolded
  frame by frame: the slots of a frame that it reads, with those of the frames below, are the slots with Values. `RunningCodeRooted`: so
  the closures in use, which lie in slots of Values, are marked.
- `Implements`: the native stack implements the activations of `LoxCalls`. An activation is three runs of slots, read as sequences
  of values; one lemma says that a step that leaves these slots alone leaves the activation alone, and one lemma per action
  that what it does to the newest activation, or the two newest, is what `LoxCalls` says. A call that pushes a frame splits
  the temporaries of the caller into what stays and the arguments of the callee; a return joins them.

**CollectorProofs**, for any set of addresses, any references and roots and any number of collections, under `GCRootsAlone = FALSE` (see
MCCollectorRoots). Theorems: `CollectorTypes`, `NothingDangles`, and `CollectorImplementsHeap`, of `Collector` and of `ObjectList`, all from
`CollectorInductive`; and `ListImplementsCollector` and `ListAlwaysObjects`, which need no hypothesis. Besides
the types, and that what `gcRoots` holds is reachable, the invariant `IInv` has two parts:

- `HeapInv`, of every phase but `sweep`: the roots are objects, objects refer to objects only, and whatever is marked is
  reachable.
- `PhaseInv`, where the collection has got to: in `program` nothing is marked or gray; in `markRoots` the roots already
  visited are marked; in `traceReferences` all of them are; in both, a marked object that is not gray refers to marked
  objects only; in `sweep` nothing is gray, the marks left are on objects not yet visited, and what survives is exactly
  what is reachable.

Reachability is not recursive: a least closed set, so that lemmas about it need no induction. That `traceReferences` has found
everything when the gray stack is empty follows from the marked set being closed, and that it has found no more from each
marked object being reachable. The refinement of `Heap` maps the last step of `traceReferences` to `Heap!Collect`, and every other step of a
collection to a stutter.

The list is inductive by itself, whatever is marked (`ListInv`): it is read as a sequence of different addresses (`Chain`), of which `sweep` has
passed the first few (`Passed`), so that to free an object is to take one element out where the walk stands. `FromPlace` says that what the
pointers lead to is what the sequence holds. A step of the list is then a step of `Collector`, and what is proved of
`Collector` holds of it.

**CompilationProofs**, for any number of functions and inputs, under `GrowthCollects = FALSE` (a collection when only `pushGCRoot`
holds a function frees it, see MCCollectorRoots).

`CompilationKeepsFunctions` needs nothing else. The invariant `IInv` has three parts: what exists refers to what exists (`HeapInv`); the functions that
`compile` has finished are in the reach of its compilers (`CompiledInv`), which is why the list of them needs no root of its own; and where
`pushGCRoot` holds a function (`PhaseInv`), which is nowhere a collection may come but in a running script, whose closure is on the stack.
Lemmas say that more functions and more constants bring more into reach, and that a collection leaves in reach what was.

`CodeStaysIntact`, `CodeStaysExecutable`, `ListStaysSorted` (with `AvailableExact`) and `BlocksStayAccounted` hold for all sizes of functions, pages and segments,
for files and for the REPL, and also when the program hangs or aborts in the end, in behaviours that do not compact
(`[][~Compaction]_vars`). The hypothesis is needed: compaction does break the code (MCCodeSegmentCompact). Their invariant `CodeInv` adds to `IInv`:

- `SegmentInv`: the listed functions lie one after the other between the first red zone and `free`, each complete and followed by its
  red zone (`Laid`), the cell before `free` is undefined, the pages before `writable` and no others are executable, and `free` is not
  beyond `writable` unless the program has stopped.
- `PlacesInv`: where the code of each function is; it includes `BlocksAccounted`. Code in a block of its own belongs to a rejected
  input or to one that is being compiled.
- `BatchInv`: no function is twice in a batch, and `combinedSize` is never less than what the batch takes, although it is never reset and counts
  bytes: this is why a push that appends does not write beyond the end.

A batch and a list are read as sequences; that `writeNewFunctions` keeps a segment in order is `LoopRecursion` over `writeOne`, and
that `Kept` leaves the rest of the list in order is the same over the list. Space is the cardinality of a set of pairs, so that joining and parting
are facts about finite sets.

`PushesAlwaysSucceed`, `CompilationTypes` and `CodeIsManaged` do without a hypothesis on steps, and have one on constants instead, `Roomy`: a REPL, whose segment is larger than
all inputs that will come can need, and inputs of no more functions than the list has room for at first. What an input can need is five times
its code and a cell for each function: its code once, with the red zones, and what `combinedSize` keeps counting of it, in bytes. The invariant
`RoomInv` says how much the inputs so far have taken of that, from which every push appends. What happens in a session that goes
on beyond that is MCCodeSegmentBatch, MCCodeSegmentCompact, and the abort under [Disagreements](#disagreements).

**GlobalsProofs**, for any texts, hashes, addresses, values and sizes of the tables, under `TableAssumption`, `StringsAssumption`,
`GlobalsAssumption` and `GrowthCollects = FALSE` (otherwise a collection that starts as `vm.strings` grows frees the string that it grows
for). Of the constants it is assumed that `MinCapacity` is a power of two other than 1, as the 8 of `GROW_CAPACITY` is, and that the
texts of `AtStart` differ. Theorems: `Types`, `SearchesAlwaysEnd`, `NamesAlwaysFound`, `AlwaysInternedOnce` and the refinement
`KeepsPromise`, all from `Inductive`, and `NeverDangling`. The invariant `IInv` has these parts:

- `TableInv`, of both tables: the capacity is 0 or a power of two, which is why the mask of the code is a remainder; `count` is no
  less than the number of entries that are not empty, since a tombstone stays counted; and it is at most three quarters of the capacity.
  So there is always an empty entry, and every search ends.
- `Interned`, of `vm.strings`: no two strings have the same text, and each has its entry before the first empty one on the way from its home
  (`OnPath`). That tombstones lie before it does not matter to `tableFindString`, which skips them. Nothing is said about
  entries whose keys were freed: they may be there (MCStringsChain), and in the model no search ends at one, since a freed address has no text.
  The code reads freed memory there, so what `AlwaysInternedOnce` says of it holds up to that read, and without reserve where
  `NeverDangling` applies.
- `KeysFound` and `KeysAllocated`, of `vm.globals`: each key lies where `findEntry` looks, with no tombstone before it, and is a string of the heap. The
  only deletion is that of the entry which a failed assignment has just made, so `globals` is then as it was (`SameAs`) but for a
  tombstone where a search ended already.
- `KeptRooted`: the strings that are never let go of are roots.

A search is the first step at which something holds (`First`), which exists once there is an empty entry; filling the entry it ends at
keeps every other key where it is looked for (`Fill`). The loops of `adjustCapacity` and `tableRemoveWhite` are taken apart by
`LoopRecursion`, with what has been copied or deleted after each round (`Moved`, `Erased`). The refinement reads `globals` as a function from texts (`BoundIn`),
which is well defined as texts are interned once.

`NeverDangling` has a hypothesis on the behaviour, `[]MortalsApart`: every string of `vm.strings` that may be freed is reached past strings that may not.
It speaks of texts and hashes, and is no property of the code: it is true of the texts that MCGlobals has, and false of those of MCStringsChain.
It cannot be left out; without it the early `return` of `findEntry` (`table.c:39`) makes `tableDelete` give up
before it has come to a dead key.

**OperatorsProofs**, for any texts, functions, addresses and depth of the stack, under `OperatorsAssumption` (addresses of objects differ and are not
null; a text is not a function). Theorems: `WordsAreValues`, and `OperatorsCorrect`, that the handlers implement `LoxOperators`. The
invariant `IInv`: each Value on the stack, and the one in x0 and x1, is one of `ValueWords`, the pairs that some literal or handler makes, which is
more than its type says (booleans are 0 or 1, the second word of nil is one of what may be left over); and x0 and x1 hold what is on top
of the stack, up to the second word of nil (`TopInAcc`). Each handler has a lemma that its two words stand for what the operator of Lox makes of
the values its operands stand for, by cases on their types; the stack is then mapped entry by entry.

**Arm64Proofs** is about numbers, for all of them: which locals (`LocalExact`, `LocalBeyond`), arguments (`ArgumentExact`), constants
(`ConstantExact`) and jumps (`JumpExact`, `ConditionalJumpExact`) the emitted instructions address rightly, and what the others do. Fields are
numbers modulo a power of two, read with a sign where the processor does.

Only model-checked: `CompiledCode` with the compiler it runs, whose parser is a set of `RECURSIVE` operators (`TypeOK`, `TokensRight`, `EventsAgree`,
`HeightsMatch`, `Rejections`, `Recovers`); and the liveness properties `CollectionEnds` and `Finishes`.

## Plan

Done, in this order: `Frames` with its refinement, because every other part depends on the calling convention; the tables;
`CodeSegment`; `Collector` with `Heap` and `ObjectList`; `Operators`; then the compositions, `Globals` over `Strings` and `Compilation` over `CodeSegment`; then
`Scanner`, `Compiler` and `Arm64`, with the grammar and the meaning of statements on the other side. The proofs followed in nearly the
same order: calls, collector, operators, encodings, code segment and compilation, tables.

To come: closures, classes, `and` and `or`, when the compiler emits code for them.

## What is left out

- Closures over variables, classes and methods, `and` and `or`, and `var` without an initializer: the compiler stops at an assertion for
  them, and is modelled up to it. `tableAddAll`, `addUpvalue`'s table and `op_increment` are behind it.
- Opcodes and register numbers of the encodings: constants that only the processor could check.
- The arrays of `chunk.c` and `value.c` as they grow: `reallocate` and a copy. Printing a value.
- Stack depth: there is no check in the code; the C stack is the limit. `MaxStack` is the model's bound.
- `walkStack` over frames of C during a compilation, and the stale `vm.mainReturnAddress` it stops at in a second input (`memory.c:209`): their
  layout is known to the C compiler alone. Only the walk from a handler of generated code is modelled.
- The trigger of a collection (`vm.nextGC`): a collection may start at any allocation.
- `freeCode`, which nothing calls; `freeObjects` at exit; `debug.c` (prints the instruction set of clox, which is not emitted any more); reading
  input; the build tools. The wording of messages.
