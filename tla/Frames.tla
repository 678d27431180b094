------------------------------- MODULE Frames -------------------------------
(***************************************************************************)
(* The native stack of a running Lox program: the code that                *)
(* native/arm64.c emits for each construct, the hand-written handlers of   *)
(* native/arm64/*.sx that make and drop frames, and the walk that the      *)
(* collector makes over the frames (walkStack in memory.c).                *)
(*                                                                         *)
(* The machine stack grows towards lower addresses in slots of 16 bytes.   *)
(* Here it is a sequence, so that sp is its length and the slot at         *)
(* address x29 - 16*k is stack[fp + k].  A call leaves, from the caller's  *)
(* temporaries up: the callee, the arguments, the saved frame pointer and  *)
(* return address (a "frame" slot, the one x29 points at), the saved       *)
(* closure and constants registers (a "spill" slot), then the callee's     *)
(* locals and temporaries.                                                 *)
(*                                                                         *)
(* A code address is what the compiler knew at that point: the function    *)
(* and its numbers of locals and temporaries (compiler.c keeps localCount  *)
(* and leaves one more value on the stack after every expression).  Which  *)
(* construct comes next is left open.                                      *)
(***************************************************************************)
EXTENDS Integers, Sequences

CONSTANTS
    Functions,      \* the compiled functions, each with its one closure
    Script,         \* the function of the top-level code
    Arity,          \* ObjFunction.arity
    Plain,          \* Lox values that are not closures
    Nil,
    Junk,           \* bits in a register that are not the value expected there
    Native,         \* a pc outside the generated code: the C program runs
    MainReturn,     \* the return address in interpret(), vm.mainReturnAddress
    StartScript,    \* the return address in start_script
    CFrame,         \* what C holds in x29 ...
    CRegister,      \* ... and in x19, x20 and x21 when it calls start_script
    OpTable,        \* the address of OP_TABLE
    MaxLocals,      \* bound: locals in scope in one function
    MaxTemps,       \* bound: temporaries of one expression
    MaxStack,       \* bound: slots in use when a call is made
    ScriptLocals    \* does the top-level code declare block-scoped variables?

\* Only offsets that fit the ldp/stp immediate: 30 locals, 31 arguments.
ASSUME FramesAssumption ==
    /\ Script \notin Functions
    /\ Arity \in [Functions \cup {Script} -> 0..31] /\ Arity[Script] = 0
    /\ MaxLocals \in 0..30 /\ MaxTemps \in Nat /\ MaxStack \in Nat
    /\ ScriptLocals \in BOOLEAN
    /\ LET generated == [fn : Functions \cup {Script}, locals : 0..MaxLocals, temps : 0..MaxTemps]
       IN  generated \cap {Native, MainReturn, StartScript} = {}
    /\ MainReturn # StartScript
    /\ Nil \notin {Junk, Script} /\ Script \notin Plain
    /\ Junk \notin Plain \cup Functions \cup {Script}

VARIABLES
    stack,      \* slots in use, the one at sp last
    fp,         \* x29
    closure,    \* x19
    constants,  \* x20; the function whose constant table it points to
    optable,    \* x21
    acc,        \* the Value in x0 and x1
    pc,
    result      \* what the last interpret() returned

vars == <<stack, fp, closure, constants, optable, acc, pc, result>>

Callables == Functions \cup {Script}
Values == Plain \cup {Nil} \cup Functions
Points == [fn : Callables, locals : 0..MaxLocals, temps : 0..MaxTemps]

Value(v) == [kind |-> "value", v |-> v]
Frame(f, lr) == [kind |-> "frame", fp |-> f, lr |-> lr]
Spill(c, k) == [kind |-> "spill", closure |-> c, constants |-> k]
Saved(table) == [kind |-> "saved", optable |-> table]

Slots ==
    [kind : {"value"}, v : Values \cup {Script}]
    \cup [kind : {"frame"}, fp : Nat \cup {CFrame}, lr : Points \cup {MainReturn, StartScript}]
    \cup [kind : {"spill"}, closure : Callables \cup {CRegister}, constants : Callables \cup {CRegister}]
    \cup [kind : {"saved"}, optable : {CRegister}]

-----------------------------------------------------------------------------
(* Addresses, as arm64.c computes them from the frame pointer.              *)

FUNCTION_STACK_SPILL == 1

LocalSlot(i) == fp + FUNCTION_STACK_SPILL + 1 + i

\* Faults (each named for the definition it replaces in a mutation run):
\* an index from 1, an index that counts the callee twice.
ArgumentSlot_FromOne(a) == fp - (Arity[pc.fn] - a)
ArgumentSlot_CalleeTwice(a) == fp - (Arity[pc.fn] - a + 2)

\* Argument 0 is the callee itself.
ArgumentSlot(a) ==
    LET argCount == Arity[pc.fn] + 1
        index == argCount - a - 1
    IN  fp - (index + 1)

\* A slot that holds no Value is read as the two words that are there.
ReadFrom(s, i) == IF s[i].kind = "value" THEN s[i].v ELSE Junk
Read(i) == ReadFrom(stack, i)

sp == Len(stack)

\* The pc after code that adds l locals and t temporaries.
Advance(l, t) == [pc EXCEPT !.locals = @ + l, !.temps = @ + t]

Running == pc # Native
HasTemps(n) == Running /\ pc.temps >= n
InFrame == UNCHANGED <<fp, closure, constants, optable, result>>
-----------------------------------------------------------------------------
Init ==
    /\ stack = <<>>
    /\ fp = CFrame
    /\ closure = CRegister /\ constants = CRegister /\ optable = CRegister
    /\ acc = Junk
    /\ pc = Native
    /\ result = "none"

\* start_script, then call_closure_no_args with the script's closure.
Start ==
    /\ ~Running
    /\ stack' = << Frame(fp, MainReturn), Saved(optable),
                   Frame(1, StartScript), Spill(closure, constants), Value(Script) >>
    /\ fp' = 3
    /\ closure' = Script /\ constants' = Script /\ optable' = OpTable
    /\ acc' = Junk
    /\ pc' = [fn |-> Script, locals |-> 0, temps |-> 0]
    /\ result' = "none"

\* Every expression emitter pushes its value and leaves it in x0 and x1.
PushValue(v) ==
    /\ HasTemps(0) /\ pc.temps < MaxTemps
    /\ stack' = Append(stack, Value(v))
    /\ acc' = v
    /\ pc' = Advance(0, 1)
    /\ InFrame

\* emitGetConstant, emitNil, emitTrue, emitFalse, emitNumberInline; what
\* op_get_global and op_closure leave is any value and a closure.
Load == \E v \in Values : PushValue(v)

GetLocal == Running /\ \E i \in 0..(pc.locals - 1) : PushValue(Read(LocalSlot(i)))

GetArgument == Running /\ \E a \in 1..Arity[pc.fn] : PushValue(Read(ArgumentSlot(a)))

\* The value is taken from x0 and x1, not from the stack.
StoreAcc(i) ==
    /\ stack' = [stack EXCEPT ![i] = Value(acc)]
    /\ UNCHANGED <<acc, pc>>
    /\ InFrame

SetLocal == HasTemps(1) /\ \E i \in 0..(pc.locals - 1) : StoreAcc(LocalSlot(i))

SetArgument == HasTemps(1) /\ \E a \in 1..Arity[pc.fn] : StoreAcc(ArgumentSlot(a))

\* Fault: no reload after tableSet.
SetGlobal_NoReload ==
    /\ HasTemps(1)
    /\ acc' = Junk
    /\ UNCHANGED <<stack, pc>>
    /\ InFrame

\* op_set_global: tableSet clobbers x0 and x1, which are loaded again.
SetGlobal ==
    /\ HasTemps(1)
    /\ acc' = Read(sp)
    /\ UNCHANGED <<stack, pc>>
    /\ InFrame

\* emitPop for an expression statement or a condition, op_print,
\* op_define_global: the last two are calls, which leave x0 and x1 clobbered.
Discard ==
    /\ HasTemps(1) /\ pc.temps = 1
    /\ stack' = SubSeq(stack, 1, sp - 1)
    /\ acc' \in {acc, Junk}
    /\ pc' = Advance(0, -1)
    /\ InFrame

\* defineVariable in a scope emits nothing: the initializer stays where it is.
DefineLocal ==
    /\ HasTemps(1) /\ pc.temps = 1 /\ pc.locals < MaxLocals
    /\ pc.fn # Script \/ ScriptLocals
    /\ pc' = Advance(1, -1)
    /\ UNCHANGED <<stack, acc>>
    /\ InFrame

\* Fault: the compiler forgets the local but emits no pop.
EndScope_NoPop ==
    /\ Running /\ pc.temps = 0 /\ pc.locals > 0
    /\ pc' = Advance(-1, 0)
    /\ UNCHANGED <<stack, acc>>
    /\ InFrame

EndScope ==
    /\ Running /\ pc.temps = 0 /\ pc.locals > 0
    /\ stack' = SubSeq(stack, 1, sp - 1)
    /\ pc' = Advance(-1, 0)
    /\ UNCHANGED acc
    /\ InFrame

\* The handlers of n operands write their result over the first of them.
Operate(n) ==
    /\ HasTemps(n)
    /\ \E v \in Plain :
          /\ stack' = Append(SubSeq(stack, 1, sp - n), Value(v))
          /\ acc' = v
    /\ pc' = Advance(0, 1 - n)
    /\ InFrame

Unary == Operate(1)
Binary == Operate(2)

\* longjmp to the setjmp of interpret(), which restores C's registers.
Unwind ==
    /\ stack' = <<>>
    /\ fp' = CFrame
    /\ closure' = CRegister /\ constants' = CRegister /\ optable' = CRegister
    /\ acc' = Junk
    /\ pc' = Native
    /\ result' = "runtime_error"

\* A handler meets operands of the wrong type or an undefined global.
RuntimeError == Running /\ Unwind

Callable(v, n) == v \in Callables /\ Arity[v] = n

\* op_call with n arguments.
Call ==
    /\ Running /\ sp <= MaxStack
    /\ \E n \in 0..(pc.temps - 1) :
          LET callee == Read(sp - n)
          IN  /\ Callable(callee, n)
              /\ stack' = stack \o << Frame(fp, Advance(0, -n)), Spill(closure, constants) >>
              /\ fp' = sp + 1
              /\ closure' = callee /\ constants' = callee
              /\ acc' = Junk
              /\ pc' = [fn |-> callee, locals |-> 0, temps |-> 0]
              /\ UNCHANGED <<optable, result>>

CallError ==
    /\ Running
    /\ \E n \in 0..(pc.temps - 1) : ~Callable(Read(sp - n), n)
    /\ Unwind

\* Faults: the arity is read when x19 is the caller's again; x20 is not restored.
OpReturn_LateArity(v) ==
    /\ stack' = Append(SubSeq(stack, 1, fp - Arity[stack[fp + 1].closure] - 2), Value(v))
    /\ closure' = stack[fp + 1].closure
    /\ constants' = stack[fp + 1].constants
    /\ fp' = stack[fp].fp /\ pc' = stack[fp].lr /\ acc' = v
    /\ UNCHANGED <<optable, result>>

OpReturn_KeepConstants(v) ==
    /\ stack' = Append(SubSeq(stack, 1, fp - Arity[closure] - 2), Value(v))
    /\ closure' = stack[fp + 1].closure
    /\ fp' = stack[fp].fp /\ pc' = stack[fp].lr /\ acc' = v
    /\ UNCHANGED <<constants, optable, result>>

\* op_return with value v on top: the arity comes from the closure register,
\* the caller's registers from the spill slot and the frame slot.
OpReturn(v) ==
    /\ stack' = Append(SubSeq(stack, 1, fp - Arity[closure] - 2), Value(v))
    /\ closure' = stack[fp + 1].closure
    /\ constants' = stack[fp + 1].constants
    /\ fp' = stack[fp].fp
    /\ pc' = stack[fp].lr
    /\ acc' = v
    /\ UNCHANGED <<optable, result>>

\* return e; reads the top of the stack, return; and the end of the body push nil.
Return ==
    /\ Running /\ pc.fn # Script
    /\ \/ pc.temps = 1 /\ OpReturn(Read(sp))
       \/ pc.temps = 0 /\ OpReturn(Nil)

\* emitReturnFromScript, to start_script, which returns to interpret().
Finish ==
    /\ Running /\ pc.fn = Script /\ pc.locals = 0 /\ pc.temps = 0
    /\ stack[fp].lr = StartScript
    /\ LET outer == stack[fp].fp
       IN  /\ stack' = SubSeq(stack, 1, outer - 1)
           /\ fp' = stack[outer].fp
           /\ pc' = IF stack[outer].lr = MainReturn THEN Native ELSE pc
           /\ optable' = stack[outer + 1].optable
    /\ closure' = stack[fp + 1].closure
    /\ constants' = stack[fp + 1].constants
    /\ acc' = Junk
    /\ result' = "ok"

Next ==
    \/ Start \/ Finish \/ RuntimeError
    \/ Load \/ GetLocal \/ SetLocal \/ GetArgument \/ SetArgument \/ SetGlobal
    \/ DefineLocal \/ EndScope \/ Discard \/ Unary \/ Binary
    \/ Call \/ CallError \/ Return

Spec == Init /\ [][Next]_vars
-----------------------------------------------------------------------------
(* Properties *)

\* Every slot, register and code address has the form the code gives it.
TypeOK ==
    /\ stack \in Seq(Slots)
    /\ fp \in Nat \cup {CFrame}
    /\ closure \in Callables \cup {CRegister}
    /\ constants \in Callables \cup {CRegister}
    /\ optable \in {CRegister, OpTable}
    /\ acc \in Values \cup {Junk}
    /\ pc \in Points \cup {Native}
    /\ result \in {"none", "ok", "runtime_error"}

FrameSlots(s) == {i \in DOMAIN s : s[i].kind = "frame"}

\* The script's frame is the second: start_script's is the first.
ScriptFrame == 3

\* What lies between a frame and the first local of its function: the spill,
\* and in the script its closure too (MAIN_FUNCTION_STACK_SPILL).
SpillCount(f) == IF f = Script THEN 2 ELSE FUNCTION_STACK_SPILL

\* Frame i of stack s is the frame of a call of g: below it are the arguments
\* and the callee, where the caller's expression ends, and it leads back to
\* the nearest frame below, whose function's registers are in the spill slot.
CallOf(s, i, g) ==
    LET caller == s[i].fp
        lr == s[i].lr
        calleeSlot == i - Arity[g] - 1
    IN  /\ i \in FrameSlots(s) /\ i > ScriptFrame /\ i + 1 \in DOMAIN s
        /\ g \in Functions
        /\ lr \in Points /\ lr.temps >= 1
        /\ lr.fn = Script => lr.locals = 0 \/ ScriptLocals
        /\ caller \in FrameSlots(s) /\ caller >= ScriptFrame /\ caller < i
        /\ \A j \in FrameSlots(s) : j < i => j <= caller
        /\ calleeSlot = caller + SpillCount(lr.fn) + lr.locals + lr.temps
        /\ s[calleeSlot] = Value(g)
        /\ s[i + 1] = Spill(lr.fn, lr.fn)

\* Frame i belongs to function g.
FrameOf(s, i, g) == (g = Script /\ i = ScriptFrame) \/ CallOf(s, i, g)

ScriptEntered(s) ==
    /\ Len(s) >= ScriptFrame + 2
    /\ s[1] = Frame(CFrame, MainReturn) /\ s[2] = Saved(CRegister)
    /\ s[3] = Frame(1, StartScript) /\ s[4] = Spill(CRegister, CRegister)
    /\ s[5] = Value(Script)

\* The frames of s form a chain from f, the newest, which belongs to g, down to
\* the script's, and all other slots above the script's entry are spills, each
\* right above its frame, and Values.
WellFramed(s, f, g) ==
    /\ ScriptEntered(s)
    /\ f \in FrameSlots(s)
    /\ \A j \in FrameSlots(s) : j <= f
    /\ FrameOf(s, f, g)
    /\ \A j \in FrameSlots(s) :
          j > ScriptFrame => s[j].fp < j /\ FrameOf(s, s[j].fp, s[j].lr.fn)
    /\ \A i \in 4..Len(s) :
          /\ s[i].kind = "spill" <=> s[i - 1].kind = "frame"
          /\ s[i].kind \in {"value", "frame", "spill"}

\* While Lox code runs, sp is where the compiler thinks it is, the frames form
\* a chain down to start_script, each one right above the callee and the
\* arguments of its call, and every other slot above them holds a Value: the
\* calling convention of native/arm64/README.md as call.sx and return.sx keep it.
StackDiscipline ==
    IF Running
    THEN /\ WellFramed(stack, fp, pc.fn)
         /\ sp = fp + SpillCount(pc.fn) + pc.locals + pc.temps
         /\ pc.fn = Script => pc.locals = 0 \/ ScriptLocals
    ELSE stack = <<>> /\ fp = CFrame

\* x19 and x20 belong to the function whose code runs, x21 to OP_TABLE; when
\* the script ends or an error unwinds it, C finds its registers unchanged.
RegistersMatchCode ==
    IF Running
    THEN closure = pc.fn /\ constants = pc.fn /\ optable = OpTable
    ELSE closure = CRegister /\ constants = CRegister /\ optable = CRegister

\* After every expression x0 and x1 hold the value on top of the stack: the
\* stores to locals and arguments and op_print (print.sx:5-6) rely on it.
TopInAcc == (Running /\ pc.temps > 0) => acc = Read(sp)
=============================================================================
