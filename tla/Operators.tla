----------------------------- MODULE Operators -----------------------------
(***************************************************************************)
(* The handlers of the operators (native/arm64), the literals and the test *)
(* of a condition (arm64.c), down to types, words and condition flags.     *)
(*                                                                         *)
(* A Value is two words: its type and what it holds. Some ways to make nil *)
(* leave the second word as it was. Every handler leaves its result on the *)
(* stack and in x0 and x1; assignments take it from there (see Frames).    *)
(***************************************************************************)
EXTENDS Doubles, Sequences

CONSTANTS
    Texts,      \* the strings; an operator that would make another one is not taken
    Functions,
    MaxValues,  \* bound: locals and temporaries
    Address     \* where the object of a text or a function is

Objects == Texts \cup Functions

\* The magnitudes of numbers are not those of addresses, and no string is a function.
ASSUME OperatorsAssumption ==
    /\ MaxValues \in Nat
    /\ Address \in [Objects -> [sign : {0}, mag : {0, 1}, low : 1..(LowHalves - 1)]]
    /\ \A o, p \in Objects : o # p => Address[o] # Address[p]
    /\ \A s, t \in Texts : s \o t \notin Functions

VARIABLES
    stack,      \* a local, or none yet, and the temporaries above it
    acc,        \* the Value in x0 and x1
    last        \* the operator that ran last and how it went

vars == <<stack, acc, last>>

VAL_NIL == 0
VAL_BOOL == 1
VAL_NUMBER == 2
VAL_OBJ == 3
OBJ_CLOSURE == 2
OBJ_STRING == 6

Value(type, word) == [type |-> type, word |-> word]
Bool(b) == Value(VAL_BOOL, Word(0, 0, IF b THEN 1 ELSE 0))
Nowhere == Word(0, 1, 0)
Object(o) == Value(VAL_OBJ, IF o \in Objects THEN Address[o] ELSE Nowhere)
Fail == Value(-1, Word(0, 0, 0))

ObjectAt(word) == CHOOSE o \in Objects : Address[o] = word
ObjType(word) == IF ObjectAt(word) \in Texts THEN OBJ_STRING ELSE OBJ_CLOSURE
-----------------------------------------------------------------------------
(* Instructions of the processor.                                          *)

\* fcmp: unless the operands are equal, n says less, c greater or unordered,
\* and v unordered.
fcmp(x, y) ==
    LET unordered == IsNaN(x) \/ IsNaN(y)
    IN  [n |-> ~unordered /\ Number(x) < Number(y),
         z |-> ~unordered /\ Number(x) = Number(y),
         c |-> unordered \/ Number(x) >= Number(y),
         v |-> unordered]

eq(f) == f.z
mi(f) == f.n
ls(f) == ~f.c \/ f.z
gt(f) == ~f.z /\ f.n = f.v
ge(f) == f.n = f.v
le(f) == ~gt(f)

cset(b) == IF b THEN 1 ELSE 0
csetm(b) == IF b THEN -1 ELSE 0
-----------------------------------------------------------------------------
(* The handlers: a is at sp + 16, b at sp.                                 *)

\* The two numbers differ unless both types are VAL_NUMBER.
NotNumbers(a, b) == cset(a.type # b.type) # csetm(a.type # VAL_NUMBER)

Checked(a, b, result) == IF NotNumbers(a, b) THEN Fail ELSE result

op_add(a, b) ==
    CASE a.type # b.type -> Fail
      [] a.type = b.type /\ a.type = VAL_NUMBER -> Value(VAL_NUMBER, fadd(a.word, b.word))
      [] a.type = b.type /\ a.type = VAL_OBJ ->
            IF ObjType(a.word) = OBJ_STRING /\ ObjType(b.word) = OBJ_STRING
            THEN Object(ObjectAt(a.word) \o ObjectAt(b.word)) ELSE Fail
      [] OTHER -> Fail

op_subtract(a, b) == Checked(a, b, Value(VAL_NUMBER, fsub(a.word, b.word)))
op_multiply(a, b) == Checked(a, b, Value(VAL_NUMBER, fmul(a.word, b.word)))
op_divide(a, b) == Checked(a, b, Value(VAL_NUMBER, fdiv(a.word, b.word)))

\* Fault: a truth value is all ones.
op_less_Ones(a, b) ==
    IF a.type # VAL_NUMBER \/ a.type # b.type THEN Fail
    ELSE Value(VAL_BOOL, Word(0, 0, csetm(mi(fcmp(a.word, b.word)))))

op_less(a, b) ==
    IF a.type # VAL_NUMBER \/ a.type # b.type THEN Fail ELSE Bool(mi(fcmp(a.word, b.word)))

\* Fault: the condition for integers, which NaN satisfies.
op_less_equal_Signed(a, b) == Checked(a, b, Bool(le(fcmp(a.word, b.word))))

op_less_equal(a, b) == Checked(a, b, Bool(ls(fcmp(a.word, b.word))))
op_greater(a, b) == Checked(a, b, Bool(gt(fcmp(a.word, b.word))))
op_greater_equal(a, b) == Checked(a, b, Bool(ge(fcmp(a.word, b.word))))

\* All ways to compare are tried before the types are looked at.
SameContents(a, b) ==
    CASE a.type = VAL_OBJ    -> a.word = b.word
      [] a.type = VAL_NUMBER -> eq(fcmp(a.word, b.word))
      [] a.type = VAL_BOOL   -> a.word.low = b.word.low
      [] a.type = VAL_NIL    -> TRUE

op_equal(a, b) == Bool(a.type = b.type /\ SameContents(a, b))
op_not_equal(a, b) == Bool(~(a.type = b.type /\ SameContents(a, b)))

\* False, or by the third instruction nil.
op_not(a) ==
    LET isFalse == a.type = VAL_BOOL /\ a.word.low = 0
    IN  Bool(isFalse \/ a.type = VAL_NIL)

op_negate(a) == IF a.type # VAL_NUMBER THEN Fail ELSE Value(a.type, Negated(a.word))

OP_TABLE(op, a, b) ==
    CASE op = "add"           -> op_add(a, b)
      [] op = "subtract"      -> op_subtract(a, b)
      [] op = "multiply"      -> op_multiply(a, b)
      [] op = "divide"        -> op_divide(a, b)
      [] op = "equal"         -> op_equal(a, b)
      [] op = "not_equal"     -> op_not_equal(a, b)
      [] op = "less"          -> op_less(a, b)
      [] op = "less_equal"    -> op_less_equal(a, b)
      [] op = "greater"       -> op_greater(a, b)
      [] op = "greater_equal" -> op_greater_equal(a, b)
      [] op = "not"           -> op_not(b)
      [] op = "negate"        -> op_negate(b)

UnaryOperators == {"not", "negate"}
BinaryOperators ==
    {"add", "subtract", "multiply", "divide", "equal", "not_equal",
     "less", "less_equal", "greater", "greater_equal"}
-----------------------------------------------------------------------------
\* Before the first script runs, and after an error, x1 holds anything.
Leftover == Doubles \cup {Address[o] : o \in Objects}

Init == stack = <<>> /\ acc \in {Value(VAL_NIL, w) : w \in Leftover} /\ last = <<>>

sp == Len(stack)

Push(v) == sp < MaxValues /\ stack' = Append(stack, v) /\ last' = <<>>

\* x1 stays as it is.
emitNil == Push(Value(VAL_NIL, Word(0, 0, 0))) /\ acc' = Value(VAL_NIL, acc.word)

emitFalse == Push(Bool(FALSE)) /\ acc' = Bool(FALSE)

emitTrue == Push(Bool(TRUE)) /\ acc' = Bool(TRUE)

emitNumber == \E x \in Doubles : Push(Value(VAL_NUMBER, x)) /\ acc' = Value(VAL_NUMBER, x)

\* A string constant, a function.
emitGetConstant == \E o \in Objects : Push(Object(o)) /\ acc' = Object(o)

emitGetLocal == \E i \in 1..sp : Push(stack[i]) /\ acc' = stack[i]

\* To the local at the bottom, below the value of an expression. The load of
\* this value from the stack is commented out (arm64.c:205).
emitSetLocal ==
    /\ sp > 1
    /\ stack' = [stack EXCEPT ![1] = acc]
    /\ last' = <<>>
    /\ UNCHANGED acc

\* A statement pops the one value of its expression, a scope its local.
emitPop ==
    /\ sp \in {1, 2}
    /\ stack' = SubSeq(stack, 1, sp - 1)
    /\ last' = <<>>
    /\ UNCHANGED acc

runtimeError(op) ==
    /\ stack' = <<>>
    /\ acc' \in {Value(VAL_NIL, w) : w \in Leftover}
    /\ last' = <<op, "error">>

\* The result v replaces n operands.
Return(op, n, v) ==
    /\ v.word # Nowhere
    /\ stack' = Append(SubSeq(stack, 1, sp - n), v)
    /\ acc' = v
    /\ last' = <<op, "value">>

Call(op, n, v) == IF v = Fail THEN runtimeError(op) ELSE Return(op, n, v)

emitUnary ==
    /\ sp >= 1
    /\ \E op \in UnaryOperators : Call(op, 1, OP_TABLE(op, stack[sp], stack[sp]))

emitBinary ==
    /\ sp >= 2
    /\ \E op \in BinaryOperators : Call(op, 2, OP_TABLE(op, stack[sp - 1], stack[sp]))

JumpTaken(v) == v.type = VAL_NIL \/ (v.type = VAL_BOOL /\ v.word.low = 0)

emitConditionalJump ==
    /\ sp > 0
    /\ last' = <<"test", IF JumpTaken(stack[sp]) THEN "false" ELSE "true">>
    /\ acc' = stack[sp]
    /\ UNCHANGED stack

Next ==
    \/ emitNil \/ emitFalse \/ emitTrue \/ emitNumber \/ emitGetConstant
    \/ emitGetLocal \/ emitSetLocal \/ emitPop
    \/ emitUnary \/ emitBinary \/ emitConditionalJump

Spec == Init /\ [][Next]_vars
-----------------------------------------------------------------------------
(* Properties *)

Booleans == {Bool(FALSE), Bool(TRUE)}

IsValue(v) ==
    CASE v.type = VAL_NIL    -> v.word \in Leftover \cup {w.word : w \in Booleans}
      [] v.type = VAL_BOOL   -> v \in Booleans
      [] v.type = VAL_NUMBER -> v.word \in Doubles
      [] v.type = VAL_OBJ    -> v.word \in {Address[o] : o \in Objects}

\* Truth values are 0 or 1, which op_equal relies on, and the word of an object
\* is where one is; nil may hold any word that another value has had.
TypeOK == IsValue(acc) /\ \A i \in 1..sp : IsValue(stack[i])

\* The value of Lox that the two words stand for.
LoxValue(v) ==
    CASE v.type = VAL_NIL    -> [type |-> "nil"]
      [] v.type = VAL_BOOL   -> [type |-> "boolean", boolean |-> v.word.low = 1]
      [] v.type = VAL_NUMBER -> [type |-> "number", number |-> v.word]
      [] v.type = VAL_OBJ    ->
            LET o == ObjectAt(v.word)
            IN  IF o \in Texts THEN [type |-> "string", string |-> o]
                ELSE [type |-> "function", function |-> o]

Lox == INSTANCE LoxOperators WITH values <- [i \in 1..sp |-> LoxValue(stack[i])]

\* The handlers compute what LoxOperators promises, for every pair of operands
\* and however these came about: no stale word of nil, zero of either sign, NaN
\* or equal half of two addresses makes a difference, and each error is one.
ImplementsLoxOperators == Lox!Spec
=============================================================================
