---------------------------- MODULE LoxOperators ----------------------------
(***************************************************************************)
(* What the operators of Lox promise, told about values and not about bits *)
(* and registers: there is one nil, whatever way it came about, numbers    *)
(* are compared as IEEE 754 says, and only nil and false count as false.   *)
(***************************************************************************)
EXTENDS Doubles, Sequences

CONSTANTS
    Texts,      \* the strings; an operator that would make another one is not taken
    Functions,
    MaxValues   \* bound: locals and temporaries

VARIABLES
    values,     \* the locals and temporaries, the newest last
    last        \* the operator that ran last and how it went

vars == <<values, last>>

nil == [type |-> "nil"]
boolean(b) == [type |-> "boolean", boolean |-> b]
number(x) == [type |-> "number", number |-> x]
string(t) == [type |-> "string", string |-> t]
function(f) == [type |-> "function", function |-> f]
error == [type |-> "error"]

Literals ==
    {nil, boolean(TRUE), boolean(FALSE)}
        \cup {number(x) : x \in Doubles} \cup {string(t) : t \in Texts}
        \cup {function(f) : f \in Functions}

Both(type, a, b) == a.type = type /\ b.type = type
Falsey(v) == v \in {nil, boolean(FALSE)}

\* NaN is in no order with any number, and equals none.
Ordered(x, y) == ~IsNaN(x) /\ ~IsNaN(y)
LessThan(x, y) == Ordered(x, y) /\ Number(x) < Number(y)
EqualNumbers(x, y) == Ordered(x, y) /\ Number(x) = Number(y)

Equal(a, b) == IF Both("number", a, b) THEN EqualNumbers(a.number, b.number) ELSE a = b

OfNumbers(op, x, y) ==
    CASE op = "add"           -> number(fadd(x, y))
      [] op = "subtract"      -> number(fsub(x, y))
      [] op = "multiply"      -> number(fmul(x, y))
      [] op = "divide"        -> number(fdiv(x, y))
      [] op = "less"          -> boolean(LessThan(x, y))
      [] op = "less_equal"    -> boolean(LessThan(x, y) \/ EqualNumbers(x, y))
      [] op = "greater"       -> boolean(LessThan(y, x))
      [] op = "greater_equal" -> boolean(LessThan(y, x) \/ EqualNumbers(x, y))

\* The value of a op b, or error.
Binary(op, a, b) ==
    CASE op = "equal"            -> boolean(Equal(a, b))
      [] op = "not_equal"        -> boolean(~Equal(a, b))
      [] op \notin {"equal", "not_equal"} ->
            CASE Both("number", a, b)                -> OfNumbers(op, a.number, b.number)
              [] op = "add" /\ Both("string", a, b)  -> string(a.string \o b.string)
              [] OTHER                               -> error

Unary(op, a) ==
    CASE op = "not"                          -> boolean(Falsey(a))
      [] op = "negate" /\ a.type = "number"  -> number(Negated(a.number))
      [] OTHER                               -> error

BinaryOperators ==
    {"add", "subtract", "multiply", "divide", "equal", "not_equal",
     "less", "less_equal", "greater", "greater_equal"}
UnaryOperators == {"not", "negate"}
-----------------------------------------------------------------------------
Init == values = <<>> /\ last = <<>>

Size == Len(values)

Push(v) == Size < MaxValues /\ values' = Append(values, v) /\ last' = <<>>

Literal == \E v \in Literals : Push(v)

Get == \E i \in 1..Size : Push(values[i])

Set == \E i \in 1..(Size - 1) : values' = [values EXCEPT ![i] = values[Size]] /\ last' = <<>>

Pop == Size > 0 /\ values' = SubSeq(values, 1, Size - 1) /\ last' = <<>>

\* An error ends the program.
Replace(n, v, op) ==
    IF v = error THEN values' = <<>> /\ last' = <<op, "error">>
    ELSE /\ v.type = "string" => v.string \in Texts
         /\ values' = Append(SubSeq(values, 1, Size - n), v)
         /\ last' = <<op, "value">>

Operate ==
    \/ Size >= 1 /\ \E op \in UnaryOperators : Replace(1, Unary(op, values[Size]), op)
    \/ Size >= 2 /\ \E op \in BinaryOperators :
                       Replace(2, Binary(op, values[Size - 1], values[Size]), op)

\* A condition; its value is popped later.
Test ==
    /\ Size > 0
    /\ last' = <<"test", IF Falsey(values[Size]) THEN "false" ELSE "true">>
    /\ UNCHANGED values

Next == Literal \/ Get \/ Set \/ Pop \/ Operate \/ Test

Spec == Init /\ [][Next]_vars
=============================================================================
