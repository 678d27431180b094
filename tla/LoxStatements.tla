--------------------------- MODULE LoxStatements ---------------------------
(***************************************************************************)
(* What a Lox program does, told over its syntax tree, and what the        *)
(* language forbids: the reference that Compiler is compared with.         *)
(*                                                                         *)
(* A tree is a record with a field kind; a part that may be missing is a   *)
(* sequence of length zero or one, and a body is a sequence of statements. *)
(* A value is a tuple that begins with its type. Operators are not         *)
(* computed: 1 + 2 has the value <<"binary", "+", 1, 2>>, which tells what *)
(* was applied to what. Operators.tla has what they compute. A function is *)
(* <<"function", its name, its tree>>.                                     *)
(***************************************************************************)
EXTENDS Naturals, Sequences, SequencesExt, FiniteSetsExt

CONSTANTS
    MaxEvents,          \* how far loops and calls are followed
    MayHideParameter    \* may a variable of a function's own scope be named like a parameter?
                        \* In Lox it may not, as compiler.c:454 says.

ASSUME LoxAssumption == MayHideParameter \in BOOLEAN

Nil == <<"nil">>
Falsey(v) == v \in {Nil, <<"false">>}

\* The words of the language, and the records they make.
Constant(v) == [kind |-> "constant", value |-> v]
Name(n) == [kind |-> "name", name |-> n]
Assign(n, e) == [kind |-> "assign", name |-> n, value |-> e]
Unary(op, e) == [kind |-> "unary", op |-> op, operand |-> e]
Binary(op, e, f) == [kind |-> "binary", op |-> op, left |-> e, right |-> f]
Call(e, list) == [kind |-> "call", callee |-> e, list |-> list]

Show(e) == [kind |-> "print", e |-> e]
Do(e) == [kind |-> "expression", e |-> e]
Var(n, e) == [kind |-> "var", name |-> n, e |-> e]
Fun(n, parameters, body) == [kind |-> "fun", name |-> n, parameters |-> parameters, body |-> body]
Block(body) == [kind |-> "block", body |-> body]
If(e, s, else) == [kind |-> "if", e |-> e, then |-> s, else |-> else]
While(e, s) == [kind |-> "while", e |-> e, do |-> s]
For(init, test, step, s) == [kind |-> "for", init |-> init, test |-> test, step |-> step, do |-> s]
Return(value) == [kind |-> "return", value |-> value]
-----------------------------------------------------------------------------
(* A run is its scopes, the global one first and the innermost last, what  *)
(* it has printed, tested, called and returned, the value of the last      *)
(* expression, and a state: on, returned from a function, or stopped.      *)

On(run) == run.state = "on"
Holds(run, n) == {i \in DOMAIN run.scopes : n \in DOMAIN run.scopes[i]}
Yield(run, v) == [run EXCEPT !.value = v]
Open(run, scope) == [run EXCEPT !.scopes = Append(@, scope)]
Close(run) == [run EXCEPT !.scopes = Front(@)]
Bind(scope, n, v) == [m \in DOMAIN scope \cup {n} |-> IF m = n THEN v ELSE scope[m]]

Event(run, e) ==
    [run EXCEPT !.events = Append(@, e),
                !.state = IF Len(run.events) + 1 = MaxEvents THEN "stopped" ELSE @]
Error(run) == [Event(run, <<"error">>) EXCEPT !.state = "stopped"]

Update(run, n, v) ==
    IF Holds(run, n) = {} THEN Error(run)
    ELSE [run EXCEPT !.scopes[Max(Holds(run, n))] = Bind(@, n, v)]

RECURSIVE Printed(_)

\* A value as it is printed: of a function its name.
Printed(v) ==
    CASE v[1] = "function" -> <<"function", v[2]>>
      [] v[1] = "unary" -> <<"unary", v[2], Printed(v[3])>>
      [] v[1] = "binary" -> <<"binary", v[2], Printed(v[3]), Printed(v[4])>>
      [] OTHER -> v

RECURSIVE Eval(_, _), EvalList(_, _), Exec(_, _), ExecAll(_, _), Loop(_, _, _, _)

\* A function sees its parameters, its own variables and the global ones.
Apply(f, values, run) ==
    LET parameters == f[3].parameters
        scope == [n \in ToSet(parameters) |->
                    values[CHOOSE i \in DOMAIN parameters : parameters[i] = n]]
        called == [Event(run, <<"call", f[2]>>) EXCEPT !.scopes = <<Head(@), scope, <<>>>>]
        done == ExecAll(f[3].body, Yield(called, Nil))
        back == [done EXCEPT !.scopes = <<Head(@)>> \o Tail(run.scopes), !.state = "on",
                             !.value = IF done.state = "returned" THEN @ ELSE Nil]
    IN  IF f[1] # "function" THEN Error(run)
        ELSE IF Len(parameters) # Len(values) THEN Error(run)
        ELSE IF done.state = "stopped" THEN done ELSE Event(back, <<"return", Printed(back.value)>>)

\* The run after e, with the value of e.
Eval(e, run) ==
    LET operand(f) == Eval(f, run)
    IN  CASE ~On(run) -> run
          [] On(run) /\ e.kind = "constant" -> Yield(run, e.value)
          [] On(run) /\ e.kind = "name" ->
                IF Holds(run, e.name) = {} THEN Error(run)
                ELSE Yield(run, run.scopes[Max(Holds(run, e.name))][e.name])
          [] On(run) /\ e.kind = "assign" ->
                LET r == operand(e.value) IN IF On(r) THEN Update(r, e.name, r.value) ELSE r
          [] On(run) /\ e.kind = "unary" ->
                LET r == operand(e.operand) IN Yield(r, <<"unary", e.op, r.value>>)
          [] On(run) /\ e.kind = "binary" ->
                LET l == operand(e.left)
                    r == Eval(e.right, l)
                IN  Yield(r, <<"binary", e.op, l.value, r.value>>)
          [] On(run) /\ e.kind = "call" ->
                LET f == operand(e.callee)
                    r == EvalList(e.list, f)
                IN  IF On(r) THEN Apply(f.value, r.value, r) ELSE r

\* The values of a list of expressions, from left to right.
EvalList(list, run) ==
    IF list = <<>> THEN Yield(run, <<>>)
    ELSE LET before == EvalList(Front(list), run)
             r == Eval(Last(list), before)
         IN  Yield(r, Append(before.value, r.value))

ExecAll(body, run) == IF body = <<>> THEN run ELSE ExecAll(Tail(body), Exec(Head(body), run))

Tested(run) == Event(run, <<"test", Printed(run.value)>>)

\* One more round: step is what a for statement does between two of them.
Loop(test, step, s, run) ==
    LET r == IF test = <<>> THEN run ELSE Eval(test[1], run)
        tested == IF test = <<>> THEN r ELSE Tested(r)
        done == Exec(s, tested)
        next == IF step = <<>> THEN done ELSE Eval(step[1], done)
    IN  CASE ~On(r) -> r
          [] On(r) /\ test # <<>> /\ Falsey(r.value) -> tested
          [] On(r) /\ (test = <<>> \/ ~Falsey(r.value)) -> Loop(test, step, s, next)

Exec(s, run) ==
    LET r == IF "e" \in DOMAIN s THEN Eval(s.e, run) ELSE run
        Define(n, v) == [r EXCEPT !.scopes[Len(r.scopes)] = Bind(@, n, v)]
    IN  CASE ~On(r) -> r
          [] On(r) /\ s.kind = "print" -> Event(r, <<"print", Printed(r.value)>>)
          [] On(r) /\ s.kind = "expression" -> r
          [] On(r) /\ s.kind = "var" -> Define(s.name, r.value)
          [] On(r) /\ s.kind = "fun" -> Define(s.name, <<"function", s.name, s>>)
          [] On(r) /\ s.kind = "return" ->
                LET v == IF s.value = <<>> THEN Yield(r, Nil) ELSE Eval(s.value[1], r)
                IN  IF On(v) THEN [v EXCEPT !.state = "returned"] ELSE v
          [] On(r) /\ s.kind = "block" -> Close(ExecAll(s.body, Open(r, <<>>)))
          [] On(r) /\ s.kind = "if" ->
                IF Falsey(r.value) THEN ExecAll(s.else, Tested(r)) ELSE Exec(s.then, Tested(r))
          [] On(r) /\ s.kind = "while" -> Loop(<<s.e>>, <<>>, s.do, run)
          [] On(r) /\ s.kind = "for" ->
                Close(Loop(s.test, s.step, s.do, ExecAll(s.init, Open(r, <<>>))))

\* What a program prints, tests, calls and returns.
Events(program) ==
    LET run == ExecAll(program, [scopes |-> <<<<>>>>, events |-> <<>>, value |-> Nil, state |-> "on"])
    IN  IF On(run) THEN Append(run.events, <<"end">>) ELSE run.events
-----------------------------------------------------------------------------
(* What the language forbids, or the compiler cannot do yet.               *)

RECURSIVE Mentions(_), Wrong(_, _)

Mentions(e) ==
    CASE e.kind = "constant" -> {}
      [] e.kind = "name"     -> {e.name}
      [] e.kind = "assign"   -> {e.name} \cup Mentions(e.value)
      [] e.kind = "unary"    -> Mentions(e.operand)
      [] e.kind = "binary"   -> Mentions(e.left) \cup Mentions(e.right)
      [] e.kind = "call"     -> Mentions(e.callee) \cup UNION {Mentions(a) : a \in ToSet(e.list)}

\* The names that stand in a statement itself, and the bodies in it.
Used(s) ==
    CASE s.kind = "return"         -> UNION {Mentions(e) : e \in ToSet(s.value)}
      [] "e" \in DOMAIN s          -> Mentions(s.e)
      [] OTHER                     -> {}

Bodies(s) ==
    CASE s.kind = "block" -> {s.body}
      [] s.kind = "if"    -> {<<s.then>>, s.else}
      [] s.kind = "while" -> {<<s.do>>}
      [] s.kind = "for"   -> {s.init \o [i \in DOMAIN s.test |-> Do(s.test[i])]
                                     \o [i \in DOMAIN s.step |-> Do(s.step[i])] \o <<Block(<<s.do>>)>>}
      [] OTHER            -> {}

\* A body is wrong at a place, which is in a function or not, at the top of the
\* script or not, after the names declared in this scope (here), those of this
\* function (own), and those of the functions around it (outer). Wrong are: to
\* return outside of functions, to use a variable of a function around, to declare a
\* name twice in one scope, to which the parameters belong unless one may hide
\* them, to use a local in its own initializer, and to have two parameters of one name.
Wrong(body, place) ==
    body # <<>> /\
    LET s == Head(body)
        declares == s.kind \in {"var", "fun"} /\ ~place.top
        after == IF declares
                 THEN [place EXCEPT !.here = @ \cup {s.name}, !.own = @ \cup {s.name}]
                 ELSE place
    IN  \/ s.kind = "return" /\ ~place.function
        \/ Used(s) \cap (place.outer \ place.own) # {}
        \/ declares /\ s.name \in place.here
        \/ declares /\ s.name \in Used(s)
        \/ \E b \in Bodies(s) : Wrong(b, [place EXCEPT !.here = {}, !.top = FALSE])
        \/ /\ s.kind = "fun"
           /\ \/ Cardinality(ToSet(s.parameters)) # Len(s.parameters)
              \/ Wrong(s.body, [function |-> TRUE, top |-> FALSE,
                                here |-> IF MayHideParameter THEN {} ELSE ToSet(s.parameters),
                                own |-> ToSet(s.parameters), outer |-> after.own \cup place.outer])
        \/ Wrong(Tail(body), after)

Forbidden(program) ==
    Wrong(program, [function |-> FALSE, top |-> TRUE, here |-> {}, own |-> {}, outer |-> {}])
=============================================================================
