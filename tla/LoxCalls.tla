------------------------------ MODULE LoxCalls ------------------------------
(***************************************************************************)
(* What a running Lox program promises its user, with no machine stack:    *)
(* every activation of a function has arguments and locals of its own,     *)
(* the values of the expression being evaluated are a stack of             *)
(* temporaries, a call adds an activation and a return drops it and hands  *)
(* its result to the caller, whose own variables are as it left them.      *)
(* Control flow is left out: any operation that the compiler could have    *)
(* emitted next may come next.                                             *)
(***************************************************************************)
EXTENDS Naturals, Sequences

CONSTANTS
    Functions,   \* the functions a program declares, each with one closure
    Script,      \* the top-level code, which is a function too
    Arity,       \* the number of parameters of each of them
    Plain,       \* the values that are not closures
    Nil

VARIABLES
    calls,       \* the activations, the running one last
    result       \* how the last interpret() ended

vars == <<calls, result>>

Values == Plain \cup {Nil} \cup Functions

Activation(f, args) == [fn |-> f, args |-> args, locals |-> <<>>, temps |-> <<>>]

Running == calls # <<>>
Current == calls[Len(calls)]
Callers == SubSeq(calls, 1, Len(calls) - 1)

\* Puts activation a in the place of the running one.
Become(a) == calls' = Append(Callers, a) /\ UNCHANGED result

Push(a, v) == [a EXCEPT !.temps = Append(@, v)]
Drop(a, n) == [a EXCEPT !.temps = SubSeq(@, 1, Len(@) - n)]
TopOf(a) == a.temps[Len(a.temps)]
-----------------------------------------------------------------------------
Init == calls = <<>> /\ result = "none"

Start ==
    /\ ~Running
    /\ calls' = <<Activation(Script, <<>>)>>
    /\ result' = "none"

Finish ==
    /\ Len(calls) = 1
    /\ Current.locals = <<>> /\ Current.temps = <<>>
    /\ calls' = <<>>
    /\ result' = "ok"

RuntimeError ==
    /\ Running
    /\ calls' = <<>>
    /\ result' = "runtime_error"

\* A literal, a global, a new closure.
Load == Running /\ \E v \in Values : Become(Push(Current, v))

GetLocal ==
    /\ Running
    /\ \E i \in DOMAIN Current.locals : Become(Push(Current, Current.locals[i]))

SetLocal ==
    /\ Running /\ Current.temps # <<>>
    /\ \E i \in DOMAIN Current.locals :
          Become([Current EXCEPT !.locals[i] = TopOf(Current)])

GetArgument ==
    /\ Running
    /\ \E i \in DOMAIN Current.args : Become(Push(Current, Current.args[i]))

SetArgument ==
    /\ Running /\ Current.temps # <<>>
    /\ \E i \in DOMAIN Current.args :
          Become([Current EXCEPT !.args[i] = TopOf(Current)])

\* The value of the initializer becomes the newest local.
DefineLocal ==
    /\ Running /\ Len(Current.temps) = 1
    /\ Become([Drop(Current, 1) EXCEPT !.locals = Append(@, TopOf(Current))])

EndScope ==
    /\ Running /\ Current.temps = <<>> /\ Current.locals # <<>>
    /\ Become([Current EXCEPT !.locals = SubSeq(@, 1, Len(@) - 1)])

\* The end of an expression statement, of a print, of a global definition.
Discard == Running /\ Current.temps # <<>> /\ Become(Drop(Current, 1))

\* n operands give one result that is not a closure.
Operate ==
    /\ Running
    /\ \E n \in 1..2, v \in Plain :
          Len(Current.temps) >= n /\ Become(Push(Drop(Current, n), v))

Call ==
    /\ Running
    /\ \E n \in 0..(Len(Current.temps) - 1) :
          LET caller == Drop(Current, n + 1)
              callee == Current.temps[Len(Current.temps) - n]
              args == SubSeq(Current.temps, Len(Current.temps) - n + 1, Len(Current.temps))
          IN  /\ callee \in Functions /\ Arity[callee] = n
              /\ calls' = Callers \o <<caller, Activation(callee, args)>>
              /\ UNCHANGED result

\* The activation and all its variables go; the caller gets value v.
ReturnValue(v) ==
    /\ Len(calls) > 1
    /\ calls' = Append(SubSeq(calls, 1, Len(calls) - 2), Push(calls[Len(calls) - 1], v))
    /\ UNCHANGED result

Return ==
    \/ Running /\ Len(Current.temps) = 1 /\ ReturnValue(TopOf(Current))
    \/ Running /\ Current.temps = <<>> /\ ReturnValue(Nil)

Next ==
    \/ Start \/ Finish \/ RuntimeError
    \/ Load \/ GetLocal \/ SetLocal \/ GetArgument \/ SetArgument
    \/ DefineLocal \/ EndScope \/ Discard \/ Operate
    \/ Call \/ Return

Spec == Init /\ [][Next]_vars
=============================================================================
