---------------------------- MODULE CompiledCode ----------------------------
(***************************************************************************)
(* A source is scanned, compiled and run, and does what LoxStatements says *)
(* of its meaning. A frame has the arguments of an activation, the callee  *)
(* first, and a stack of its locals and temporaries; Frames has the slots  *)
(* around them, and says that x0 and x1 hold what is on top.               *)
(***************************************************************************)
EXTENDS Compiler, LoxSyntax

Scan == INSTANCE Scanner

CONSTANT Programs   \* records of a source, its meanings and, if it is written in lines, the lines

VARIABLES
    program,    \* what is compiled
    status,     \* "source", "tokens", "rejected", "aborted", "running" or "done"
    tokens,     \* what the scanner returns
    reported,   \* the lines of the errors that are reported
    functions,  \* the functions that have been compiled, the script last
    frames,     \* the activations, the running one last
    globals,
    events,     \* what the code has printed, tested, called and returned
    expected    \* what LoxStatements says that it will

vars == <<program, status, tokens, reported, functions, frames, globals, events, expected>>

Init ==
    /\ program \in Programs
    /\ status = "source"
    /\ tokens = <<>> /\ reported = {} /\ expected = {}
    /\ functions = <<>> /\ frames = <<>>
    /\ globals = <<>> /\ events = <<>>

\* The compiler takes one token at a time; the scanner does not depend on it.
scan ==
    /\ status = "source"
    /\ status' = "tokens" /\ tokens' = Scan!Tokens(program.source)
    /\ UNCHANGED <<program, reported, functions, frames, globals, events, expected>>

Frame(f, arguments) == [function |-> f, pc |-> 1, arguments |-> arguments, stack |-> <<>>]

\* start_script calls the last function.
interpret ==
    /\ status = "tokens"
    /\ LET c == compile(tokens)
           script == Len(c.functions)
       IN  /\ reported' = c.reported
           /\ IF c.aborted THEN status' = "aborted" /\ UNCHANGED <<functions, frames, expected>>
              ELSE IF c.hadError THEN status' = "rejected" /\ UNCHANGED <<functions, frames, expected>>
              ELSE /\ status' = "running" /\ functions' = c.functions
                   /\ frames' = <<Frame(script, <<<<"function", "", script>>>>)>>
                   /\ expected' = {Events(m) : m \in program.meanings}
    /\ UNCHANGED <<program, tokens, globals, events>>
-----------------------------------------------------------------------------
(* Instructions.                                                           *)

Running == Last(frames)
Stack == Running.stack
Code == functions[Running.function].code
Arg == Code[Running.pc].arg
At(op) == Code[Running.pc].op = op
Top == Last(Stack)

\* What is at an address that an instruction computes. The frame of the script
\* has one slot more, with its closure. Below sp anything may be.
Slot(address) ==
    (-address) \div 16 - (IF functions[Running.function].isFunction THEN 1 ELSE 2)
LocalAt(address) ==
    CASE Slot(address) \in DOMAIN Stack -> Stack[Slot(address)]
      [] Slot(address) = 0 -> Running.arguments[1]
      [] OTHER -> <<"undefined">>
ArgumentIndex(address) == Len(Running.arguments) - address \div 16 + 1
ConstantAt(address) == functions[Running.function].constants[address \div 16 + 1]
NameAt(address) == ConstantAt(address)[2]


\* The running frame with another stack or pc.
Continue(frame) == frames' = Append(Front(frames), frame)
Step(stack) == Continue([Running EXCEPT !.stack = stack, !.pc = @ + 1])
Push(v) == Step(Append(Stack, v))
Drop == Step(Front(Stack))
Log(e) == events' = Append(events, e)

\* What an instruction that works on the frame alone leaves as it is.
rest == <<status, globals, events>>

Fail == status' = "done" /\ Log(<<"error">>) /\ UNCHANGED <<frames, globals>>

literal == At("literal") /\ Push(Arg) /\ UNCHANGED rest
constant == At("constant") /\ Push(ConstantAt(Arg)) /\ UNCHANGED rest
closure == At("closure") /\ Push(ConstantAt(Arg)) /\ UNCHANGED rest
pop == At("pop") /\ Drop /\ UNCHANGED rest

unaryOperator ==
    /\ At("unary")
    /\ Step(Append(Front(Stack), <<"unary", Arg, Top>>))
    /\ UNCHANGED rest

binaryOperator ==
    /\ At("binary")
    /\ LET below == Front(Stack)
       IN  Step(Append(Front(below), <<"binary", Arg, Last(below), Top>>))
    /\ UNCHANGED rest

getLocal == At("getLocal") /\ Push(LocalAt(Arg)) /\ UNCHANGED rest

Written == IF Arg.intact THEN Top ELSE <<"undefined">>

setLocal ==
    /\ At("setLocal")
    /\ Step(IF Slot(Arg.address) \in DOMAIN Stack
            THEN [Stack EXCEPT ![Slot(Arg.address)] = Written] ELSE Stack)
    /\ UNCHANGED rest

getArgument == At("getArgument") /\ Push(Running.arguments[ArgumentIndex(Arg)]) /\ UNCHANGED rest

setArgument ==
    /\ At("setArgument")
    /\ Continue([Running EXCEPT !.arguments[ArgumentIndex(Arg.address)] = Written, !.pc = @ + 1])
    /\ UNCHANGED rest

getGlobal ==
    /\ At("getGlobal")
    /\ IF NameAt(Arg) \in DOMAIN globals THEN Push(globals[NameAt(Arg)]) /\ UNCHANGED rest ELSE Fail

setGlobal ==
    /\ At("setGlobal")
    /\ IF NameAt(Arg) \in DOMAIN globals
       THEN globals' = Bind(globals, NameAt(Arg), Top) /\ Step(Stack) /\ UNCHANGED <<status, events>>
       ELSE Fail

defineGlobal ==
    /\ At("defineGlobal")
    /\ globals' = Bind(globals, NameAt(Arg), Top) /\ Drop
    /\ UNCHANGED <<status, events>>

print == At("print") /\ Log(<<"print", Printed(Top)>>) /\ Drop /\ UNCHANGED <<status, globals>>

branch == At("branch") /\ Continue([Running EXCEPT !.pc = @ + Arg]) /\ UNCHANGED rest

\* Taken if the value on top is nil or false; the value stays.
conditional ==
    /\ At("conditional")
    /\ Log(<<"test", Printed(Top)>>)
    /\ Continue([Running EXCEPT !.pc = IF Falsey(Top) THEN @ + Arg ELSE @ + 1])
    /\ UNCHANGED <<status, globals>>

\* The callee is below its arguments.
callFunction ==
    /\ At("call")
    /\ LET base == Len(Stack) - Arg - 1
           callee == Stack[base + 1]
           caller == [Running EXCEPT !.stack = SubSeq(@, 1, base), !.pc = @ + 1]
           callable == IF callee[1] = "function" THEN functions[callee[3]].arity = Arg ELSE FALSE
       IN  IF callable
           THEN /\ Log(<<"call", callee[2]>>)
                /\ frames' = Front(frames) \o <<caller, Frame(callee[3], SubSeq(Stack, base + 1, Len(Stack)))>>
                /\ UNCHANGED <<status, globals>>
           ELSE Fail

return ==
    /\ At("return")
    /\ Log(<<"return", Printed(Top)>>)
    /\ LET callers == Front(frames)
       IN  frames' = Append(Front(callers), [Last(callers) EXCEPT !.stack = Append(@, Top)])
    /\ UNCHANGED <<status, globals>>

finish == At("finish") /\ status' = "done" /\ Log(<<"end">>) /\ UNCHANGED <<frames, globals>>

\* Loops and calls are followed up to MaxEvents.
Run ==
    /\ status = "running" /\ Len(events) < MaxEvents
    /\ \/ literal \/ constant \/ closure \/ pop \/ unaryOperator \/ binaryOperator
       \/ getLocal \/ setLocal \/ getArgument \/ setArgument \/ getGlobal \/ setGlobal \/ defineGlobal
       \/ print \/ branch \/ conditional \/ callFunction \/ return \/ finish
    /\ UNCHANGED <<program, tokens, reported, functions, expected>>

Next == scan \/ interpret \/ Run

\* Generated code is sequential and nothing stops it.
Spec == Init /\ [][Next]_vars /\ WF_vars(Run)
-----------------------------------------------------------------------------
\* Every activation has a next instruction, the script is the first, and a
\* source means at most one program.
TypeOK ==
    /\ status \in {"source", "tokens", "rejected", "aborted", "running", "done"}
    /\ \A i \in DOMAIN frames :
          /\ frames[i].pc \in DOMAIN functions[frames[i].function].code
          /\ functions[frames[i].function].isFunction <=> i > 1
    /\ Len(events) <= MaxEvents /\ Cardinality(program.meanings) <= 1

\* The scanner finds the longest lexemes and the lines they end on
\* (scanner.c:72 to 231).
TokensRight == status = "tokens" => tokens = Lexemes(program.source)

\* The code prints, tests, calls and returns what the source means, with the
\* values that its operands have (compiler.c:550 to 1128, arm64.c:134 to 424).
EventsAgree ==
    \A e \in expected :
        /\ status = "running" => IsPrefix(events, e)
        /\ status = "done" => events = e

\* The stack has the height that the compiler counts on, whatever way the code
\* has taken: the points of Frames are true of every jump.
HeightsMatch ==
    status = "running" =>
        LET point == Code[Running.pc] IN Len(Stack) = point.locals + point.temps

\* The compiler rejects what is no program or is forbidden, and nothing else
\* (compiler.c:365, 462, 478, 792, 806, 1029). It lets a variable hide a parameter,
\* which Lox forbids (compiler.c:454): this is said of MayHideParameter = TRUE.
Rejections ==
    LET allowed == \E m \in program.meanings : ~Forbidden(m)
    IN  (status \in {"rejected", "aborted"} => ~allowed) /\ (status = "running" => allowed)

\* Where every line is a statement of its own, an error is reported for every
\* line that is wrong and for no other: after an error the compiler finds the
\* next statement (compiler.c:1069).
Recovers ==
    LET lines == program.lines
    IN  status = "rejected" /\ lines # <<>> =>
            reported = {i \in DOMAIN lines :
                           LET m == Meanings(lines[i]) IN m = {} \/ \E b \in m : Forbidden(b)}

\* Code that runs comes to an end, or goes on to test, call and print: no jump
\* leads back to itself.
Finishes == status = "running" ~> (status = "done" \/ Len(events) = MaxEvents)
=============================================================================
