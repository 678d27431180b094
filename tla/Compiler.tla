------------------------------ MODULE Compiler ------------------------------
(***************************************************************************)
(* compiler.c: one pass from tokens to code. The state of a compilation is *)
(* a record c; where C changes parser or *current, an operator returns the *)
(* record that results.                                                    *)
(*                                                                         *)
(* An emitter of arm64.c adds one instruction here, whatever its number of *)
(* words. An instruction keeps the number of locals and of temporaries     *)
(* that the compiler counts on the stack: the points of Frames. Indices    *)
(* count from 0, as in C.                                                  *)
(***************************************************************************)
EXTENDS Integers, Sequences, SequencesExt, FiniteSetsExt, Arm64

CONSTANTS
    UINT8_COUNT,    \* 256
    InlineNumbers   \* the numbers that emitNumberInline accepts

Uninitialized == -1

initialCompiler(isFunction, name) ==
    [isFunction |-> isFunction, name |-> name, arguments |-> <<IF isFunction THEN "" ELSE "this">>,
     locals |-> <<>>, scopeDepth |-> 0, captures |-> FALSE, constants |-> <<>>, code |-> <<>>,
     temps |-> 0]
-----------------------------------------------------------------------------
(* Parser. at is the index of parser.current, previous of parser.previous. *)
(* The end of the source is read again and again.                          *)

Token(c) == c.tokens[c.at]
Previous(c) == c.tokens[c.previous]
AtEnd(c) == c.at = Len(c.tokens)

\* Only the first error is reported until synchronize.
errorAt(c, token) ==
    IF c.panicMode THEN c
    ELSE [c EXCEPT !.panicMode = TRUE, !.hadError = TRUE, !.reported = @ \cup {token.line}]
error(c) == errorAt(c, Previous(c))
errorAtCurrent(c) == errorAt(c, Token(c))

\* An assertion of emitByte fails: the process ends, and nothing is read any more.
emitByte(c) == [c EXCEPT !.aborted = TRUE, !.at = Len(c.tokens)]

advance(c) ==
    LET next == CHOOSE i \in c.at + 1..Len(c.tokens) :
                    /\ c.tokens[i].type # "error"
                    /\ \A j \in c.at + 1..i - 1 : c.tokens[j].type = "error"
    IN  IF AtEnd(c) THEN [c EXCEPT !.previous = c.at]
        ELSE FoldLeft(errorAt, [c EXCEPT !.previous = c.at, !.at = next],
                      SubSeq(c.tokens, c.at + 1, next - 1))

check(c, type) == Token(c).type = type
consume(c, type) == IF check(c, type) THEN advance(c) ELSE errorAtCurrent(c)
-----------------------------------------------------------------------------
(* Emitters of arm64.c; pushed is what the instruction leaves on the stack *)

\* A local in its own initializer is not yet on the stack.
Initialized(f) == Cardinality({i \in DOMAIN f.locals : f.locals[i].depth # Uninitialized})

Here(c) == Len(c.current.code)

emit(c, op, arg, pushed) ==
    LET f == c.current
        instruction == [op |-> op, arg |-> arg, locals |-> Initialized(f), temps |-> f.temps]
    IN  [c EXCEPT !.current.code = Append(@, instruction), !.current.temps = @ + pushed]

emitPop(c) == emit(c, "pop", <<>>, -1)
emitLiteral(c, value) == emit(c, "literal", value, 1)

emitLoop(c, start) == emit(c, "branch", BranchOffset(start - Here(c)), 0)

emitJump_(c) == emit(c, "branch", BranchOffset(0), 0)
emitConditionalJump(c) == emit(c, "conditional", ConditionalOffset(0), 0)

\* Fault: the jump is left as it was emitted.
patchJump__Never(c, jump) == c

\* The jump goes to what is emitted next.
patchJump_(c, jump) == [c EXCEPT !.current.code[jump + 1].arg = BranchOffset(Here(c) - jump)]

\* Here the tested value is on the stack again.
patchConditionalJump(c, jump) ==
    [c EXCEPT !.current.code[jump + 1].arg = ConditionalOffset(Here(c) - jump), !.current.temps = 1]

\* Fault: the nil is pushed and not returned.
emitReturn__Nil(c) ==
    LET nil == emitLiteral(c, <<"nil">>)
    IN  IF c.current.isFunction THEN nil ELSE emit(nil, "finish", <<>>, -1)

\* emitReturn_ without a value: methods never get this far.
emitReturn_(c) ==
    LET nil == emitLiteral(c, <<"nil">>)
    IN  IF c.current.isFunction THEN emit(nil, "return", <<>>, -1) ELSE emit(nil, "finish", <<>>, -1)

\* The constant is the last, unless there are too many.
makeConstant(c, value) ==
    LET added == [c EXCEPT !.current.constants = Append(@, value)]
    IN  IF Len(added.current.constants) > UINT8_COUNT THEN error(added) ELSE added
constantIndex(c) ==
    IF Len(c.current.constants) > UINT8_COUNT THEN 0 ELSE Len(c.current.constants) - 1

emitConstant(c, value) ==
    LET added == makeConstant(c, value)
    IN  emit(added, "constant", ConstantAddress(constantIndex(added)), 1)

identifierConstant(c, name) == makeConstant(c, <<"string", name>>)
-----------------------------------------------------------------------------
(* Scopes and names.                                                       *)

\* Fault: the search in the locals does not stop at those of outer scopes.
Clashes_Everywhere(f, name) == {i \in DOMAIN f.locals : f.locals[i].name = name}

\* The locals of this scope that have the name already.
Clashes(f, name) ==
    LET Outer(l) == l.depth # Uninitialized /\ l.depth < f.scopeDepth
    IN  {i \in DOMAIN f.locals :
            f.locals[i].name = name /\ \A j \in i..Len(f.locals) : ~Outer(f.locals[j])}

addLocal(c, name) ==
    IF Len(c.current.locals) = UINT8_COUNT THEN error(c)
    ELSE [c EXCEPT !.current.locals =
            Append(@, [name |-> name, depth |-> Uninitialized, isCaptured |-> FALSE])]

\* Variables at depth 0 are global.
declareVariable(c) ==
    LET name == Previous(c).lexeme
    IN  IF c.current.scopeDepth = 0 THEN c
        ELSE addLocal(IF Clashes(c.current, name) = {} THEN c ELSE error(c), name)

parseVariable(c) ==
    LET declared == declareVariable(consume(c, "identifier"))
    IN  IF declared.current.scopeDepth > 0 THEN declared
        ELSE identifierConstant(declared, Previous(declared).lexeme)

\* The value that has been pushed, or will be, becomes the local.
markInitialized(c) ==
    LET last == Len(c.current.locals)
    IN  IF c.current.scopeDepth = 0 THEN c
        ELSE [c EXCEPT !.current.temps =
                            IF c.current.locals[last].depth = Uninitialized THEN @ - 1 ELSE @,
                       !.current.locals[last].depth = c.current.scopeDepth]

defineVariable(c, global) ==
    IF c.current.scopeDepth > 0 THEN markInitialized(c)
    ELSE emit(c, "defineGlobal", PointerAddress(global), -1)

parseArgument(c) ==
    LET named == consume(c, "identifier")
        name == Previous(named).lexeme
        checked == IF name \in ToSet(named.current.arguments) THEN error(named) ELSE named
    IN  IF Len(c.current.arguments) = UINT8_COUNT THEN error(checked)
        ELSE [checked EXCEPT !.current.arguments = Append(@, name)]

beginScope(c) == [c EXCEPT !.current.scopeDepth = @ + 1]

RECURSIVE PopLocals(_)

PopLocals(c) ==
    LET locals == c.current.locals
    IN  IF locals = <<>> THEN c
        ELSE IF Last(locals).depth <= c.current.scopeDepth THEN c
        ELSE PopLocals([(IF Last(locals).isCaptured THEN emitByte(c) ELSE emit(c, "pop", <<>>, 0))
                            EXCEPT !.current.locals = Front(@)])

\* Fault: the locals of the scope stay on the stack.
endScope_NoPop(c) ==
    LET d == c.current.scopeDepth - 1
    IN  [c EXCEPT !.current.scopeDepth = d,
                  !.current.locals = SelectSeq(@, LAMBDA l : l.depth <= d)]

endScope(c) == PopLocals([c EXCEPT !.current.scopeDepth = @ - 1])

\* Where a compiler finds the name: among its locals before its arguments.
resolveLocal(f, name) ==
    LET locals == {i \in DOMAIN f.locals : f.locals[i].name = name}
        arguments == {i \in DOMAIN f.arguments : f.arguments[i] = name}
    IN  IF locals # {} THEN [kind |-> "Local", index |-> Max(locals) - 1]
        ELSE IF arguments # {} THEN [kind |-> "Argument", index |-> Max(arguments) - 1]
        ELSE [kind |-> "Global", index |-> -1]

\* The enclosing compilers that know the name.
Enclosing(c, name) == {i \in DOMAIN c.enclosing : resolveLocal(c.enclosing[i], name).kind # "Global"}

\* All compilers from the one that has the variable get an upvalue for it.
resolveUpvalue(c, name) ==
    LET owner == Max(Enclosing(c, name))
        found == resolveLocal(c.enclosing[owner], name)
        Capture(i) ==
            IF i > owner THEN [c.enclosing[i] EXCEPT !.captures = TRUE]
            ELSE IF i = owner /\ found.kind = "Local"
            THEN [c.enclosing[i] EXCEPT !.locals[found.index + 1].isCaptured = TRUE]
            ELSE c.enclosing[i]
    IN  [c EXCEPT !.current.captures = TRUE, !.enclosing = [i \in DOMAIN @ |-> Capture(i)]]

\* The handlers: what is emitted to read or to write a variable. handleUpvalue
\* emits nothing.
handleLocal(c, index, set) ==
    IF set THEN emit(c, "setLocal", [address |-> SetLocalAddress(index), intact |-> SetLocalIntact(index)], 0)
    ELSE emit(c, "getLocal", LocalAddress(index), 1)

handleArgument(c, index, set) ==
    LET n == Len(c.current.arguments)
    IN  IF set THEN emit(c, "setArgument", [address |-> ArgumentAddress(n, index),
                                            intact |-> SetArgumentIntact(n, index)], 0)
        ELSE emit(c, "getArgument", ArgumentAddress(n, index), 1)

handleGlobal(c, index, set) ==
    IF set THEN emit(c, "setGlobal", PointerAddress(index), 0)
    ELSE emit(c, "getGlobal", PointerAddress(index), 1)

handle(c, kind, index, set) ==
    CASE kind = "Local" -> handleLocal(c, index, set)
      [] kind = "Argument" -> handleArgument(c, index, set)
      [] kind = "Global" -> handleGlobal(c, index, set)
      [] kind = "Upvalue" -> c
-----------------------------------------------------------------------------
(* Expressions. The numbers are those of enum Precedence.                  *)

None == 0
Assignment == 1
UnaryPrecedence == 8

\* Fault: minus binds as tightly as times.
precedence_Minus(type) ==
    CASE type = "or" -> 2
      [] type = "and" -> 3
      [] type \in {"==", "!="} -> 4
      [] type \in {"<", ">", "<=", ">="} -> 5
      [] type \in {"+"} -> 6
      [] type \in {"*", "/", "-"} -> 7
      [] type \in {"(", "."} -> 9
      [] OTHER -> None

precedence(type) ==
    CASE type = "or" -> 2
      [] type = "and" -> 3
      [] type \in {"==", "!="} -> 4
      [] type \in {"<", ">", "<=", ">="} -> 5
      [] type \in {"+", "-"} -> 6
      [] type \in {"*", "/"} -> 7
      [] type \in {"(", "."} -> 9
      [] OTHER -> None

PrefixTypes == {"(", "-", "!", "identifier", "string", "number", "nil", "true", "false", "super", "this"}

RECURSIVE parse(_, _), parsePrecedence(_, _), infixes(_, _), argumentList(_, _)

\* The functions that C declares ahead of the others, which call them.
expression(c) == parse("expression", c)
statement(c) == parse("statement", c)
declaration(c) == parse("declaration", c)

grouping(c) == consume(expression(c), ")")

number(c) ==
    LET value == <<"number", Previous(c).lexeme>>
    IN  IF Previous(c).lexeme \in InlineNumbers THEN emitLiteral(c, value) ELSE emitConstant(c, value)

string(c) ==
    LET text == Previous(c).lexeme
    IN  emitConstant(c, <<"string", SubSeq(text, 2, Len(text) - 1)>>)

\* The variable is resolved before the value that is assigned is compiled.
namedVariable(c, name, canAssign) ==
    LET found == resolveLocal(c.current, name)
        uninitialized == found.kind = "Local" /\ c.current.locals[found.index + 1].depth = Uninitialized
        captured == found.kind = "Global" /\ Enclosing(c, name) # {}
        kind == IF captured THEN "Upvalue" ELSE found.kind
        resolved == CASE uninitialized -> error(c)
                      [] captured -> resolveUpvalue(c, name)
                      [] kind = "Global" -> identifierConstant(c, name)
                      [] OTHER -> c
        index == IF kind = "Global" THEN constantIndex(resolved) ELSE found.index
    IN  IF canAssign /\ check(resolved, "=") THEN handle(expression(advance(resolved)), kind, index, TRUE)
        ELSE handle(resolved, kind, index, FALSE)

unary(c) == emit(parsePrecedence(c, UnaryPrecedence), "unary", Previous(c).type, 0)

binary(c) ==
    LET op == Previous(c).type
    IN  emit(parsePrecedence(c, precedence(op) + 1), "binary", op, -1)

\* The arguments from the n-th on, and their number.
argumentList(c, n) ==
    LET counted(argument) == IF n = UINT8_COUNT - 1 THEN error(argument) ELSE argument
        more(list) == IF check(list, ",") THEN argumentList(advance(list), n + 1)
                      ELSE [after |-> consume(list, ")"), argCount |-> (n + 1) % UINT8_COUNT]
    IN  more(counted(expression(c)))

call(c) ==
    LET emitCall(list) == emit(list.after, "call", list.argCount, -list.argCount)
    IN  emitCall(IF check(c, ")") THEN [after |-> advance(c), argCount |-> 0] ELSE argumentList(c, 0))

prefixRule(c, canAssign) ==
    LET type == Previous(c).type
    IN  CASE type = "(" -> grouping(c)
          [] type \in {"-", "!"} -> unary(c)
          [] type = "identifier" -> namedVariable(c, Previous(c).lexeme, canAssign)
          [] type = "string" -> string(c)
          [] type = "number" -> number(c)
          [] type \in {"nil", "true", "false"} -> emitLiteral(c, <<type>>)
          [] type = "this" -> error(c)
          [] type = "super" -> emitByte(error(c))

infixRule(c) ==
    CASE Previous(c).type = "(" -> call(c)
      [] Previous(c).type \in {"and", "or", "."} -> emitByte(c)
      [] OTHER -> binary(c)

infixes(c, p) ==
    IF p <= precedence(Token(c).type) THEN infixes(infixRule(advance(c)), p) ELSE c

\* What may be assigned to has taken the equals sign by now.
withoutAssignment(c, canAssign) ==
    IF canAssign /\ check(c, "=") THEN error(advance(c)) ELSE c

parsePrecedence(c, p) ==
    LET first == advance(c)
        canAssign == p <= Assignment
    IN  IF Previous(first).type \notin PrefixTypes THEN error(first)
        ELSE withoutAssignment(infixes(prefixRule(first, canAssign), p), canAssign)
-----------------------------------------------------------------------------
(* Statements.                                                             *)

RECURSIVE block(_), parameterList(_)

expressionStatement(c) == emitPop(consume(expression(c), ";"))

printStatement(c) == emit(consume(expression(c), ";"), "print", <<>>, -1)

varDeclaration(c) ==
    LET variable == parseVariable(c)
        value == IF check(variable, "=") THEN expression(advance(variable)) ELSE emitByte(variable)
    IN  defineVariable(consume(value, ";"), constantIndex(variable))

returnStatement(c) ==
    LET checked == IF c.current.isFunction THEN c ELSE error(c)
    IN  IF check(checked, ";") THEN emitReturn_(advance(checked))
        ELSE emit(consume(expression(checked), ";"), "return", <<>>, -1)

\* ( expression ) and the jump that is taken if it is false.
condition(c) == consume(expression(consume(c, "(")), ")")

\* then is what follows the test, else what follows the first branch.
ifStatement(c) ==
    LET else(e) == IF check(e, "else") THEN statement(advance(e)) ELSE e
        then(t, jump) ==
            patchJump_(else(emitPop(patchConditionalJump(emitJump_(t), jump))), Here(t))
        branches(tested) == then(statement(emitPop(emitConditionalJump(tested))), Here(tested))
    IN  branches(condition(c))

whileStatement(c) ==
    LET body(tested) ==
            patchConditionalJump(emitLoop(statement(emitPop(emitConditionalJump(tested))), Here(c)),
                                 Here(tested))
    IN  emitPop(body(condition(c)))

forInitializer(c) ==
    CASE check(c, ";") -> advance(c)
      [] check(c, "var") -> varDeclaration(advance(c))
      [] OTHER -> expressionStatement(c)

\* The increment comes before the body and is jumped over the first time.
forIncrement(c, loopStart) ==
    IF check(c, ")") THEN advance(c)
    ELSE patchJump_(emitLoop(consume(emitPop(expression(emitJump_(c))), ")"), loopStart), Here(c))

\* Fault: after the body the condition follows at once.
forBody_NoIncrement(c, loopStart, incrementStart) == emitLoop(statement(c), loopStart)

\* After the body comes the increment, if there is one.
forBody(c, loopStart, incrementStart) == emitLoop(statement(c), incrementStart)

\* From the condition, or its place, on; without one there is no way out.
forLoop(c, loopStart) ==
    forBody(forIncrement(c, loopStart), loopStart,
            IF check(c, ")") THEN loopStart ELSE Here(c) + 1)

forStatement(c) ==
    LET exit(tested, loopStart) ==
            emitPop(patchConditionalJump(
                forLoop(emitPop(emitConditionalJump(tested)), loopStart), Here(tested)))
        loop(init) == IF check(init, ";") THEN forLoop(advance(init), Here(init))
                      ELSE exit(consume(expression(init), ";"), Here(init))
    IN  endScope(loop(forInitializer(consume(beginScope(c), "("))))

\* What joins compiledFunctions.
endCompiler(c) ==
    LET done == emitReturn_(c)
        f == done.current
    IN  [done EXCEPT !.functions = Append(@, [name |-> f.name, isFunction |-> f.isFunction, code |-> f.code,
                                              arity |-> Len(f.arguments) - 1, constants |-> f.constants])]

parameterList(c) ==
    LET more(list) == IF check(list, ",") THEN parameterList(advance(list)) ELSE list
    IN  more(parseArgument(IF Len(c.current.arguments) = UINT8_COUNT THEN errorAtCurrent(c) ELSE c))

\* The compiler of the function around goes on, with a closure of the new one.
function(c) ==
    LET entered == beginScope([c EXCEPT !.enclosing = Append(@, c.current),
                                        !.current = initialCompiler(TRUE, Previous(c).lexeme)])
        parameters(open) == IF check(open, ")") THEN open ELSE parameterList(open)
        body(list) == endCompiler(block(consume(consume(list, ")"), "{")))
        left(done) == [done EXCEPT !.current = Last(done.enclosing), !.enclosing = Front(@)]
        constant(d) == makeConstant(d, <<"function", Last(d.functions).name, Len(d.functions)>>)
        closure(d) == emit(d, "closure", PointerAddress(constantIndex(d)), 1)
        upvalues(d, captures) == IF captures THEN emitByte(d) ELSE d
        all(done) == upvalues(closure(constant(left(done))), done.current.captures)
    IN  all(body(parameters(consume(entered, "("))))

funDeclaration(c) ==
    LET variable == parseVariable(c)
    IN  defineVariable(function(markInitialized(variable)), constantIndex(variable))

block(c) ==
    IF check(c, "}") \/ AtEnd(c) THEN consume(c, "}") ELSE block(declaration(c))

statementRule(c) ==
    CASE check(c, "print")  -> printStatement(advance(c))
      [] check(c, "for")    -> forStatement(advance(c))
      [] check(c, "if")     -> ifStatement(advance(c))
      [] check(c, "return") -> returnStatement(advance(c))
      [] check(c, "while")  -> whileStatement(advance(c))
      [] check(c, "{")      -> endScope(block(beginScope(advance(c))))
      [] OTHER              -> expressionStatement(c)

Starts == {"class", "fun", "var", "for", "if", "while", "print", "return"}

RECURSIVE Skip(_)

Skip(c) ==
    IF AtEnd(c) \/ Previous(c).type = ";" \/ Token(c).type \in Starts THEN c ELSE Skip(advance(c))

\* Fault: the semicolon that was read already is not noticed.
synchronize_Late(c) == Skip(advance([c EXCEPT !.panicMode = FALSE]))

synchronize(c) == Skip([c EXCEPT !.panicMode = FALSE])

\* classDeclaration emits bytecode at once.
declarationRule(c) ==
    LET recover(done) == IF done.panicMode THEN synchronize(done) ELSE done
    IN  recover(CASE check(c, "class") -> emitByte(advance(c))
                  [] check(c, "fun")   -> funDeclaration(advance(c))
                  [] check(c, "var")   -> varDeclaration(advance(c))
                  [] OTHER             -> statement(c))

parse(rule, c) ==
    CASE rule = "expression"  -> parsePrecedence(c, Assignment)
      [] rule = "statement"   -> statementRule(c)
      [] rule = "declaration" -> declarationRule(c)

RECURSIVE declarations(_)

declarations(c) == IF AtEnd(c) THEN c ELSE declarations(declaration(c))

compile(tokens) ==
    endCompiler(declarations(advance(
        [tokens |-> tokens, at |-> 0, previous |-> 0, hadError |-> FALSE, panicMode |-> FALSE,
         aborted |-> FALSE, reported |-> {}, functions |-> <<>>, enclosing |-> <<>>,
         current |-> initialCompiler(FALSE, "")])))
=============================================================================
