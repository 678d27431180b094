----------------------------- MODULE LoxSyntax -----------------------------
(***************************************************************************)
(* How Lox programs are written: the reference for Scanner and for the     *)
(* parser in Compiler. Lexemes are told apart by what they look like, and  *)
(* the longest one is meant; trees are told by the grammar, rule by rule,  *)
(* with no order of reading.                                               *)
(***************************************************************************)
EXTENDS LoxStatements

CONSTANT MaxLexeme      \* no lexeme or comment of a program is longer

Letters(text) == {SubSeq(text, i, i) : i \in 1..Len(text)}
Numeral == Letters("0123456789")
Letter == Letters("abcdefghijklmnopqrstuvwxyzABCDEFGHIJKLMNOPQRSTUVWXYZ_")
Symbols == Letters("(){},.-+;/*!=<>") \cup {"!=", "==", "<=", ">="}
Keywords == {"and", "class", "else", "false", "for", "fun", "if", "nil", "or", "print", "return",
             "super", "this", "true", "var", "while"}

All(text, S) == Letters(text) \subseteq S
LetterAt(text, i) == SubSeq(text, i, i)

\* What a text is when it stands alone.
Class(text) ==
    LET n == Len(text)
        point == {i \in 2..n - 1 : LetterAt(text, i) = "."}
    IN  CASE text \in {" ", "\r", "\t", "\n"} -> "blank"
          [] text \in Symbols \cup Keywords -> text
          [] n > 1 /\ LetterAt(text, 1) = "/" /\ LetterAt(text, 2) = "/" /\ ~"\n" \in Letters(text) -> "blank"
          [] /\ LetterAt(text, 1) \in Letter /\ All(text, Letter \cup Numeral)
             /\ text \notin Keywords -> "identifier"
          [] All(text, Numeral) -> "number"
          [] \E i \in point : All(SubSeq(text, 1, i - 1), Numeral) /\ All(SubSeq(text, i + 1, n), Numeral)
                -> "number"
          [] n > 1 /\ LetterAt(text, 1) = "\"" /\ {i \in 2..n : LetterAt(text, i) = "\""} = {n} -> "string"
          [] OTHER -> "none"

\* Where the longest lexeme or blank that begins at i ends.
Longest(source, i) ==
    LET ends == {j \in i..Min({Len(source), i + MaxLexeme}) : Class(SubSeq(source, i, j)) # "none"}
    IN  IF ends # {} THEN Max(ends) ELSE IF LetterAt(source, i) = "\"" THEN Len(source) ELSE i

RECURSIVE LexemesFrom(_, _, _)

LexemesFrom(source, i, line) ==
    IF i > Len(source) THEN <<[type |-> "eof", lexeme |-> "", line |-> line]>>
    ELSE LET j == Longest(source, i)
             text == SubSeq(source, i, j)
             class == Class(text)
             end == line + Cardinality({k \in i..j : LetterAt(source, k) = "\n"})
         IN  CASE class = "blank" -> LexemesFrom(source, j + 1, end)
               [] class = "none" ->
                     <<[type |-> "error", lexeme |-> "", line |-> end]>> \o LexemesFrom(source, j + 1, end)
               [] class \notin {"blank", "none"} ->
                     <<[type |-> class, lexeme |-> text, line |-> end]>> \o LexemesFrom(source, j + 1, end)

\* The tokens of a source, with the line each of them ends on.
Lexemes(source) == LexemesFrom(source, 1, 1)
-----------------------------------------------------------------------------
(* Grammar. Levels: 1 assignment, 2 to 5 the binary operators, 6 unary,    *)
(* 7 calls, 8 what stands alone.                                           *)

Level(op) ==
    CASE op \in {"==", "!="} -> 2
      [] op \in {"<", ">", "<=", ">="} -> 3
      [] op \in {"+", "-"} -> 4
      [] op \in {"*", "/"} -> 5
      [] OTHER -> 0

Is(ts, i, type) == i \in DOMAIN ts /\ ts[i].type = type
Part(ts, i, j) == SubSeq(ts, i, j)
From(ts, i) == SubSeq(ts, i, Len(ts))
Names(ts) == [i \in DOMAIN ts |-> ts[i].lexeme]

Atom(t) ==
    CASE t.type = "identifier" -> {Name(t.lexeme)}
      [] t.type = "number" -> {Constant(<<"number", t.lexeme>>)}
      [] t.type = "string" -> {Constant(<<"string", SubSeq(t.lexeme, 2, Len(t.lexeme) - 1)>>)}
      [] t.type \in {"nil", "true", "false"} -> {Constant(<<t.type>>)}
      [] OTHER -> {}

RECURSIVE Expr(_, _), ExprList(_)

\* The trees of the tokens ts as an expression of level p or above.
Expr(p, ts) ==
    LET n == Len(ts)
        operators == {i \in 2..n - 1 : Level(ts[i].type) \in p..5}
        calls == IF p <= 7 /\ Is(ts, n, ")") THEN {i \in 2..n - 1 : Is(ts, i, "(")} ELSE {}
    IN  (IF n = 1 THEN Atom(ts[1]) ELSE {})
        \cup (IF Is(ts, 1, "(") /\ Is(ts, n, ")") THEN Expr(1, Part(ts, 2, n - 1)) ELSE {})
        \cup (IF p = 1 /\ Is(ts, 1, "identifier") /\ Is(ts, 2, "=")
              THEN {Assign(ts[1].lexeme, e) : e \in Expr(1, From(ts, 3))} ELSE {})
        \cup (IF p <= 6 /\ (Is(ts, 1, "!") \/ Is(ts, 1, "-"))
              THEN {Unary(ts[1].type, e) : e \in Expr(6, Tail(ts))} ELSE {})
        \cup UNION {{Binary(ts[i].type, l, r) : l \in Expr(Level(ts[i].type), Part(ts, 1, i - 1)),
                                                r \in Expr(Level(ts[i].type) + 1, From(ts, i + 1))} :
                      i \in operators}
        \cup UNION {{Call(f, list) : f \in Expr(7, Part(ts, 1, i - 1)),
                                     list \in IF i + 1 = n THEN {<<>>} ELSE ExprList(Part(ts, i + 1, n - 1))} :
                      i \in calls}

ExprList(ts) ==
    {<<e>> : e \in Expr(1, ts)}
        \cup UNION {{<<e>> \o rest : e \in Expr(1, Part(ts, 1, i - 1)), rest \in ExprList(From(ts, i + 1))} :
                      i \in {i \in DOMAIN ts : ts[i].type = ","}}

\* An else belongs to the nearest if that it can belong to.
RECURSIVE OpenIf(_)

OpenIf(s) ==
    \/ s.kind = "if" /\ (s.else = <<>> \/ OpenIf(s.else[1]))
    \/ s.kind \in {"while", "for"} /\ OpenIf(s.do)

RECURSIVE Statement(_), Declaration(_), Body(_)

\* Where a parenthesis that is open at 2 may close.
Closing(ts) == {i \in 3..Len(ts) : ts[i].type = ")"}

\* e ; or nothing, as in a for statement.
Optional(ts) == IF ts = <<>> THEN {<<>>} ELSE {<<e>> : e \in Expr(1, ts)}

ForStatement(ts) ==
    LET semicolons == {i \in DOMAIN ts : ts[i].type = ";"}
        Init(j) == IF j = 3 THEN {<<>>}
                   ELSE {<<d>> : d \in {d \in Declaration(Part(ts, 3, j)) : d.kind \in {"var", "expression"}}}
        Meant(j, k, i) ==
            {For(init, test, step, s) :
                init \in Init(j), test \in Optional(Part(ts, j + 1, k - 1)),
                step \in Optional(Part(ts, k + 1, i - 1)), s \in Statement(From(ts, i + 1))}
    IN  UNION {Meant(p[1], p[2], p[3]) :
                 p \in {p \in semicolons \X semicolons \X Closing(ts) : p[1] < p[2] /\ p[2] < p[3]}}

Statement(ts) ==
    LET n == Len(ts)
        ends == Is(ts, n, ";")
    IN  CASE Is(ts, 1, "print") -> IF ends THEN {Show(e) : e \in Expr(1, Part(ts, 2, n - 1))} ELSE {}
          [] Is(ts, 1, "return") ->
                IF ends THEN {Return(v) : v \in Optional(Part(ts, 2, n - 1))} ELSE {}
          [] Is(ts, 1, "{") -> IF Is(ts, n, "}") THEN {Block(b) : b \in Body(Part(ts, 2, n - 1))} ELSE {}
          [] Is(ts, 1, "while") ->
                UNION {{While(e, s) : e \in IF Is(ts, 2, "(") THEN Expr(1, Part(ts, 3, i - 1)) ELSE {},
                                      s \in Statement(From(ts, i + 1))} : i \in Closing(ts)}
          [] Is(ts, 1, "if") ->
                UNION {UNION {{If(e, s, else) :
                          e \in IF Is(ts, 2, "(") THEN Expr(1, Part(ts, 3, i - 1)) ELSE {},
                          s \in {s \in Statement(Part(ts, i + 1, j - 1)) : j > n \/ ~OpenIf(s)},
                          else \in IF j > n THEN {<<>>} ELSE {<<t>> : t \in Statement(From(ts, j + 1))}} :
                        j \in {n + 1} \cup {j \in i + 1..n : ts[j].type = "else"}} : i \in Closing(ts)}
          [] Is(ts, 1, "for") -> IF Is(ts, 2, "(") THEN ForStatement(ts) ELSE {}
          [] OTHER -> IF ends THEN {Do(e) : e \in Expr(1, Part(ts, 1, n - 1))} ELSE {}

Parameters(ts) ==
    IF \A i \in DOMAIN ts : ts[i].type = (IF i % 2 = 1 THEN "identifier" ELSE ",") /\ (i = Len(ts) => i % 2 = 1)
    THEN {Names([i \in 1..(Len(ts) + 1) \div 2 |-> ts[2 * i - 1]])} ELSE {}

\* A variable without a value is left to the compiler's assertion.
Declaration(ts) ==
    LET n == Len(ts)
    IN  CASE Is(ts, 1, "var") ->
                IF Is(ts, 2, "identifier") /\ Is(ts, 3, "=") /\ Is(ts, n, ";")
                THEN {Var(ts[2].lexeme, e) : e \in Expr(1, Part(ts, 4, n - 1))} ELSE {}
          [] Is(ts, 1, "fun") ->
                UNION {{Fun(ts[2].lexeme, parameters, body) :
                          parameters \in IF Is(ts, 2, "identifier") /\ Is(ts, 3, "(")
                                         THEN Parameters(Part(ts, 4, i - 1)) ELSE {},
                          body \in IF Is(ts, i + 1, "{") /\ Is(ts, n, "}")
                                   THEN Body(Part(ts, i + 2, n - 1)) ELSE {}} : i \in Closing(ts)}
          [] OTHER -> Statement(ts)

Body(ts) ==
    IF ts = <<>> THEN {<<>>}
    ELSE UNION {{<<d>> \o rest : d \in Declaration(Part(ts, 1, i)), rest \in Body(From(ts, i + 1))} :
                  i \in {i \in DOMAIN ts : ts[i].type \in {";", "}"}}}

\* The programs that a source may mean: one, or none.
Meanings(source) == Body(Front(Lexemes(source)))
-----------------------------------------------------------------------------
(* The source of a tree.                                                   *)

RECURSIVE Text(_, _), TextList(_)

LevelOf(e) ==
    CASE e.kind \in {"constant", "name"} -> 8
      [] e.kind = "call" -> 7
      [] e.kind = "unary" -> 6
      [] e.kind = "binary" -> Level(e.op)
      [] e.kind = "assign" -> 1

\* An expression where one of level p or above is expected.
Text(p, e) ==
    CASE LevelOf(e) < p -> "(" \o Text(1, e) \o ")"
      [] LevelOf(e) >= p /\ e.kind = "constant" ->
            CASE e.value[1] = "number" -> e.value[2]
              [] e.value[1] = "string" -> "\"" \o e.value[2] \o "\""
              [] OTHER -> e.value[1]
      [] LevelOf(e) >= p /\ e.kind = "name" -> e.name
      [] LevelOf(e) >= p /\ e.kind = "assign" -> e.name \o "=" \o Text(1, e.value)
      [] LevelOf(e) >= p /\ e.kind = "unary" -> e.op \o Text(6, e.operand)
      [] LevelOf(e) >= p /\ e.kind = "binary" -> Text(Level(e.op), e.left) \o e.op \o Text(Level(e.op) + 1, e.right)
      [] LevelOf(e) >= p /\ e.kind = "call" -> Text(7, e.callee) \o "(" \o TextList([i \in DOMAIN e.list |-> Text(1, e.list[i])]) \o ")"

TextList(texts) ==
    CASE texts = <<>> -> ""
      [] Len(texts) = 1 -> texts[1]
      [] Len(texts) > 1 -> Head(texts) \o "," \o TextList(Tail(texts))

RECURSIVE Source(_), SourceOf(_)

OptionalText(list) == IF list = <<>> THEN "" ELSE Text(1, list[1])

SourceOf(s) ==
    CASE s.kind = "print" -> "print " \o Text(1, s.e) \o ";"
      [] s.kind = "expression" -> Text(1, s.e) \o ";"
      [] s.kind = "var" -> "var " \o s.name \o "=" \o Text(1, s.e) \o ";"
      [] s.kind = "fun" -> "fun " \o s.name \o "(" \o TextList(s.parameters) \o "){" \o Source(s.body) \o "}"
      [] s.kind = "return" -> "return " \o OptionalText(s.value) \o ";"
      [] s.kind = "block" -> "{" \o Source(s.body) \o "}"
      [] s.kind = "while" -> "while(" \o Text(1, s.e) \o ")" \o SourceOf(s.do)
      [] s.kind = "if" -> "if(" \o Text(1, s.e) \o ")" \o SourceOf(s.then)
                             \o IF s.else = <<>> THEN "" ELSE "else " \o SourceOf(s.else[1])
      [] s.kind = "for" -> "for(" \o (IF s.init = <<>> THEN ";" ELSE SourceOf(s.init[1]))
                              \o OptionalText(s.test) \o ";" \o OptionalText(s.step) \o ")" \o SourceOf(s.do)

\* One statement on a line.
Source(body) == IF body = <<>> THEN "" ELSE SourceOf(Head(body)) \o "\n" \o Source(Tail(body))
=============================================================================
