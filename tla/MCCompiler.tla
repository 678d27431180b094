----------------------------- MODULE MCCompiler -----------------------------
(* Programs, most of them a function f of one parameter x that is called   *)
(* with nil and with 1, where y is global. Locals of the script are left   *)
(* to MCFramesScriptLocals.                                                *)
EXTENDS CompiledCode

X == Name("x")
Y == Name("y")
Num(i) == Constant(<<"number", ToString(i)>>)
NilTree == Constant(Nil)

\* A program of a body for f, and one of a body for the script.
OfTree(tree) == [source |-> Source(tree), meanings |-> {tree}, lines |-> <<>>]
InFunction(body) ==
    OfTree(<<Var("y", Num(2)), Fun("f", <<"x">>, body), Do(Call(Name("f"), <<NilTree>>)),
             Do(Call(Name("f"), <<Num(1)>>))>>)
InScript(body) == OfTree(<<Var("y", Num(2))>> \o body)
OfText(text) == [source |-> text, meanings |-> Meanings(text), lines |-> <<>>]
-----------------------------------------------------------------------------
(* Statements, and with the declarations what a block may hold.            *)

Simple == {Show(X), Do(Assign("x", Y)), Do(Assign("y", Binary("+", X, Y))), Return(<<X>>)}
InBlock == Simple \cup {Var("x", Y), Var("y", Constant(<<"false">>)), Var("x", Assign("x", Y)),
                        Fun("x", <<"y">>, <<Show(Y)>>)}

Blocks == {Block(<<s, t>>) : s, t \in InBlock} \cup {Block(<<Block(<<s>>), t>>) : s, t \in InBlock}

Branches ==
    {If(X, s, e) : s \in Simple \cup Blocks, e \in {<<>>, <<Show(Y)>>}}

Loops ==
    {While(X, s) : s \in Simple \cup Blocks}
        \cup {For(init, test, step, s) :
                init \in {<<>>, <<Var("x", Y)>>, <<Do(Assign("x", Y))>>},
                test \in {<<>>, <<X>>},
                step \in {<<>>, <<Assign("x", NilTree)>>},
                s \in {Show(X), Return(<<>>), Block(<<Var("x", Y), Show(X)>>), If(X, Show(X), <<>>)}}

\* One more level of statements, and of scopes. An open if takes the else.
Inner ==
    LET Short == Simple \cup {Block(<<Var("x", Y), s>>) : s \in Simple}
    IN  (Loops \ {While(X, s) : s \in Blocks \ Short})
            \cup {If(X, s, e) : s \in Short, e \in {<<>>, <<Show(Y)>>}}

Nested ==
    UNION {{While(X, s), If(X, s, IF OpenIf(s) THEN <<>> ELSE <<Show(Y)>>), Block(<<Var("y", X), s, Show(Y)>>),
            For(<<Var("x", Y)>>, <<X>>, <<Assign("x", NilTree)>>, s)} : s \in Inner}

Bodies3 ==
    {<<s, t, u>> : s \in {Show(Y), Var("x", Y)},
                   t \in Blocks \cup Branches \cup Loops,
                   u \in {Show(X), Var("x", Num(3))}}
        \cup {<<s, Show(X)>> : s \in Nested}

RECURSIVE Declares(_)

\* A body that declares something, at the top or further in.
Declares(body) ==
    \E i \in DOMAIN body : body[i].kind \in {"var", "fun"} \/ \E b \in Bodies(body[i]) : Declares(b)

Statements ==
    {InFunction(b) : b \in Bodies3}
        \cup {InScript(b) : b \in {b \in Bodies3 :
                  Forbidden(b) \/ \A i \in DOMAIN b : \A c \in Bodies(b[i]) : ~Declares(c)}}
-----------------------------------------------------------------------------
(* Expressions two operators deep, in f, and functions in functions.       *)

Terms == {X, Y} \cup {Unary("-", X), Assign("y", X), Call(Name("g"), <<X, Y>>), Binary("-", X, Y),
                      Binary("/", Y, X), Binary("==", X, Y), Binary("<", Y, X)}
Expressions ==
    {Binary(op, l, r) : op \in {"==", ">=", "-", "*"}, l, r \in Terms}
        \cup UNION {{Unary("!", l), Unary("-", l), Assign("x", l), Call(l, <<>>), Call(Name("g"), <<l, l>>)} : l \in Terms}

Calls ==
    {OfTree(<<Var("y", Num(2)), Fun("g", <<"y", "z">>, <<Return(<<Binary("-", Name("z"), Y)>>)>>),
              Fun("f", <<"x">>, <<Show(e), Show(X)>>), Do(Call(Name("f"), <<Constant(<<"string", "s">>)>>))>>) :
       e \in Expressions}

\* g in f may use what is global, and its own.
Functions ==
    {InFunction(<<s, Fun("g", parameters, <<t, Return(<<X>>)>>), Do(u), Show(Call(Name("g"), list))>>) :
       s \in {Var("x", Y), Show(X)}, parameters \in {<<>>, <<"x">>, <<"x", "y">>, <<"x", "x">>},
       t \in {Var("x", Y), Show(Y), Show(Name("g"))}, u \in {X, Assign("g", Name("f")), Call(Y, <<>>)},
       list \in {<<>>, <<X>>, <<X, Y>>}}
-----------------------------------------------------------------------------
(* Sources that are no trees: lexemes and blanks in any order, words that  *)
(* are nearly keywords, one token more or less or another, wrong lines.    *)

RECURSIVE Texts(_, _)

Texts(parts, n) == IF n = 0 THEN {""} ELSE {t \o p : t \in Texts(parts, n - 1), p \in parts}

\* But for the word tar, which the scanner takes for var (scanner.c:148): it is MCTar.
Words ==
    UNION {{k, k \o "s", "t" \o SubSeq(k, 2, Len(k)), SubSeq(k, 1, Len(k) - 1), SubSeq(k, 1, 1) \o k} :
             k \in Keywords \cup {"tar", "f1"}} \ {"tar"}

Lexical ==
    UNION {Texts({"a", "1", ".", "\"", "/", "\n", "=", " "}, n) : n \in 1..4}
        \cup {w \o "=1;" : w \in Words} \cup {"\t<\r>=!-", "var a=1;print a;//;", "\"a\nb\"\n;@"}

Join(ts) == FoldLeft(LAMBDA text, t : text \o " " \o t.lexeme, "", ts)

Correct == {"var y=1;fun f(x){return-x;}", "if(1)print 2;else{3;}", "fun f(){for(var x=1;x;)x(y=(2));}"}

Edits ==
    UNION {LET ts == Front(Lexemes(source))
               n == Len(ts)
               Put(i, j, text) == Join(SubSeq(ts, 1, i)) \o text \o Join(SubSeq(ts, j, n))
           IN  {Put(i, i + 1, text) : i \in 0..n, text \in {" ;", " (", " }", " =", " 1", " and", " x"}}
                 \cup {Put(i, i + 2, text) : i \in 0..n - 1, text \in {"", " ;", " )", " {", " x", " class"}} :
             source \in Correct}

Line == {"print 1;", "y=2;", "print ;", "1 2;", "print(1;", "y==1=1;", "return;",
         "var a=\"a\";", "y@;", "1+;"}

Lines ==
    {LET text == a \o "\n" \o b \o "\n" \o c
     IN  [source |-> text, meanings |-> Meanings(text), lines |-> <<a, b, c>>] : a, b, c \in Line}
-----------------------------------------------------------------------------
(* Numbers at their limits.                                                *)

Numbered(a, n) == [i \in 1..n |-> a \o ToString(i)]
Total(list) == FoldLeft(LAMBDA e, f : Binary("+", e, f), list[1], Tail(list))
Map(list, Op(_)) == [i \in DOMAIN list |-> Op(list[i])]
String(text) == Constant(<<"string", text>>)

\* n locals, n parameters, n constants that are all used.
ManyLocals(n) ==
    OfTree(<<Fun("f", <<>>, Map(Numbered("a", n), LAMBDA a : Var(a, Num(1)))
                            \o <<Do(Assign("a" \o ToString(n), Num(2))), Show(Total(Map(Numbered("a", n), Name)))>>),
             Do(Call(Name("f"), <<>>))>>)
ManyParameters(n) ==
    OfTree(<<Fun("f", Numbered("a", n), <<Do(Assign("a" \o ToString(n), Num(2))), Show(Total(Map(Numbered("a", n), Name)))>>),
             Do(Call(Name("f"), Map(Numbered("a", n), String)))>>)
ManyConstants(n) ==
    LET all == Map(Numbered("a", n), String)
        tree == [i \in 1..(n + 39) \div 40 |-> Show(Total(SubSeq(all, 40 * i - 39, Min({40 * i, n}))))]
    IN  [OfTree(tree) EXCEPT !.meanings = IF n > UINT8_COUNT THEN {} ELSE @]

AtLimits ==
    {ManyLocals(n) : n \in {1, 29, 30}} \cup {ManyParameters(n) : n \in {30, 31, 32, 40}}
        \cup {ManyConstants(n) : n \in {31, 32, 33, 255, 256, 257}}
-----------------------------------------------------------------------------
MCPrograms ==
    Statements \cup Calls \cup Functions \cup AtLimits \cup Lines
        \cup {OfText(text) : text \in Lexical \cup Edits}

MC31Locals == {ManyLocals(31)}

MCTar == {OfText("tar=1;")}

MCInline == {"0", "1", "2"}
=============================================================================
