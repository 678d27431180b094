------------------------------ MODULE Scanner ------------------------------
(***************************************************************************)
(* scanner.c. A source is a string, and a Scanner is a record s; where C   *)
(* moves scanner.current, an operator returns the record that results. The *)
(* character at the end of the source is "".                               *)
(*                                                                         *)
(* A token's type is what it is spelt like ("while", "<="), or             *)
(* "identifier", "string", "number", "eof" or "error".                     *)
(***************************************************************************)
EXTENDS Naturals, Sequences, FiniteSets

initScanner(source) == [source |-> source, start |-> 1, current |-> 1, line |-> 1]

Characters(text) == {SubSeq(text, i, i) : i \in 1..Len(text)}
Alpha == Characters("abcdefghijklmnopqrstuvwxyzABCDEFGHIJKLMNOPQRSTUVWXYZ_")
Digit == Characters("0123456789")

Char(text, i) == IF i <= Len(text) THEN SubSeq(text, i, i) ELSE ""

isAtEnd(s) == s.current > Len(s.source)
advance(s) == [s EXCEPT !.current = @ + 1]
peek(s) == Char(s.source, s.current)
peekNext(s) == IF isAtEnd(s) THEN "" ELSE Char(s.source, s.current + 1)

\* while (peek() is one of these) advance().
advanceOver(s, Accepts(_)) ==
    [s EXCEPT !.current = CHOOSE i \in @..Len(s.source) + 1 :
        /\ \A j \in @..i - 1 : Accepts(Char(s.source, j))
        /\ i = Len(s.source) + 1 \/ ~Accepts(Char(s.source, i))]

Lexeme(s) == SubSeq(s.source, s.start, s.current - 1)

\* What scanToken returns, and the scanner after it.
makeToken(s, type) ==
    [scanner |-> s, token |-> [type |-> type, lexeme |-> Lexeme(s), line |-> s.line]]
errorToken(s) == [scanner |-> s, token |-> [type |-> "error", lexeme |-> "", line |-> s.line]]

RECURSIVE skipWhitespace(_)

skipWhitespace(s) ==
    CASE peek(s) \in {" ", "\r", "\t"} -> skipWhitespace(advance(s))
      [] peek(s) = "\n" -> skipWhitespace([advance(s) EXCEPT !.line = @ + 1])
      [] peek(s) = "/" /\ peekNext(s) = "/" ->
            skipWhitespace(advanceOver(s, LAMBDA c : c # "\n"))
      [] OTHER -> s

checkKeyword(text, start, rest, type) ==
    IF SubSeq(text, start + 1, Len(text)) = rest THEN type ELSE "identifier"

\* A word of t that does not go on with h or r falls through to v.
identifierType(text) ==
    LET first == Char(text, 1)
        second == Char(text, 2)
    IN  CASE first = "a" -> checkKeyword(text, 1, "nd", "and")
          [] first = "c" -> checkKeyword(text, 1, "lass", "class")
          [] first = "e" -> checkKeyword(text, 1, "lse", "else")
          [] first = "f" /\ second = "a" -> checkKeyword(text, 2, "lse", "false")
          [] first = "f" /\ second = "o" -> checkKeyword(text, 2, "r", "for")
          [] first = "f" /\ second = "u" -> checkKeyword(text, 2, "n", "fun")
          [] first = "i" -> checkKeyword(text, 1, "f", "if")
          [] first = "n" -> checkKeyword(text, 1, "il", "nil")
          [] first = "o" -> checkKeyword(text, 1, "r", "or")
          [] first = "p" -> checkKeyword(text, 1, "rint", "print")
          [] first = "r" -> checkKeyword(text, 1, "eturn", "return")
          [] first = "s" -> checkKeyword(text, 1, "uper", "super")
          [] first = "t" /\ second = "h" -> checkKeyword(text, 2, "is", "this")
          [] first = "t" /\ second = "r" -> checkKeyword(text, 2, "ue", "true")
          [] first = "t" /\ second \notin {"h", "r"} -> checkKeyword(text, 1, "ar", "var")
          [] first = "v" -> checkKeyword(text, 1, "ar", "var")
          [] first = "w" -> checkKeyword(text, 1, "hile", "while")
          [] OTHER -> "identifier"

identifier(s) ==
    LET end == advanceOver(s, LAMBDA c : c \in Alpha \cup Digit)
    IN  makeToken(end, identifierType(Lexeme(end)))

\* Fault: the point belongs to the number whatever follows it.
number_AnyPoint(s) ==
    LET whole == advanceOver(s, LAMBDA c : c \in Digit)
    IN  makeToken(IF peek(whole) = "." THEN advanceOver(advance(whole), LAMBDA c : c \in Digit)
                  ELSE whole, "number")

number(s) ==
    LET whole == advanceOver(s, LAMBDA c : c \in Digit)
    IN  makeToken(IF peek(whole) = "." /\ peekNext(whole) \in Digit
                  THEN advanceOver(advance(whole), LAMBDA c : c \in Digit)
                  ELSE whole, "number")

\* The lines of the string are counted before the token is made.
string(s) ==
    LET close == advanceOver(s, LAMBDA c : c # "\"")
        breaks == {i \in s.current..close.current - 1 : Char(s.source, i) = "\n"}
        end == [close EXCEPT !.line = @ + Cardinality(breaks)]
    IN  IF isAtEnd(end) THEN errorToken(end) ELSE makeToken(advance(end), "string")

\* c, or with an equals sign after it, c and the sign.
match(s, c) == IF peek(s) = "=" THEN makeToken(advance(s), c \o "=") ELSE makeToken(s, c)

scanToken(scanner) ==
    LET blank == skipWhitespace(scanner)
        c == peek(blank)
        s == advance([blank EXCEPT !.start = blank.current])
    IN  CASE isAtEnd(blank) -> makeToken([blank EXCEPT !.start = blank.current], "eof")
          [] c \in Alpha -> identifier(s)
          [] c \in Digit -> number(s)
          [] c \in Characters("(){};,.-+/*") -> makeToken(s, c)
          [] c \in Characters("!=<>") -> match(s, c)
          [] c = "\"" -> string(s)
          [] OTHER -> errorToken(s)

RECURSIVE TokensFrom(_)

TokensFrom(scanner) ==
    LET next == scanToken(scanner)
    IN  IF next.token.type = "eof" THEN <<next.token>>
        ELSE <<next.token>> \o TokensFrom(next.scanner)

\* Everything that scanToken returns, from the first call to the end of the source.
Tokens(source) == TokensFrom(initScanner(source))
=============================================================================
